---------------------------- MODULE ProductProofs ----------------------------
(***************************************************************************)
(* Theorems about the product modules, for every workload: requests of any *)
(* number, to any of the products, in one process that may time one out or *)
(* die at every await.  A request runs one operation, so that each         *)
(* product's invariant meets its own steps, a request of its own that is   *)
(* cut off, and a crash; first what keeps the products apart.              *)
(***************************************************************************)
EXTENDS Products, FiniteSetTheorems, TLAPS

-----------------------------------------------------------------------------
\* Every request has its place; who was cut off stays so.
Placed == pc = [q \in Requests |-> pc[q]] /\ cut = [q \in Requests |-> cut[q]]
CutStays == \A r \in Requests : cut[r] # "never" => pc[r] \in {"504", "lost"}
Frame == job \in Workloads /\ Placed /\ CutStays

\* Only r goes on; r is cut off by the timeout or by the limit; all are.
Only(r) == pc' = [q \in Requests |-> pc'[q]] /\ \A q \in Requests \ {r} : pc'[q] = pc[q]
Cut(r) == /\ Running(r) /\ pc' = [pc EXCEPT ![r] = "504"]
          /\ cut' = [cut EXCEPT ![r] = pc[r]]
Barred(r) == pc[r] = "new" /\ pc' = [pc EXCEPT ![r] = "429"] /\ cut' = cut
Fallen == /\ pc' = [r \in Requests |-> IF Running(r) THEN "lost" ELSE pc[r]]
          /\ cut' = [r \in Requests |-> IF Running(r) THEN pc[r] ELSE cut[r]]
Unmoved(ops) == \A q \in Requests : Op(q) \in ops => pc'[q] = pc[q] /\ cut'[q] = cut[q]

AccountOps == {"register", "createKey", "rotate", "revokeKey", "bindKey"}
OrgOps == {"createOrg", "addMember", "removeMember"}
MetricOps == {"ingest", "lifecycle", "cleanNonces"}
TrustOps == {"registerServer", "score", "deleteServer"}
SubOps == {"subscribe", "cancelSub", "reactivate", "pass"}
JobOps == {"submit", "cancelJob"}
TalkOps == {"negotiate"} \cup DOMAIN OutcomeOf
EventOps == {"publish", "offer", "deactivate", "deliver", "retry", "unhook"}
StreamOps == {"emit", "purge", "stream", "listen"}
MarketOps == {"list", "amend", "withdraw", "rate", "rescore", "getListing", "readRatings", "broker"}
CallOps == {"sdk", "rest"}

LEMMA Going == ASSUME Frame, NEW r \in Requests, NEW next, Go(r, next) PROVE Only(r)
  BY DEF Frame, Placed, Only, Go

LEMMA Staying == ASSUME Frame, NEW r \in Requests, UNCHANGED pc PROVE Only(r)
  BY DEF Frame, Placed, Only

\* A step of a product is one of a request that asked for it, and moves no other.
LEMMA AccountOnly ==
    ASSUME Frame, NEW r \in Requests, AccountStep(r)
    PROVE  Op(r) \in AccountOps /\ Only(r) /\ pc[r] \notin Terminal
  <1> USE Going DEF At, Terminal, Running, Issues, AccountOps
  <1>1. CASE RevokeKey(r) \/ InsertKey(r)
    BY <1>1 DEF RevokeKey, InsertKey, Abort
  <1> QED
    BY <1>1 DEF AccountStep, CreateWallet, RequestKey, ValidateKey, BeginRotation,
         ListKeys, CommitRevoke, CommitKey, LookupIdentity, OfferKey, StoreIdentity,
         CommitRotation

LEMMA OrgOnly ==
    ASSUME Frame, NEW r \in Requests, OrgStep(r)
    PROVE  Op(r) \in OrgOps /\ Only(r) /\ pc[r] \notin Terminal
  BY Going, Staying DEF At, Terminal, Running, OrgOps, OrgStep, InsertOrg, InsertOwner, SetOrg, InsertMember, ReadRole, CountOwners, DeleteMember, CommitOrg, orgVars

LEMMA TopUpOnly ==
    ASSUME Frame, NEW r \in Requests, TopUpStep(r)
    PROVE  Op(r) \in {"webhook"} /\ Only(r) /\ pc[r] \notin Terminal
  BY Going, Staying DEF At, Terminal, Running, TopUpStep, RecallSession, FindSession, DepositCredits, RememberSession

LEMMA SplitOnly ==
    ASSUME Frame, NEW r \in Requests, SplitStep(r)
    PROVE  Op(r) \in {"split"} /\ Only(r) /\ pc[r] \notin Terminal
  BY Going, Staying DEF At, Terminal, Running, SplitStep, LookupSplit, WithdrawSplit, DepositShare, RecordMarker

LEMMA SubOnly ==
    ASSUME Frame, NEW r \in Requests, SubStep(r)
    PROVE  Op(r) \in SubOps /\ Only(r) /\ pc[r] \notin Terminal
  BY Going, Staying DEF At, Terminal, Running, SubOps, SubStep, LookupSubKey, InsertSub, ReadStatus, UpdateStatus, ListDue, NextDue, ReadSub, WithdrawDue, SuspendSub, PayDue, SettleDue, BookCharge

LEMMA MetricOnly ==
    ASSUME Frame, NEW r \in Requests, MetricStep(r)
    PROVE  Op(r) \in MetricOps /\ Only(r) /\ pc[r] \notin Terminal
  BY Going, Staying DEF At, Terminal, Running, MetricOps, MetricStep, CheckNonce, StoreNonce, StorePoint, CommitIngest, ListRaw, ListDaily, WriteGroup, DeleteOld, CommitLevel, CleanNonces, RotateLogs, MayStart

LEMMA ClaimOnly ==
    ASSUME Frame, NEW r \in Requests, ClaimStep(r)
    PROVE  Op(r) \in ClaimOps /\ Only(r) /\ pc[r] \notin Terminal
  BY Going, Staying DEF At, Terminal, Running, ClaimOps, ClaimStep, StampSubmission, InsertCommitment, InsertSecret, InsertAttestation, InsertClaim, RevokeAttestation, ListClaims, SearchClaims, RevealCommitment, ReadAttestations, ReadCommitments, InsertReputation, ReadLeaves, InsertChain, Advance

LEMMA TrustOnly ==
    ASSUME Frame, NEW r \in Requests, TrustStep(r)
    PROVE  Op(r) \in TrustOps /\ Only(r) /\ pc[r] \notin Terminal
  BY Going, Staying DEF At, Terminal, Running, TrustOps, TrustStep, RegisterServer, LookupServer, ReadScore, StoreScore, DeleteServer, DeleteScores, CommitTrust

LEMMA JobOnly ==
    ASSUME Frame, NEW r \in Requests, VerificationStep(r)
    PROVE  Op(r) \in JobOps /\ Only(r) /\ pc[r] \notin Terminal
  BY Going, Staying DEF At, Terminal, Running, JobOps, VerificationStep, LookupJob, CreateJob, RelookupJob, StartJob, InvokeVerifier, RaiseCost, StoreProof, EndJob, ReloadJob, BillJob, ReadJob, CancelJob, ExistingOr

LEMMA TalkOnly ==
    ASSUME Frame, NEW r \in Requests, TalkStep(r)
    PROVE  Op(r) \in TalkOps /\ Only(r) /\ pc[r] \notin Terminal
  BY Going, Staying DEF At, Terminal, Running, TalkOps, TalkStep, Propose, ReadTalk, UpdateTalk, SendMessage, Answers, Read

LEMMA EventOnly ==
    ASSUME Frame, NEW r \in Requests, EventStep(r)
    PROVE  Op(r) \in EventOps /\ Only(r) /\ pc[r] \notin Terminal
  BY Going, Staying DEF At, Terminal, Running, EventOps, EventStep, PublishEvent, PublishDrop, ListServices, SuspendService, FindName, InsertService, DeactivateService, DeliverEvent, QueueDelivery, ListRetries, NextRetry, DeleteWebhook

LEMMA StreamOnly ==
    ASSUME Frame, NEW r \in Requests, StreamStep(r)
    PROVE  Op(r) \in StreamOps /\ Only(r) /\ pc[r] \notin Terminal
  BY Going, Staying DEF At, Terminal, Running, StreamOps, StreamStep, InsertEvent, SaveEvent, DispatchEvent, PurgeEvents, OpenStream, PollEvents, CloseStream, OpenSession, Subscribe, ReplayEvents, RegisterPattern, SendQueued, CloseSession

LEMMA MarketOnly ==
    ASSUME Frame, NEW r \in Requests, MarketStep(r)
    PROVE  Op(r) \in MarketOps /\ Only(r) /\ pc[r] \notin Terminal
  BY Going, Staying DEF At, Terminal, Running, MarketOps, MarketStep, InsertListing, FindListing, AmendRow, DeleteTags, InsertTag, WithdrawRow, RateListing, CommitMarket, Rescore, ReadFirst, ReadSecond, SearchListings, FilterTrust, WeighListing, ReadCandidate, ProbeEndpoint, CheckCandidate, IntendPayment, Writes, NoMatch, Proceed, TagOr

LEMMA CallOnly ==
    ASSUME Frame, NEW r \in Requests, CallStep(r)
    PROVE  Op(r) \in CallOps /\ Only(r) /\ pc[r] \notin Terminal
  BY Going, Staying DEF At, Terminal, Running, CallOps, CallStep, Receive, Reserve, FindKey, CheckState, Refuse, Look, Miss, Make, Beaten, NoteKey, RecordAnswer, Respond, IsCall, Reply

\* The products are apart: a step of one leaves the others' state alone, and
\* moves none of their requests.
Apart(r) ==
    /\ AccountStep(r) \/ (UNCHANGED accountVars /\ Op(r) \notin AccountOps)
    /\ OrgStep(r) \/ (UNCHANGED orgVars /\ Op(r) \notin OrgOps)
    /\ MetricStep(r) \/ (UNCHANGED metricVars /\ Op(r) \notin MetricOps)
    /\ ClaimStep(r) \/ (UNCHANGED claimVars /\ Op(r) \notin ClaimOps)
    /\ TrustStep(r) \/ (UNCHANGED trustVars /\ Op(r) \notin TrustOps)
    /\ TopUpStep(r) \/ (UNCHANGED topUpVars /\ Op(r) \notin {"webhook"})
    /\ SubStep(r) \/ (UNCHANGED subVars /\ Op(r) \notin SubOps)
    /\ SplitStep(r) \/ (UNCHANGED splitVars /\ Op(r) \notin {"split"})
    /\ VerificationStep(r) \/ (UNCHANGED jobVars /\ Op(r) \notin JobOps)
    /\ TalkStep(r) \/ (UNCHANGED talkVars /\ Op(r) \notin TalkOps)
    /\ EventStep(r) \/ (UNCHANGED eventVars /\ Op(r) \notin EventOps)
    /\ StreamStep(r) \/ (UNCHANGED streamVars /\ Op(r) \notin StreamOps)
    /\ MarketStep(r) \/ (UNCHANGED marketVars /\ Op(r) \notin MarketOps)
    /\ CallStep(r) \/ (UNCHANGED callVars /\ Op(r) \notin CallOps)

LEMMA Dispatch ==
    ASSUME Frame, NEW r \in Requests, Step(r)
    PROVE  /\ Only(r) /\ pc[r] \notin Terminal
           /\ UNCHANGED <<job, cut, clientVars>> /\ Apart(r)
  <1>0. UNCHANGED <<job, cut, clientVars>>
    BY DEF Step, frame
  <1>1. CASE AccountStep(r) /\ UNCHANGED <<orgVars, metricVars, claimVars, trustVars, money, work, callVars>>
    <2>1. Op(r) \in AccountOps /\ Only(r) /\ pc[r] \notin Terminal
      BY <1>1, AccountOnly
    <2>2. Apart(r)
      BY <1>1, <2>1 DEF Apart, AccountOps, OrgOps, MetricOps, ClaimOps, TrustOps, SubOps, JobOps, TalkOps, EventOps, StreamOps, MarketOps, CallOps, OutcomeOf, people, money, work
    <2> QED
      BY <1>0, <2>1, <2>2
  <1>2. CASE OrgStep(r) /\ UNCHANGED <<accountVars, metricVars, claimVars, trustVars, money, work, callVars>>
    <2>1. Op(r) \in OrgOps /\ Only(r) /\ pc[r] \notin Terminal
      BY <1>2, OrgOnly
    <2>2. Apart(r)
      BY <1>2, <2>1 DEF Apart, AccountOps, OrgOps, MetricOps, ClaimOps, TrustOps, SubOps, JobOps, TalkOps, EventOps, StreamOps, MarketOps, CallOps, OutcomeOf, people, money, work
    <2> QED
      BY <1>0, <2>1, <2>2
  <1>3. CASE MetricStep(r) /\ UNCHANGED <<accountVars, orgVars, claimVars, trustVars, money, work, callVars>>
    <2>1. Op(r) \in MetricOps /\ Only(r) /\ pc[r] \notin Terminal
      BY <1>3, MetricOnly
    <2>2. Apart(r)
      BY <1>3, <2>1 DEF Apart, AccountOps, OrgOps, MetricOps, ClaimOps, TrustOps, SubOps, JobOps, TalkOps, EventOps, StreamOps, MarketOps, CallOps, OutcomeOf, people, money, work
    <2> QED
      BY <1>0, <2>1, <2>2
  <1>4. CASE ClaimStep(r) /\ UNCHANGED <<accountVars, orgVars, metricVars, trustVars, money, work, callVars>>
    <2>1. Op(r) \in ClaimOps /\ Only(r) /\ pc[r] \notin Terminal
      BY <1>4, ClaimOnly
    <2>2. Apart(r)
      BY <1>4, <2>1 DEF Apart, AccountOps, OrgOps, MetricOps, ClaimOps, TrustOps, SubOps, JobOps, TalkOps, EventOps, StreamOps, MarketOps, CallOps, OutcomeOf, people, money, work
    <2> QED
      BY <1>0, <2>1, <2>2
  <1>5. CASE TrustStep(r) /\ UNCHANGED <<accountVars, orgVars, metricVars, claimVars, money, work, callVars>>
    <2>1. Op(r) \in TrustOps /\ Only(r) /\ pc[r] \notin Terminal
      BY <1>5, TrustOnly
    <2>2. Apart(r)
      BY <1>5, <2>1 DEF Apart, AccountOps, OrgOps, MetricOps, ClaimOps, TrustOps, SubOps, JobOps, TalkOps, EventOps, StreamOps, MarketOps, CallOps, OutcomeOf, people, money, work
    <2> QED
      BY <1>0, <2>1, <2>2
  <1>6. CASE TopUpStep(r) /\ UNCHANGED <<subVars, splitVars, people, work, callVars>>
    <2>1. Op(r) \in {"webhook"} /\ Only(r) /\ pc[r] \notin Terminal
      BY <1>6, TopUpOnly
    <2>2. Apart(r)
      BY <1>6, <2>1 DEF Apart, AccountOps, OrgOps, MetricOps, ClaimOps, TrustOps, SubOps, JobOps, TalkOps, EventOps, StreamOps, MarketOps, CallOps, OutcomeOf, people, money, work
    <2> QED
      BY <1>0, <2>1, <2>2
  <1>7. CASE SubStep(r) /\ UNCHANGED <<topUpVars, splitVars, people, work, callVars>>
    <2>1. Op(r) \in SubOps /\ Only(r) /\ pc[r] \notin Terminal
      BY <1>7, SubOnly
    <2>2. Apart(r)
      BY <1>7, <2>1 DEF Apart, AccountOps, OrgOps, MetricOps, ClaimOps, TrustOps, SubOps, JobOps, TalkOps, EventOps, StreamOps, MarketOps, CallOps, OutcomeOf, people, money, work
    <2> QED
      BY <1>0, <2>1, <2>2
  <1>8. CASE SplitStep(r) /\ UNCHANGED <<topUpVars, subVars, people, work, callVars>>
    <2>1. Op(r) \in {"split"} /\ Only(r) /\ pc[r] \notin Terminal
      BY <1>8, SplitOnly
    <2>2. Apart(r)
      BY <1>8, <2>1 DEF Apart, AccountOps, OrgOps, MetricOps, ClaimOps, TrustOps, SubOps, JobOps, TalkOps, EventOps, StreamOps, MarketOps, CallOps, OutcomeOf, people, money, work
    <2> QED
      BY <1>0, <2>1, <2>2
  <1>9. CASE VerificationStep(r) /\ UNCHANGED <<talkVars, eventVars, streamVars, marketVars, people, money, callVars>>
    <2>1. Op(r) \in JobOps /\ Only(r) /\ pc[r] \notin Terminal
      BY <1>9, JobOnly
    <2>2. Apart(r)
      BY <1>9, <2>1 DEF Apart, AccountOps, OrgOps, MetricOps, ClaimOps, TrustOps, SubOps, JobOps, TalkOps, EventOps, StreamOps, MarketOps, CallOps, OutcomeOf, people, money, work
    <2> QED
      BY <1>0, <2>1, <2>2
  <1>10. CASE TalkStep(r) /\ UNCHANGED <<jobVars, eventVars, streamVars, marketVars, people, money, callVars>>
    <2>1. Op(r) \in TalkOps /\ Only(r) /\ pc[r] \notin Terminal
      BY <1>10, TalkOnly
    <2>2. Apart(r)
      BY <1>10, <2>1 DEF Apart, AccountOps, OrgOps, MetricOps, ClaimOps, TrustOps, SubOps, JobOps, TalkOps, EventOps, StreamOps, MarketOps, CallOps, OutcomeOf, people, money, work
    <2> QED
      BY <1>0, <2>1, <2>2
  <1>11. CASE EventStep(r) /\ UNCHANGED <<jobVars, talkVars, streamVars, marketVars, people, money, callVars>>
    <2>1. Op(r) \in EventOps /\ Only(r) /\ pc[r] \notin Terminal
      BY <1>11, EventOnly
    <2>2. Apart(r)
      BY <1>11, <2>1 DEF Apart, AccountOps, OrgOps, MetricOps, ClaimOps, TrustOps, SubOps, JobOps, TalkOps, EventOps, StreamOps, MarketOps, CallOps, OutcomeOf, people, money, work
    <2> QED
      BY <1>0, <2>1, <2>2
  <1>12. CASE StreamStep(r) /\ UNCHANGED <<jobVars, talkVars, eventVars, marketVars, people, money, callVars>>
    <2>1. Op(r) \in StreamOps /\ Only(r) /\ pc[r] \notin Terminal
      BY <1>12, StreamOnly
    <2>2. Apart(r)
      BY <1>12, <2>1 DEF Apart, AccountOps, OrgOps, MetricOps, ClaimOps, TrustOps, SubOps, JobOps, TalkOps, EventOps, StreamOps, MarketOps, CallOps, OutcomeOf, people, money, work
    <2> QED
      BY <1>0, <2>1, <2>2
  <1>13. CASE MarketStep(r) /\ UNCHANGED <<jobVars, talkVars, eventVars, streamVars, people, money, callVars>>
    <2>1. Op(r) \in MarketOps /\ Only(r) /\ pc[r] \notin Terminal
      BY <1>13, MarketOnly
    <2>2. Apart(r)
      BY <1>13, <2>1 DEF Apart, AccountOps, OrgOps, MetricOps, ClaimOps, TrustOps, SubOps, JobOps, TalkOps, EventOps, StreamOps, MarketOps, CallOps, OutcomeOf, people, money, work
    <2> QED
      BY <1>0, <2>1, <2>2
  <1>14. CASE CallStep(r) /\ UNCHANGED <<people, money, work>>
    <2>1. Op(r) \in CallOps /\ Only(r) /\ pc[r] \notin Terminal
      BY <1>14, CallOnly
    <2>2. Apart(r)
      BY <1>14, <2>1 DEF Apart, AccountOps, OrgOps, MetricOps, ClaimOps, TrustOps, SubOps, JobOps, TalkOps, EventOps, StreamOps, MarketOps, CallOps, OutcomeOf, people, money, work
    <2> QED
      BY <1>0, <2>1, <2>2
  <1> QED
    BY <1>1, <1>2, <1>3, <1>4, <1>5, <1>6, <1>7, <1>8, <1>9, <1>10, <1>11, <1>12, <1>13, <1>14 DEF Step, PeopleStep, MoneyStep, WorkStep, people, money, work

\* What any step does to the places.
LEMMA Moves ==
    ASSUME Frame, [Next]_vars
    PROVE  /\ job' = job
           /\ \/ \E r \in Requests : /\ Step(r) /\ Only(r) /\ pc[r] \notin Terminal
                    /\ cut' = cut /\ UNCHANGED clientVars /\ Apart(r)
              \/ \E r \in Requests : Cancelled(r) /\ Cut(r)
              \/ \E r \in Requests : Calling(r) /\ (Barred(r) \/ UNCHANGED <<pc, cut>>)
              \/ (\E t \in Tasks : Send(t)) /\ UNCHANGED <<pc, cut>>
              \/ Tick /\ UNCHANGED <<pc, cut>>
              \/ Died /\ Fallen
              \/ UNCHANGED vars
  <1>1. ASSUME NEW r \in Requests, Step(r)
        PROVE  /\ job' = job /\ Only(r) /\ pc[r] \notin Terminal
               /\ cut' = cut /\ UNCHANGED clientVars /\ Apart(r)
    BY <1>1, Dispatch
  <1>2. ASSUME NEW r \in Requests, Cancelled(r) PROVE job' = job /\ Cut(r)
    BY <1>2 DEF Cancelled, TimeOut, Cut, Go
  <1>3. ASSUME NEW r \in Requests, Calling(r)
        PROVE  job' = job /\ (Barred(r) \/ UNCHANGED <<pc, cut>>)
    BY <1>3 DEF Calling, frame, ClientStep, TakeAnswer, RetryStatus, Limited, GiveUp, Broken, Parse,
                Barred, Go
  <1>4. ASSUME NEW t \in Tasks, Send(t) PROVE UNCHANGED <<job, pc, cut>>
    BY <1>4 DEF Send, SendStep, PostDelivery, CountAttempt, UpdateDelivery, frame
  <1>5. ASSUME Tick PROVE UNCHANGED <<job, pc, cut>>
    BY <1>5 DEF Tick, tasks
  <1>6. ASSUME Died PROVE job' = job /\ Fallen
    BY <1>6 DEF Died, Crashed, Fallen
  <1>7. ASSUME Terminating \/ UNCHANGED vars PROVE job' = job /\ UNCHANGED vars
    BY <1>7 DEF Terminating, vars, tasks
  <1> QED
    BY <1>1, <1>2, <1>3, <1>4, <1>5, <1>6, <1>7 DEF Next

LEMMA FrameInit == Init => Frame
  BY DEF Init, TaskInit, Frame, Placed, CutStays

LEMMA FrameStep == Frame /\ [Next]_vars => Frame'
  <1> SUFFICES ASSUME Frame, [Next]_vars PROVE Frame'
    OBVIOUS
  <1>1. job' \in Workloads
    BY Moves DEF Frame
  <1>2. ASSUME NEW r \in Requests, Only(r), cut' = cut, pc[r] \notin Terminal PROVE Frame'
    BY <1>1, <1>2 DEF Terminal, Frame, Placed, CutStays, Only
  <1>3. ASSUME NEW r \in Requests, Cut(r) PROVE Frame'
    BY <1>1, <1>3 DEF Frame, Placed, CutStays, Cut, Running, Terminal
  <1>4. CASE Fallen
    BY <1>1, <1>4 DEF Frame, Placed, CutStays, Fallen, Running, Terminal
  <1>5. CASE UNCHANGED <<pc, cut>>
    BY <1>1, <1>5 DEF Frame, Placed, CutStays
  <1>6. ASSUME NEW r \in Requests, Barred(r) PROVE Frame'
    BY <1>1, <1>6 DEF Frame, Placed, CutStays, Barred
  <1>7. UNCHANGED vars => UNCHANGED <<pc, cut>>
    BY DEF vars, tasks
  <1> QED
    BY <1>2, <1>3, <1>4, <1>5, <1>6, <1>7, Moves

-----------------------------------------------------------------------------
(***************************************************************************)
(* Credits bought with Stripe.                                             *)
(***************************************************************************)

\* What may happen to a top-up.
LEMMA TopUpTurns ==
    ASSUME Frame, [Next]_vars
    PROVE  \/ \E r \in Requests : TopUpStep(r) /\ Only(r) /\ Op(r) = "webhook" /\ cut' = cut
           \/ UNCHANGED topUpVars /\ \E r \in Requests : Cut(r) \/ Barred(r)
           \/ TopUpCrash /\ Fallen
           \/ UNCHANGED topUpVars /\ Unmoved({"webhook"})
  <1>1. ASSUME NEW r \in Requests, Step(r), Only(r), cut' = cut, Apart(r)
        PROVE  \/ TopUpStep(r) /\ Op(r) = "webhook"
               \/ UNCHANGED topUpVars /\ Unmoved({"webhook"})
    BY <1>1, TopUpOnly DEF Apart, Only, Unmoved
  <1>2. ASSUME NEW r \in Requests, Cancelled(r) \/ Calling(r) PROVE UNCHANGED topUpVars
    BY <1>2 DEF Cancelled, Calling, money
  <1>3. ASSUME NEW t \in Tasks, Send(t) PROVE UNCHANGED topUpVars
    BY <1>3 DEF Send, money
  <1>4. ASSUME Tick PROVE UNCHANGED topUpVars
    BY <1>4 DEF Tick, money
  <1>5. ASSUME Died PROVE TopUpCrash
    BY <1>5 DEF Died
  <1>6. ASSUME UNCHANGED vars PROVE UNCHANGED topUpVars /\ UNCHANGED <<pc, cut>>
    BY <1>6 DEF vars, tasks, money
  <1>7. UNCHANGED <<pc, cut>> => Unmoved({"webhook"})
    BY DEF Unmoved
  <1> QED
    BY <1>1, <1>2, <1>3, <1>4, <1>5, <1>6, <1>7, Moves

\* A deposit is in the file for the session of its delivery, which has
\* remembered it, is about to, or was cut off in between; a delivery that
\* found its session new is alone with it, or the session is excused.
Excused(s) == s \in entwined \cup forgotten \/ HalfRecorded(s)
Paying(r) == Op(r) = "webhook" /\ pc[r] \in {"deposit", "remember"}
TopUpPlaces == \A r \in Requests : Op(r) = "webhook" =>
    pc[r] \in {"new", "select", "deposit", "remember"} \cup Terminal
Backed(s) == \E x \in credited : x.session = s
Deposited ==
    /\ \A x \in credited :
          /\ x.by \in Requests /\ Op(x.by) = "webhook" /\ x = DepositOf(x.by)
          /\ pc[x.by] \in {"remember", "done", "504", "lost"}
          /\ pc[x.by] = "done" => x.session \in processed \cup forgotten
          /\ pc[x.by] \in {"504", "lost"} => cut[x.by] = "remember"
    /\ \A s \in memory \cup processed : Backed(s)
    /\ \A r \in Requests : Op(r) = "webhook" =>
          /\ pc[r] = "done" => Backed(Session(r))
          /\ pc[r] = "remember" => DepositOf(r) \in credited
Alone ==
    /\ \A p, q \in Requests :
          p # q /\ Paying(p) /\ Paying(q) /\ Session(p) = Session(q) => Session(p) \in entwined
    /\ \A q \in Requests : \A x \in credited :
          Paying(q) /\ x.session = Session(q) /\ x.by # q => Excused(x.session)
    /\ \A x, y \in credited : x.session = y.session /\ x # y => Excused(x.session)
TopUpInv == TopUpPlaces /\ Deposited /\ Alone

LEMMA TopUpStart == Init => TopUpInv
  BY DEF Init, TopUpInit, TaskInit, TopUpInv, TopUpPlaces, Deposited, Alone, Terminal, Paying, Backed

\* What has been excused stays so.
LEMMA ExcusedStays ==
    ASSUME Frame, job' = job, entwined \subseteq entwined', forgotten \subseteq forgotten',
           \A r \in Requests : cut[r] # "never" => cut'[r] = cut[r]
    PROVE  \A s : Excused(s) => Excused(s)'
  BY DEF Excused, HalfRecorded, Op, Session

\* The handler's own steps.
LEMMA TopUpMoves ==
    ASSUME Frame, TopUpInv, job' = job, cut' = cut,
           NEW r \in Requests, TopUpStep(r), Only(r), Op(r) = "webhook"
    PROVE  TopUpInv'
  <1>0. /\ pc' = [q \in Requests |-> pc'[q]] /\ pc = [q \in Requests |-> pc[q]]
        /\ \A q \in Requests \ {r} : pc'[q] = pc[q]
        /\ \A q : Op(q)' = Op(q) /\ Session(q)' = Session(q) /\ DepositOf(q)' = DepositOf(q)
    BY DEF Only, Frame, Placed, Op, Session, DepositOf
  <1>1. TopUpPlaces'
    BY <1>0 DEF TopUpInv, TopUpPlaces, TopUpStep, RecallSession, FindSession, DepositCredits,
                RememberSession, Go, At, Terminal
  <1>2. \A s : Excused(s) => Excused(s)'
    BY ExcusedStays DEF TopUpStep, RecallSession, FindSession, DepositCredits, RememberSession,
                        topUpVars
  <1>3. DepositOf(r).session = Session(r) /\ DepositOf(r).by = r
    BY DEF DepositOf
  <1> USE DEF TopUpInv
  <1>4. CASE RecallSession(r)
    <2>1. /\ pc[r] = "new" /\ UNCHANGED <<memory, processed, credited, forgotten, entwined>>
          /\ pc'[r] \in {"done", "select"} /\ (pc'[r] = "done" => Session(r) \in memory)
      BY <1>0, <1>4 DEF RecallSession, At, Go, topUpVars
    <2>2. Deposited'
      BY <1>0, <2>1 DEF Deposited, Backed
    <2>3. Alone'
      BY <1>0, <1>2, <2>1 DEF Alone, Paying
    <2> QED
      BY <1>1, <2>2, <2>3
  <1>5. CASE FindSession(r)
    <2>1. /\ pc[r] = "select" /\ UNCHANGED <<processed, credited, forgotten>>
          /\ entwined \subseteq entwined'
          /\ \/ pc'[r] = "done" /\ Session(r) \in processed /\ memory' = memory \cup {Session(r)}
             \/ /\ pc'[r] \in {"rejected", "deposit"} /\ memory' = memory
                /\ Session(r) \notin processed
                /\ Unrecorded(r) # {} => Session(r) \in entwined'
             \/ pc'[r] = "error" /\ memory' = memory
      BY <1>0, <1>5 DEF FindSession, At, Go
    <2>2. Deposited'
      BY <1>0, <2>1 DEF Deposited, Backed
    <2>3. ASSUME NEW q \in Requests, q # r, Paying(q)', pc'[r] = "deposit", Session(q) = Session(r)
          PROVE  Session(r) \in entwined'
      BY <1>0, <2>1, <2>3 DEF Paying, Unrecorded
    <2>4. ASSUME NEW x \in credited, x.by # r, pc'[r] = "deposit", x.session = Session(r)
          PROVE  Excused(x.session)'
      <3>1. CASE pc[x.by] = "remember"
        BY <1>0, <2>1, <2>4, <3>1 DEF Deposited, DepositOf, Unrecorded, Excused
      <3>2. CASE pc[x.by] = "done"
        BY <2>1, <2>4, <3>2 DEF Deposited, Excused
      <3>3. CASE pc[x.by] \in {"504", "lost"}
        BY <1>0, <2>1, <2>4, <3>3 DEF Deposited, DepositOf, Excused, HalfRecorded
      <3> QED
        BY <3>1, <3>2, <3>3 DEF Deposited
    <2>5. Alone'
      BY <1>0, <1>2, <2>1, <2>3, <2>4 DEF Alone, Paying
    <2> QED
      BY <1>1, <2>2, <2>5
  <1>6. CASE DepositCredits(r)
    <2>1. /\ pc[r] = "deposit" /\ UNCHANGED <<memory, processed, forgotten, entwined>>
          /\ \/ pc'[r] = "remember" /\ credited' = credited \cup {DepositOf(r)}
             \/ pc'[r] = "error" /\ credited' = credited
      BY <1>0, <1>6 DEF DepositCredits, At, Go
    <2>2. \A x \in credited : x.by # r
      BY <2>1 DEF Deposited
    <2>3. Deposited'
      BY <1>0, <1>3, <2>1, <2>2 DEF Deposited, Backed
    <2>4. ASSUME NEW x \in credited, x.session = Session(r) PROVE Excused(x.session)'
      BY <1>2, <2>1, <2>2, <2>4 DEF Alone, Paying
    <2>5. ASSUME NEW q \in Requests, q # r, Paying(q), Session(q) = Session(r)
          PROVE  Excused(Session(r))'
      BY <1>0, <2>1, <2>5 DEF Alone, Paying, Excused
    <2>6. Alone'
      BY <1>0, <1>2, <1>3, <2>1, <2>4, <2>5 DEF Alone, Paying
    <2> QED
      BY <1>1, <2>3, <2>6
  <1>7. CASE RememberSession(r)
    <2>1. /\ pc[r] = "remember" /\ pc'[r] = "done" /\ UNCHANGED <<credited, entwined>>
          /\ memory' = memory \cup {Session(r)} /\ DepositOf(r) \in credited
          /\ processed \subseteq processed' /\ processed' \subseteq processed \cup {Session(r)}
          /\ forgotten \subseteq forgotten'
          /\ processed' \cup forgotten' = processed \cup forgotten \cup {Session(r)}
      BY <1>0, <1>7 DEF RememberSession, At, Go, Deposited
    <2>2. \A s : Backed(s)' = Backed(s)
      BY <2>1 DEF Backed
    <2>3. Backed(Session(r))
      BY <1>3, <2>1 DEF Backed
    <2>4. ASSUME NEW x \in credited
          PROVE  /\ pc'[x.by] \in {"remember", "done", "504", "lost"}
                 /\ pc'[x.by] = "done" => x.session \in processed' \cup forgotten'
                 /\ pc'[x.by] \in {"504", "lost"} => cut[x.by] = "remember"
      <3>1. CASE x.by = r
        BY <1>3, <2>1, <3>1 DEF Deposited
      <3>2. CASE x.by # r
        BY <1>0, <2>1, <3>2 DEF Deposited
      <3> QED
        BY <3>1, <3>2
    <2>5. Deposited'
      <3>1. \A x \in credited' : x.by \in Requests /\ Op(x.by)' = "webhook" /\ x = DepositOf(x.by)'
        BY <1>0, <2>1 DEF Deposited
      <3>2. \A t \in memory' \cup processed' : Backed(t)'
        BY <2>1, <2>2, <2>3 DEF Deposited
      <3>3. \A q \in Requests : Op(q) = "webhook" =>
               /\ pc'[q] = "done" => Backed(Session(q))
               /\ pc'[q] = "remember" => DepositOf(q) \in credited'
        BY <1>0, <2>1, <2>3 DEF Deposited
      <3> QED
        BY <1>0, <2>1, <2>2, <2>4, <3>1, <3>2, <3>3 DEF Deposited
    <2>6. Alone'
      BY <1>0, <1>2, <2>1 DEF Alone, Paying
    <2> QED
      BY <1>1, <2>5, <2>6
  <1> QED
    BY <1>4, <1>5, <1>6, <1>7 DEF TopUpStep

LEMMA TopUpKept == Frame /\ TopUpInv /\ [Next]_vars => TopUpInv'
  <1> SUFFICES ASSUME Frame, TopUpInv, [Next]_vars PROVE TopUpInv'
    OBVIOUS
  <1>0. job' = job /\ \A q : Op(q)' = Op(q) /\ Session(q)' = Session(q) /\ DepositOf(q)' = DepositOf(q)
    BY Moves DEF Op, Session, DepositOf
  <1> USE <1>0 DEF TopUpInv, Frame, Placed
  <1>1. ASSUME NEW r \in Requests, TopUpStep(r), Only(r), Op(r) = "webhook", cut' = cut
        PROVE  TopUpInv'
    BY <1>1, TopUpMoves
  <1>2. ASSUME /\ UNCHANGED <<processed, credited, forgotten, entwined>> /\ memory' \subseteq memory
               /\ \A q \in Requests : Op(q) = "webhook" =>
                     \/ pc'[q] = pc[q] /\ cut'[q] = cut[q]
                     \/ pc[q] = "new" /\ pc'[q] = "429" /\ cut'[q] = cut[q]
                     \/ Running(q) /\ pc'[q] \in {"504", "lost"} /\ cut'[q] = pc[q]
        PROVE  TopUpInv'
    <2>1. \A s : Excused(s) => Excused(s)'
      BY <1>2 DEF Excused, HalfRecorded, CutStays, Running, Terminal
    <2>2. TopUpPlaces'
      BY <1>2 DEF TopUpPlaces, Terminal
    <2>3. Deposited'
      BY <1>2 DEF Deposited, Backed, Running, Terminal
    <2>4. Alone'
      BY <1>2, <2>1 DEF Alone, Paying
    <2> QED
      BY <2>2, <2>3, <2>4
  <1>3. ASSUME UNCHANGED topUpVars, NEW r \in Requests, Cut(r) \/ Barred(r) PROVE TopUpInv'
    BY <1>2, <1>3 DEF Cut, Barred, topUpVars
  <1>4. CASE TopUpCrash /\ Fallen
    BY <1>2, <1>4 DEF Fallen, TopUpCrash
  <1>5. CASE UNCHANGED topUpVars /\ Unmoved({"webhook"})
    BY <1>2, <1>5 DEF Unmoved, topUpVars
  <1> QED
    BY <1>1, <1>3, <1>4, <1>5, TopUpTurns

-----------------------------------------------------------------------------
(***************************************************************************)
(* The client of the gateway, and payments that are split.                 *)
(***************************************************************************)

\* Who has ended has ended.
LEMMA EndsStay ==
    ASSUME Frame, [Next]_vars
    PROVE  \A q \in Requests : pc[q] \in Terminal => pc'[q] = pc[q]
  <1>1. ASSUME NEW r \in Requests, Only(r), pc[r] \notin Terminal
        PROVE  \A q \in Requests : pc[q] \in Terminal => pc'[q] = pc[q]
    BY <1>1 DEF Only
  <1>2. ASSUME NEW r \in Requests, Cut(r) \/ Barred(r)
        PROVE  \A q \in Requests : pc[q] \in Terminal => pc'[q] = pc[q]
    BY <1>2 DEF Cut, Barred, Running, Terminal, Frame, Placed
  <1>3. CASE Fallen
    BY <1>3 DEF Fallen, Running
  <1>4. UNCHANGED vars => UNCHANGED pc
    BY DEF vars, tasks
  <1> QED
    BY <1>1, <1>2, <1>3, <1>4, Moves

\* What may happen to the client.
LEMMA ClientTurns ==
    ASSUME Frame, [Next]_vars
    PROVE  \/ UNCHANGED clientVars
           \/ /\ UNCHANGED <<pc, cut>>
              /\ \E r \in Requests : TakeAnswer(r) \/ RetryStatus(r) \/ GiveUp(r) \/ Broken(r)
  <1>1. ASSUME NEW r \in Requests, Calling(r)
        PROVE  \/ UNCHANGED clientVars
               \/ /\ UNCHANGED <<pc, cut>>
                  /\ TakeAnswer(r) \/ RetryStatus(r) \/ GiveUp(r) \/ Broken(r)
    BY <1>1 DEF Calling, ClientStep, Limited, Parse, TakeAnswer, RetryStatus, GiveUp, Broken, frame
  <1>2. ASSUME NEW r \in Requests, Cancelled(r) PROVE UNCHANGED clientVars
    BY <1>2 DEF Cancelled
  <1>3. ASSUME NEW t \in Tasks, Send(t) PROVE UNCHANGED clientVars
    BY <1>3 DEF Send
  <1>4. Tick \/ Died \/ UNCHANGED vars => UNCHANGED clientVars
    BY DEF Tick, Died, vars
  <1> QED
    BY <1>1, <1>2, <1>3, <1>4, Moves

\* Attempts before the one that is under way were given up, or had an answer
\* that is tried again; the call ends as its last attempt did.
Try(r) == job[r].try
Tried == \A p \in Requests : IsAttempt(p) /\ Try(p) < attempt =>
             p \in givenUp \/ pc[p] \in {"429", "error", "504"}
ClientInv == attempt \in Nat /\ Tried /\ ClientToldRight

LEMMA Attempts ==
    ASSUME Frame, NEW p \in Requests, NEW q \in Requests, IsAttempt(p), IsAttempt(q)
    PROVE  /\ Try(p) \in Nat \ {0} /\ job[p].retries \in Nat /\ Op(p) = Op(q)
           /\ Try(p) = Try(q) => p = q
  BY AttemptConstants DEF Frame, IsAttempt, Try, Op

LEMMA ClientStart == Init => ClientInv
  <1> SUFFICES ASSUME Init PROVE ClientInv
    OBVIOUS
  <1>1. attempt \in {0, 1} /\ client \in {"none", "waiting"}
    BY DEF Init, ClientInit
  <1>2. \A p \in Requests : IsAttempt(p) => Try(p) \in Nat \ {0}
    BY FrameInit, Attempts
  <1> QED
    BY <1>1, <1>2 DEF ClientInv, Tried, ClientToldRight

LEMMA ClientKept == Frame /\ ClientInv /\ [Next]_vars => ClientInv'
  <1> SUFFICES ASSUME Frame, ClientInv, [Next]_vars PROVE ClientInv'
    OBVIOUS
  <1>0. /\ job' = job /\ \A q : /\ IsAttempt(q)' = IsAttempt(q) /\ Try(q)' = Try(q)
                               /\ LastTry(q)' = LastTry(q) /\ Python(q)' = Python(q)
        /\ \A q \in Requests : pc[q] \in Terminal => pc'[q] = pc[q]
    BY Moves, EndsStay DEF IsAttempt, Try, LastTry, Python
  <1> USE <1>0 DEF ClientInv, Terminal
  <1>1. CASE UNCHANGED clientVars
    BY <1>1 DEF clientVars, Tried, ClientToldRight, Try
  <1>2. ASSUME UNCHANGED pc, NEW r \in Requests,
               TakeAnswer(r) \/ RetryStatus(r) \/ GiveUp(r) \/ Broken(r)
        PROVE  ClientInv'
    <2>1. /\ IsAttempt(r) /\ Try(r) = attempt /\ client = "waiting" /\ pc' = pc
          /\ givenUp \subseteq givenUp'
      BY <1>2 DEF TakeAnswer, RetryStatus, GiveUp, Broken, Latest, Try
    <2>2. \A p \in Requests : IsAttempt(p) => Try(p) \in Nat /\ (Try(p) = attempt => p = r)
      BY <2>1, Attempts
    <2>3. CASE TakeAnswer(r)
      <3>1. /\ attempt' = attempt /\ givenUp' = givenUp
            /\ \/ client' = "returned" /\ pc[r] = "done"
               \/ client' = "raised" /\ pc[r] = "rejected"
        BY <2>3 DEF TakeAnswer
      <3> QED
        BY <2>1, <3>1 DEF Tried, ClientToldRight, Try
    <2>4. CASE RetryStatus(r)
      <3>1. pc[r] \in {"429", "error", "504"} /\ givenUp' = givenUp
        BY <2>4 DEF RetryStatus
      <3>2. CASE LastTry(r) /\ Raise
        BY <2>1, <3>1, <3>2 DEF Raise, Tried, ClientToldRight, Try
      <3>3. CASE Again
        BY <2>1, <2>2, <3>1, <3>3 DEF Again, Tried, ClientToldRight
      <3> QED
        BY <2>4, <3>2, <3>3 DEF RetryStatus
    <2>5. CASE GiveUp(r) \/ Broken(r)
      <3>1. r \in givenUp' /\ heard' = heard
        BY <2>5 DEF GiveUp, Broken
      <3>2. CASE Again
        BY <2>1, <2>2, <3>1, <3>2 DEF Again, Tried, ClientToldRight
      <3>3. CASE Raise /\ (LastTry(r) \/ (Python(r) /\ (~heard \/ pc[r] = "lost")))
        BY <2>1, <3>1, <3>3 DEF Raise, Tried, ClientToldRight, Try
      <3> QED
        BY <2>5, <3>2, <3>3 DEF GiveUp, Broken
    <2> QED
      BY <1>2, <2>3, <2>4, <2>5
  <1> QED
    BY <1>1, <1>2, ClientTurns

\* What may happen to a split; the gateway takes it when the client has sent it.
LEMMA SplitTurns ==
    ASSUME Frame, [Next]_vars
    PROVE  \/ /\ attempt' = attempt
              /\ \E r \in Requests : SplitStep(r) /\ Only(r) /\ Op(r) = "split" /\ Sent(r)
           \/ UNCHANGED splitVars /\ \E r \in Requests : Cut(r) \/ Barred(r)
           \/ UNCHANGED splitVars /\ Fallen
           \/ UNCHANGED splitVars /\ Unmoved({"split"})
  <1>1. ASSUME NEW r \in Requests, Step(r), Only(r), cut' = cut, Apart(r)
        PROVE  \/ SplitStep(r) /\ Op(r) = "split" /\ Sent(r) /\ attempt' = attempt
               \/ UNCHANGED splitVars /\ Unmoved({"split"})
    BY <1>1, SplitOnly DEF Apart, Only, Unmoved, Step, clientVars
  <1>2. ASSUME NEW r \in Requests, Cancelled(r) \/ Calling(r) PROVE UNCHANGED splitVars
    BY <1>2 DEF Cancelled, Calling, money
  <1>3. ASSUME NEW t \in Tasks, Send(t) PROVE UNCHANGED splitVars
    BY <1>3 DEF Send, money
  <1>4. Tick \/ Died => UNCHANGED splitVars
    BY DEF Tick, Died, money
  <1>5. ASSUME UNCHANGED vars PROVE UNCHANGED splitVars /\ UNCHANGED <<pc, cut>>
    BY <1>5 DEF vars, tasks, money
  <1>6. UNCHANGED <<pc, cut>> => Unmoved({"split"})
    BY DEF Unmoved
  <1> QED
    BY <1>1, <1>2, <1>3, <1>4, <1>5, <1>6, Moves

\* What a request has taken and shared out, at each place; a marker is there
\* for a payment that was made; two that have one key looked it up together,
\* or the later one found the marker of the other.
Parts(r) == Len(job[r].splits)
Divisible(r) == SumOfShares(r) \in (Amount - 1)..(Amount + 1)
SplitPlaces == \A r \in Requests : Op(r) = "split" =>
    /\ pc[r] \in {"new", "withdraw", "deposit", "marker"} \cup Terminal
    /\ pc[r] = "withdraw" => Divisible(r)
    /\ pc[r] \in {"deposit", "marker"} => r \in taken
    /\ pc[r] = "marker" => Keyed(r)
    /\ pc[r] = "done" => r \in taken \/ (Keyed(r) /\ SplitKey(r) \in markers)
SharedOut ==
    /\ shared \in [Requests -> Nat] /\ taken \subseteq Requests
    /\ \A r \in Requests : shared[r] > 0 => r \in taken
    /\ \A r \in taken :
          /\ Op(r) = "split" /\ Divisible(r) /\ Sent(r)
          /\ pc[r] \in {"deposit", "marker", "done", "rejected", "504", "lost"}
          /\ pc[r] \in {"marker", "done"} => shared[r] = Parts(r)
          /\ pc[r] = "rejected" =>
                shared[r] = Parts(r) \/ Unpayable(job[r].splits[shared[r] + 1])
          /\ pc[r] = "done" /\ Keyed(r) => SplitKey(r) \in markers
MarkersTrue == \A k \in markers : \E q \in taken : SplitKey(q) = k /\ shared[q] = Parts(q)
Together(p, q) == p # q /\ Keyed(p) /\ SplitKey(p) = SplitKey(q)
Raced ==
    /\ \A p, q \in Requests :
          Together(p, q) /\ Splitting(p) /\ Splitting(q) => {p, q} \subseteq raced
    /\ \A p \in taken, q \in Requests :
          Together(p, q) /\ pc[p] = "done" /\ Splitting(q) => {p, q} \subseteq raced
    /\ \A p, q \in taken :
          Together(p, q) /\ pc[p] = "done" /\ pc[q] = "done" => {p, q} \subseteq raced
SplitInv == SplitPlaces /\ SharedOut /\ MarkersTrue /\ Raced

LEMMA SplitStart == Init => SplitInv
  BY DEF Init, SplitInit, TaskInit, SplitInv, SplitPlaces, SharedOut, MarkersTrue, Raced, Splitting,
         Terminal

\* A split's own steps.
LEMMA SplitMoves ==
    ASSUME Frame, SplitInv, job' = job, attempt' = attempt,
           NEW r \in Requests, SplitStep(r), Only(r), Op(r) = "split", Sent(r)
    PROVE  SplitInv'
  <1>0. /\ pc' = [q \in Requests |-> pc'[q]] /\ pc = [q \in Requests |-> pc[q]]
        /\ \A q \in Requests \ {r} : pc'[q] = pc[q]
        /\ \A q : /\ Op(q)' = Op(q) /\ Parts(q)' = Parts(q) /\ Divisible(q)' = Divisible(q)
                  /\ SplitKey(q)' = SplitKey(q) /\ Keyed(q)' = Keyed(q) /\ Sent(q)' = Sent(q)
        /\ \A p, q : Together(p, q)' = Together(p, q)
        /\ \A p, q : Together(p, q) => Together(q, p)
    BY DEF Only, Frame, Placed, Op, Parts, Divisible, SumOfShares, Shares, SplitKey, Keyed, Sent,
           IsAttempt, Together
  <1>1. /\ shared \in [Requests -> Nat] /\ taken \subseteq Requests
        /\ SplitPlaces /\ SharedOut /\ MarkersTrue /\ Raced
    BY DEF SplitInv, SharedOut
  <1>2. CASE LookupSplit(r)
    <2>1. /\ pc[r] = "new" /\ UNCHANGED <<markers, shared, taken>> /\ raced \subseteq raced'
          /\ \/ pc'[r] = "done" /\ Keyed(r) /\ SplitKey(r) \in markers
             \/ pc'[r] = "withdraw" /\ Divisible(r) /\ ~(Keyed(r) /\ SplitKey(r) \in markers)
             \/ pc'[r] = "rejected"
      BY <1>0, <1>2 DEF LookupSplit, At, Go, Divisible
    <2>2. \A q \in Requests : Together(r, q) /\ Splitting(q) => {r, q} \subseteq raced'
      BY <1>2 DEF LookupSplit, Together, Keyed
    <2>3. r \notin taken
      BY <1>1, <2>1 DEF SharedOut
    <2>4. SplitPlaces'
      BY <1>0, <1>1, <2>1 DEF SplitPlaces, Terminal
    <2>5. SharedOut' /\ MarkersTrue'
      BY <1>0, <1>1, <2>1, <2>3 DEF SharedOut, MarkersTrue
    <2>6. \A q \in Requests \ {r} : Splitting(q)' = Splitting(q)
      BY <1>0 DEF Splitting
    <2>7. ASSUME NEW p \in taken, Together(p, r), pc[p] = "done", Splitting(r)' PROVE FALSE
      BY <1>0, <1>1, <2>1, <2>7 DEF SharedOut, Together, Splitting, Keyed
    <2>8. ASSUME NEW p \in Requests, NEW q \in Requests, Together(p, q),
                 Splitting(p)', Splitting(q)'
          PROVE  {p, q} \subseteq raced'
      <3>1. CASE p = r
        BY <2>2, <2>6, <2>8, <3>1 DEF Together
      <3>2. CASE q = r
        BY <1>0, <2>2, <2>6, <2>8, <3>2 DEF Together
      <3>3. CASE p # r /\ q # r
        BY <1>1, <2>1, <2>6, <2>8, <3>3 DEF Raced
      <3> QED
        BY <3>1, <3>2, <3>3
    <2>9. ASSUME NEW p \in taken, NEW q \in Requests, Together(p, q), pc'[p] = "done",
                 Splitting(q)' \/ (q \in taken /\ pc'[q] = "done")
          PROVE  {p, q} \subseteq raced'
      BY <1>0, <1>1, <2>1, <2>3, <2>6, <2>7, <2>9 DEF Raced
    <2>10. Raced'
      BY <1>0, <1>1, <2>1, <2>8, <2>9 DEF Raced
    <2> QED
      BY <2>4, <2>5, <2>10 DEF SplitInv
  <1>3. CASE WithdrawSplit(r)
    <2>1. /\ pc[r] = "withdraw" /\ UNCHANGED <<markers, shared, raced>>
          /\ \/ pc'[r] = "rejected" /\ taken' = taken
             \/ pc'[r] = "deposit" /\ taken' = taken \cup {r}
      BY <1>0, <1>3 DEF WithdrawSplit, At, Go
    <2>2. r \notin taken
      BY <1>1, <2>1 DEF SharedOut
    <2>3. SplitPlaces'
      BY <1>0, <1>1, <2>1 DEF SplitPlaces, Terminal
    <2>4. SharedOut' /\ MarkersTrue'
      BY <1>0, <1>1, <2>1, <2>2 DEF SharedOut, MarkersTrue, SplitPlaces
    <2>5. \A q \in Requests : Splitting(q)' => Splitting(q)
      BY <1>0, <2>1 DEF Splitting
    <2>6. Raced'
      BY <1>0, <1>1, <2>1, <2>2, <2>5 DEF Raced
    <2> QED
      BY <2>3, <2>4, <2>6 DEF SplitInv
  <1>4. CASE DepositShare(r)
    <2>1. /\ pc[r] = "deposit" /\ UNCHANGED <<markers, taken, raced>> /\ r \in taken
          /\ \/ /\ pc'[r] = IF Keyed(r) THEN "marker" ELSE "done"
                /\ shared' = shared /\ shared[r] = Parts(r)
             \/ /\ pc'[r] = "rejected" /\ shared' = shared
                /\ Unpayable(job[r].splits[shared[r] + 1])
             \/ pc'[r] = pc[r] /\ shared' = [shared EXCEPT ![r] = @ + 1] /\ shared[r] # Parts(r)
      BY <1>0, <1>1, <1>4 DEF DepositShare, At, Go, Parts, SplitPlaces
    <2>2. SplitPlaces'
      BY <1>0, <1>1, <2>1 DEF SplitPlaces, Terminal
    <2>3. /\ shared' \in [Requests -> Nat] /\ \A q \in Requests \ {r} : shared'[q] = shared[q]
      BY <1>1, <2>1
    <2>4. SharedOut'
      BY <1>0, <1>1, <2>1, <2>3 DEF SharedOut
    <2>5. MarkersTrue'
      BY <1>0, <1>1, <2>1, <2>3 DEF MarkersTrue
    <2>6. \A q \in Requests : Splitting(q)' => Splitting(q)
      BY <1>0, <2>1 DEF Splitting
    <2>7. Splitting(r) /\ (pc'[r] = "done" => ~Keyed(r))
      BY <2>1 DEF Splitting
    <2>8. Raced'
      BY <1>0, <1>1, <2>1, <2>6, <2>7 DEF Raced, Together, Keyed
    <2> QED
      BY <2>2, <2>4, <2>5, <2>8 DEF SplitInv
  <1>5. CASE RecordMarker(r)
    <2>1. /\ pc[r] = "marker" /\ UNCHANGED <<shared, taken, raced>> /\ r \in taken
          /\ markers' = markers \cup {SplitKey(r)} /\ shared[r] = Parts(r)
          /\ pc'[r] \in {"rejected", "done"}
      BY <1>0, <1>1, <1>5 DEF RecordMarker, At, Go, SplitPlaces, SharedOut
    <2>2. SplitPlaces'
      BY <1>0, <1>1, <2>1 DEF SplitPlaces, Terminal
    <2>3. SharedOut'
      BY <1>0, <1>1, <2>1 DEF SharedOut
    <2>4. MarkersTrue'
      BY <1>0, <1>1, <2>1 DEF MarkersTrue
    <2>5. \A q \in Requests : Splitting(q)' => Splitting(q) /\ q # r
      BY <1>0, <2>1 DEF Splitting
    <2>6. Splitting(r)
      BY <2>1 DEF Splitting
    <2>7. Raced'
      BY <1>0, <1>1, <2>1, <2>5, <2>6 DEF Raced
    <2> QED
      BY <2>2, <2>3, <2>4, <2>7 DEF SplitInv
  <1> QED
    BY <1>2, <1>3, <1>4, <1>5 DEF SplitStep

LEMMA SplitKept == Frame /\ ClientInv /\ SplitInv /\ [Next]_vars => SplitInv'
  <1> SUFFICES ASSUME Frame, ClientInv, SplitInv, [Next]_vars PROVE SplitInv'
    OBVIOUS
  <1>0. /\ job' = job
        /\ \A q : /\ Op(q)' = Op(q) /\ Parts(q)' = Parts(q) /\ Divisible(q)' = Divisible(q)
                  /\ SplitKey(q)' = SplitKey(q) /\ Keyed(q)' = Keyed(q)
        /\ \A p, q : Together(p, q)' = Together(p, q)
    BY Moves DEF Op, Parts, Divisible, SumOfShares, Shares, SplitKey, Keyed, Together
  <1>1. ASSUME attempt' = attempt,
               NEW r \in Requests, SplitStep(r), Only(r), Op(r) = "split", Sent(r)
        PROVE  SplitInv'
    BY <1>0, <1>1, SplitMoves
  <1>2. \A q \in Requests : Sent(q) => Sent(q)'
    <2>1. attempt \in Nat /\ (attempt' = attempt \/ attempt' = attempt + 1)
      BY ClientTurns DEF ClientInv, clientVars, TakeAnswer, RetryStatus, GiveUp, Broken, Again, Raise
    <2>2. \A q \in Requests : IsAttempt(q) => job[q].try \in Nat
      BY Attempts DEF Try
    <2> QED
      BY <1>0, <2>1, <2>2 DEF Sent, IsAttempt
  <1>3. ASSUME UNCHANGED splitVars,
               \A q \in Requests : Op(q) = "split" =>
                  \/ pc'[q] = pc[q]
                  \/ pc[q] = "new" /\ pc'[q] = "429"
                  \/ Running(q) /\ pc'[q] \in {"504", "lost"}
        PROVE  SplitInv'
    <2> USE DEF SplitInv, splitVars
    <2>1. SplitPlaces'
      BY <1>0, <1>3 DEF SplitPlaces, Terminal
    <2>2. SharedOut'
      BY <1>0, <1>2, <1>3 DEF SharedOut, Running, Terminal
    <2>3. MarkersTrue'
      BY <1>0, <1>3 DEF MarkersTrue
    <2>4. \A q \in Requests : /\ Splitting(q)' => Splitting(q)
                              /\ Op(q) = "split" /\ pc'[q] = "done" => pc[q] = "done"
      BY <1>0, <1>3 DEF Splitting
    <2>5. taken \subseteq Requests /\ \A q \in taken : Op(q) = "split"
      BY DEF SharedOut
    <2>6. Raced'
      BY <1>0, <1>3, <2>4, <2>5 DEF Raced
    <2> QED
      BY <2>1, <2>2, <2>3, <2>6
  <1>4. ASSUME UNCHANGED splitVars, NEW r \in Requests, Cut(r) \/ Barred(r) PROVE SplitInv'
    BY <1>3, <1>4 DEF Cut, Barred, Frame, Placed
  <1>5. CASE UNCHANGED splitVars /\ Fallen
    BY <1>3, <1>5 DEF Fallen
  <1>6. CASE UNCHANGED splitVars /\ Unmoved({"split"})
    BY <1>3, <1>6 DEF Unmoved
  <1> QED
    BY <1>1, <1>4, <1>5, <1>6, SplitTurns

\* What was shared out in full is the sum of the shares.
LEMMA PaidInFull ==
    ASSUME Frame, NEW r \in Requests, Op(r) = "split", shared[r] = Parts(r)
    PROVE  PaidBy(r) = SumOfShares(r)
  <1> DEFINE splits == job[r].splits
             shares == Shares(r)
  <1>1. splits \in Seq({splits[i] : i \in DOMAIN splits})
    BY SplitConstants DEF Frame, Op
  <1>2. DOMAIN splits = 1..Len(splits) /\ Len(splits) \in Nat
    BY <1>1
  <1>3. shares = [i \in 1..Len(splits) |-> splits[i].share]
    BY <1>2 DEF Shares
  <1>4. SubSeq(shares, 1, Len(splits)) = [i \in 1..Len(splits) |-> shares[i]]
    <2> DEFINE all == {splits[i].share : i \in 1..Len(splits)}
    <2>1. shares \in Seq(all) /\ Len(shares) = Len(splits)
      BY <1>2, <1>3
    <2> HIDE DEF shares, splits, all
    <2> QED
      BY <1>2, <2>1
  <1>5. SubSeq(shares, 1, Len(splits)) = shares
    BY <1>3, <1>4
  <1> QED
    BY <1>5 DEF PaidBy, SumOfShares, Parts

LEMMA SplitMeans == Frame /\ ClientInv /\ SplitInv => SplitsAccounted
  <1> SUFFICES ASSUME Frame, ClientInv, SplitInv PROVE SplitsAccounted
    OBVIOUS
  <1> USE DEF SplitInv
  <1>1. SplitsPaid
    <2>1. ASSUME NEW r \in taken
          PROVE  \/ PaidBy(r) \in (Amount - 1)..(Amount + 1)
                 \/ Splitting(r) \/ CutShort(r)
                 \/ pc[r] = "rejected" /\ Unpayable(job[r].splits[shared[r] + 1])
      <3>1. /\ r \in Requests /\ Op(r) = "split" /\ Divisible(r)
            /\ \/ pc[r] \in {"deposit", "marker", "504", "lost"}
               \/ shared[r] = Parts(r)
               \/ pc[r] = "rejected" /\ Unpayable(job[r].splits[shared[r] + 1])
        BY DEF SharedOut
      <3>2. CASE shared[r] = Parts(r)
        BY <3>1, <3>2, PaidInFull DEF Divisible
      <3> QED
        BY <3>1, <3>2 DEF Splitting, CutShort
    <2>2. ASSUME NEW r \in Requests, At(r, "split", "done"), r \notin taken
          PROVE  \E q \in taken : SplitKey(q) = SplitKey(r) /\ shared[q] = Len(job[q].splits)
      BY <2>2 DEF SplitPlaces, MarkersTrue, At, Parts
    <2> QED
      BY <2>1, <2>2 DEF SplitsPaid, SharedOut
  <1>2. SplitOnce
    BY DEF SplitOnce, Raced, Together
  <1>3. RetriesAccounted
    <2> SUFFICES ASSUME NEW p \in taken, NEW q \in taken, IsAttempt(p), IsAttempt(q),
                        job[p].try < job[q].try
                 PROVE  /\ p \in givenUp \/ pc[p] = "504"
                        /\ ~Keyed(p) \/ {p, q} \subseteq raced \/ pc[p] # "done" \/ pc[q] # "done"
      BY DEF RetriesAccounted
    <2>1. /\ p \in Requests /\ q \in Requests /\ Op(p) = "split" /\ Op(q) = "split"
          /\ job[q].try <= attempt /\ pc[p] \notin {"429", "error"}
      BY DEF SharedOut, Sent
    <2>2. job[p].try \in Nat /\ job[q].try \in Nat /\ attempt \in Nat
      BY <2>1, Attempts DEF Try, ClientInv
    <2>3. p \in givenUp \/ pc[p] = "504"
      BY <2>1, <2>2 DEF ClientInv, Tried, Try
    <2>4. SplitKey(p) = SplitKey(q) /\ p # q
      BY <2>1, <2>2, SplitCalls DEF Frame, IsAttempt, Op, SplitKey
    <2> QED
      BY <1>2, <2>3, <2>4 DEF SplitOnce
  <1> QED
    BY <1>1, <1>2, <1>3 DEF SplitsAccounted, ClientInv

LEMMA TopUpMeans == TopUpInv => CreditedOnce
  BY DEF TopUpInv, Deposited, Alone, Backed, Excused, CreditedOnce

\* Money that comes in is credited: a session of Stripe once, unless two
\* deliveries of it were under way together or its row is not there, and before
\* it is answered; money that is divided arrives: what was taken from the payer
\* is with the payees, once for a key, however a client of either SDK retries;
\* and the client hears of a success only when there was one (stripe_webhook,
\* the tool of split payments, the retry loops of the SDKs).
THEOREM FundsAlwaysArrive == Spec => []FundsArrive
  <1> DEFINE Inv == Frame /\ TopUpInv /\ ClientInv /\ SplitInv
  <1>1. Init => Inv
    BY FrameInit, TopUpStart, ClientStart, SplitStart
  <1>2. Inv /\ [Next]_vars => Inv'
    BY FrameStep, TopUpKept, ClientKept, SplitKept
  <1>3. Inv => FundsArrive
    BY SplitMeans, TopUpMeans DEF FundsArrive
  <1> QED
    BY <1>1, <1>2, <1>3, PTL DEF Spec

-----------------------------------------------------------------------------
(***************************************************************************)
(* Accounts: their keys, and their public key.                             *)
(***************************************************************************)

\* What may happen to an account.
LEMMA AccountTurns ==
    ASSUME Frame, [Next]_vars
    PROVE  \/ \E r \in Requests : /\ AccountStep(r) /\ Only(r) /\ Op(r) \in AccountOps
                                  /\ cut' = cut /\ pc[r] \notin Terminal
           \/ UNCHANGED accountVars /\ \E r \in Requests : Cut(r) \/ Barred(r)
           \/ AccountCrash /\ Fallen
           \/ (\E k \in grace : GraceOver(k)) /\ UNCHANGED <<pc, cut>>
           \/ UNCHANGED accountVars /\ Unmoved(AccountOps)
  <1>1. ASSUME NEW r \in Requests, Step(r), Only(r), cut' = cut, Apart(r)
        PROVE  \/ AccountStep(r) /\ Op(r) \in AccountOps /\ pc[r] \notin Terminal
               \/ UNCHANGED accountVars /\ Unmoved(AccountOps)
    BY <1>1, AccountOnly DEF Apart, Only, Unmoved
  <1>2. ASSUME NEW r \in Requests, Cancelled(r) \/ Calling(r) PROVE UNCHANGED accountVars
    BY <1>2 DEF Cancelled, Calling, people
  <1>3. ASSUME NEW t \in Tasks, Send(t) PROVE UNCHANGED accountVars
    BY <1>3 DEF Send, people
  <1>4. ASSUME Tick PROVE UNCHANGED accountVars \/ \E k \in grace : GraceOver(k)
    BY <1>4 DEF Tick, people
  <1>5. ASSUME Died PROVE AccountCrash
    BY <1>5 DEF Died
  <1>6. ASSUME UNCHANGED vars PROVE UNCHANGED accountVars /\ UNCHANGED <<pc, cut>>
    BY <1>6 DEF vars, tasks, people
  <1>7. UNCHANGED <<pc, cut>> => Unmoved(AccountOps)
    BY DEF Unmoved
  <1> QED
    BY <1>1, <1>2, <1>3, <1>4, <1>5, <1>6, <1>7, Moves

\* The rows of keys, in the file and as they are read.
IsConnection(c) == c = [data |-> c.data, saved |-> c.saved, open |-> c.open]
KeyRecords == [key : Requests \cup {FirstKey}, agent : Accounts \cup {FirstAccount}, revoked : BOOLEAN]
Issued(row) == /\ row \in KeyRecords
               /\ \/ row.key = FirstKey /\ row.agent = FirstAccount
                  \/ row.key \in Requests /\ Issues(row.key) /\ row.agent = job[row.key].account
KeyRows == IsConnection(paywall) /\ \A row \in paywall.data \cup paywall.saved : Issued(row)
AccountPlaces == \A r \in Requests : Op(r) \in AccountOps => pc[r] \in Terminal \cup
    {"new", "begin", "revoke", "commitRevoke", "insertKey", "commitKey", "lookupIdentity",
     "storeIdentity", "commitRotation"}

\* A key is read once it is inserted, and in the file once that is committed,
\* unless somebody came to revoke it, or a rollback met it.
Works(table, k) == \E row \in table : row.key = k /\ ~row.revoked
Revoking(k) == \E q \in Requests : /\ Op(q) \in {"rotate", "revokeKey"} /\ job[q].target = k
                                   /\ pc[q] \notin {"new", "rejected", "begin"}
Told == \A r \in Requests : Issues(r) =>
    /\ pc[r] = "commitKey" => Works(paywall.data, r) \/ Revoking(r) \/ r \in unlucky
    /\ pc[r] \in {"lookupIdentity", "storeIdentity", "commitRotation", "done"} =>
          \/ Works(paywall.data, r) /\ Works(paywall.saved, r)
          \/ Revoking(r) \/ r \in unlucky

\* Who has a wallet has a key that is read, but between the revocation, or the
\* wallet, and the insertion; and one in the file, but until the commit.
Stuck(a) == unlucky # {} \/ \E r \in Requests : job[r].account = a /\
    \/ Op(r) = "register" /\ pc[r] \in {"error", "429", "504", "lost"}
    \/ Op(r) = "rotate" /\ (cut[r] # "never" \/ a \in halfRotated)
    \/ Op(r) = "revokeKey" /\ pc[r] \notin {"new", "rejected"}
Changing(a, places) == \E r \in Requests :
    job[r].account = a /\ Op(r) \in {"register", "rotate"} /\ pc[r] \in places
ReadKeys == \A a \in wallets :
    LiveIn(paywall.data, a) # {} \/ Changing(a, {"commitRevoke", "insertKey"}) \/ Stuck(a)
FileKeys == \A a \in wallets :
    \/ LiveIn(paywall.saved, a) # {} \/ Stuck(a)
    \/ Changing(a, {"commitRevoke", "insertKey", "commitKey"})
KeysInv == KeyRows /\ AccountPlaces /\ Told /\ ReadKeys /\ FileKeys

LEMMA KeysStart == Init => KeysInv
  <1> SUFFICES ASSUME Init PROVE KeysInv
    OBVIOUS
  <1>1. \A r \in Requests : Op(r) \in AccountOps => pc[r] = "new"
    BY DEF Init, TaskInit, AccountOps
  <1>2. /\ paywall = [data |-> paywall.data, saved |-> paywall.saved, open |-> FALSE]
        /\ paywall.data = {[key |-> FirstKey, agent |-> FirstAccount, revoked |-> FALSE]}
        /\ paywall.saved = paywall.data /\ wallets = {FirstAccount}
    BY DEF Init, AccountInit, Connected
  <1>3. KeyRows
    BY <1>2 DEF KeyRows, IsConnection, Issued, KeyRecords
  <1>4. Told /\ AccountPlaces
    BY <1>1 DEF Told, AccountPlaces, Issues, AccountOps
  <1>5. ReadKeys /\ FileKeys
    <2>1. [key |-> FirstKey, agent |-> FirstAccount, revoked |-> FALSE]
              \in LiveIn(paywall.data, FirstAccount)
      BY <1>2 DEF LiveIn
    <2>2. LiveIn(paywall.saved, FirstAccount) = LiveIn(paywall.data, FirstAccount)
      BY <1>2
    <2> QED
      BY <1>2, <2>1, <2>2 DEF ReadKeys, FileKeys
  <1> QED
    BY <1>3, <1>4, <1>5 DEF KeysInv

\* What the accounts' steps write.
Moved(r, from, to) == pc[r] \in from /\ pc'[r] \in to
RowsStay == paywall'.data = paywall.data /\ paywall'.saved = paywall.saved
\* Nothing of the rows;
Idles(r) ==
    /\ RowsStay /\ UNCHANGED <<wallets, unlucky, halfRotated>>
    /\ \/ Op(r) # "register" /\ Moved(r, {"new"}, {"done", "storeIdentity", "rejected"}) /\ ~Issues(r)
       \/ Op(r) = "createKey" /\ Moved(r, {"new"}, {"insertKey"})
       \/ Op(r) \in {"register", "rotate", "revokeKey"} /\ Moved(r, {"new"}, {"rejected"})
       \/ Op(r) = "rotate" /\ Moved(r, {"new"}, {"begin"})
       \/ Op(r) = "rotate" /\ Moved(r, {"begin"}, {"revoke", "error"})
       \/ Op(r) = "revokeKey" /\ Moved(r, {"new"}, {"revoke"})
       \/ Op(r) = "revokeKey" /\ Moved(r, {"revoke"}, {"error"})
       \/ Op(r) \in {"createKey", "register"} /\ Moved(r, {"insertKey"}, {"error"})
       \/ Moved(r, {"lookupIdentity", "storeIdentity"}, {"storeIdentity", "done", "commitRotation"})
\* the wallet; the rollback of a rotation; a revocation, an insertion, a commit.
Opens(r) ==
    /\ Op(r) = "register" /\ Moved(r, {"new"}, {"insertKey"}) /\ RowsStay
    /\ wallets' = wallets \cup {job[r].account} /\ UNCHANGED <<unlucky, halfRotated>>
Undoes(r) ==
    /\ Op(r) = "rotate" /\ Moved(r, {"revoke", "insertKey"}, {"error"})
    /\ paywall'.data = paywall.saved /\ paywall'.saved = paywall.saved
    /\ unlucky' = unlucky \cup {q \in Requests \ {r} : pc[q] \in {"commitKey", "commitRevoke"}}
    /\ halfRotated' = IF pc[r] = "insertKey" THEN halfRotated \cup {job[r].account} ELSE halfRotated
    /\ UNCHANGED wallets
Revokes(r) ==
    /\ Op(r) \in {"rotate", "revokeKey"} /\ Moved(r, {"revoke"}, {"commitRevoke"})
    /\ paywall'.data = {IF row.key = job[r].target THEN [row EXCEPT !.revoked = TRUE] ELSE row :
                           row \in paywall.data}
    /\ paywall'.saved = paywall.saved /\ UNCHANGED <<wallets, unlucky, halfRotated>>
Inserts(r) ==
    /\ Issues(r) /\ Moved(r, {"insertKey"}, {"commitKey"})
    /\ paywall'.data = paywall.data \cup {KeyOf(r)} /\ paywall'.saved = paywall.saved
    /\ UNCHANGED <<wallets, unlucky, halfRotated>>
Commits(r) ==
    /\ paywall'.data = paywall.data /\ paywall'.saved = paywall.data
    /\ UNCHANGED <<wallets, unlucky, halfRotated>>
    /\ \/ Op(r) = "rotate" /\ Moved(r, {"commitRevoke"}, {"insertKey"})
       \/ Op(r) = "revokeKey" /\ Moved(r, {"commitRevoke"}, {"done"})
       \/ Issues(r) /\ Moved(r, {"commitKey"}, {"lookupIdentity"})
       \/ Op(r) = "rotate" /\ Moved(r, {"commitRotation"}, {"done"})

LEMMA KeySteps ==
    ASSUME Frame, KeysInv, NEW r \in Requests, AccountStep(r), Op(r) \in AccountOps,
           pc[r] \notin Terminal
    PROVE  /\ IsConnection(paywall)'
           /\ Idles(r) \/ Opens(r) \/ Undoes(r) \/ Revokes(r) \/ Inserts(r) \/ Commits(r)
  <1>0. pc = [q \in Requests |-> pc[q]] /\ IsConnection(paywall)
    BY DEF Frame, Placed, KeysInv, KeyRows
  <1> USE <1>0 DEF At, Go, Issues, AccountOps, keyRows, Moved, RowsStay
  <1>1. CASE CreateWallet(r) \/ RequestKey(r) \/ ValidateKey(r) \/ ListKeys(r)
    BY <1>1 DEF Idles, Opens, CreateWallet, RequestKey, ValidateKey, ListKeys, accountVars, IsConnection
  <1>2. CASE BeginRotation(r)
    BY <1>2 DEF Idles, BeginRotation, Begin, IsConnection
  <1>3. CASE RevokeKey(r)
    <2>1. CASE Abort(r) /\ UNCHANGED <<wallets, halfRotated>>
      <3>1. CASE Op(r) = "rotate"
        BY <1>3, <2>1, <3>1 DEF Undoes, RevokeKey, Abort, Rollback, Connected, IsConnection
      <3>2. CASE Op(r) = "revokeKey"
        BY <1>3, <2>1, <3>2 DEF Idles, RevokeKey, Abort, IsConnection
      <3> QED
        BY <1>3, <3>1, <3>2 DEF RevokeKey
    <2>2. CASE ~(Abort(r) /\ UNCHANGED <<wallets, halfRotated>>)
      BY <1>3, <2>2 DEF Revokes, RevokeKey, ExecuteImplicit, IsConnection
    <2> QED
      BY <2>1, <2>2
  <1>4. CASE InsertKey(r)
    <2>1. CASE Abort(r) /\ Op(r) = "rotate" /\ pc[r] = "insertKey" /\ UNCHANGED wallets
               /\ halfRotated' = halfRotated \cup {job[r].account}
      BY <2>1 DEF Undoes, Abort, Rollback, Connected, IsConnection
    <2>2. CASE Abort(r) /\ Op(r) # "rotate" /\ pc[r] = "insertKey" /\ UNCHANGED <<wallets, halfRotated>>
      BY <1>4, <2>2 DEF Idles, InsertKey, Abort, IsConnection
    <2>3. CASE /\ paywall' = ExecuteImplicit(paywall, keyRows \cup {KeyOf(r)})
               /\ Go(r, "commitKey") /\ UNCHANGED <<unlucky, halfRotated>>
      BY <1>4, <2>3 DEF Inserts, InsertKey, ExecuteImplicit, IsConnection
    <2> QED
      BY <1>4, <2>1, <2>2, <2>3 DEF InsertKey
  <1>5. CASE CommitRevoke(r) \/ CommitKey(r) \/ CommitRotation(r)
    BY <1>5 DEF Commits, CommitRevoke, CommitKey, CommitRotation, Commit, Connected, IsConnection
  <1>6. CASE LookupIdentity(r) \/ OfferKey(r) \/ StoreIdentity(r)
    BY <1>6 DEF Idles, LookupIdentity, OfferKey, StoreIdentity, Bound, IsConnection
  <1> QED
    BY <1>1, <1>2, <1>3, <1>4, <1>5, <1>6 DEF AccountStep

LEMMA KeyMoves ==
    ASSUME Frame, KeysInv, job' = job, cut' = cut, NEW r \in Requests, Only(r),
           Op(r) \in AccountOps, pc[r] \notin Terminal, IsConnection(paywall)',
           Idles(r) \/ Opens(r) \/ Undoes(r) \/ Revokes(r) \/ Inserts(r) \/ Commits(r)
    PROVE  KeysInv'
  <1>0. /\ \A q \in Requests \ {r} : pc'[q] = pc[q]
        /\ \A q : Op(q)' = Op(q) /\ Issues(q)' = Issues(q) /\ KeyOf(q)' = KeyOf(q)
        /\ KeyRows /\ AccountPlaces /\ Told /\ ReadKeys /\ FileKeys
    BY DEF Only, Op, Issues, KeyOf, KeysInv
  <1>1. /\ pc'[r] # "new" /\ (pc[r] \notin {"new", "begin"} => pc'[r] \notin {"rejected", "begin"})
        /\ pc[r] # "new" => pc'[r] # "rejected"
        /\ pc'[r] \in Terminal \cup {"begin", "revoke", "commitRevoke", "insertKey", "commitKey",
                                     "lookupIdentity", "storeIdentity", "commitRotation"}
        /\ unlucky \subseteq unlucky' /\ halfRotated \subseteq halfRotated'
    BY DEF Idles, Opens, Undoes, Revokes, Inserts, Commits, Moved, Terminal
  <1>2. \A k : Revoking(k) => Revoking(k)'
    BY <1>0, <1>1 DEF Revoking, Terminal
  <1>3. \A a : Stuck(a) => Stuck(a)'
    BY <1>0, <1>1 DEF Stuck, Terminal
  <1>4. AccountPlaces'
    BY <1>0, <1>1 DEF AccountPlaces
  <1>5. KeyRows'
    <2>1. ASSUME NEW row, Issued(row)
          PROVE  Issued(row)' /\ Issued([row EXCEPT !.revoked = TRUE])'
      <3>1. Issued(row)'
        BY <1>0, <2>1 DEF Issued
      <3>2. /\ [row EXCEPT !.revoked = TRUE] \in KeyRecords
            /\ [row EXCEPT !.revoked = TRUE].key = row.key
            /\ [row EXCEPT !.revoked = TRUE].agent = row.agent
        BY <2>1 DEF Issued, KeyRecords
      <3>3. Issued([row EXCEPT !.revoked = TRUE])'
        BY <1>0, <2>1, <3>2 DEF Issued
      <3> QED
        BY <3>1, <3>3
    <2>2. Issues(r) => Issued(KeyOf(r))'
      <3>1. Issues(r) => job[r].account \in Accounts
        BY AccountConstants DEF Frame, Issues, Op
      <3> QED
        BY <1>0, <3>1 DEF Issued, KeyOf, KeyRecords
    <2>3. \A row \in paywall'.data \cup paywall'.saved : Issued(row)'
      <3>1. \A row \in paywall.data \cup paywall.saved : Issued(row)'
        BY <1>0, <2>1 DEF KeyRows
      <3>2. CASE Idles(r) \/ Opens(r) \/ Undoes(r) \/ Commits(r)
        BY <3>1, <3>2 DEF Idles, Opens, Undoes, Commits, RowsStay
      <3>3. CASE Revokes(r)
        BY <1>0, <2>1, <3>1, <3>3 DEF KeyRows, Revokes
      <3>4. CASE Inserts(r)
        BY <1>0, <2>2, <3>1, <3>4 DEF Inserts, Issued
      <3> QED
        BY <3>2, <3>3, <3>4
    <2> QED
      BY <2>3 DEF KeyRows
  <1>6. \A a, places : Changing(a, places)' <=>
            \/ \E q \in Requests \ {r} : job[q].account = a /\ Op(q) \in {"register", "rotate"}
                                         /\ pc[q] \in places
            \/ job[r].account = a /\ Op(r) \in {"register", "rotate"} /\ pc'[r] \in places
    BY <1>0 DEF Changing
  <1>7. ASSUME RowsStay, UNCHANGED unlucky, Idles(r) \/ Opens(r) PROVE Told'
    BY <1>0, <1>1, <1>2, <1>7 DEF Told, Works, RowsStay, Idles, Opens, Moved, Issues
  <1>8. CASE Idles(r)
    <2>1. \A a, places : places \subseteq {"commitRevoke", "insertKey", "commitKey"} /\ Changing(a, places)
             => Changing(a, places)' \/ Stuck(a)'
      BY <1>0, <1>8 DEF Changing, Stuck, Idles, Moved
    <2>2. ReadKeys' /\ FileKeys'
      BY <1>0, <1>3, <1>8, <2>1 DEF ReadKeys, FileKeys, LiveIn, Idles, RowsStay
    <2> QED
      BY <1>4, <1>5, <1>7, <1>8, <2>2 DEF KeysInv, Idles
  <1>9. CASE Opens(r)
    <2>1. /\ Changing(job[r].account, {"commitRevoke", "insertKey"})'
          /\ Changing(job[r].account, {"commitRevoke", "insertKey", "commitKey"})'
          /\ \A a, places : Changing(a, places) => Changing(a, places)' \/ "new" \in places
      BY <1>0, <1>9 DEF Changing, Opens, Moved
    <2>2. ReadKeys' /\ FileKeys'
      BY <1>0, <1>3, <1>9, <2>1 DEF ReadKeys, FileKeys, LiveIn, Opens, RowsStay
    <2> QED
      BY <1>4, <1>5, <1>7, <1>9, <2>2 DEF KeysInv, Opens
  <1>10. CASE Undoes(r)
    <2>1. \A q \in Requests \ {r} : pc[q] \in {"commitKey", "commitRevoke"} => q \in unlucky'
      BY <1>10 DEF Undoes
    <2>2. Told'
      BY <1>0, <1>1, <1>2, <1>10, <2>1 DEF Told, Works, Undoes, Moved
    <2>3. \A a : Changing(a, {"commitRevoke", "insertKey", "commitKey"}) =>
             Changing(a, {"commitRevoke", "insertKey"})' \/ Stuck(a)'
      BY <1>0, <1>10, <2>1 DEF Changing, Stuck, Undoes, Moved
    <2>4. \A a, places : Changing(a, {"commitRevoke", "insertKey"})' =>
             Changing(a, {"commitRevoke", "insertKey", "commitKey"})'
      BY DEF Changing
    <2>5. ReadKeys' /\ FileKeys'
      BY <1>0, <1>3, <1>10, <2>3, <2>4 DEF ReadKeys, FileKeys, LiveIn, Undoes
    <2> QED
      BY <1>4, <1>5, <2>2, <2>5 DEF KeysInv
  <1>11. CASE Revokes(r)
    <2>1. Revoking(job[r].target)'
      BY <1>0, <1>11 DEF Revoking, Revokes, Moved
    <2>2. ASSUME NEW k, k # job[r].target, Works(paywall.data, k)
          PROVE  Works(paywall.data, k)'
      BY <1>11, <2>2 DEF Revokes, Works
    <2>3. Told'
      <3>1. ASSUME NEW q \in Requests, Issues(q)
            PROVE  Works(paywall.data, q) => Works(paywall.data, q)' \/ Revoking(q)'
        BY <2>1, <2>2
      <3>2. \A q : Works(paywall.saved, q)' = Works(paywall.saved, q)
        BY <1>11 DEF Revokes, Works
      <3>3. pc'[r] = "commitRevoke" /\ unlucky' = unlucky
        BY <1>11 DEF Revokes, Moved
      <3> QED
        BY <1>0, <1>2, <3>1, <3>2, <3>3 DEF Told
    <2>4. ASSUME NEW a, a # job[r].account, LiveIn(paywall.data, a) # {}
          PROVE  LiveIn(paywall.data, a)' # {}
      <3>1. PICK row \in paywall.data : row.agent = a /\ ~row.revoked
        BY <2>4 DEF LiveIn
      <3>2. Issued(row)
        BY <1>0 DEF KeyRows
      <3>3. row.key # job[r].target
        BY <1>11, <2>4, <3>1, <3>2, AccountConstants DEF Issued, Issues, Op, Frame, Revokes
      <3>4. row \in paywall'.data
        BY <1>11, <3>3 DEF Revokes
      <3> QED
        BY <3>1, <3>4 DEF LiveIn
    <2>5. /\ Changing(job[r].account, {"commitRevoke", "insertKey"})' \/ Stuck(job[r].account)'
          /\ Changing(job[r].account, {"commitRevoke", "insertKey", "commitKey"})'
             \/ Stuck(job[r].account)'
      BY <1>0, <1>11 DEF Changing, Stuck, Revokes, Moved
    <2>6. \A a, places : Changing(a, places) => Changing(a, places)' \/ "revoke" \in places
      BY <1>0, <1>11 DEF Changing, Revokes, Moved
    <2>7. ReadKeys'
      BY <1>0, <1>3, <1>11, <2>4, <2>5, <2>6 DEF ReadKeys, Revokes
    <2>8. FileKeys'
      BY <1>0, <1>3, <1>11, <2>6 DEF FileKeys, Revokes, LiveIn
    <2> QED
      BY <1>4, <1>5, <2>3, <2>7, <2>8 DEF KeysInv
  <1>12. CASE Inserts(r)
    <2>1. /\ Works(paywall.data, r)' /\ paywall.data \subseteq paywall'.data
          /\ LiveIn(paywall.data, job[r].account)' # {}
      <3>1. KeyOf(r) \in paywall'.data /\ paywall.data \subseteq paywall'.data
        BY <1>12 DEF Inserts
      <3>2. KeyOf(r).key = r /\ KeyOf(r).agent = job[r].account /\ ~KeyOf(r).revoked
        BY DEF KeyOf
      <3> QED
        BY <1>0, <3>1, <3>2 DEF Works, LiveIn
    <2>2. Told'
      BY <1>0, <1>2, <1>12, <2>1 DEF Told, Works, Inserts, Moved
    <2>3. \A a : /\ Changing(a, {"commitRevoke", "insertKey"}) =>
                       Changing(a, {"commitRevoke", "insertKey"})' \/ a = job[r].account
                 /\ Changing(a, {"commitRevoke", "insertKey", "commitKey"}) =>
                       Changing(a, {"commitRevoke", "insertKey", "commitKey"})'
      BY <1>0, <1>12 DEF Changing, Inserts, Moved
    <2>4. \A a : LiveIn(paywall.data, a) # {} => LiveIn(paywall.data, a)' # {}
      BY <2>1 DEF LiveIn
    <2>5. ReadKeys'
      BY <1>0, <1>3, <1>12, <2>1, <2>3, <2>4 DEF ReadKeys, Inserts
    <2>6. FileKeys'
      BY <1>0, <1>3, <1>12, <2>3 DEF FileKeys, Inserts, LiveIn
    <2> QED
      BY <1>4, <1>5, <2>2, <2>5, <2>6 DEF KeysInv
  <1>13. CASE Commits(r)
    <2>1. Told'
      BY <1>0, <1>2, <1>13 DEF Told, Works, Commits, Moved, Issues
    <2>2. \A a : Changing(a, {"commitRevoke", "insertKey"}) =>
             \/ Changing(a, {"commitRevoke", "insertKey"})' \/ Stuck(a)'
      BY <1>0, <1>13 DEF Changing, Commits, Moved, Stuck, Issues
    <2>3. \A a : Changing(a, {"commitRevoke", "insertKey"})' =>
             Changing(a, {"commitRevoke", "insertKey", "commitKey"})'
      BY DEF Changing
    <2>4. ReadKeys' /\ FileKeys'
      BY <1>0, <1>3, <1>13, <2>2, <2>3 DEF ReadKeys, FileKeys, LiveIn, Commits
    <2> QED
      BY <1>4, <1>5, <2>1, <2>4 DEF KeysInv
  <1> QED
    BY <1>8, <1>9, <1>10, <1>11, <1>12, <1>13

LEMMA KeysKept == Frame /\ KeysInv /\ [Next]_vars => KeysInv'
  <1> SUFFICES ASSUME Frame, KeysInv, [Next]_vars PROVE KeysInv'
    OBVIOUS
  <1>0. job' = job /\ \A q : Op(q)' = Op(q) /\ Issues(q)' = Issues(q)
    BY Moves DEF Op, Issues
  <1>1. ASSUME NEW r \in Requests, AccountStep(r), Only(r), Op(r) \in AccountOps, cut' = cut,
               pc[r] \notin Terminal
        PROVE  KeysInv'
    BY <1>0, <1>1, KeySteps, KeyMoves
  <1>2. ASSUME /\ UNCHANGED <<wallets, unlucky, halfRotated>> /\ IsConnection(paywall)'
               /\ paywall'.saved = paywall.saved
               /\ \/ paywall'.data = paywall.data
                  \/ /\ paywall'.data = paywall.saved
                     /\ \A q \in Requests : ~Running(q)'
               /\ \A q \in Requests : Op(q) \in AccountOps =>
                     \/ pc'[q] = pc[q] /\ cut'[q] = cut[q]
                     \/ pc[q] = "new" /\ pc'[q] = "429" /\ cut'[q] = cut[q]
                     \/ Running(q) /\ pc'[q] \in {"504", "lost"} /\ cut'[q] = pc[q]
        PROVE  KeysInv'
    <2> USE DEF KeysInv
    <2>1. KeyRows'
      BY <1>0, <1>2 DEF KeyRows, Issued
    <2>2. AccountPlaces'
      BY <1>0, <1>2 DEF AccountPlaces, Terminal
    <2>3. \A k : Revoking(k) => Revoking(k)'
      BY <1>0, <1>2 DEF Revoking, AccountOps, Terminal
    <2>4. Told'
      BY <1>0, <1>2, <2>3 DEF Told, Works, Issues, AccountOps, Running, Terminal
    <2>5. \A a : Stuck(a) => Stuck(a)'
      BY <1>0, <1>2 DEF Stuck, AccountOps, CutStays, Frame, Running, Terminal
    <2>6. \A a, places : places \subseteq {"commitRevoke", "insertKey", "commitKey"}
              /\ Changing(a, places) => Changing(a, places)' \/ Stuck(a)'
      BY <1>0, <1>2 DEF Changing, Stuck, AccountOps
    <2>7. FileKeys'
      BY <1>2, <2>5, <2>6 DEF FileKeys, LiveIn
    <2>8. CASE paywall'.data = paywall.data
      BY <1>2, <2>1, <2>2, <2>4, <2>5, <2>6, <2>7, <2>8 DEF ReadKeys, LiveIn
    <2>9. CASE paywall'.data = paywall.saved /\ \A q \in Requests : ~Running(q)'
      <3>1. \A a : ~Changing(a, {"commitRevoke", "insertKey", "commitKey"})'
        BY <2>9 DEF Changing, Running, Terminal
      <3>2. ReadKeys'
        BY <1>2, <2>7, <2>9, <3>1 DEF ReadKeys, FileKeys
      <3> QED
        BY <2>1, <2>2, <2>4, <2>7, <3>2
    <2> QED
      BY <1>2, <2>8, <2>9
  <1>3. ASSUME UNCHANGED accountVars, NEW r \in Requests, Cut(r) \/ Barred(r) PROVE KeysInv'
    BY <1>2, <1>3 DEF Cut, Barred, Frame, Placed, accountVars, KeysInv, KeyRows
  <1>4. CASE AccountCrash /\ Fallen
    BY <1>2, <1>4 DEF Fallen, AccountCrash, Crash, Connected, IsConnection, Running, Terminal
  <1>5. CASE (\E k \in grace : GraceOver(k)) /\ UNCHANGED <<pc, cut>>
    BY <1>2, <1>5 DEF GraceOver, KeysInv, KeyRows
  <1>6. CASE UNCHANGED accountVars /\ Unmoved(AccountOps)
    BY <1>2, <1>6 DEF Unmoved, accountVars, KeysInv, KeyRows
  <1> QED
    BY <1>1, <1>3, <1>4, <1>5, <1>6, AccountTurns

\* Who is about to store a public key knows of nobody else who is, nor of a key
\* that an agent has bound, unless two bindings are at a time.
Storing(a, r) == r \in Requests /\ Op(r) \in AccountOps /\ job[r].account = a /\ pc[r] = "storeIdentity"
Binds(a, r) == r \in Requests /\ Op(r) = "bindKey" /\ job[r].account = a
BindInv ==
    /\ publicKey = [a \in Accounts |-> publicKey[a]]
    /\ \A a : \A p, q : Storing(a, p) /\ Storing(a, q) /\ p # q => a \in rebound
    /\ \A a, r : Binds(a, r) /\ pc[r] = "done" =>
          \/ a \in rebound \/ \E q : Binds(a, q) /\ q # r
          \/ publicKey[a] = job[r].public /\ \A q : ~Storing(a, q)

LEMMA BindStart == Init => BindInv
  BY DEF Init, TaskInit, AccountInit, BindInv, Storing, Binds, AccountOps

LEMMA BindKept == Frame /\ BindInv /\ [Next]_vars => BindInv'
  <1> SUFFICES ASSUME Frame, BindInv, [Next]_vars PROVE BindInv'
    OBVIOUS
  <1>0. job' = job /\ \A q : Op(q)' = Op(q) /\ \A a : Binds(a, q)' = Binds(a, q)
    BY Moves DEF Op, Binds
  <1>1. ASSUME NEW r \in Requests, AccountStep(r), Only(r), Op(r) \in AccountOps, cut' = cut,
               pc[r] \notin Terminal
        PROVE  BindInv'
    <2> DEFINE a == job[r].account
    <2>0. /\ \A q \in Requests \ {r} : pc'[q] = pc[q]
          /\ \A b : \A q : q # r => Storing(b, q)' = Storing(b, q)
          /\ a \in Accounts /\ pc = [q \in Requests |-> pc[q]]
          /\ \A b : Storing(b, r)' <=> b = a /\ pc'[r] = "storeIdentity"
      BY <1>0, <1>1, AccountConstants DEF Only, Storing, Frame, Placed, Op, AccountOps
    <2>1. CASE LookupIdentity(r) \/ OfferKey(r)
      <3>1. /\ publicKey' = publicKey /\ rebound \subseteq rebound'
            /\ (\E q : q # r /\ Storing(a, q)) => a \in rebound'
            /\ pc'[r] = "storeIdentity" =>
                  \/ publicKey[a] = Unbound
                  \/ Op(r) = "bindKey"
            /\ Op(r) = "bindKey" => pc'[r] \in {"storeIdentity", "done"}
            /\ Op(r) = "bindKey" /\ pc'[r] = "done" => publicKey[a] = job[r].public
        BY <2>0, <2>1 DEF LookupIdentity, OfferKey, Rebind, Binding, Storing, Bound, At, Go, Issues
      <3>2. \A b : \A p, q : Storing(b, p)' /\ Storing(b, q)' /\ p # q => b \in rebound'
        BY <2>0, <3>1 DEF BindInv
      <3>3. ASSUME NEW b, NEW p, Binds(b, p), pc'[p] = "done", b \notin rebound',
                   ~\E q : Binds(b, q) /\ q # p
            PROVE  publicKey[b] = job[p].public /\ \A q : ~Storing(b, q)'
        <4>1. CASE p = r
          BY <2>0, <3>1, <3>3, <4>1 DEF Binds, Storing
        <4>2. CASE p # r
          <5>1. publicKey[b] = job[p].public /\ publicKey[b] # Unbound
                /\ \A q : ~Storing(b, q)
            <6>1. pc[p] = "done" /\ b \notin rebound
              BY <2>0, <3>1, <3>3, <4>2 DEF Binds
            <6>2. publicKey[b] = job[p].public /\ \A q : ~Storing(b, q)
              BY <3>3, <6>1 DEF BindInv
            <6>3. job[p].public # Unbound
              BY <3>3, AccountConstants DEF Binds, Frame, Op
            <6> QED
              BY <6>2, <6>3
          <5>2. Storing(b, r)' => FALSE
            BY <1>1, <2>0, <3>1, <3>3, <4>2, <5>1 DEF Binds
          <5> QED
            BY <2>0, <5>1, <5>2
        <4> QED
          BY <4>1, <4>2
      <3>4. publicKey' = [b \in Accounts |-> publicKey'[b]]
        BY <3>1 DEF BindInv
      <3> QED
        BY <1>0, <3>1, <3>2, <3>3, <3>4 DEF BindInv
    <2>2. CASE StoreIdentity(r)
      <3>1. /\ publicKey' = [publicKey EXCEPT ![a] = IF Op(r) = "bindKey" THEN job[r].public ELSE r]
            /\ rebound' = rebound /\ Storing(a, r)
            /\ pc'[r] # "storeIdentity"
        BY <1>1, <2>0, <2>2 DEF StoreIdentity, Storing, Bound, Go
      <3>2. \A b : \A p, q : Storing(b, p)' /\ Storing(b, q)' /\ p # q => b \in rebound'
        BY <2>0, <3>1 DEF BindInv
      <3>3. ASSUME NEW b, NEW p, Binds(b, p), pc'[p] = "done", b \notin rebound',
                   ~\E q : Binds(b, q) /\ q # p
            PROVE  publicKey'[b] = job[p].public /\ \A q : ~Storing(b, q)'
        <4>1. CASE p = r
          <5>1. b = a /\ Op(r) = "bindKey"
            BY <3>3, <4>1 DEF Binds
          <5>2. publicKey'[b] = job[p].public
            BY <2>0, <3>1, <4>1, <5>1 DEF BindInv
          <5>3. \A q : ~Storing(b, q)'
            BY <2>0, <3>1, <3>3, <5>1 DEF BindInv
          <5> QED
            BY <5>2, <5>3
        <4>2. CASE p # r
          <5>1. publicKey[b] = job[p].public /\ \A q : ~Storing(b, q)
            BY <2>0, <3>1, <3>3, <4>2 DEF BindInv, Binds
          <5>2. b # a
            BY <3>1, <5>1
          <5>3. publicKey'[b] = publicKey[b]
            BY <3>1, <5>2 DEF BindInv
          <5> QED
            BY <2>0, <3>1, <5>1, <5>3
        <4> QED
          BY <4>1, <4>2
      <3>4. publicKey' = [b \in Accounts |-> publicKey'[b]]
        BY <3>1 DEF BindInv
      <3> QED
        BY <1>0, <3>2, <3>3, <3>4 DEF BindInv
    <2>3. CASE UNCHANGED <<publicKey, rebound>> /\ pc'[r] # "storeIdentity"
               /\ (Op(r) = "bindKey" => pc'[r] # "done")
      <3>1. \A b : \A q : Storing(b, q)' => Storing(b, q)
        BY <2>0, <2>3
      <3>2. \A b : \A q : Binds(b, q) /\ pc'[q] = "done" => pc[q] = "done"
        BY <2>0, <2>3 DEF Binds
      <3> QED
        BY <1>0, <2>3, <3>1, <3>2 DEF BindInv
    <2>4. ASSUME ~LookupIdentity(r), ~OfferKey(r), ~StoreIdentity(r)
          PROVE  UNCHANGED <<publicKey, rebound>> /\ pc'[r] # "storeIdentity"
                 /\ (Op(r) = "bindKey" => pc'[r] # "done")
      <3> USE <2>0, <2>4 DEF At, Go, Issues
      <3>1. CASE CreateWallet(r) \/ RequestKey(r) \/ ValidateKey(r) \/ ListKeys(r) \/ BeginRotation(r)
        BY <3>1 DEF CreateWallet, RequestKey, ValidateKey, ListKeys, BeginRotation, accountVars
      <3>2. CASE RevokeKey(r) \/ InsertKey(r)
        BY <3>2 DEF RevokeKey, InsertKey, Abort
      <3>3. CASE CommitRevoke(r) \/ CommitKey(r) \/ CommitRotation(r)
        BY <3>3 DEF CommitRevoke, CommitKey, CommitRotation
      <3> QED
        BY <1>1, <3>1, <3>2, <3>3 DEF AccountStep
    <2> QED
      BY <2>1, <2>2, <2>3, <2>4
  <1>2. ASSUME /\ UNCHANGED <<publicKey, rebound>>
               /\ \A q \in Requests : Op(q) \in AccountOps =>
                     \/ pc'[q] = pc[q]
                     \/ pc'[q] \in {"429", "504", "lost"}
        PROVE  BindInv'
    <2>1. \A b : \A q : Storing(b, q)' => Storing(b, q)
      BY <1>0, <1>2 DEF Storing
    <2>2. \A b : \A q : Binds(b, q) /\ pc'[q] = "done" => pc[q] = "done"
      BY <1>2 DEF Binds, AccountOps
    <2> QED
      BY <1>0, <1>2, <2>1, <2>2 DEF BindInv
  <1>3. ASSUME UNCHANGED accountVars, NEW r \in Requests, Cut(r) \/ Barred(r) PROVE BindInv'
    BY <1>2, <1>3 DEF Cut, Barred, Frame, Placed, accountVars
  <1>4. CASE AccountCrash /\ Fallen
    BY <1>2, <1>4 DEF Fallen, AccountCrash
  <1>5. CASE (\E k \in grace : GraceOver(k)) /\ UNCHANGED <<pc, cut>>
    BY <1>2, <1>5 DEF GraceOver
  <1>6. CASE UNCHANGED accountVars /\ Unmoved(AccountOps)
    BY <1>2, <1>6 DEF Unmoved, accountVars
  <1> QED
    BY <1>1, <1>3, <1>4, <1>5, <1>6, AccountTurns

LEMMA AccountMeans == Frame /\ KeysInv /\ BindInv => AccountsUsable
  <1> SUFFICES ASSUME Frame, KeysInv, BindInv PROVE AccountsUsable
    OBVIOUS
  <1>1. HandedOut
    BY DEF KeysInv, Told, Works, Revoking, HandedOut
  <1>2. AlwaysKeyed
    <2>1. ASSUME NEW a, Stuck(a) PROVE Keyless(a) \/ unlucky # {}
      BY <2>1 DEF Stuck, Keyless
    <2>2. ASSUME NEW a, Changing(a, {"commitRevoke", "insertKey", "commitKey"}) PROVE Keyless(a)
      BY <2>2 DEF Changing, Keyless, Running, Terminal
    <2> QED
      BY <2>1, <2>2 DEF KeysInv, FileKeys, AlwaysKeyed
  <1>3. KeyPairKept
    BY DEF BindInv, Binds, KeyPairKept
  <1> QED
    BY <1>1, <1>2, <1>3 DEF AccountsUsable

-----------------------------------------------------------------------------
(***************************************************************************)
(* Organisations.                                                          *)
(***************************************************************************)

\* What may happen to an organisation.
LEMMA OrgTurns ==
    ASSUME Frame, [Next]_vars
    PROVE  \/ \E r \in Requests : /\ OrgStep(r) /\ Only(r) /\ Op(r) \in OrgOps
                                  /\ pc[r] \notin Terminal
           \/ UNCHANGED orgVars /\ \E r \in Requests : Cut(r) \/ Barred(r)
           \/ OrgCrash /\ Fallen
           \/ UNCHANGED orgVars /\ Unmoved(OrgOps)
  <1>1. ASSUME NEW r \in Requests, Step(r), Only(r), cut' = cut, Apart(r)
        PROVE  \/ OrgStep(r) /\ Op(r) \in OrgOps /\ pc[r] \notin Terminal
               \/ UNCHANGED orgVars /\ Unmoved(OrgOps)
    BY <1>1, OrgOnly DEF Apart, Only, Unmoved
  <1>2. ASSUME NEW r \in Requests, Cancelled(r) \/ Calling(r) PROVE UNCHANGED orgVars
    BY <1>2 DEF Cancelled, Calling, people
  <1>3. ASSUME NEW t \in Tasks, Send(t) PROVE UNCHANGED orgVars
    BY <1>3 DEF Send, people
  <1>4. ASSUME Tick PROVE UNCHANGED orgVars
    BY <1>4 DEF Tick, people
  <1>5. ASSUME Died PROVE OrgCrash
    BY <1>5 DEF Died
  <1>6. ASSUME UNCHANGED vars PROVE UNCHANGED orgVars /\ UNCHANGED <<pc, cut>>
    BY <1>6 DEF vars, tasks, people
  <1>7. UNCHANGED <<pc, cut>> => Unmoved(OrgOps)
    BY DEF Unmoved
  <1> QED
    BY <1>1, <1>2, <1>3, <1>4, <1>5, <1>6, <1>7, Moves

IsTables(t) == t \in [orgs : {t.orgs}, members : {t.members}, home : {t.home}]
In(tables, r) == \E m \in tables.members : m.org = job[r].org /\ m.agent = job[r].agent
Undone(r, op) == \E q \in Requests : Op(q) = op /\ SameMember(q, r) /\ pc[q] # "new"

\* An organisation that has no owner was founded without one, is about to have
\* one, was cut short, or was contested.
Founding(org, places) == \E r \in Requests :
    /\ Op(r) = "createOrg" /\ job[r].org = org
    /\ job[r].agent = NoAgent \/ pc[r] \in {"429", "504", "lost"} \cup places
Owned(tables, places) == \A org \in tables.orgs :
    OwnersIn(tables, org) # {} \/ Founding(org, places) \/ Contested(org)
\* Nobody is a member before the founder, and who adds or removes somebody was
\* told the id.
Young == \A r \in Requests : Op(r) = "createOrg" /\ pc[r] \in {"new", "owner"} =>
    \A m \in identity.data.members \cup identity.saved.members : m.org # job[r].org
Addressed == \A r \in Requests :
    \/ Op(r) = "addMember" /\ pc[r] = "member"
    \/ Op(r) = "removeMember" /\ pc[r] \in {"owners", "delete", "commit", "done"}
    => Known(job[r].org)
\* A removal that is about to delete leaves an owner, unless it was overtaken.
Leaving == \A r \in Requests : Op(r) = "removeMember" /\ pc[r] = "delete" =>
    LET owners == OwnersIn(identity.data, job[r].org) IN
    r \in overtaken \/ job[r].agent \notin owners \/ owners \ {job[r].agent} # {}
\* What was answered is in the file, and what will be is read.
Written == \A r \in Requests :
    /\ Op(r) = "addMember" =>
          /\ pc[r] = "commit" => In(identity.data, r) \/ Undone(r, "removeMember")
          /\ pc[r] = "done" => \/ In(identity.data, r) /\ In(identity.saved, r)
                               \/ Undone(r, "removeMember")
    /\ Op(r) = "removeMember" =>
          /\ pc[r] = "commit" => ~In(identity.data, r) \/ Undone(r, "addMember")
          /\ pc[r] = "done" => \/ ~In(identity.data, r) /\ ~In(identity.saved, r)
                               \/ Undone(r, "addMember")
OrgInv ==
    /\ IsConnection(identity) /\ IsTables(identity.data) /\ IsTables(identity.saved)
    /\ overtaken \subseteq Requests
    /\ Owned(identity.data, {"owner"}) /\ Owned(identity.saved, {"owner", "commit"})
    /\ Young /\ Addressed /\ Leaving /\ Written

LEMMA OrgStart == Init => OrgInv
  <1> SUFFICES ASSUME Init PROVE OrgInv
    OBVIOUS
  <1> DEFINE founder == [org |-> FirstOrg, agent |-> Founder, role |-> "owner"]
             tables == [orgs |-> {FirstOrg}, members |-> {founder},
                        home |-> [a \in Agents |-> "none"]]
  <1>1. /\ IsConnection(identity) /\ identity.data = tables /\ identity.saved = tables
        /\ overtaken = {}
    BY DEF Init, OrgInit, Connected, IsConnection
  <1>2. \A r \in Requests : Op(r) \in OrgOps => pc[r] = "new"
    BY DEF Init, TaskInit, OrgOps
  <1>3. IsTables(tables)
    BY DEF IsTables
  <1>4. founder.agent \in OwnersIn(tables, FirstOrg)
    BY DEF OwnersIn
  <1>5. Owned(identity.data, {"owner"}) /\ Owned(identity.saved, {"owner", "commit"})
    BY <1>1, <1>4 DEF Owned
  <1>6. Young
    BY <1>1, OrgConstants, FrameInit DEF Young, Frame, Op
  <1>7. Addressed /\ Leaving /\ Written
    BY <1>2 DEF Addressed, Leaving, Written, OrgOps
  <1> HIDE DEF tables
  <1> QED
    BY <1>1, <1>3, <1>5, <1>6, <1>7 DEF OrgInv

\* What the steps of the organisations write.
Seats == identity.data.members
SavedOrgs == identity'.saved = identity.saved /\ IsTables(identity.data)'
Rests(r) ==
    /\ SavedOrgs /\ overtaken' = overtaken
    /\ Seats' = Seats /\ identity'.data.orgs = identity.data.orgs
    /\ \/ Op(r) \in {"addMember", "removeMember"} /\ pc'[r] = "rejected"
       \/ Op(r) = "addMember" /\ pc[r] = "new" /\ pc'[r] = "member" /\ Known(job[r].org)
       \/ /\ Op(r) = "removeMember" /\ pc[r] = "new" /\ Known(job[r].org)
          /\ \/ pc'[r] = "owners"
             \/ pc'[r] = "delete" /\ \A m \in Membership(r) : m.role # "owner"
       \/ /\ Op(r) = "removeMember" /\ pc[r] = "owners" /\ pc'[r] = "delete"
          /\ ~(Cardinality(OwnersIn(identity.data, job[r].org)) <= 1)
Founds(r) ==
    /\ Op(r) = "createOrg" /\ pc[r] = "new" /\ SavedOrgs /\ overtaken' = overtaken
    /\ pc'[r] = IF job[r].agent = NoAgent THEN "commit" ELSE "owner"
    /\ Seats' = Seats /\ identity'.data.orgs = identity.data.orgs \cup {job[r].org}
Enters(r, role) ==
    /\ SavedOrgs /\ identity'.data.orgs = identity.data.orgs /\ pc'[r] = "commit"
    /\ Seats' = IF Membership(r) # {} THEN Seats
                ELSE Seats \cup {[org |-> job[r].org, agent |-> job[r].agent, role |-> role]}
Owns(r) == Op(r) = "createOrg" /\ pc[r] = "owner" /\ Enters(r, "owner") /\ overtaken' = overtaken
Joins(r) == /\ Op(r) = "addMember" /\ pc[r] = "member" /\ Enters(r, job[r].role)
            /\ overtaken' = overtaken \cup Deciding(r)
Leaves(r) ==
    /\ Op(r) = "removeMember" /\ pc[r] = "delete" /\ pc'[r] = "commit"
    /\ SavedOrgs /\ identity'.data.orgs = identity.data.orgs
    /\ Seats' = Seats \ Membership(r) /\ overtaken' = overtaken \cup Deciding(r)
Files(r) == /\ Op(r) \in OrgOps /\ pc[r] = "commit" /\ pc'[r] = "done"
            /\ identity'.data = identity.data /\ identity'.saved = identity.data
            /\ overtaken' = overtaken

LEMMA OrgSteps ==
    ASSUME Frame, OrgInv, job' = job, NEW r \in Requests, OrgStep(r)
    PROVE  /\ IsConnection(identity)'
           /\ Rests(r) \/ Founds(r) \/ Owns(r) \/ Joins(r) \/ Leaves(r) \/ Files(r)
  <1>0. /\ pc = [q \in Requests |-> pc[q]] /\ IsConnection(identity) /\ IsTables(identity.data)
    BY DEF Frame, Placed, OrgInv
  <1>1. ASSUME NEW t, identity' = ExecuteImplicit(identity, t), IsTables(t)
        PROVE  /\ IsConnection(identity)' /\ SavedOrgs /\ identity'.data = t
    BY <1>0, <1>1 DEF ExecuteImplicit, IsConnection, SavedOrgs, IsTables
  <1>2. ASSUME NEW orgs PROVE LET t == [orgTables EXCEPT !.orgs = orgs] IN
            IsTables(t) /\ t.orgs = orgs /\ t.members = Seats
    BY <1>0 DEF IsTables, orgTables, Seats
  <1>3. ASSUME NEW members PROVE LET t == [orgTables EXCEPT !.members = members] IN
            IsTables(t) /\ t.members = members /\ t.orgs = identity.data.orgs
    BY <1>0 DEF IsTables, orgTables
  <1>4. ASSUME NEW a, NEW o PROVE LET t == [orgTables EXCEPT !.home[a] = o] IN
            IsTables(t) /\ t.members = Seats /\ t.orgs = identity.data.orgs
    BY <1>0 DEF IsTables, orgTables, Seats
  <1>5. CASE InsertOrg(r)
    <2>1. /\ At(r, "createOrg", "new") /\ overtaken' = overtaken
          /\ identity' = ExecuteImplicit(identity,
                             [orgTables EXCEPT !.orgs = identity.data.orgs \cup {job[r].org}])
          /\ pc'[r] = IF job[r].agent = NoAgent THEN "commit" ELSE "owner"
      BY <1>0, <1>5 DEF InsertOrg, Go, orgTables
    <2> DEFINE t == [orgTables EXCEPT !.orgs = identity.data.orgs \cup {job[r].org}]
    <2>2. IsTables(t) /\ t.orgs = identity.data.orgs \cup {job[r].org} /\ t.members = Seats
      BY <1>2
    <2> HIDE DEF t
    <2>3. IsConnection(identity)' /\ SavedOrgs /\ identity'.data = t
      BY <1>1, <2>1, <2>2 DEF t
    <2> QED
      BY <2>1, <2>2, <2>3 DEF Founds, At, Seats
  <1>6. ASSUME NEW role, identity' = ExecuteImplicit(identity, Joined(r, role)), pc'[r] = "commit"
        PROVE  IsConnection(identity)' /\ Enters(r, role)
    <2>1. CASE Membership(r) # {}
      BY <1>0, <1>1, <1>6, <2>1 DEF Joined, Enters, Seats, orgTables
    <2>2. CASE Membership(r) = {}
      <3> DEFINE seats == Seats \cup {[org |-> job[r].org, agent |-> job[r].agent, role |-> role]}
                 t == [orgTables EXCEPT !.members = seats]
      <3>1. identity' = ExecuteImplicit(identity, t)
        BY <1>6, <2>2 DEF Joined, Seats, orgTables
      <3>2. IsTables(t) /\ t.members = seats /\ t.orgs = identity.data.orgs
        BY <1>3
      <3> HIDE DEF t
      <3>3. IsConnection(identity)' /\ SavedOrgs /\ identity'.data = t
        BY <1>1, <3>1, <3>2
      <3> QED
        BY <1>6, <2>2, <3>2, <3>3 DEF Enters, Seats
    <2> QED
      BY <2>1, <2>2
  <1>7. CASE InsertOwner(r)
    BY <1>0, <1>6, <1>7 DEF InsertOwner, Owns, At, Go
  <1>8. CASE InsertMember(r)
    BY <1>0, <1>6, <1>8 DEF InsertMember, Joins, At, Go
  <1>9. CASE SetOrg(r)
    <2>1. CASE job[r].org \in orgTables.orgs /\ Known(job[r].org)
      <3> DEFINE t == [orgTables EXCEPT !.home[job[r].agent] = job[r].org]
      <3>1. IsTables(t) /\ t.members = Seats /\ t.orgs = identity.data.orgs
        BY <1>4
      <3>2. /\ identity' = ExecuteImplicit(identity, t) /\ overtaken' = overtaken
            /\ Op(r) = "addMember" /\ pc[r] = "new" /\ pc'[r] = "member"
        BY <1>0, <1>9, <2>1 DEF SetOrg, At, Go
      <3> HIDE DEF t
      <3>3. IsConnection(identity)' /\ SavedOrgs /\ identity'.data = t
        BY <1>1, <3>1, <3>2
      <3> QED
        BY <2>1, <3>1, <3>2, <3>3 DEF Rests, Seats
    <2>2. CASE ~(job[r].org \in orgTables.orgs /\ Known(job[r].org))
      BY <1>0, <1>9, <2>2 DEF SetOrg, Rests, At, Go, SavedOrgs, IsConnection, IsTables, Seats
    <2> QED
      BY <2>1, <2>2
  <1>10. CASE ReadRole(r) \/ CountOwners(r)
    <2>1. /\ IsConnection(identity)' /\ SavedOrgs /\ UNCHANGED <<identity, overtaken>>
      BY <1>0, <1>10 DEF ReadRole, CountOwners, orgVars, SavedOrgs, IsConnection, IsTables
    <2>2. CASE ReadRole(r)
      <3>1. Op(r) = "removeMember" /\ pc[r] = "new"
        BY <2>2 DEF ReadRole, At
      <3>2. \/ pc'[r] = "rejected"
            \/ /\ Known(job[r].org)
               /\ \/ pc'[r] = "owners"
                  \/ pc'[r] = "delete" /\ \A m \in Membership(r) : m.role # "owner"
        <4> DEFINE owner == \E m \in Membership(r) : m.role = "owner"
        <4>1. CASE Membership(r) = {} \/ ~Known(job[r].org)
          BY <1>0, <2>2, <4>1 DEF ReadRole, Go
        <4>2. CASE ~(Membership(r) = {} \/ ~Known(job[r].org)) /\ owner
          BY <1>0, <2>2, <4>2 DEF ReadRole, Go
        <4>3. CASE ~(Membership(r) = {} \/ ~Known(job[r].org)) /\ ~owner
          BY <1>0, <2>2, <4>3 DEF ReadRole, Go
        <4> QED
          BY <4>1, <4>2, <4>3
      <3> QED
        BY <2>1, <3>1, <3>2 DEF Rests, Seats
    <2>3. CASE CountOwners(r)
      <3> DEFINE few == Cardinality(OwnersIn(identity.data, job[r].org)) <= 1
      <3>1. /\ Op(r) = "removeMember" /\ pc[r] = "owners"
            /\ Go(r, IF few THEN "rejected" ELSE "delete")
        BY <2>3, Zenon DEF CountOwners, At, orgTables
      <3>2. ~few => ~(Cardinality(OwnersIn(identity.data, job[r].org)) <= 1)
        OBVIOUS
      <3> HIDE DEF few
      <3>3. pc'[r] = "rejected" \/ (pc'[r] = "delete" /\ ~few)
        BY <1>0, <3>1 DEF Go
      <3> QED
        BY <2>1, <3>1, <3>2, <3>3, Zenon DEF Rests, Seats
    <2> QED
      BY <1>10, <2>2, <2>3
  <1>11. CASE DeleteMember(r)
    <2>1. identity' = ExecuteImplicit(identity, [orgTables EXCEPT !.members = Seats \ Membership(r)])
      BY <1>0, <1>11 DEF DeleteMember, Seats, orgTables
    <2> DEFINE t == [orgTables EXCEPT !.members = Seats \ Membership(r)]
    <2>2. IsTables(t) /\ t.members = Seats \ Membership(r) /\ t.orgs = identity.data.orgs
      BY <1>3
    <2> HIDE DEF t
    <2>3. IsConnection(identity)' /\ SavedOrgs /\ identity'.data = t
      BY <1>1, <2>1, <2>2 DEF t
    <2> QED
      BY <1>0, <1>11, <2>2, <2>3 DEF DeleteMember, Leaves, At, Go, Seats
  <1>12. CASE CommitOrg(r)
    BY <1>0, <1>12 DEF CommitOrg, Files, OrgOps, Go, Commit, Connected, IsConnection
  <1> QED
    BY <1>5, <1>7, <1>8, <1>9, <1>10, <1>11, <1>12 DEF OrgStep

LEMMA NotAlone == ASSUME NEW S, NEW a, ~(Cardinality(S) <= 1) PROVE S \ {a} # {}
  <1>1. Cardinality({}) = 0 /\ Cardinality({a}) = 1
    BY FS_EmptySet, FS_Singleton
  <1>2. S \ {a} = {} => S = {} \/ S = {a}
    OBVIOUS
  <1> QED
    BY <1>1, <1>2

\* What the steps make of the owners, and of who is a member.
LEMMA OrgMoves ==
    ASSUME Frame, OrgInv, job' = job, NEW r \in Requests, Only(r), Op(r) \in OrgOps,
           pc[r] \notin Terminal, IsConnection(identity)',
           Rests(r) \/ Founds(r) \/ Owns(r) \/ Joins(r) \/ Leaves(r) \/ Files(r)
    PROVE  OrgInv'
  <1>0. /\ \A q \in Requests \ {r} : pc'[q] = pc[q]
        /\ \A q : Op(q)' = Op(q) /\ \A p : SameMember(p, q)' = SameMember(p, q)
        /\ IsTables(identity.data) /\ IsTables(identity.saved) /\ overtaken \subseteq Requests
        /\ Owned(identity.data, {"owner"}) /\ Owned(identity.saved, {"owner", "commit"})
        /\ Young /\ Addressed /\ Leaving /\ Written
    BY DEF Only, Op, SameMember, OrgInv
  <1>1. /\ pc'[r] \notin {"new", "429", "504", "lost"}
        /\ overtaken \subseteq overtaken' /\ overtaken' \subseteq Requests
    BY <1>0 DEF Rests, Founds, Owns, Joins, Leaves, Files, Enters, Deciding
  <1>2. /\ \A org : Known(org) => Known(org)'
        /\ \A org : Contested(org) => Contested(org)'
        /\ \A q, op : Undone(q, op) => Undone(q, op)'
    <2>1. \A org : Known(org) => Known(org)'
      BY <1>0 DEF Known, Answered, Terminal
    <2>2. \A org : Contested(org) => Contested(org)'
      BY <1>1 DEF Contested
    <2>3. \A q, op : Undone(q, op) => Undone(q, op)'
      BY <1>0, <1>1 DEF Undone
    <2> QED
      BY <2>1, <2>2, <2>3
  <1>3. IsTables(identity.data)' /\ IsTables(identity.saved)'
    BY <1>0 DEF Rests, Founds, Owns, Joins, Leaves, Files, Enters, SavedOrgs
  <1>4. Addressed'
    BY <1>0, <1>2 DEF Addressed, Rests, Founds, Owns, Joins, Leaves, Files, Enters
  \* Nobody else adds to an organisation that has no founder yet.
  <1>5. ASSUME NEW q \in Requests, Op(q) = "createOrg", pc[q] \in {"new", "owner"}, Known(job[q].org)
        PROVE  FALSE
    BY <1>5, OrgConstants DEF Known, Answered, Frame, Op
  <1>6. \A q \in Requests : Op(q) = "createOrg" /\ pc'[q] \in {"new", "owner"} =>
            pc[q] \in {"new", "owner"}
    BY <1>0, <1>1 DEF Rests, Founds, Owns, Joins, Leaves, Files, Enters
  <1>7. \A org, tables : OwnersIn(tables, org) =
            {m.agent : m \in {x \in tables.members : x.org = org /\ x.role = "owner"}}
    BY DEF OwnersIn
  <1>8. CASE Rests(r) \/ Founds(r)
    <2>1. /\ Seats' = Seats /\ identity'.saved = identity.saved /\ overtaken' = overtaken
          /\ pc'[r] \notin {"commit", "done"} \/ (Op(r) = "createOrg" /\ Founds(r))
      BY <1>8 DEF Rests, Founds, SavedOrgs
    <2>2. \A org : OwnersIn(identity.data, org)' = OwnersIn(identity.data, org)
      BY <2>1 DEF OwnersIn, Seats
    <2>3. \A q : In(identity.data, q)' = In(identity.data, q)
                 /\ In(identity.saved, q)' = In(identity.saved, q)
      BY <2>1 DEF In, Seats
    <2>4. Young'
      BY <1>0, <1>6, <2>1 DEF Young, Seats
    <2>5. Leaving'
      <3>1. ASSUME Op(r) = "removeMember", pc'[r] = "delete"
            PROVE  \/ job[r].agent \notin OwnersIn(identity.data, job[r].org)
                   \/ OwnersIn(identity.data, job[r].org) \ {job[r].agent} # {}
        <4>1. CASE pc[r] = "new"
          <5>1. \A m \in Membership(r) : m.role # "owner"
            BY <1>8, <3>1, <4>1 DEF Rests, Founds
          <5> QED
            BY <5>1 DEF OwnersIn, Membership, orgTables
        <4>2. CASE pc[r] # "new"
          <5>1. ~(Cardinality(OwnersIn(identity.data, job[r].org)) <= 1)
            BY <1>8, <3>1, <4>2 DEF Rests, Founds
          <5> QED
            BY <5>1, NotAlone
        <4> QED
          BY <4>1, <4>2
      <3> QED
        BY <1>0, <2>1, <2>2, <3>1 DEF Leaving
    <2>6. Written'
      BY <1>0, <1>2, <2>1, <2>3 DEF Written, Founds
    <2>7. \A org : /\ Founding(org, {"owner"}) => Founding(org, {"owner"})'
                   /\ Founding(org, {"owner", "commit"}) => Founding(org, {"owner", "commit"})'
      BY <1>0, <1>8 DEF Founding, Rests, Founds, Terminal
    <2>8. Owned(identity.saved, {"owner", "commit"})'
      BY <1>0, <1>2, <2>1, <2>7 DEF Owned, OwnersIn
    <2>9. Owned(identity.data, {"owner"})'
      <3>1. CASE Rests(r)
        BY <1>0, <1>2, <2>2, <2>7, <3>1 DEF Owned, Rests
      <3>2. CASE Founds(r)
        <4>1. Founding(job[r].org, {"owner"})'
          BY <1>0, <3>2 DEF Founding, Founds
        <4> QED
          BY <1>0, <1>2, <2>2, <2>7, <3>2, <4>1 DEF Owned, Founds
      <3> QED
        BY <1>8, <3>1, <3>2
    <2> QED
      BY <1>1, <1>3, <1>4, <2>4, <2>5, <2>6, <2>8, <2>9 DEF OrgInv
  <1>9. CASE Owns(r) \/ Joins(r)
    <2> DEFINE role == IF Owns(r) THEN "owner" ELSE job[r].role
               row == [org |-> job[r].org, agent |-> job[r].agent, role |-> role]
    <2>1. /\ Enters(r, role) /\ identity'.saved = identity.saved /\ pc'[r] = "commit"
          /\ identity'.data.orgs = identity.data.orgs
          /\ Op(r) \in {"createOrg", "addMember"}
      BY <1>9 DEF Owns, Joins, Enters, SavedOrgs
    <2>2. /\ Seats' = Seats \/ Seats' = Seats \cup {row}
          /\ Seats \subseteq Seats'
          /\ row.org = job[r].org /\ row.agent = job[r].agent
      BY <2>1 DEF Enters
    <2>3. In(identity.data, r)'
      BY <1>0, <2>1, <2>2 DEF Enters, In, Membership, orgTables, Seats
    <2>4. \A q : In(identity.saved, q)' = In(identity.saved, q)
      BY <2>1 DEF In
    <2>5. ASSUME NEW q, In(identity.data, q)'
          PROVE  In(identity.data, q) \/ SameMember(r, q)
      BY <2>2, <2>5 DEF In, SameMember, Seats
    <2>6. \A q : In(identity.data, q) => In(identity.data, q)'
      BY <2>2 DEF In, Seats
    <2>7. Young'
      <3>1. ASSUME NEW q \in Requests, Op(q) = "createOrg", pc'[q] \in {"new", "owner"}
            PROVE  job[q].org # job[r].org
        <4>1. CASE Owns(r)
          BY <1>0, <2>1, <3>1, <4>1, OrgConstants DEF Owns, Frame, Op
        <4>2. CASE Joins(r)
          BY <1>0, <1>5, <1>6, <3>1, <4>2 DEF Joins, Addressed
        <4> QED
          BY <1>9, <4>1, <4>2
      <3> QED
        BY <1>0, <1>6, <2>1, <2>2, <3>1 DEF Young, Seats
    <2>8. \A org : OwnersIn(identity.data, org) \subseteq OwnersIn(identity.data, org)'
      BY <2>2 DEF OwnersIn, Seats
    <2>9. Leaving'
      <3>1. ASSUME NEW q \in Requests, Op(q) = "removeMember", pc'[q] = "delete", q \notin overtaken'
            PROVE  OwnersIn(identity.data, job[q].org)' = OwnersIn(identity.data, job[q].org)
        <4>1. q # r /\ pc[q] = "delete"
          BY <1>0, <2>1, <3>1
        <4>2. job[q].org # job[r].org
          <5>1. CASE Owns(r)
            BY <1>0, <1>5, <3>1, <4>1, <5>1 DEF Owns, Addressed
          <5>2. CASE Joins(r)
            BY <3>1, <4>1, <5>2 DEF Joins, Deciding
          <5> QED
            BY <1>9, <5>1, <5>2
        <4> QED
          BY <2>2, <4>2 DEF OwnersIn, Seats
      <3>2. \A q \in Requests : Op(q) = "removeMember" /\ pc'[q] = "delete" => pc[q] = "delete"
        BY <1>0, <2>1
      <3> QED
        BY <1>0, <1>1, <3>1, <3>2 DEF Leaving
    <2>10. Written'
      <3>1. Joins(r) => \A q : SameMember(r, q) => Undone(q, "addMember")'
        BY <1>0, <2>1 DEF Joins, Undone
      <3>2. ASSUME NEW q \in Requests, Op(q) = "removeMember", pc[q] \in {"commit", "done"}, Owns(r)
            PROVE  ~SameMember(r, q)
        BY <1>0, <1>5, <3>2 DEF Owns, SameMember, Addressed
      <3>3. \A q \in Requests : Op(q) = "addMember" =>
              /\ pc'[q] = "commit" => In(identity.data, q)' \/ Undone(q, "removeMember")'
              /\ pc'[q] = "done" => \/ In(identity.data, q)' /\ In(identity.saved, q)'
                                    \/ Undone(q, "removeMember")'
        BY <1>0, <1>2, <2>1, <2>3, <2>4, <2>6 DEF Written
      <3>4. \A q \in Requests : Op(q) = "removeMember" =>
              /\ pc'[q] = "commit" => ~In(identity.data, q)' \/ Undone(q, "addMember")'
              /\ pc'[q] = "done" => \/ ~In(identity.data, q)' /\ ~In(identity.saved, q)'
                                    \/ Undone(q, "addMember")'
        BY <1>0, <1>2, <1>9, <2>1, <2>4, <2>5, <3>1, <3>2 DEF Written
      <3> QED
        BY <1>0, <3>3, <3>4 DEF Written
    <2>11. \A org : Founding(org, {"owner", "commit"}) => Founding(org, {"owner", "commit"})'
      BY <1>0, <2>1 DEF Founding, Terminal
    <2>12. \A org : Founding(org, {"owner"}) =>
               Founding(org, {"owner"})' \/ (Owns(r) /\ org = job[r].org)
      BY <1>0, <1>9, <2>1 DEF Founding, Joins
    <2>13. Owns(r) => OwnersIn(identity.data, job[r].org)' # {}
      <3>1. Owns(r) => Membership(r) = {}
        BY <1>0 DEF Owns, Young, Membership, orgTables
      <3>2. Owns(r) => row \in identity'.data.members /\ row.role = "owner"
        BY <2>1, <3>1 DEF Enters, Seats
      <3> QED
        BY <2>2, <3>2 DEF OwnersIn
    <2>14. Owned(identity.saved, {"owner", "commit"})'
      BY <1>0, <1>2, <2>1, <2>11 DEF Owned, OwnersIn
    <2>15. Owned(identity.data, {"owner"})'
      BY <1>0, <1>2, <2>1, <2>8, <2>12, <2>13 DEF Owned
    <2> QED
      BY <1>1, <1>3, <1>4, <2>7, <2>9, <2>10, <2>14, <2>15 DEF OrgInv
  <1>10. CASE Leaves(r)
    <2>1. /\ Seats' = Seats \ Membership(r) /\ identity'.saved = identity.saved
          /\ identity'.data.orgs = identity.data.orgs
          /\ Op(r) = "removeMember" /\ pc[r] = "delete" /\ pc'[r] = "commit"
          /\ overtaken' = overtaken \cup Deciding(r)
      BY <1>10 DEF Leaves, SavedOrgs
    <2>2. \A m : m \in Membership(r) <=> m \in Seats /\ m.org = job[r].org /\ m.agent = job[r].agent
      BY DEF Membership, orgTables, Seats
    <2>3. /\ \A org : org # job[r].org => OwnersIn(identity.data, org)' = OwnersIn(identity.data, org)
          /\ OwnersIn(identity.data, job[r].org) \ {job[r].agent}
                \subseteq OwnersIn(identity.data, job[r].org)'
      BY <2>1, <2>2 DEF OwnersIn, Seats
    <2>4. ~In(identity.data, r)' /\ \A q : In(identity.saved, q)' = In(identity.saved, q)
      BY <1>0, <2>1, <2>2 DEF In, Seats
    <2>5. \A q : In(identity.data, q)' => In(identity.data, q)
      BY <2>1 DEF In, Seats
    <2>6. ASSUME NEW q \in Requests, In(identity.data, q), ~In(identity.data, q)'
          PROVE  Undone(q, "removeMember")'
      <3>1. PICK m \in Seats : m.org = job[q].org /\ m.agent = job[q].agent
        BY <2>6 DEF In, Seats
      <3>2. m \in Membership(r)
        BY <2>1, <2>6, <3>1 DEF In, Seats
      <3>3. SameMember(r, q)
        BY <2>2, <3>1, <3>2 DEF SameMember
      <3> QED
        BY <1>0, <2>1, <3>3 DEF Undone
    <2>7. Young'
      BY <1>0, <1>6, <2>1 DEF Young, Seats
    <2>8. Leaving'
      <3>1. ASSUME NEW q \in Requests, Op(q) = "removeMember", pc'[q] = "delete", q \notin overtaken'
            PROVE  OwnersIn(identity.data, job[q].org)' = OwnersIn(identity.data, job[q].org)
        BY <1>0, <2>1, <2>3, <3>1 DEF Deciding
      <3>2. \A q \in Requests : Op(q) = "removeMember" /\ pc'[q] = "delete" => pc[q] = "delete"
        BY <1>0, <2>1
      <3> QED
        BY <1>0, <1>1, <3>1, <3>2 DEF Leaving
    <2>9. Written'
      BY <1>0, <1>2, <2>1, <2>4, <2>5, <2>6 DEF Written
    <2>10. \A org, places : "delete" \notin places /\ Founding(org, places) => Founding(org, places)'
      BY <1>0, <2>1 DEF Founding
    <2>11. Owned(identity.saved, {"owner", "commit"})'
      BY <1>0, <1>2, <2>1, <2>10 DEF Owned, OwnersIn
    <2>12. \/ Contested(job[r].org)' \/ OwnersIn(identity.data, job[r].org)' # {}
           \/ OwnersIn(identity.data, job[r].org) = {}
      BY <1>0, <1>2, <2>1, <2>3 DEF Leaving, Contested
    <2>13. Owned(identity.data, {"owner"})'
      BY <1>0, <1>2, <2>1, <2>3, <2>10, <2>12 DEF Owned
    <2> QED
      BY <1>1, <1>3, <1>4, <2>7, <2>8, <2>9, <2>11, <2>13 DEF OrgInv
  <1>11. CASE Files(r)
    <2>1. /\ identity'.data = identity.data /\ identity'.saved = identity.data
          /\ pc[r] = "commit" /\ pc'[r] = "done" /\ overtaken' = overtaken
      BY <1>11 DEF Files
    <2>2. Young' /\ Leaving' /\ Written'
      <3>1. Young'
        BY <1>0, <1>6, <2>1 DEF Young
      <3>2. Leaving'
        BY <1>0, <2>1 DEF Leaving
      <3>3. \A q : In(identity.data, q)' = In(identity.data, q)
                   /\ In(identity.saved, q)' = In(identity.data, q)
        BY <2>1 DEF In
      <3>4. Written'
        BY <1>0, <1>2, <2>1, <3>3 DEF Written
      <3> QED
        BY <3>1, <3>2, <3>4
    <2>3. \A org : Founding(org, {"owner"}) =>
             Founding(org, {"owner"})' /\ Founding(org, {"owner", "commit"})'
      BY <1>0, <2>1 DEF Founding
    <2>4. Owned(identity.data, {"owner"})' /\ Owned(identity.saved, {"owner", "commit"})'
      BY <1>0, <1>2, <2>1, <2>3 DEF Owned, OwnersIn
    <2> QED
      BY <1>1, <1>3, <1>4, <2>2, <2>4 DEF OrgInv
  <1> QED
    BY <1>8, <1>9, <1>10, <1>11

LEMMA OrgKept == Frame /\ OrgInv /\ [Next]_vars => OrgInv'
  <1> SUFFICES ASSUME Frame, OrgInv, [Next]_vars PROVE OrgInv'
    OBVIOUS
  <1>0. job' = job /\ \A q : Op(q)' = Op(q) /\ \A p : SameMember(p, q)' = SameMember(p, q)
    BY Moves DEF Op, SameMember
  <1>1. ASSUME NEW r \in Requests, OrgStep(r), Only(r), Op(r) \in OrgOps, pc[r] \notin Terminal
        PROVE  OrgInv'
    BY <1>0, <1>1, OrgSteps, OrgMoves
  <1>2. ASSUME /\ IsConnection(identity)' /\ identity'.saved = identity.saved /\ overtaken' = overtaken
               /\ \/ identity'.data = identity.data
                  \/ /\ identity'.data = identity.saved
                     /\ \A q \in Requests : ~Running(q)'
               /\ \A q \in Requests : Op(q) \in OrgOps =>
                     \/ pc'[q] = pc[q]
                     \/ pc[q] = "new" /\ pc'[q] = "429"
                     \/ Running(q) /\ pc'[q] \in {"504", "lost"}
        PROVE  OrgInv'
    <2>0. /\ IsTables(identity.data) /\ IsTables(identity.saved) /\ overtaken \subseteq Requests
          /\ Owned(identity.data, {"owner"}) /\ Owned(identity.saved, {"owner", "commit"})
          /\ Young /\ Addressed /\ Leaving /\ Written
      BY DEF OrgInv
    <2>1. /\ \A org : Known(org) => Known(org)'
          /\ \A org : Contested(org) => Contested(org)'
          /\ \A op \in OrgOps : \A q : Undone(q, op) => Undone(q, op)'
      BY <1>0, <1>2 DEF Known, Answered, Contested, Undone, OrgOps, Running, Terminal
    <2>2. \A org : Founding(org, {"owner", "commit"}) => Founding(org, {"owner", "commit"})'
      BY <1>0, <1>2 DEF Founding, OrgOps, Running, Terminal
    <2>3. \A org : Founding(org, {"owner"}) => Founding(org, {"owner"})'
      BY <1>0, <1>2 DEF Founding, OrgOps, Running, Terminal
    <2>4. Owned(identity.saved, {"owner", "commit"})'
      BY <1>2, <2>0, <2>1, <2>2 DEF Owned, OwnersIn
    <2>5. Addressed'
      BY <1>0, <1>2, <2>0, <2>1 DEF Addressed, OrgOps
    <2>6. Young'
      BY <1>0, <1>2, <2>0 DEF Young, OrgOps
    <2>7. CASE identity'.data = identity.data
      <3>1. Owned(identity.data, {"owner"})'
        BY <2>0, <2>1, <2>3, <2>7 DEF Owned, OwnersIn
      <3>2. Leaving'
        BY <1>0, <1>2, <2>0, <2>7 DEF Leaving, OrgOps
      <3>3. \A q : In(identity.data, q)' = In(identity.data, q)
                   /\ In(identity.saved, q)' = In(identity.saved, q)
        BY <1>0, <1>2, <2>7 DEF In
      <3>4. Written'
        BY <1>0, <1>2, <2>0, <2>1, <3>3 DEF Written, OrgOps
      <3> QED
        BY <1>2, <2>0, <2>4, <2>5, <2>6, <2>7, <3>1, <3>2, <3>4 DEF OrgInv
    <2>8. CASE identity'.data = identity.saved /\ \A q \in Requests : ~Running(q)'
      <3>1. \A q \in Requests : pc'[q] \notin {"owner", "commit", "delete"}
        BY <2>8 DEF Running, Terminal
      <3>2. \A org : Founding(org, {"owner", "commit"})' => Founding(org, {"owner"})'
        BY <3>1 DEF Founding
      <3>3. Owned(identity.data, {"owner"})'
        BY <1>2, <2>4, <2>8, <3>2 DEF Owned
      <3>4. Leaving'
        BY <3>1 DEF Leaving
      <3>5. \A q : In(identity.data, q)' = In(identity.saved, q)
                   /\ In(identity.saved, q)' = In(identity.saved, q)
        BY <1>0, <1>2, <2>8 DEF In
      <3>6. Written'
        BY <1>0, <1>2, <2>0, <2>1, <3>1, <3>5 DEF Written, OrgOps
      <3> QED
        BY <1>2, <2>0, <2>4, <2>5, <2>6, <2>8, <3>3, <3>4, <3>6 DEF OrgInv
    <2> QED
      BY <1>2, <2>7, <2>8
  <1>3. ASSUME UNCHANGED orgVars, NEW r \in Requests, Cut(r) \/ Barred(r) PROVE OrgInv'
    BY <1>2, <1>3 DEF Cut, Barred, Frame, Placed, orgVars, OrgInv
  <1>4. CASE OrgCrash /\ Fallen
    BY <1>2, <1>4 DEF Fallen, OrgCrash, Crash, Connected, IsConnection, Running, Terminal
  <1>5. CASE UNCHANGED orgVars /\ Unmoved(OrgOps)
    BY <1>2, <1>5 DEF Unmoved, orgVars, OrgInv
  <1> QED
    BY <1>1, <1>3, <1>4, <1>5, OrgTurns

LEMMA OrgMeans == OrgInv => AlwaysOwned
  <1> SUFFICES ASSUME OrgInv PROVE AlwaysOwned
    OBVIOUS
  <1>1. \A org : Founding(org, {"owner", "commit"}) \/ Founding(org, {"owner"}) => Ownerless(org)
    BY DEF Founding, Ownerless
  <1>2. \A tables \in {identity.saved, identity.data} : \A org \in tables.orgs :
            OwnersIn(tables, org) # {} \/ Ownerless(org) \/ Contested(org)
    BY <1>1 DEF OrgInv, Owned
  <1>3. \A r \in Requests :
            /\ Answered(r, "addMember") => In(identity.saved, r) \/ Undone(r, "removeMember")
            /\ Answered(r, "removeMember") => ~In(identity.saved, r) \/ Undone(r, "addMember")
    BY DEF OrgInv, Written, Answered
  <1> QED
    BY <1>2, <1>3 DEF AlwaysOwned, In, Undone

\* Who has a wallet has a key that works, or knows why not; a key that was
\* handed out works until it is revoked or rotated; a public key stays that of
\* its agent; the last owner of an organisation is not removed; and what was
\* answered is in the file - but for the interleavings of a rotation, of two
\* bindings and of two removals that the property names (_rotate_key,
\* register, _remove_agent_from_org, over the connection they share).
THEOREM AccessAlwaysKept == Spec => []AccessKept
  <1> DEFINE Inv == Frame /\ KeysInv /\ BindInv /\ OrgInv
  <1>1. Init => Inv
    BY FrameInit, KeysStart, BindStart, OrgStart
  <1>2. Inv /\ [Next]_vars => Inv'
    BY FrameStep, KeysKept, BindKept, OrgKept
  <1>3. Inv => AccessKept
    BY AccountMeans, OrgMeans DEF AccessKept
  <1> QED
    BY <1>1, <1>2, <1>3, PTL DEF Spec

-----------------------------------------------------------------------------
(***************************************************************************)
(* Subscriptions.                                                          *)
(***************************************************************************)

\* What may happen to the subscriptions.
LEMMA SubTurns ==
    ASSUME Frame, [Next]_vars
    PROVE  \/ \E r \in Requests : /\ SubStep(r) /\ Only(r) /\ Op(r) \in SubOps
                                  /\ pc[r] \notin Terminal /\ cut' = cut
           \/ UNCHANGED subVars /\ \E r \in Requests : Cut(r) \/ Barred(r)
           \/ UNCHANGED subVars /\ Fallen
           \/ SubTick /\ UNCHANGED <<pc, cut>>
           \/ UNCHANGED subVars /\ Unmoved(SubOps)
  <1>1. ASSUME NEW r \in Requests, Step(r), Only(r), cut' = cut, Apart(r)
        PROVE  \/ SubStep(r) /\ Op(r) \in SubOps /\ pc[r] \notin Terminal
               \/ UNCHANGED subVars /\ Unmoved(SubOps)
    BY <1>1, SubOnly DEF Apart, Only, Unmoved
  <1>2. ASSUME NEW r \in Requests, Cancelled(r) \/ Calling(r) PROVE UNCHANGED subVars
    BY <1>2 DEF Cancelled, Calling, money
  <1>3. ASSUME NEW t \in Tasks, Send(t) PROVE UNCHANGED subVars
    BY <1>3 DEF Send, money
  <1>4. ASSUME Tick PROVE SubTick \/ UNCHANGED subVars
    BY <1>4 DEF Tick, money, GraceOver
  <1>5. ASSUME Died PROVE UNCHANGED subVars
    BY <1>5 DEF Died, money
  <1>6. ASSUME UNCHANGED vars PROVE UNCHANGED subVars /\ UNCHANGED <<pc, cut>>
    BY <1>6 DEF vars, tasks, money
  <1>7. UNCHANGED <<pc, cut>> => Unmoved(SubOps)
    BY DEF Unmoved
  <1> QED
    BY <1>1, <1>2, <1>3, <1>4, <1>5, <1>6, <1>7, Moves

IsRow(row) == row \in [status : {"none", "active", "suspended", "cancelled"}, next : Nat,
                       count : Nat, key : {row.key}]
Exists(s) == s \in Subs /\ subs[s].status # "none"
Holding == {"withdraw", "suspend"} \cup Charging
Aiming(r) == Op(r) = "pass" /\ pc[r] \in {"read"} \cup Holding
Ruling(r) == Op(r) \in {"cancelSub", "reactivate"} /\ pc[r] = "update"
Writer(r, s) == ((Op(r) = "pass" /\ pc[r] \in Holding) \/ Ruling(r)) /\ target[r] = s

\* A coroutine is at an await of its operation, and at a row that exists.
SubTables ==
    /\ subTime \in Nat /\ subs = [s \in Subs |-> subs[s]]
    /\ \A s \in Subs : IsRow(subs[s]) /\ subs[s].next <= subTime + 1
    /\ due = [r \in Requests |-> due[r]] /\ target = [r \in Requests |-> target[r]]
    /\ seen = [r \in Requests |-> seen[r]] /\ \A r \in Requests : IsRow(seen[r])
SubPlaces == \A r \in Requests :
    /\ Op(r) = "subscribe" => pc[r] \in Terminal \cup {"new", "insert"}
    /\ Op(r) \in {"cancelSub", "reactivate"} => pc[r] \in Terminal \cup {"new", "update"}
    /\ Op(r) = "pass" => pc[r] \in Terminal \cup {"new"} \cup PassPlaces
Unborn == \A r \in Requests : Op(r) = "subscribe" /\ pc[r] \in {"new", "insert"} =>
    ~Exists(job[r].sub)
Aimed == \A r \in Requests :
    /\ InPass(r) => \A s \in due[r] : Exists(s)
    /\ Aiming(r) => Exists(target[r]) /\ target[r] \notin due[r]
    /\ Ruling(r) => Exists(target[r]) /\ target[r] = job[r].sub
\* A pass that overlaps no other knows the rows as they are, and that they are due.
Lone == \A q, r \in Requests : q # r /\ InPass(q) /\ InPass(r) => q \in overlapping
UpToDate == \A r \in Requests : InPass(r) /\ r \notin overlapping =>
    /\ \A s \in due[r] : subs[s].next <= subTime
    /\ Aiming(r) => subs[target[r]].next <= subTime
    /\ pc[r] \in Holding => /\ seen[r].next = subs[target[r]].next
                            /\ seen[r].count = subs[target[r]].count
\* A pass charges a subscription once, and goes from the charge to the deposit,
\* the settlement and the row.
Taken == \A c \in charges :
    /\ c.by \in Requests /\ Op(c.by) = "pass" /\ pc[c.by] # "new" /\ Exists(c.sub)
    /\ c = [by |-> c.by, sub |-> c.sub, date |-> c.date] /\ c.date \in Nat
    /\ InPass(c.by) => c.sub \notin due[c.by]
    /\ pc[c.by] \in {"read", "withdraw", "suspend"} => target[c.by] # c.sub
Staged ==
    /\ booked \subseteq paid /\ paid \subseteq charges /\ IsFiniteSet(booked)
    /\ \A r \in Requests : Op(r) = "pass" =>
          /\ pc[r] \in Charging => ChargeOf(r) \in charges
          /\ pc[r] = "deposit" => ChargeOf(r) \notin paid
          /\ pc[r] \in {"settle", "book"} => ChargeOf(r) \in paid
          /\ pc[r] = "book" => ChargeOf(r) \in booked
    /\ \A c \in charges \ booked : InFlight(c) \/ WasCut(c) \/ Refused(c)
\* A charge moves the date of its subscription on, or is unsure.
Dated == \A c \in charges :
    /\ c.date <= subTime \/ c.by \in overlapping
    /\ Unsure(c) \/ InFlight(c) \/ subs[c.sub].next > c.date
Single == \A c, d \in charges : c # d /\ c.sub = d.sub /\ c.date = d.date => Unsure(c) \/ Unsure(d)
\* Two that hold a row contend for it.
Contests == \A q, r \in Requests : \A s \in Subs :
    q # r /\ Writer(q, s) /\ Writer(r, s) => s \in contended
Cancels == \A r \in Requests : Op(r) = "cancelSub" /\ pc[r] = "done" =>
    \/ job[r].sub \in contended
    \/ subs[job[r].sub].status = "cancelled" /\ \A q \in Requests : ~Writer(q, job[r].sub)
\* The count is of the charges whose pass has gone on.
Counted(s) == {c \in booked : c.sub = s /\ ~InFlight(c)}
Counts == \A s \in Subs : subs[s].count = Cardinality(Counted(s))
    \/ \E c \in booked : c.sub = s /\ Unsure(c)
OneForKey == \A s, t \in Subs :
    Exists(s) /\ Exists(t) /\ subs[s].key = subs[t].key /\ subs[s].key # NoSubKey => s = t
SubInv == /\ SubTables /\ SubPlaces /\ Unborn /\ Aimed /\ Lone /\ UpToDate /\ Taken /\ Staged
          /\ Dated /\ Single /\ Contests /\ Cancels /\ Counts /\ OneForKey

LEMMA SubStart == Init => SubInv
  <1> SUFFICES ASSUME Init PROVE SubInv
    OBVIOUS
  <1>1. /\ subTime = 0 /\ due = [r \in Requests |-> {}] /\ target = [r \in Requests |-> "none"]
        /\ subs = [s \in Subs |-> IF s \in FirstSubs THEN [NoSub EXCEPT !.status = "active"] ELSE NoSub]
        /\ seen = [r \in Requests |-> NoSub] /\ contended = {} /\ overlapping = {}
        /\ charges = {} /\ paid = {} /\ booked = {}
    BY DEF Init, SubInit
  <1>2. \A r \in Requests : Op(r) \in SubOps => pc[r] = "new"
    BY DEF Init, TaskInit, SubOps
  <1>3. \A s \in Subs : /\ IsRow(subs[s]) /\ subs[s].next = 0 /\ subs[s].count = 0
                        /\ subs[s].key = NoSubKey
                        /\ s \notin FirstSubs => subs[s].status = "none"
    BY <1>1 DEF IsRow, NoSub
  <1>4. SubTables
    BY <1>1, <1>3 DEF SubTables, IsRow, NoSub
  <1>5. SubPlaces /\ Aimed /\ Lone /\ UpToDate /\ Contests /\ Cancels
    BY <1>2 DEF SubPlaces, Aimed, Lone, UpToDate, Contests, Cancels, InPass, Aiming, Ruling, Writer,
                SubOps, PassPlaces, Holding, Charging
  <1>6. Unborn
    BY <1>3, SubConstants, FrameInit DEF Unborn, Exists, Frame, Op
  <1>7. Taken /\ Dated /\ Single
    BY <1>1 DEF Taken, Dated, Single
  <1>8. Staged
    BY <1>1, <1>2, FS_EmptySet DEF Staged, SubOps, Charging
  <1>9. Counts
    <2>1. \A s : Counted(s) = {}
      BY <1>1 DEF Counted
    <2> QED
      BY <1>3, <2>1, FS_EmptySet DEF Counts
  <1>10. OneForKey
    BY <1>3 DEF OneForKey
  <1> QED
    BY <1>4, <1>5, <1>6, <1>7, <1>8, <1>9, <1>10 DEF SubInv

\* What the steps of the subscriptions write.
Rewrites(t, status, next, count, key) ==
    /\ subs' = [s \in Subs |-> subs'[s]] /\ \A s \in Subs \ {t} : subs'[s] = subs[s]
    /\ t \in Subs => /\ IsRow(subs'[t]) /\ subs'[t].status = status /\ subs'[t].next = next
                     /\ subs'[t].count = count /\ subs'[t].key = key
Aims(r, t) == target' = [target EXCEPT ![r] = t]
Skips(r) ==
    /\ UNCHANGED subVars /\ Op(r) \in {"subscribe", "pass"} /\ pc[r] \in {"new", "insert", "next"}
    /\ pc'[r] \in {"done", "error"} \/ (Op(r) = "subscribe" /\ pc[r] = "new" /\ pc'[r] = "insert")
Creates(r) ==
    /\ Op(r) = "subscribe" /\ pc[r] = "insert" /\ pc'[r] = "done"
    /\ job[r].subKey # NoSubKey => SubsWithKey(job[r].subKey) = {}
    /\ Rewrites(job[r].sub, "active", subTime + 1, 0, job[r].subKey)
    /\ UNCHANGED <<subTime, subFunds, due, target, seen, overlapping, contended>>
Asks(r) ==
    /\ Op(r) \in {"cancelSub", "reactivate"} /\ pc[r] = "new"
    /\ pc'[r] \in {"update", "done", "rejected"}
    /\ pc'[r] = "update" => subs[job[r].sub].status \in {"active", "suspended"}
    /\ pc'[r] = "done" => Op(r) = "reactivate"
    /\ Aims(r, job[r].sub) /\ Contend(r, job[r].sub)
    /\ UNCHANGED <<subTime, subFunds, subs, due, seen, overlapping>>
Restates(r, status) ==
    LET row == subs[target[r]] IN Rewrites(target[r], status, row.next, row.count, row.key)
Decides(r) ==
    /\ Ruling(r) /\ pc'[r] = "done"
    /\ Restates(r, IF Op(r) = "cancelSub" THEN "cancelled" ELSE "active")
    /\ UNCHANGED <<subTime, subFunds, due, target, seen, overlapping, contended>>
Lists(r) ==
    /\ At(r, "pass", "new") /\ pc'[r] = "next"
    /\ due' = [due EXCEPT ![r] = {s \in Subs : subs[s].status = "active" /\ subs[s].next <= subTime}]
    /\ overlapping \subseteq overlapping'
    /\ \A q \in Requests \ {r} : InPass(q) => q \in overlapping' /\ r \in overlapping'
    /\ UNCHANGED <<subTime, subFunds, subs, target, seen, contended>>
Picks(r) ==
    /\ At(r, "pass", "next") /\ pc'[r] = "read"
    /\ \E s \in due[r] : due' = [due EXCEPT ![r] = @ \ {s}] /\ Aims(r, s)
    /\ UNCHANGED <<subTime, subFunds, subs, seen, overlapping, contended>>
Looks(r) ==
    /\ At(r, "pass", "read") /\ pc'[r] \in {"withdraw", "next"}
    /\ pc'[r] = "withdraw" => subs[target[r]].status = "active"
    /\ seen' = [seen EXCEPT ![r] = subs[target[r]]] /\ Contend(r, target[r])
    /\ UNCHANGED <<subTime, subFunds, subs, due, target, overlapping>>
Takes(r) ==
    /\ At(r, "pass", "withdraw") /\ pc'[r] = "deposit" /\ charges' = charges \cup {ChargeOf(r)}
    /\ UNCHANGED <<subTime, paid, booked, subs, due, target, seen, overlapping, contended>>
Drops(r) ==
    /\ Op(r) = "pass" /\ UNCHANGED subVars
    /\ \/ pc[r] = "withdraw" /\ pc'[r] \in {"suspend", "next"}
       \/ pc[r] = "deposit" /\ pc'[r] = "next"
Suspends(r) ==
    /\ At(r, "pass", "suspend") /\ pc'[r] = "next" /\ Restates(r, "suspended")
    /\ UNCHANGED <<subTime, subFunds, due, target, seen, overlapping, contended>>
Pays(r) ==
    /\ At(r, "pass", "deposit") /\ pc'[r] = "settle" /\ paid' = paid \cup {ChargeOf(r)}
    /\ UNCHANGED <<subTime, charges, booked, subs, due, target, seen, overlapping, contended>>
Settles(r) ==
    /\ At(r, "pass", "settle") /\ pc'[r] = "book" /\ booked' = booked \cup {ChargeOf(r)}
    /\ UNCHANGED <<subTime, charges, paid, subs, due, target, seen, overlapping, contended>>
Books(r) ==
    /\ At(r, "pass", "book") /\ pc'[r] = "next"
    /\ LET row == subs[target[r]] IN
       Rewrites(target[r], row.status, subTime + 1, seen[r].count + 1, row.key)
    /\ UNCHANGED <<subTime, subFunds, due, target, seen, overlapping, contended>>
SubEffect(r) ==
    \/ Skips(r) \/ Creates(r) \/ Asks(r) \/ Decides(r) \/ Lists(r) \/ Picks(r) \/ Looks(r)
    \/ Takes(r) \/ Drops(r) \/ Suspends(r) \/ Pays(r) \/ Settles(r) \/ Books(r)

LEMMA SubSteps ==
    ASSUME Frame, SubInv, NEW r \in Requests, SubStep(r)
    PROVE  SubEffect(r)
  <1>0. /\ pc = [q \in Requests |-> pc[q]] /\ SubTables /\ SubPlaces
        /\ \A next : Go(r, next) => pc'[r] = next
    BY DEF Frame, Placed, SubInv, Go
  <1>1. ASSUME LookupSubKey(r) PROVE Skips(r)
    BY <1>0, <1>1 DEF LookupSubKey, At, Skips
  <1>2. ASSUME InsertSub(r) PROVE Skips(r) \/ Creates(r)
    <2>1. CASE UNCHANGED subs /\ Go(r, "error")
      BY <1>0, <1>2, <2>1 DEF InsertSub, At, Skips, subVars, subFunds
    <2>2. CASE /\ ~(job[r].subKey # NoSubKey /\ SubsWithKey(job[r].subKey) # {}) /\ Go(r, "done")
               /\ subs' = [subs EXCEPT ![job[r].sub] =
                     [status |-> "active", next |-> subTime + 1, count |-> 0, key |-> job[r].subKey]]
      <3>1. Rewrites(job[r].sub, "active", subTime + 1, 0, job[r].subKey)
        BY <1>0, <2>2 DEF Rewrites, SubTables, IsRow
      <3> QED
        BY <1>0, <1>2, <2>2, <3>1 DEF InsertSub, At, Creates
    <2> QED
      BY <1>2, <2>1, <2>2 DEF InsertSub
  <1>3. ASSUME ReadStatus(r) PROVE Asks(r)
    <2> DEFINE status == subs[job[r].sub].status
    <2>1. CASE Op(r) = "cancelSub"
      <3>1. Go(r, IF status \in {"active", "suspended"} THEN "update" ELSE "rejected")
        BY <1>3, <2>1 DEF ReadStatus
      <3> QED
        BY <1>0, <1>3, <2>1, <3>1 DEF ReadStatus, Asks, Aims
    <2>2. CASE Op(r) = "reactivate"
      <3>1. \/ status = "suspended" /\ Go(r, "update")
            \/ Go(r, "done") \/ Go(r, "rejected")
        BY <1>3, <2>2 DEF ReadStatus
      <3> QED
        BY <1>0, <1>3, <2>2, <3>1 DEF ReadStatus, Asks, Aims
    <2> QED
      BY <1>3, <2>1, <2>2 DEF ReadStatus
  \* An UPDATE of one column.
  <1>4. ASSUME NEW status \in {"active", "suspended", "cancelled"},
               subs' = [subs EXCEPT ![target[r]].status = status]
        PROVE  Restates(r, status)
    BY <1>0, <1>4 DEF Restates, Rewrites, SubTables, IsRow
  <1>5. ASSUME UpdateStatus(r) PROVE Decides(r)
    <2>1. Restates(r, IF Op(r) = "cancelSub" THEN "cancelled" ELSE "active")
      BY <1>4, <1>5 DEF UpdateStatus
    <2> QED
      BY <1>0, <1>5, <2>1 DEF UpdateStatus, Decides, Ruling
  <1>6. ASSUME ListDue(r) PROVE Lists(r) \/ Skips(r)
    BY <1>0, <1>6 DEF ListDue, At, Lists, Skips, subVars, subFunds
  <1>7. ASSUME NextDue(r) PROVE Picks(r) \/ Skips(r)
    BY <1>0, <1>7 DEF NextDue, At, Picks, Skips, Aims, subVars, subFunds
  <1>8. ASSUME ReadSub(r) PROVE Looks(r)
    BY <1>0, <1>8 DEF ReadSub, At, Looks
  <1>9. ASSUME WithdrawDue(r) PROVE Takes(r) \/ Drops(r)
    BY <1>0, <1>9 DEF WithdrawDue, At, Takes, Drops, subVars, subFunds
  <1>10. ASSUME SuspendSub(r) PROVE Suspends(r)
    BY <1>0, <1>4, <1>10 DEF SuspendSub, At, Suspends
  <1>11. ASSUME PayDue(r) PROVE Pays(r) \/ Drops(r)
    BY <1>0, <1>11 DEF PayDue, At, Pays, Drops, subVars, subFunds
  <1>12. ASSUME SettleDue(r) PROVE Settles(r)
    BY <1>0, <1>12 DEF SettleDue, At, Settles
  <1>13. ASSUME BookCharge(r) PROVE Books(r)
    <2> DEFINE t == target[r]
               half == [subs EXCEPT ![t].count = seen[r].count + 1]
    <2>1. subs' = [half EXCEPT ![t].next = subTime + 1] /\ seen[r].count \in Nat /\ subTime \in Nat
      BY <1>0, <1>13 DEF BookCharge, SubTables, IsRow
    <2>2. /\ half = [s \in Subs |-> half[s]] /\ \A s \in Subs \ {t} : half[s] = subs[s]
          /\ t \in Subs => /\ IsRow(half[t]) /\ half[t].status = subs[t].status
                           /\ half[t].count = seen[r].count + 1 /\ half[t].key = subs[t].key
      <3>1. half = [subs EXCEPT ![t] = [subs[t] EXCEPT !.count = seen[r].count + 1]]
        OBVIOUS
      <3>2. ASSUME NEW row, IsRow(row), NEW n \in Nat
            PROVE  /\ IsRow([row EXCEPT !.count = n]) /\ [row EXCEPT !.count = n].status = row.status
                   /\ [row EXCEPT !.count = n].count = n /\ [row EXCEPT !.count = n].key = row.key
        BY <3>2 DEF IsRow
      <3>3. seen[r].count + 1 \in Nat
        BY <2>1
      <3> HIDE DEF half
      <3> QED
        BY <1>0, <3>1, <3>2, <3>3 DEF SubTables
    <2> HIDE DEF half
    <2>3. Rewrites(t, subs[t].status, subTime + 1, seen[r].count + 1, subs[t].key)
      BY <2>1, <2>2 DEF Rewrites, IsRow
    <2> QED
      BY <1>0, <1>13, <2>3 DEF BookCharge, At, Books
  <1> QED
    BY <1>1, <1>2, <1>3, <1>5, <1>6, <1>7, <1>8, <1>9, <1>10, <1>11, <1>12, <1>13 DEF SubStep, SubEffect

\* What the steps leave of the others and of the rows.
LEMMA SubApart ==
    ASSUME Frame, SubInv, job' = job, NEW r \in Requests, Only(r), SubEffect(r)
    PROVE  /\ \A q : Op(q)' = Op(q)
           /\ \A q \in Requests \ {r} : /\ pc'[q] = pc[q] /\ due'[q] = due[q] /\ target'[q] = target[q]
                                        /\ seen'[q] = seen[q] /\ InPass(q)' = InPass(q)
                                        /\ Aiming(q)' = Aiming(q) /\ Ruling(q)' = Ruling(q)
                                        /\ \A s : Writer(q, s)' = Writer(q, s)
           /\ subTime' = subTime /\ overlapping \subseteq overlapping' /\ contended \subseteq contended'
           /\ \A s \in Subs : \/ subs'[s] = subs[s]
                              \/ Creates(r) /\ s = job[r].sub
                              \/ (Decides(r) \/ Suspends(r) \/ Books(r)) /\ s = target[r]
           /\ \A s : Exists(s) => /\ Exists(s)' /\ ~(Creates(r) /\ s = job[r].sub)
                                  /\ subs'[s].key = subs[s].key /\ subs'[s].next >= subs[s].next
           /\ \A s : Exists(s)' => Exists(s) \/ (Creates(r) /\ s = job[r].sub)
  <1>0. SubTables /\ SubPlaces /\ Unborn /\ Aimed /\ \A q : Op(q)' = Op(q)
    BY DEF SubInv, Op
  <1>1. \A q \in Requests \ {r} : /\ pc'[q] = pc[q] /\ due'[q] = due[q] /\ target'[q] = target[q]
                                  /\ seen'[q] = seen[q]
    BY <1>0 DEF Only, SubTables, SubEffect, Skips, Creates, Asks, Decides, Lists, Picks, Looks, Takes,
                Drops, Suspends, Pays, Settles, Books, Aims, subVars
  <1>2. \A q \in Requests \ {r} : /\ InPass(q)' = InPass(q)
                                  /\ Aiming(q)' = Aiming(q) /\ Ruling(q)' = Ruling(q)
                                  /\ \A s : Writer(q, s)' = Writer(q, s)
    BY <1>0, <1>1 DEF InPass, Aiming, Ruling, Writer
  <1>3. subTime' = subTime /\ overlapping \subseteq overlapping' /\ contended \subseteq contended'
    BY DEF SubEffect, Skips, Creates, Asks, Decides, Lists, Picks, Looks, Takes,
           Drops, Suspends, Pays, Settles, Books, subVars, Contend
  <1>4. \A s \in Subs : IsRow(subs[s]) /\ subs[s].next \in Nat /\ subs[s].next <= subTime + 1
                        /\ subTime \in Nat
    BY <1>0 DEF SubTables, IsRow
  <1>5. CASE Creates(r)
    <2>1. job[r].sub \in Subs /\ ~Exists(job[r].sub)
      BY <1>0, <1>5, SubConstants DEF Creates, Unborn, Frame, Op
    <2>2. \A s \in Subs \ {job[r].sub} : subs'[s] = subs[s]
      BY <1>5 DEF Creates, Rewrites
    <2>3. \A s : Exists(s) => s # job[r].sub
      BY <2>1
    <2> QED
      BY <1>0, <1>1, <1>2, <1>3, <1>4, <1>5, <2>1, <2>2, <2>3 DEF Exists
  <1>6. CASE Decides(r) \/ Suspends(r) \/ Books(r)
    <2>1. Exists(target[r])
      BY <1>0, <1>6 DEF Decides, Suspends, Books, Aimed, Ruling, Aiming, Holding, Charging, At
    <2>2. /\ \A s \in Subs \ {target[r]} : subs'[s] = subs[s]
          /\ subs'[target[r]].key = subs[target[r]].key
          /\ \/ subs'[target[r]].next = subs[target[r]].next
             \/ subs'[target[r]].next = subTime + 1
          /\ subs'[target[r]].status # "none"
      BY <1>6, <2>1 DEF Decides, Suspends, Books, Restates, Rewrites, Exists
    <2>3. ~Creates(r)
      BY <1>6 DEF Decides, Suspends, Books, Creates, Ruling, At
    <2> QED
      BY <1>0, <1>1, <1>2, <1>3, <1>4, <1>6, <2>1, <2>2, <2>3 DEF Exists
  <1>7. CASE UNCHANGED subs /\ ~Creates(r)
    BY <1>0, <1>1, <1>2, <1>3, <1>4, <1>7 DEF Exists
  <1>8. Creates(r) \/ Decides(r) \/ Suspends(r) \/ Books(r) \/ UNCHANGED subs
    BY DEF SubEffect, Skips, Asks, Lists, Picks, Looks, Takes, Drops, Pays, Settles, subVars
  <1> QED
    BY <1>5, <1>6, <1>7, <1>8

LEMMA SubRowMoves ==
    ASSUME Frame, SubInv, job' = job, NEW r \in Requests, Only(r), SubEffect(r), pc[r] \notin Terminal
    PROVE  SubTables' /\ SubPlaces' /\ Unborn' /\ Aimed' /\ OneForKey'
  <1>0. SubTables /\ SubPlaces /\ Unborn /\ Aimed /\ OneForKey
    BY DEF SubInv
  <1> USE SubApart
  <1>1. SubTables'
    <2>1. subs' = [s \in Subs |-> subs'[s]]
      BY <1>0 DEF SubTables, SubEffect, Skips, Creates, Asks, Decides, Lists, Picks, Looks, Takes,
                Drops, Suspends, Pays, Settles, Books, subVars, Restates, Rewrites
    <2>2. /\ due' = [q \in Requests |-> due'[q]] /\ target' = [q \in Requests |-> target'[q]]
          /\ seen' = [q \in Requests |-> seen'[q]]
      BY <1>0 DEF SubTables, SubEffect, Skips, Creates, Asks, Decides, Lists, Picks, Looks, Takes,
                Drops, Suspends, Pays, Settles, Books, subVars, Aims
    <2>3. \A q \in Requests : IsRow(seen'[q])
      <3>1. CASE Looks(r)
        BY <1>0, <3>1 DEF SubTables, Looks, At, Aimed, Aiming, Exists
      <3>2. CASE UNCHANGED seen
        BY <1>0, <3>2 DEF SubTables
      <3> QED
        BY <3>1, <3>2 DEF SubEffect, Skips, Creates, Asks, Decides, Lists, Picks, Takes,
                Drops, Suspends, Pays, Settles, Books, subVars
    <2>4. ASSUME NEW s \in Subs PROVE IsRow(subs'[s]) /\ subs'[s].next <= subTime + 1
      <3>0. IsRow(subs[s]) /\ subs[s].next <= subTime + 1 /\ subTime \in Nat
        BY <1>0 DEF SubTables
      <3>1. CASE subs'[s] = subs[s]
        BY <3>0, <3>1
      <3>2. CASE Creates(r) /\ s = job[r].sub
        BY <3>0, <3>2 DEF Creates, Rewrites
      <3>3. CASE (Decides(r) \/ Suspends(r) \/ Books(r)) /\ s = target[r]
        BY <3>0, <3>3 DEF Decides, Suspends, Books, Restates, Rewrites
      <3> QED
        BY <3>1, <3>2, <3>3
    <2> QED
      BY <1>0, <2>1, <2>2, <2>3, <2>4 DEF SubTables
  <1>2. SubPlaces'
    <2>1. /\ Op(r) = "subscribe" => pc'[r] \in Terminal \cup {"insert"}
          /\ Op(r) \in {"cancelSub", "reactivate"} => pc'[r] \in Terminal \cup {"update"}
          /\ Op(r) = "pass" => pc'[r] \in Terminal \cup PassPlaces
      BY DEF SubEffect, Skips, Creates, Asks, Decides, Lists, Picks, Looks, Takes, Drops, Suspends,
             Pays, Settles, Books, At, Ruling, Terminal, PassPlaces
    <2> QED
      BY <1>0, <2>1 DEF SubPlaces
  <1>3. Unborn'
    <2>1. ASSUME NEW q \in Requests, Op(q) = "subscribe", pc'[q] \in {"new", "insert"}
          PROVE  pc[q] \in {"new", "insert"} /\ ~(Creates(r) /\ job[q].sub = job[r].sub)
      <3>1. CASE q = r
        BY <2>1, <3>1 DEF SubEffect, Skips, Creates, Asks, Decides, Lists, Picks, Looks, Takes, Drops,
               Suspends, Pays, Settles, Books, At, Ruling
      <3>2. CASE q # r
        BY <2>1, <3>2, SubConstants DEF Creates, Frame, Op
      <3> QED
        BY <3>1, <3>2
    <2> QED
      BY <1>0, <2>1 DEF Unborn
  <1>4. Aimed'
    <2>1. ASSUME NEW q \in Requests, q # r
          PROVE  /\ InPass(q)' => \A s \in due'[q] : Exists(s)'
                 /\ Aiming(q)' => Exists(target[q])' /\ target'[q] \notin due'[q]
                 /\ Ruling(q)' => Exists(target[q])' /\ target'[q] = job[q].sub
      BY <1>0, <2>1 DEF Aimed
    <2>2. InPass(r)' => \A s \in due'[r] : Exists(s)'
      <3>1. CASE Lists(r)
        BY <1>0, <3>1 DEF Lists, SubTables, Exists
      <3>2. CASE ~Lists(r)
        BY <1>0, <3>2 DEF Aimed, SubTables, SubEffect, Skips, Creates, Asks, Decides, Picks, Looks, Takes, Drops,
               Suspends, Pays, Settles, Books, At, Ruling, InPass, PassPlaces, subVars
      <3> QED
        BY <3>1, <3>2
    <2>3. Aiming(r)' => Exists(target[r])' /\ target'[r] \notin due'[r]
      <3>1. CASE Picks(r)
        <4>1. PICK s \in due[r] : due' = [due EXCEPT ![r] = @ \ {s}] /\ Aims(r, s)
          BY <3>1 DEF Picks
        <4>2. Exists(s)
          BY <1>0, <3>1 DEF Picks, Aimed, InPass, PassPlaces, At
        <4>3. target'[r] = s /\ s \notin due'[r]
          BY <1>0, <4>1 DEF SubTables, Aims
        <4> QED
          BY <4>2, <4>3
      <3>2. CASE ~Picks(r)
        <4>1. Aiming(r)' => Aiming(r) /\ target'[r] = target[r] /\ due'[r] = due[r]
          BY <3>2 DEF SubEffect, Skips, Creates, Asks, Decides, Lists, Looks, Takes, Drops,
               Suspends, Pays, Settles, Books, At, Ruling, Aiming, Holding, Charging, subVars
        <4> QED
          BY <1>0, <4>1 DEF Aimed, Exists
      <3> QED
        BY <3>1, <3>2
    <2>4. Ruling(r)' => Exists(target[r])' /\ target'[r] = job[r].sub
      <3>1. Ruling(r)' => Asks(r) /\ pc'[r] = "update"
        BY DEF SubEffect, Skips, Creates, Asks, Decides, Lists, Picks, Looks, Takes, Drops,
               Suspends, Pays, Settles, Books, At, Ruling
      <3>2. Op(r) \in {"cancelSub", "reactivate"} => job[r].sub \in Subs
        BY SubConstants DEF Frame, Op
      <3> QED
        BY <1>0, <3>1, <3>2 DEF Asks, Aims, SubTables, Exists
    <2> QED
      BY <2>1, <2>2, <2>3, <2>4 DEF Aimed
  <1>5. OneForKey'
    <2>1. ASSUME NEW s \in Subs, Creates(r), s # job[r].sub, Exists(s),
                 subs[s].key = job[r].subKey, job[r].subKey # NoSubKey
          PROVE  FALSE
      BY <2>1 DEF Creates, SubsWithKey, Exists
    <2>2. Creates(r) => job[r].sub \in Subs /\ subs'[job[r].sub].key = job[r].subKey
      BY SubConstants DEF Creates, Rewrites, Frame, Op
    <2> QED
      BY <1>0, <2>1, <2>2 DEF OneForKey
  <1> QED
    BY <1>1, <1>2, <1>3, <1>4, <1>5

LEMMA SubPassMoves ==
    ASSUME Frame, SubInv, job' = job, NEW r \in Requests, Only(r), SubEffect(r), pc[r] \notin Terminal
    PROVE  Lone' /\ UpToDate' /\ Contests' /\ Cancels'
  <1>0. SubTables /\ SubPlaces /\ Unborn /\ Aimed /\ Lone /\ UpToDate /\ Contests /\ Cancels
    BY DEF SubInv
  <1> USE SubApart
  <1>1. Lone'
    <2>1. InPass(r)' => Lists(r) \/ InPass(r)
      BY DEF SubEffect, Skips, Creates, Asks, Decides, Picks, Looks, Takes, Drops,
             Suspends, Pays, Settles, Books, At, Ruling, InPass, PassPlaces
    <2>2. Lists(r) => \A q \in Requests \ {r} : InPass(q) => q \in overlapping' /\ r \in overlapping'
      BY DEF Lists
    <2> QED
      BY <1>0, <2>1, <2>2 DEF Lone
  <1>2. UpToDate'
    <2>1. ASSUME NEW q \in Requests \ {r}, InPass(q), q \notin overlapping'
          PROVE  \A s \in Subs : Exists(s) => subs'[s] = subs[s] \/ Decides(r)
      <3>1. ~InPass(r)
        BY <1>0, <2>1 DEF Lone
      <3>2. ~Suspends(r) /\ ~Books(r)
        BY <3>1 DEF Suspends, Books, At, InPass, PassPlaces
      <3> QED
        BY <3>2
    <2>2. ASSUME Decides(r)
          PROVE  \A s \in Subs : subs'[s].next = subs[s].next /\ subs'[s].count = subs[s].count
      BY <2>2 DEF Decides, Restates, Rewrites
    <2>3. ASSUME NEW q \in Requests \ {r}, InPass(q), q \notin overlapping', NEW s, Exists(s)
          PROVE  subs'[s].next = subs[s].next /\ subs'[s].count = subs[s].count
      BY <2>1, <2>2, <2>3 DEF Exists
    <2>4. ASSUME NEW q \in Requests \ {r}, InPass(q), q \notin overlapping'
          PROVE  /\ \A s \in due'[q] : subs'[s].next <= subTime'
                 /\ Aiming(q)' => subs'[target'[q]].next <= subTime'
                 /\ pc'[q] \in Holding => /\ seen'[q].next = subs'[target'[q]].next
                                         /\ seen'[q].count = subs'[target'[q]].count
      <3>1. /\ \A s \in due[q] : Exists(s)
            /\ Aiming(q) => Exists(target[q])
            /\ pc[q] \in Holding => Aiming(q)
        BY <1>0, <2>4 DEF Aimed, Aiming, InPass
      <3>2. q \notin overlapping
        BY <2>4
      <3> QED
        BY <1>0, <2>3, <2>4, <3>1, <3>2 DEF UpToDate
    <2>5. ASSUME InPass(r)', r \notin overlapping'
          PROVE  /\ \A s \in due'[r] : subs'[s].next <= subTime'
                 /\ Aiming(r)' => subs'[target'[r]].next <= subTime'
                 /\ pc'[r] \in Holding => /\ seen'[r].next = subs'[target'[r]].next
                                         /\ seen'[r].count = subs'[target'[r]].count
      <3>1. CASE Lists(r)
        BY <1>0, <3>1 DEF Lists, SubTables, Aiming, Holding, Charging
      <3>2. CASE Picks(r)
        <4>1. PICK s \in due[r] : due' = [due EXCEPT ![r] = @ \ {s}] /\ Aims(r, s)
          BY <3>2 DEF Picks
        <4>2. \A t \in due[r] : subs[t].next <= subTime
          BY <1>0, <2>5, <3>2 DEF Picks, UpToDate, InPass, PassPlaces, At
        <4>3. target'[r] = s /\ due'[r] \subseteq due[r]
          BY <1>0, <4>1 DEF SubTables, Aims
        <4> QED
          BY <3>2, <4>2, <4>3 DEF Picks, Holding, Charging
      <3>3. CASE Looks(r)
        <4>1. subs[target[r]].next <= subTime /\ \A t \in due[r] : subs[t].next <= subTime
          BY <1>0, <2>5, <3>3 DEF Looks, UpToDate, InPass, PassPlaces, At, Aiming
        <4> QED
          BY <1>0, <3>3, <4>1 DEF Looks, SubTables
      <3>4. CASE Takes(r) \/ Drops(r) \/ Pays(r) \/ Settles(r)
        <4>1. /\ InPass(r) /\ r \notin overlapping /\ due' = due /\ subs' = subs /\ target' = target
              /\ seen' = seen /\ (Aiming(r)' => Aiming(r)) /\ (pc'[r] \in Holding => pc[r] \in Holding)
          BY <2>5, <3>4 DEF Takes, Drops, Pays, Settles, At, InPass, PassPlaces, Aiming, Holding,
                             Charging, subVars
        <4> QED
          BY <1>0, <4>1 DEF UpToDate
      <3>5. CASE Suspends(r) \/ Books(r)
        <4>1. InPass(r) /\ r \notin overlapping /\ due' = due /\ ~Aiming(r)' /\ pc'[r] \notin Holding
          BY <2>5, <3>5 DEF Suspends, Books, At, InPass, PassPlaces, Aiming, Holding, Charging
        <4>2. target[r] \notin due[r] /\ \A s \in due[r] : s \in Subs
          BY <1>0, <3>5, <4>1 DEF Suspends, Books, At, Aimed, Aiming, Holding, Charging, Exists
        <4>3. \A s \in due[r] : subs'[s] = subs[s]
          BY <3>5, <4>2 DEF Suspends, Books, Restates, Rewrites
        <4> QED
          BY <1>0, <4>1, <4>3 DEF UpToDate
      <3>6. ~Skips(r) /\ ~Creates(r) /\ ~Asks(r) /\ ~Decides(r)
        BY <2>5 DEF Skips, Creates, Asks, Decides, Ruling, InPass, PassPlaces
      <3> QED
        BY <3>1, <3>2, <3>3, <3>4, <3>5, <3>6 DEF SubEffect
    <2> QED
      BY <2>4, <2>5 DEF UpToDate
  \* Who begins to hold a row finds the others that do.
  <1>3. ASSUME NEW s, Writer(r, s)'
        PROVE  Writer(r, s) \/ (s \in Subs => Contend(r, s) /\ target'[r] = s /\ subs' = subs
                                              /\ subs[s].status \in {"active", "suspended"})
    <2>1. CASE Asks(r)
      BY <1>0, <1>3, <2>1 DEF Asks, Aims, Writer, Ruling, SubTables
    <2>2. CASE Looks(r)
      BY <1>0, <1>3, <2>2 DEF Looks, At, Writer, Ruling, Holding, Charging
    <2>3. CASE ~Asks(r) /\ ~Looks(r)
      BY <1>3, <2>3 DEF SubEffect, Skips, Creates, Decides, Lists, Picks, Takes, Drops,
             Suspends, Pays, Settles, Books, At, Ruling, Writer, Holding, Charging, subVars
    <2> QED
      BY <2>1, <2>2, <2>3
  <1>4. \A q \in Requests \ {r} : \A s : Writer(q, s) => q \in Writing(r, s)
    BY DEF Writer, Writing, Ruling, Holding, Charging
  <1>5. Contests'
    <2>1. ASSUME NEW q \in Requests \ {r}, NEW s \in Subs, Writer(q, s), Writer(r, s)'
          PROVE  s \in contended'
      <3>1. CASE Writer(r, s)
        BY <1>0, <2>1, <3>1 DEF Contests
      <3>2. CASE Contend(r, s)
        BY <1>4, <2>1, <3>2 DEF Contend
      <3> QED
        BY <1>3, <2>1, <3>1, <3>2
    <2> QED
      BY <1>0, <2>1 DEF Contests
  <1>6. Cancels'
    <2>1. ASSUME NEW q \in Requests, Op(q) = "cancelSub", pc[q] = "done", job[q].sub \notin contended'
          PROVE  /\ subs'[job[q].sub].status = "cancelled"
                 /\ \A p \in Requests : ~Writer(p, job[q].sub)'
      <3> DEFINE s == job[q].sub
      <3>0. s \in Subs
        BY <2>1, SubConstants DEF Frame, Op
      <3>1. subs[s].status = "cancelled" /\ \A p \in Requests : ~Writer(p, s)
        BY <1>0, <2>1 DEF Cancels
      <3>2. ~Writer(r, s)'
        BY <1>3, <3>0, <3>1
      <3>3. Exists(s)
        BY <3>0, <3>1 DEF Exists
      <3>4. subs'[s] = subs[s]
        <4>1. (Decides(r) \/ Suspends(r) \/ Books(r)) => Writer(r, target[r])
          BY DEF Decides, Suspends, Books, At, Writer, Ruling, Holding, Charging
        <4> QED
          BY <3>0, <3>1, <3>3, <4>1
      <3> QED
        BY <3>1, <3>2, <3>4
    <2>2. ASSUME Op(r) = "cancelSub", pc'[r] = "done", job[r].sub \notin contended'
          PROVE  /\ subs'[job[r].sub].status = "cancelled"
                 /\ \A p \in Requests : ~Writer(p, job[r].sub)'
      <3> DEFINE s == job[r].sub
      <3>1. Decides(r)
        BY <2>2 DEF SubEffect, Skips, Creates, Asks, Lists, Picks, Looks, Takes, Drops,
             Suspends, Pays, Settles, Books, At
      <3>2. target[r] = s /\ Exists(s) /\ Writer(r, s)
        BY <1>0, <3>1 DEF Decides, Aimed, Writer
      <3>3. subs'[s].status = "cancelled"
        BY <2>2, <3>1, <3>2 DEF Decides, Restates, Rewrites, Exists
      <3>4. \A p \in Requests \ {r} : ~Writer(p, s)
        BY <1>0, <2>2, <3>2 DEF Contests, Exists
      <3>5. ~Writer(r, s)'
        BY <2>2 DEF Writer, Ruling
      <3> QED
        BY <3>3, <3>4, <3>5
    <2> QED
      BY <1>0, <2>1, <2>2 DEF Cancels
  <1> QED
    BY <1>1, <1>2, <1>5, <1>6

\* What a step makes of the charges: none is taken twice, one that was unsure
\* stays so, and one in flight lands in the row or fails.
LEMMA SubCharges ==
    ASSUME Frame, SubInv, job' = job, cut' = cut, NEW r \in Requests, Only(r), SubEffect(r),
           pc[r] \notin Terminal
    PROVE  /\ Taken'
           /\ \A c \in charges : /\ Unsure(c) => Unsure(c)'
                                 /\ WasCut(c) => WasCut(c)'
                                 /\ InFlight(c)' => InFlight(c)
                                 /\ \/ InFlight(c) => InFlight(c)'
                                    \/ c = ChargeOf(r) /\ (Books(r) \/ (pc[r] = "deposit" /\ Drops(r)))
           /\ Takes(r) => InFlight(ChargeOf(r))' /\ ChargeOf(r) \notin charges
  <1>0. SubTables /\ SubPlaces /\ Aimed /\ Taken /\ Staged /\ CutStays
    BY DEF SubInv, Frame
  <1> USE SubApart
  <1>1. \A c \in charges : /\ c.by \in Requests /\ Op(c.by) = "pass" /\ pc[c.by] # "new" /\ Exists(c.sub)
                           /\ c = [by |-> c.by, sub |-> c.sub, date |-> c.date]
                           /\ (InPass(c.by) => c.sub \notin due[c.by])
                           /\ (pc[c.by] \in {"read", "withdraw", "suspend"} => target[c.by] # c.sub)
    BY <1>0 DEF Taken
  <1>2. ASSUME Takes(r) PROVE ChargeOf(r) \notin charges /\ InFlight(ChargeOf(r))'
    <2>1. ChargeOf(r) \notin charges
      BY <1>1, <1>2 DEF Takes, At, ChargeOf
    <2>2. ChargeOf(r)' = ChargeOf(r) /\ ChargeOf(r).by = r
      BY <1>2 DEF Takes, ChargeOf
    <2>3. InPass(r)' /\ pc'[r] \in Charging
      BY <1>2 DEF Takes, At, InPass, PassPlaces, Charging
    <2> QED
      BY <2>1, <2>2, <2>3 DEF InFlight
  <1>3. \A q \in Requests \ {r} : ChargeOf(q)' = ChargeOf(q)
    BY DEF ChargeOf
  \* The charge of a pass at one of its stages.
  <1>4. pc'[r] \in Charging =>
            /\ pc[r] \in Charging \/ Takes(r)
            /\ ChargeOf(r)' = ChargeOf(r)
    BY DEF SubEffect, Skips, Creates, Asks, Decides, Lists, Picks, Looks, Takes, Drops,
           Suspends, Pays, Settles, Books, At, ChargeOf, Charging, subVars
  <1>5. ASSUME NEW c \in charges, InFlight(c)' PROVE InFlight(c)
    <2>1. CASE c.by # r
      BY <1>1, <1>3, <1>5, <2>1 DEF InFlight
    <2>2. CASE c.by = r
      <3>1. pc'[r] \in Charging /\ c = ChargeOf(r)
        BY <1>4, <1>5, <2>2 DEF InFlight
      <3>2. pc[r] \in Charging
        BY <1>2, <1>4, <3>1
      <3> QED
        BY <1>1, <2>2, <3>1, <3>2 DEF InFlight, InPass, Charging, PassPlaces
    <2> QED
      BY <2>1, <2>2
  <1>6. ASSUME NEW c \in charges, InFlight(c)
        PROVE  \/ InFlight(c)'
               \/ c = ChargeOf(r) /\ (Books(r) \/ (pc[r] = "deposit" /\ Drops(r)))
    <2>1. CASE c.by # r
      BY <1>1, <1>3, <1>6, <2>1 DEF InFlight
    <2>2. CASE c.by = r
      <3>1. Op(r) = "pass" /\ pc[r] \in Charging /\ c = ChargeOf(r)
        BY <1>6, <2>2 DEF InFlight, InPass
      <3>2. Books(r) \/ (pc[r] = "deposit" /\ Drops(r)) \/ Pays(r) \/ Settles(r)
        BY <3>1 DEF SubEffect, Skips, Creates, Asks, Decides, Lists, Picks, Looks, Takes, Drops,
           Suspends, Pays, Settles, Books, At, Charging, Ruling
      <3>3. Pays(r) \/ Settles(r) => InFlight(c)'
        BY <2>2, <3>1 DEF InFlight, InPass, Pays, Settles, ChargeOf, PassPlaces, Charging
      <3> QED
        BY <3>1, <3>2, <3>3
    <2> QED
      BY <2>1, <2>2
  <1>7. ASSUME NEW c \in charges, WasCut(c) PROVE WasCut(c)'
    <2>1. cut[c.by] # "never"
      BY <1>7 DEF WasCut, Charging
    <2>2. c.by # r
      BY <1>0, <1>1, <2>1 DEF CutStays, Terminal
    <2> QED
      BY <1>1, <1>3, <1>7, <2>2 DEF WasCut
  <1>8. ASSUME NEW c \in charges, Refused(c) PROVE Refused(c)'
    <2>1. c \notin paid /\ ~InFlight(c) /\ ~InFlight(c)'
      BY <1>5, <1>8 DEF Refused
    <2>2. Pays(r) => InFlight(ChargeOf(r))
      BY DEF Pays, At, InFlight, InPass, PassPlaces, Charging, ChargeOf
    <2>3. paid' = paid \/ (Pays(r) /\ paid' = paid \cup {ChargeOf(r)})
      BY DEF SubEffect, Skips, Creates, Asks, Decides, Lists, Picks, Looks, Takes, Drops,
           Suspends, Pays, Settles, Books, subVars, subFunds
    <2> QED
      BY <2>1, <2>2, <2>3 DEF Refused
  <1>9. \A c \in charges : Unsure(c) => Unsure(c)'
    BY <1>7, <1>8 DEF Unsure
  <1>10. Taken'
    <2>1. charges' = charges \/ (Takes(r) /\ charges' = charges \cup {ChargeOf(r)})
      BY DEF SubEffect, Skips, Creates, Asks, Decides, Lists, Picks, Looks, Takes, Drops,
           Suspends, Pays, Settles, Books, subVars, subFunds
    <2>2. ASSUME NEW c \in charges
          PROVE  /\ c.by \in Requests /\ Op(c.by)' = "pass" /\ pc'[c.by] # "new" /\ Exists(c.sub)'
                 /\ c = [by |-> c.by, sub |-> c.sub, date |-> c.date] /\ c.date \in Nat
                 /\ InPass(c.by)' => c.sub \notin due'[c.by]
                 /\ pc'[c.by] \in {"read", "withdraw", "suspend"} => target'[c.by] # c.sub
      <3>1. /\ c.by \in Requests /\ Op(c.by)' = "pass" /\ Exists(c.sub)'
            /\ c = [by |-> c.by, sub |-> c.sub, date |-> c.date] /\ c.date \in Nat
        BY <1>0, <1>1 DEF Taken
      <3>2. CASE c.by # r
        BY <1>1, <3>1, <3>2
      <3>3. CASE c.by = r
        <4>1. pc[r] # "new" /\ Op(r) = "pass"
          BY <1>1, <3>3
        <4>2. pc'[r] # "new"
          BY <4>1 DEF SubEffect, Skips, Creates, Asks, Decides, Lists, Picks, Looks, Takes, Drops,
             Suspends, Pays, Settles, Books, At, Ruling
        <4>3. CASE Picks(r)
          <5>1. PICK s \in due[r] : due' = [due EXCEPT ![r] = @ \ {s}] /\ Aims(r, s)
            BY <4>3 DEF Picks
          <5>2. c.sub \notin due[r]
            BY <1>1, <3>3, <4>3 DEF Picks, At, InPass, PassPlaces
          <5>3. target'[r] = s /\ due'[r] \subseteq due[r]
            BY <1>0, <5>1 DEF SubTables, Aims
          <5> QED
            BY <3>1, <3>3, <4>2, <5>2, <5>3
        <4>4. CASE ~Picks(r)
          <5>1. /\ due' = due /\ (InPass(r)' => InPass(r)) /\ target' = target
                /\ pc'[r] \in {"read", "withdraw", "suspend"} => pc[r] \in {"read", "withdraw", "suspend"}
            BY <4>1, <4>4 DEF SubEffect, Skips, Creates, Asks, Decides, Lists, Looks, Takes, Drops,
               Suspends, Pays, Settles, Books, At, Ruling, InPass, PassPlaces, subVars
          <5> QED
            BY <1>1, <3>1, <3>3, <4>2, <5>1
        <4> QED
          BY <4>3, <4>4
      <3> QED
        BY <3>2, <3>3
    <2>3. ASSUME Takes(r), NEW c, c = ChargeOf(r)
          PROVE  /\ c.by \in Requests /\ Op(c.by)' = "pass" /\ pc'[c.by] # "new" /\ Exists(c.sub)'
                 /\ c = [by |-> c.by, sub |-> c.sub, date |-> c.date] /\ c.date \in Nat
                 /\ InPass(c.by)' => c.sub \notin due'[c.by]
                 /\ pc'[c.by] \in {"read", "withdraw", "suspend"} => target'[c.by] # c.sub
      <3>1. c.by = r /\ c.sub = target[r] /\ c.date = seen[r].next
            /\ c = [by |-> c.by, sub |-> c.sub, date |-> c.date]
        BY <2>3 DEF ChargeOf
      <3>2. Exists(target[r]) /\ target[r] \notin due[r] /\ seen[r].next \in Nat
        BY <1>0, <2>3 DEF Takes, At, Aimed, Aiming, Holding, SubTables, IsRow
      <3>3. Op(r) = "pass" /\ pc'[r] = "deposit" /\ due' = due /\ target' = target
        BY <2>3 DEF Takes, At
      <3> QED
        BY <3>1, <3>2, <3>3
    <2> QED
      BY <2>1, <2>2, <2>3 DEF Taken
  <1> QED
    BY <1>2, <1>5, <1>6, <1>7, <1>9, <1>10

LEMMA SubChargeMoves ==
    ASSUME Frame, SubInv, job' = job, cut' = cut, NEW r \in Requests, Only(r), SubEffect(r),
           pc[r] \notin Terminal
    PROVE  Staged' /\ Dated' /\ Single' /\ Counts'
  <1>0. /\ SubTables /\ SubPlaces /\ Unborn /\ Aimed /\ Lone /\ UpToDate /\ Taken /\ Staged
        /\ Dated /\ Single /\ Counts
    BY DEF SubInv
  <1> USE SubApart, SubCharges
  <1>1. /\ charges' = charges \/ (Takes(r) /\ charges' = charges \cup {ChargeOf(r)})
        /\ paid' = paid \/ (Pays(r) /\ paid' = paid \cup {ChargeOf(r)})
        /\ booked' = booked \/ (Settles(r) /\ booked' = booked \cup {ChargeOf(r)})
    BY DEF SubEffect, Skips, Creates, Asks, Decides, Lists, Picks, Looks, Takes, Drops,
           Suspends, Pays, Settles, Books, subVars, subFunds
  <1>2. /\ booked \subseteq paid /\ paid \subseteq charges /\ IsFiniteSet(booked)
        /\ Op(r) = "pass" =>
              /\ pc[r] \in Charging => ChargeOf(r) \in charges
              /\ pc[r] = "deposit" => ChargeOf(r) \notin paid
              /\ pc[r] \in {"settle", "book"} => ChargeOf(r) \in paid
              /\ pc[r] = "book" => ChargeOf(r) \in booked
    BY <1>0 DEF Staged
  <1>3. Staged'
    <2>1. booked' \subseteq paid' /\ paid' \subseteq charges' /\ IsFiniteSet(booked')
      BY <1>1, <1>2, FS_AddElement DEF Pays, Settles, At, Charging
    <2>2. ASSUME NEW q \in Requests, Op(q) = "pass"
          PROVE  /\ pc'[q] \in Charging => ChargeOf(q)' \in charges'
                 /\ pc'[q] = "deposit" => ChargeOf(q)' \notin paid'
                 /\ pc'[q] \in {"settle", "book"} => ChargeOf(q)' \in paid'
                 /\ pc'[q] = "book" => ChargeOf(q)' \in booked'
      <3>1. CASE q # r
        <4>1. ChargeOf(q)' = ChargeOf(q) /\ ChargeOf(q) # ChargeOf(r)
          BY <3>1 DEF ChargeOf
        <4> QED
          BY <1>0, <1>1, <2>2, <3>1, <4>1 DEF Staged
      <3>2. CASE q = r
        <4>1. CASE Takes(r)
          BY <1>1, <1>2, <3>2, <4>1 DEF Takes, ChargeOf
        <4>2. CASE Pays(r)
          BY <1>1, <1>2, <2>2, <3>2, <4>2 DEF Pays, At, ChargeOf, Charging
        <4>3. CASE Settles(r)
          BY <1>1, <1>2, <2>2, <3>2, <4>3 DEF Settles, At, ChargeOf, Charging
        <4>4. CASE ~Takes(r) /\ ~Pays(r) /\ ~Settles(r)
          BY <2>2, <3>2, <4>4 DEF SubEffect, Skips, Creates, Asks, Decides, Lists, Picks, Looks, Drops,
             Suspends, Books, At, Ruling, Charging
        <4> QED
          BY <4>1, <4>2, <4>3, <4>4
      <3> QED
        BY <3>1, <3>2
    <2>3. ASSUME NEW c \in charges' \ booked' PROVE InFlight(c)' \/ WasCut(c)' \/ Refused(c)'
      <3>1. CASE c \in charges
        <4>1. InFlight(c) \/ WasCut(c) \/ Refused(c)
          BY <1>0, <1>1, <2>3, <3>1 DEF Staged
        <4>2. Refused(c) => Unsure(c)
          BY DEF Unsure
        <4>3. CASE InFlight(c) /\ ~InFlight(c)'
          <5>1. pc[r] = "deposit" /\ Drops(r) /\ c = ChargeOf(r)
            BY <1>1, <1>2, <2>3, <3>1, <4>3 DEF Books, At
          <5>2. c \notin paid /\ paid' = paid
            BY <1>2, <5>1 DEF Drops, subVars, subFunds
          <5> QED
            BY <4>3, <5>2 DEF Refused
        <4>4. CASE Refused(c)
          <5>1. c \notin paid /\ ~InFlight(c) /\ ~InFlight(c)'
            BY <3>1, <4>4 DEF Refused
          <5>2. Pays(r) => InFlight(ChargeOf(r))
            BY DEF Pays, At, InFlight, InPass, PassPlaces, Charging, ChargeOf
          <5> QED
            BY <1>1, <5>1, <5>2 DEF Refused
        <4> QED
          BY <3>1, <4>1, <4>3, <4>4
      <3>2. CASE c \notin charges
        <4>1. Takes(r) /\ c = ChargeOf(r) /\ ChargeOf(r)' = ChargeOf(r)
          BY <1>1, <2>3, <3>2 DEF Takes, ChargeOf
        <4> QED
          BY <4>1
      <3> QED
        BY <3>1, <3>2
    <2> QED
      BY <2>1, <2>2, <2>3 DEF Staged
  <1>4. \A c \in charges : Exists(c.sub) /\ c.date \in Nat /\ c.by \in Requests /\ Op(c.by) = "pass"
    BY <1>0 DEF Taken
  <1>5. /\ subTime \in Nat /\ \A s : Exists(s) => subs[s].next \in Nat /\ subs'[s].next \in Nat
    BY SubRowMoves, <1>0 DEF SubTables, IsRow, Exists
  \* A pass that charges and overlaps no other charges what the row says is due.
  <1>6. ASSUME Takes(r), r \notin overlapping
        PROVE  seen[r].next = subs[target[r]].next /\ seen[r].next <= subTime
    BY <1>0, <1>6 DEF Takes, At, UpToDate, InPass, PassPlaces, Aiming, Holding
  <1>7. Takes(r) => /\ ChargeOf(r).by = r /\ ChargeOf(r).sub = target[r]
                    /\ ChargeOf(r).date = seen[r].next /\ ChargeOf(r)' = ChargeOf(r)
    BY DEF ChargeOf, Takes
  <1>8. Dated'
    <2>1. ASSUME NEW c \in charges'
          PROVE  c.date <= subTime' \/ c.by \in overlapping'
      BY <1>0, <1>1, <1>6, <1>7 DEF Dated, Takes
    <2>2. ASSUME NEW c \in charges
          PROVE  Unsure(c)' \/ InFlight(c)' \/ subs'[c.sub].next > c.date
      <3>1. CASE Unsure(c)
        BY <3>1
      <3>2. CASE InFlight(c) /\ ~InFlight(c)' /\ Books(r)
        <4>1. c = ChargeOf(r)
          BY <3>2, SubCharges DEF Books, Drops, At
        <4>2. c.sub = target[r] /\ subs'[c.sub].next = subTime + 1
          BY <1>4, <3>2, <4>1 DEF Books, Rewrites, ChargeOf, Exists
        <4>3. c.date <= subTime \/ Unsure(c)
          BY <1>0 DEF Dated, Unsure
        <4> QED
          BY <1>4, <1>5, <4>2, <4>3
      <3>3. CASE InFlight(c) /\ ~InFlight(c)' /\ pc[r] = "deposit" /\ Drops(r)
        <4>1. c = ChargeOf(r) /\ Op(r) = "pass" /\ paid' = paid
          BY <3>3 DEF Books, Drops, At, subVars, subFunds
        <4>2. c \notin paid
          BY <1>2, <3>3, <4>1
        <4> QED
          BY <3>3, <4>1, <4>2 DEF Unsure, Refused
      <3>4. CASE subs[c.sub].next > c.date
        BY <1>4, <1>5, <3>4
      <3> QED
        BY <1>0, <3>1, <3>2, <3>3, <3>4 DEF Dated
    <2>3. ASSUME NEW c \in charges' \ charges PROVE InFlight(c)'
      BY <1>1, <1>7, <2>3
    <2> QED
      BY <2>1, <2>2, <2>3 DEF Dated
  <1>9. Single'
    <2>1. ASSUME NEW c \in charges, Takes(r), c.sub = target[r], c.date = seen[r].next
          PROVE  Unsure(c)' \/ Unsure(ChargeOf(r))'
      <3>1. CASE r \in overlapping
        BY <1>7, <2>1, <3>1 DEF Unsure, Takes, ChargeOf
      <3>2. CASE InFlight(c)
        <4>1. c.by # r
          BY <2>1, <3>2 DEF InFlight, Takes, At, Charging
        <4>2. InPass(r) /\ InPass(c.by)
          BY <2>1, <3>2 DEF InFlight, Takes, At, InPass, PassPlaces
        <4>3. c.by \in overlapping
          BY <1>0, <1>4, <4>1, <4>2 DEF Lone
        <4> QED
          BY <4>3 DEF Unsure
      <3>3. CASE r \notin overlapping /\ subs[c.sub].next > c.date
        BY <1>4, <1>5, <1>6, <2>1, <3>3
      <3> QED
        BY <1>0, <3>1, <3>2, <3>3 DEF Dated
    <2>2. ASSUME NEW c \in charges, NEW d \in charges, c # d, c.sub = d.sub, c.date = d.date
          PROVE  Unsure(c)' \/ Unsure(d)'
      BY <1>0, <2>2 DEF Single
    <2> QED
      BY <1>1, <1>7, <2>1, <2>2 DEF Single
  <1>10. Counts'
    \* A charge counts from when its pass has gone on.
    <2>1. ASSUME NEW s \in Subs, ~(Books(r) /\ s = target[r])
          PROVE  Counted(s)' = Counted(s)
      <3> USE DEF Counted
      <3>1. ASSUME NEW c \in booked', c.sub = s, ~InFlight(c)' PROVE c \in booked /\ ~InFlight(c)
        <4>1. c \in booked
          <5>1. CASE Settles(r) /\ c = ChargeOf(r)
            BY <3>1, <5>1 DEF Settles, At, InFlight, InPass, PassPlaces, Charging, ChargeOf
          <5> QED
            BY <1>1, <3>1, <5>1
        <4>2. CASE InFlight(c)
          <5>1. c = ChargeOf(r) /\ (Books(r) \/ (pc[r] = "deposit" /\ Drops(r)))
            BY <1>2, <3>1, <4>1, <4>2
          <5>2. ~Books(r)
            BY <2>1, <3>1, <5>1 DEF ChargeOf
          <5> QED
            BY <1>2, <4>1, <5>1, <5>2 DEF Drops
        <4> QED
          BY <4>1, <4>2
      <3>2. ASSUME NEW c \in booked, c.sub = s, ~InFlight(c) PROVE c \in booked' /\ ~InFlight(c)'
        BY <1>1, <1>2, <3>2
      <3> QED
        BY <3>1, <3>2
    <2>2. ASSUME Books(r)
          PROVE  /\ Counted(target[r])' = Counted(target[r]) \cup {ChargeOf(r)}
                 /\ ChargeOf(r) \notin Counted(target[r]) /\ ChargeOf(r) \in booked'
                 /\ ChargeOf(r)' = ChargeOf(r)
      <3>1. /\ booked' = booked /\ ChargeOf(r) \in booked /\ ChargeOf(r).sub = target[r]
            /\ InFlight(ChargeOf(r)) /\ ~InFlight(ChargeOf(r))'
            /\ ChargeOf(r)' = ChargeOf(r) /\ target' = target
        BY <1>2, <2>2 DEF Books, At, subFunds, ChargeOf, InFlight, InPass, PassPlaces, Charging
      <3>2. \A c \in booked : c # ChargeOf(r) => InFlight(c)' = InFlight(c)
        <4>1. \A c \in booked : c # ChargeOf(r) => (InFlight(c) <=> InFlight(c)')
          BY <1>2
        <4> QED
          BY <4>1 DEF InFlight, InPass
      <3>3. \A c \in booked' : c.sub = target[r] /\ ~InFlight(c)' =>
                c = ChargeOf(r) \/ (c \in booked /\ ~InFlight(c))
        BY <3>1, <3>2
      <3>4. \A c \in booked : c.sub = target[r] /\ ~InFlight(c) => ~InFlight(c)'
        BY <3>1, <3>2
      <3> QED
        BY <3>1, <3>3, <3>4 DEF Counted
    <2>3. ASSUME NEW s \in Subs, NEW c \in booked, c.sub = s, Unsure(c)
          PROVE  \E d \in booked' : d.sub = s /\ Unsure(d)'
      BY <1>1, <1>2, <2>3
    <2>4. ASSUME NEW s \in Subs, subs[s].count = Cardinality(Counted(s)), subs'[s].count = subs[s].count,
                 ~(Books(r) /\ s = target[r])
          PROVE  subs'[s].count = Cardinality(Counted(s)')
      BY <2>1, <2>4
    <2>5. ASSUME Creates(r), NEW s, s = job[r].sub, s \in Subs
          PROVE  subs'[s].count = Cardinality(Counted(s)')
      <3>1. ~Exists(s) /\ ~Books(r)
        BY <1>0, <2>5 DEF Creates, Books, At, Unborn
      <3>2. Counted(s) = {}
        BY <1>2, <1>4, <3>1 DEF Counted
      <3>3. subs'[s].count = 0
        BY <2>5 DEF Creates, Rewrites
      <3>4. Counted(s)' = {}
        BY <2>1, <2>5, <3>1, <3>2
      <3> QED
        BY <3>3, <3>4, FS_EmptySet
    <2>6. ASSUME Books(r), NEW s, s = target[r], s \in Subs, subs[s].count = Cardinality(Counted(s))
          PROVE  \/ subs'[s].count = Cardinality(Counted(s)')
                 \/ \E d \in booked' : d.sub = s /\ Unsure(d)'
      <3>1. CASE r \in overlapping
        <4> DEFINE d == ChargeOf(r)
        <4>1. d.by = r /\ d.sub = s /\ d \in booked'
          BY <2>2, <2>6 DEF ChargeOf
        <4> HIDE DEF d
        <4> QED
          BY <3>1, <4>1 DEF Unsure
      <3>2. CASE r \notin overlapping
        <4>1. seen[r].count = subs[s].count
          BY <1>0, <2>6, <3>2 DEF UpToDate, Books, At, InPass, PassPlaces, Holding, Charging
        <4>2. subs'[s].count = seen[r].count + 1
          BY <2>6 DEF Books, Rewrites
        <4>3. IsFiniteSet(Counted(s))
          BY <1>2, FS_Subset DEF Counted
        <4>4. Cardinality(Counted(s)') = Cardinality(Counted(s)) + 1
          <5>1. target' = target
            BY <2>6 DEF Books
          <5>2. Counted(s)' = Counted(s) \cup {ChargeOf(r)} /\ ChargeOf(r) \notin Counted(s)
            BY <2>2, <2>6, <5>1
          <5> QED
            BY <4>3, <5>2, FS_AddElement
        <4> QED
          BY <2>6, <4>1, <4>2, <4>4
      <3> QED
        BY <3>1, <3>2
    <2>7. ASSUME NEW s \in Subs
          PROVE  \/ subs'[s].count = subs[s].count /\ ~(Books(r) /\ s = target[r])
                 \/ Creates(r) /\ s = job[r].sub
                 \/ Books(r) /\ s = target[r]
      BY <2>7 DEF Decides, Suspends, Restates, Rewrites
    <2>8. ASSUME NEW s \in Subs
          PROVE  \/ subs'[s].count = Cardinality(Counted(s)')
                 \/ \E d \in booked' : d.sub = s /\ Unsure(d)'
      <3>1. CASE \E c \in booked : c.sub = s /\ Unsure(c)
        BY <2>3, <3>1
      <3>2. CASE subs[s].count = Cardinality(Counted(s))
        BY <2>4, <2>5, <2>6, <2>7, <3>2
      <3> QED
        BY <1>0, <3>1, <3>2 DEF Counts
    <2> QED
      BY <2>8 DEF Counts
  <1> QED
    BY <1>3, <1>8, <1>9, <1>10

LEMMA SubKept == Frame /\ SubInv /\ [Next]_vars => SubInv'
  <1> SUFFICES ASSUME Frame, SubInv, [Next]_vars PROVE SubInv'
    OBVIOUS
  <1>0. job' = job /\ \A q : Op(q)' = Op(q)
    BY Moves DEF Op
  <1>1. ASSUME NEW r \in Requests, SubStep(r), Only(r), pc[r] \notin Terminal, cut' = cut
        PROVE  SubInv'
    <2>1. SubEffect(r)
      BY <1>1, SubSteps
    <2> QED
      BY <1>0, <1>1, <2>1, SubRowMoves, SubPassMoves, SubCharges, SubChargeMoves DEF SubInv
  <1>2. ASSUME /\ UNCHANGED <<subFunds, subs, due, target, seen, overlapping, contended>>
               /\ subTime' \in {subTime, subTime + 1}
               /\ \A q \in Requests : Op(q) \in SubOps =>
                     \/ pc'[q] = pc[q] /\ cut'[q] = cut[q]
                     \/ pc[q] = "new" /\ pc'[q] = "429" /\ cut'[q] = cut[q]
                     \/ Running(q) /\ pc'[q] \in {"504", "lost"} /\ cut'[q] = pc[q]
        PROVE  SubInv'
    <2>0. /\ SubTables /\ SubPlaces /\ Unborn /\ Aimed /\ Lone /\ UpToDate /\ Taken /\ Staged
          /\ Dated /\ Single /\ Contests /\ Cancels /\ Counts /\ OneForKey
      BY DEF SubInv
    <2>1. subTime \in Nat /\ subTime' \in Nat /\ subTime <= subTime'
      BY <1>2, <2>0 DEF SubTables
    <2>2. SubTables'
      BY <1>2, <2>0, <2>1 DEF SubTables, IsRow
    <2>3. \A s : Exists(s)' = Exists(s)
      BY <1>2 DEF Exists
    <2>4. \A q \in Requests : /\ InPass(q)' => InPass(q) /\ pc'[q] = pc[q]
                              /\ Aiming(q)' => Aiming(q) /\ pc'[q] = pc[q]
                              /\ Ruling(q)' => Ruling(q)
      BY <1>0, <1>2 DEF InPass, PassPlaces, Aiming, Holding, Charging, Ruling, SubOps
    <2>5. \A q \in Requests, s \in Subs : Writer(q, s)' => Writer(q, s)
      BY <1>0, <1>2 DEF Writer, Ruling, Holding, Charging, SubOps
    <2>6. SubPlaces' /\ Unborn' /\ OneForKey'
      BY <1>0, <1>2, <2>0, <2>3 DEF SubPlaces, Unborn, OneForKey, SubOps, Terminal
    <2>7. Aimed' /\ Lone'
      BY <1>0, <1>2, <2>0, <2>3, <2>4 DEF Aimed, Lone
    <2>8. UpToDate'
      <3>1. \A s \in Subs : subs[s].next \in Nat
        BY <2>0 DEF SubTables, IsRow
      <3>2. ASSUME NEW q \in Requests, InPass(q)', q \notin overlapping
            PROVE  /\ \A s \in due[q] : subs[s].next <= subTime'
                   /\ Aiming(q)' => subs[target[q]].next <= subTime'
        <4>1. /\ \A s \in due[q] : Exists(s) /\ subs[s].next <= subTime
              /\ Aiming(q)' => Exists(target[q]) /\ subs[target[q]].next <= subTime
          BY <2>0, <2>4, <3>2 DEF Aimed, UpToDate
        <4> QED
          BY <2>1, <3>1, <4>1 DEF Exists
      <3> QED
        BY <1>2, <2>0, <2>4, <3>2 DEF UpToDate
    <2>9. /\ charges' = charges /\ paid' = paid /\ booked' = booked
          /\ \A q : ChargeOf(q)' = ChargeOf(q)
          /\ \A c \in charges : c.by \in Requests /\ Op(c.by) = "pass" /\ Exists(c.sub) /\ c.date \in Nat
      BY <1>2, <2>0 DEF subFunds, ChargeOf, Taken
    <2>10. \A c \in charges :
              /\ InFlight(c)' => InFlight(c)
              /\ InFlight(c) => InFlight(c)' \/ WasCut(c)'
              /\ WasCut(c) => WasCut(c)'
      <3>1. \A c \in charges : cut[c.by] \in Charging => ~Running(c.by) /\ pc[c.by] # "new"
        BY <2>9 DEF Frame, CutStays, Running, Terminal, Charging
      <3> QED
        BY <1>0, <1>2, <2>9, <3>1 DEF InFlight, WasCut, InPass, PassPlaces, Charging, SubOps
    <2>11. \A c \in charges : Unsure(c) => Unsure(c)'
      BY <1>2, <2>9, <2>10 DEF Unsure, Refused
    <2>12. Taken'
      BY <1>0, <1>2, <2>0, <2>3, <2>4, <2>9 DEF Taken, SubOps
    <2>13. Staged'
      <3>1. \A c \in charges \ booked : InFlight(c)' \/ WasCut(c)' \/ Refused(c)'
        BY <2>0, <2>9, <2>10 DEF Staged, Refused
      <3> QED
        BY <1>0, <1>2, <2>0, <2>9, <3>1 DEF Staged, SubOps, Charging
    <2>14. Dated' /\ Single'
      <3>1. \A c \in charges : c.date <= subTime' \/ c.by \in overlapping'
        BY <1>2, <2>0, <2>1, <2>9 DEF Dated
      <3>2. \A c \in charges : Unsure(c)' \/ InFlight(c)' \/ subs'[c.sub].next > c.date
        BY <1>2, <2>0, <2>10, <2>11 DEF Dated, Unsure
      <3> QED
        BY <2>0, <2>9, <2>11, <3>1, <3>2 DEF Dated, Single
    <2>15. Contests' /\ Cancels'
      <3>1. \A q \in Requests : Op(q) = "cancelSub" => job[q].sub \in Subs
        BY SubConstants DEF Frame, Op
      <3>2. \A q \in Requests : Op(q) = "cancelSub" /\ pc'[q] = "done" => pc[q] = "done"
        BY <1>2 DEF SubOps
      <3> QED
        BY <1>0, <1>2, <2>0, <2>5, <3>1, <3>2 DEF Contests, Cancels
    <2>16. Counts'
      <3>1. ASSUME NEW s \in Subs PROVE \/ Counted(s)' = Counted(s)
                                        \/ \E c \in booked' : c.sub = s /\ Unsure(c)'
        <4>1. booked \subseteq charges
          BY <2>0 DEF Staged
        <4>2. CASE \E c \in booked : c.sub = s /\ InFlight(c) /\ ~InFlight(c)'
          BY <2>9, <2>10, <4>1, <4>2 DEF Unsure
        <4>3. CASE \A c \in booked : c.sub = s => (InFlight(c) <=> InFlight(c)')
          BY <2>9, <4>3 DEF Counted
        <4> QED
          BY <2>10, <4>1, <4>2, <4>3
      <3>2. booked \subseteq charges
        BY <2>0 DEF Staged
      <3> QED
        BY <1>2, <2>0, <2>9, <2>11, <3>1, <3>2 DEF Counts
    <2> QED
      BY <2>2, <2>6, <2>7, <2>8, <2>12, <2>13, <2>14, <2>15, <2>16 DEF SubInv
  <1>3. subTime \in Nat /\ (UNCHANGED subVars =>
           /\ UNCHANGED <<subFunds, subs, due, target, seen, overlapping, contended>>
           /\ subTime' \in {subTime, subTime + 1})
    BY DEF SubInv, SubTables, subVars, subFunds
  <1>4. ASSUME UNCHANGED subVars, NEW r \in Requests, Cut(r) \/ Barred(r) PROVE SubInv'
    BY <1>2, <1>3, <1>4 DEF Cut, Barred, Frame, Placed
  <1>5. CASE UNCHANGED subVars /\ Fallen
    <2>1. \A q \in Requests : \/ pc'[q] = pc[q] /\ cut'[q] = cut[q]
                              \/ Running(q) /\ pc'[q] \in {"504", "lost"} /\ cut'[q] = pc[q]
      BY <1>5 DEF Fallen
    <2> QED
      BY <1>2, <1>3, <1>5, <2>1
  <1>6. CASE SubTick /\ UNCHANGED <<pc, cut>>
    BY <1>2, <1>3, <1>6 DEF SubTick
  <1>7. CASE UNCHANGED subVars /\ Unmoved(SubOps)
    BY <1>2, <1>3, <1>7 DEF Unmoved
  <1> QED
    BY <1>1, <1>4, <1>5, <1>6, <1>7, SubTurns

LEMMA SubMeans == Frame /\ SubInv => ChargedWhenDue
  <1> SUFFICES ASSUME Frame, SubInv PROVE ChargedWhenDue
    OBVIOUS
  <1>0. /\ Taken /\ Staged /\ Dated /\ Single /\ Cancels /\ Counts /\ OneForKey
    BY DEF SubInv
  <1>1. \A s \in Subs : CancelStands(s)
    <2>1. \A q \in Requests, s \in Subs :
             InPass(q) /\ pc[q] = "withdraw" /\ target[q] = s => Writer(q, s)
      BY DEF InPass, Writer, Holding
    <2> QED
      BY <1>0, <2>1 DEF CancelStands, Cancels
  <1>2. \A s \in Subs : \/ subs[s].count = Cardinality({c \in booked : c.sub = s})
                        \/ \E c \in booked : c.sub = s /\ (InFlight(c) \/ Unsure(c))
    <2>1. ASSUME NEW s \in Subs, \A c \in booked : c.sub = s => ~InFlight(c)
          PROVE  Counted(s) = {c \in booked : c.sub = s}
      BY <2>1 DEF Counted
    <2> QED
      BY <1>0, <2>1 DEF Counts
  <1>3. \A k \in SubKeys : Cardinality(SubsWithKey(k)) <= 1
    <2>1. ASSUME NEW k \in SubKeys PROVE SubsWithKey(k) = {} \/ \E s : SubsWithKey(k) = {s}
      <3>1. k # NoSubKey
        BY SubConstants
      <3>2. \A s, t \in SubsWithKey(k) : s = t
        BY <1>0, <3>1 DEF OneForKey, SubsWithKey, Exists
      <3> QED
        BY <3>2
    <2> QED
      BY <2>1, FS_EmptySet, FS_Singleton
  <1> QED
    BY <1>0, <1>1, <1>2, <1>3 DEF ChargedWhenDue, Dated, Single, Staged

\* No payment of a subscription is taken twice for a date or before it, none is
\* lost between the payer, the payee and the books, a cancelled subscription is
\* not charged, the count is that of the settlements and a key stands for one
\* subscription - but for passes that overlap, are cut off or are refused the
\* deposit, and for two coroutines that hold one row (charge_subscription and
\* cancel_subscription, engine.py; process_due, scheduler.py).
THEOREM ChargesAlwaysDue == Spec => []ChargedWhenDue
  <1> DEFINE Inv == Frame /\ SubInv
  <1>1. Init => Inv
    BY FrameInit, SubStart
  <1>2. Inv /\ [Next]_vars => Inv'
    BY FrameStep, SubKept
  <1>3. Inv => ChargedWhenDue
    BY SubMeans
  <1> QED
    BY <1>1, <1>2, <1>3, PTL DEF Spec

-----------------------------------------------------------------------------
(***************************************************************************)
(* Negotiations.                                                           *)
(***************************************************************************)

\* What may happen to a negotiation.
LEMMA TalkTurns ==
    ASSUME Frame, [Next]_vars
    PROVE  \/ \E r \in Requests : TalkStep(r) /\ Only(r) /\ Op(r) \in TalkOps /\ cut' = cut
           \/ UNCHANGED talkVars /\ \E r \in Requests : Cut(r) \/ Barred(r)
           \/ UNCHANGED talkVars /\ Fallen
           \/ UNCHANGED talkVars /\ Unmoved(TalkOps)
  <1>1. ASSUME NEW r \in Requests, Step(r), Only(r), cut' = cut, Apart(r)
        PROVE  \/ TalkStep(r) /\ Op(r) \in TalkOps
               \/ UNCHANGED talkVars /\ Unmoved(TalkOps)
    BY <1>1, TalkOnly DEF Apart, Only, Unmoved
  <1>2. ASSUME NEW r \in Requests, Cancelled(r) \/ Calling(r) PROVE UNCHANGED talkVars
    BY <1>2 DEF Cancelled, Calling, work
  <1>3. ASSUME NEW t \in Tasks, Send(t) PROVE UNCHANGED talkVars
    BY <1>3 DEF Send
  <1>4. ASSUME Tick PROVE UNCHANGED talkVars
    BY <1>4 DEF Tick, work
  <1>5. ASSUME Died PROVE UNCHANGED talkVars
    BY <1>5 DEF Died
  <1>6. ASSUME UNCHANGED vars PROVE UNCHANGED talkVars /\ UNCHANGED <<pc, cut>>
    BY <1>6 DEF vars, tasks, work
  <1>7. UNCHANGED <<pc, cut>> => Unmoved(TalkOps)
    BY DEF Unmoved
  <1> QED
    BY <1>1, <1>2, <1>3, <1>4, <1>5, <1>6, <1>7, Moves

\* An answer that is about to be written was read off the row as it still is,
\* by nobody else; who accepts or rejects then has the last word; and nothing
\* is written for a negotiation before it is proposed.
Replying(r, place) == Answers(r) /\ pc[r] = place
TalkTables == /\ talks = [t \in Negotiations |-> talks[t]]
              /\ offered = [r \in Requests |-> offered[r]]
Unproposed == \A r \in Requests :
    /\ At(r, "negotiate", "new") => talks[Talk(r)].status = "none"
    /\ Replying(r, "update") => talks[Talk(r)].status # "none"
Fair(t) == t \in Negotiations \ answeredAtOnce
Firm == \A r \in Requests : Fair(Talk(r)) =>
    /\ Replying(r, "update") =>
          /\ talks[Talk(r)] = offered[r] /\ talks[Talk(r)].status \in Open
          /\ \A q \in Requests \ {r} : ~(Replying(q, "update") /\ Talk(q) = Talk(r))
    /\ Replying(r, "message") =>
          /\ Op(r) \in {"accept", "reject"} => talks[Talk(r)].status = OutcomeOf[Op(r)]
          /\ Op(r) = "accept" => talks[Talk(r)].price = offered[r].price
TalkInv == TalkTables /\ Unproposed /\ Firm /\ AgreementsHold

LEMMA TalkStart == Init => TalkInv
  <1> SUFFICES ASSUME Init PROVE TalkInv
    OBVIOUS
  <1>1. job \in Workloads /\ \A r \in Requests : pc[r] \in {"new", "done"}
    BY DEF Init, TaskInit
  <1>2. TalkTables /\ \A t \in Negotiations : t # FirstNegotiation => talks[t] = NoTalk
    BY DEF Init, TalkInit, TalkTables
  <1>3. Unproposed
    <2>1. \A r \in Requests : At(r, "negotiate", "new") => Talk(r) \in Negotiations \ {FirstNegotiation}
      BY <1>1, NegotiationConstants DEF At, Op, Talk
    <2>2. \A r \in Requests : ~Replying(r, "update")
      BY <1>1 DEF Replying
    <2>3. NoTalk.status = "none"
      BY DEF NoTalk
    <2> QED
      BY <1>2, <2>1, <2>2, <2>3 DEF Unproposed
  <1>4. Firm
    BY <1>1 DEF Firm, Replying
  <1>5. \A t \in Negotiations : talks[t].status \notin Closed
    BY DEF Init, TalkInit, NoTalk, Closed
  <1>6. AgreementsHold
    BY <1>5 DEF Init, TalkInit, AgreementsHold
  <1> QED
    BY <1>2, <1>3, <1>4, <1>6 DEF TalkInv

\* What a step does to the row and to the messages.
Renegotiated(r, row) == talks' = [talks EXCEPT ![Talk(r)] = row]
Proposes(r) ==
    /\ Op(r) = "negotiate" /\ pc[r] = "new" /\ pc'[r] = "message"
    /\ Renegotiated(r, [status |-> "proposed", price |-> job[r].price])
    /\ UNCHANGED <<told, answeredAtOnce>>
Refuses(r) == pc[r] = "new" /\ pc'[r] = "rejected" /\ Answers(r) /\ UNCHANGED talkVars
Sees(r) ==
    /\ Answers(r) /\ pc[r] = "new" /\ pc'[r] = "update" /\ UNCHANGED <<talks, told>>
    /\ talks[Talk(r)].status \in Open /\ offered'[r] = talks[Talk(r)]
    /\ answeredAtOnce \subseteq answeredAtOnce'
    /\ \A q \in Requests : Replying(q, "update") /\ Talk(q) = Talk(r) => Talk(r) \in answeredAtOnce'
Replies(r) ==
    /\ Replying(r, "update") /\ pc'[r] = "message" /\ UNCHANGED <<offered, told, answeredAtOnce>>
    /\ \E price : Renegotiated(r, [status |-> OutcomeOf[Op(r)], price |-> price])
                  /\ (Op(r) # "counter" => price = talks[Talk(r)].price)
Tells(r) ==
    /\ Op(r) \in TalkOps /\ pc[r] = "message" /\ pc'[r] = "done"
    /\ UNCHANGED <<talks, offered, answeredAtOnce>>
    /\ \E m : /\ told' = told \cup {m} /\ m.talk = Talk(r) /\ m.kind = Op(r)
              /\ (Op(r) # "counter" => m.price = offered[r].price)

LEMMA TalkSteps ==
    ASSUME Frame, TalkTables, NEW r \in Requests, TalkStep(r)
    PROVE  /\ offered' = [q \in Requests |-> offered'[q]]
           /\ \A q \in Requests \ {r} : offered'[q] = offered[q]
           /\ Proposes(r) \/ Refuses(r) \/ Sees(r) \/ Replies(r) \/ Tells(r)
  <1>0. pc = [q \in Requests |-> pc[q]] /\ offered = [q \in Requests |-> offered[q]]
    BY DEF Frame, Placed, TalkTables
  <1>1. CASE Propose(r)
    BY <1>0, <1>1 DEF Propose, Proposes, At, Go, Renegotiated
  <1>2. CASE ReadTalk(r)
    BY <1>0, <1>2 DEF ReadTalk, Read, Refuses, Sees, Go, Replying, talkVars
  <1>3. CASE UpdateTalk(r)
    <2>1. talks' = [talks EXCEPT ![Talk(r)] =
             [status |-> OutcomeOf[Op(r)],
              price |-> IF Op(r) = "counter" THEN job[r].price ELSE talks[Talk(r)].price]]
      BY <1>3 DEF UpdateTalk
    <2>2. Renegotiated(r, [status |-> OutcomeOf[Op(r)],
                        price |-> IF Op(r) = "counter" THEN job[r].price ELSE talks[Talk(r)].price])
      BY <2>1 DEF Renegotiated
    <2> QED
      BY <1>0, <1>3, <2>2 DEF UpdateTalk, Replies, Replying, Go
  <1>4. CASE SendMessage(r)
    <2>1. Op(r) \in TalkOps
      BY <1>4 DEF SendMessage, Answers, TalkOps
    <2> DEFINE m == [talk |-> Talk(r), kind |-> Op(r),
                     price |-> IF Op(r) = "counter" THEN job[r].price ELSE offered[r].price]
    <2>2. told' = told \cup {m} /\ m.talk = Talk(r) /\ m.kind = Op(r)
          /\ (Op(r) # "counter" => m.price = offered[r].price)
      BY <1>4 DEF SendMessage
    <2> QED
      BY <1>0, <1>4, <2>1, <2>2 DEF SendMessage, Tells, Go
  <1> QED
    BY <1>1, <1>2, <1>3, <1>4 DEF TalkStep

LEMMA TalkMoves ==
    ASSUME Frame, TalkInv, job' = job, cut' = cut,
           NEW r \in Requests, TalkStep(r), Only(r), Op(r) \in TalkOps
    PROVE  TalkInv'
  <1> USE DEF TalkInv
  <1>0. /\ \A q \in Requests \ {r} : pc'[q] = pc[q] /\ offered'[q] = offered[q]
        /\ \A q : Op(q)' = Op(q) /\ Talk(q)' = Talk(q) /\ (Answers(q) <=> Answers(q)')
        /\ TalkTables /\ job \in Workloads
    BY TalkSteps DEF Only, Op, Talk, Answers, Frame
  <1>1. \A q, t : At(q, "negotiate", "new") /\ At(r, "negotiate", "new") /\ q \in Requests /\ q # r
                  => Talk(q) # Talk(r)
    BY <1>0, NegotiationConstants DEF At, Op, Talk
  <1>2. "counter" \in DOMAIN OutcomeOf /\ "accept" \in DOMAIN OutcomeOf /\ "reject" \in DOMAIN OutcomeOf
        /\ "negotiate" \notin DOMAIN OutcomeOf
        /\ \A op \in DOMAIN OutcomeOf : OutcomeOf[op] # "none" /\ op \in {"counter", "accept", "reject"}
        /\ OutcomeOf["accept"] = "accepted" /\ OutcomeOf["reject"] = "rejected"
        /\ OutcomeOf["counter"] = "countered"
    BY DEF OutcomeOf
  <1>3. CASE Proposes(r)
    <2>1. TalkTables'
      BY <1>0, <1>3, TalkSteps DEF TalkTables, Proposes, Renegotiated
    <2>2. talks[Talk(r)].status = "none" /\ \A t \in Negotiations \ {Talk(r)} : talks'[t] = talks[t]
      BY <1>0, <1>3 DEF Proposes, Renegotiated, TalkTables, Unproposed, At
    <2>3. Talk(r) \in Negotiations /\ talks'[Talk(r)].status = "proposed"
      BY <1>0, <1>3, NegotiationConstants DEF Proposes, Renegotiated, TalkTables, Op, Talk
    <2>4. Unproposed'
      <3>1. ASSUME NEW q \in Requests, At(q, "negotiate", "new")' PROVE talks'[Talk(q)].status = "none"
        <4>1. q # r /\ At(q, "negotiate", "new")
          BY <1>0, <1>3, <3>1 DEF Proposes, At
        <4>2. Talk(q) \in Negotiations \ {Talk(r)}
          BY <1>0, <1>1, <1>3, <4>1, NegotiationConstants DEF At, Op, Talk, Proposes
        <4> QED
          BY <2>2, <4>1, <4>2 DEF Unproposed
      <3>2. ASSUME NEW q \in Requests, Replying(q, "update")' PROVE talks'[Talk(q)].status # "none"
        <4>1. Replying(q, "update")
          BY <1>0, <1>3, <3>2 DEF Proposes, Replying
        <4>2. Talk(q) # Talk(r) => talks'[Talk(q)] = talks[Talk(q)]
          BY <1>0, <1>3 DEF Proposes, Renegotiated, TalkTables
        <4> QED
          BY <2>3, <4>1, <4>2 DEF Unproposed
      <3> QED
        BY <1>0, <3>1, <3>2 DEF Unproposed
    <2>5. ~Answers(r)
      BY <1>2, <1>3 DEF Proposes, Answers
    <2>6. ASSUME NEW q \in Requests, Fair(Talk(q)), Answers(q), pc[q] \in {"update", "message"},
                 Talk(q) = Talk(r)
          PROVE  Op(q) = "counter" /\ pc[q] = "message"
      BY <1>2, <2>2, <2>6 DEF Firm, Replying, Open, Answers
    <2>7. Firm'
      BY <1>0, <1>2, <1>3, <2>2, <2>5, <2>6 DEF Firm, Replying, Proposes, Fair
    <2>8. AgreementsHold'
      BY <1>0, <1>2, <1>3, <2>2, <2>3, <2>5 DEF AgreementsHold, Proposes, Closed
    <2> QED
      BY <2>1, <2>4, <2>7, <2>8
  <1>4. CASE Refuses(r)
    <2>1. UNCHANGED <<talks, offered, told, answeredAtOnce>>
      BY <1>4 DEF Refuses, talkVars
    <2>2. Unproposed'
      BY <1>0, <1>2, <1>4, <2>1 DEF Unproposed, Refuses, At, Answers, Replying
    <2>3. Firm'
      BY <1>0, <1>4, <2>1 DEF Firm, Replying, Refuses, Fair
    <2>4. AgreementsHold'
      BY <1>0, <1>4, <2>1 DEF AgreementsHold, Refuses, Frame, CutStays
    <2> QED
      BY <2>1, <2>2, <2>3, <2>4 DEF TalkTables
  <1>5. CASE Sees(r)
    <2>1. TalkTables'
      BY <1>0, <1>5, TalkSteps DEF TalkTables, Sees
    <2>2. Unproposed'
      BY <1>0, <1>2, <1>5 DEF Unproposed, Sees, At, Answers, Replying, Open
    <2>3. Firm'
      BY <1>0, <1>5 DEF Firm, Replying, Sees, Fair
    <2>4. AgreementsHold'
      BY <1>0, <1>5 DEF AgreementsHold, Sees
    <2> QED
      BY <2>1, <2>2, <2>3, <2>4
  <1>6. CASE Replies(r)
    <2>0. PICK price : Renegotiated(r, [status |-> OutcomeOf[Op(r)], price |-> price])
                       /\ (Op(r) # "counter" => price = talks[Talk(r)].price)
      BY <1>6 DEF Replies
    <2>1. TalkTables' /\ \A t \in Negotiations \ {Talk(r)} : talks'[t] = talks[t]
      BY <1>0, <1>6, <2>0 DEF TalkTables, Replies, Renegotiated
    <2>2. Talk(r) \in Negotiations =>
             talks'[Talk(r)].status = OutcomeOf[Op(r)] /\ talks'[Talk(r)].price = price
      BY <1>0, <2>0 DEF TalkTables, Renegotiated
    <2>3. Op(r) \in {"counter", "accept", "reject"} /\ pc[r] = "update" /\ pc'[r] = "message"
      BY <1>2, <1>6 DEF Replies, Replying, Answers
    <2>4. Fair(Talk(r)) =>
             /\ talks[Talk(r)].price = offered[r].price /\ talks[Talk(r)].status \in Open
             /\ \A q \in Requests \ {r} : ~(Replying(q, "update") /\ Talk(q) = Talk(r))
      BY <1>6 DEF Replies, Firm
    <2>5. talks[Talk(r)].status # "none"
      BY <1>6 DEF Replies, Unproposed
    <2>6. \A t : t # Talk(r) \/ t \notin Negotiations => talks'[t] = talks[t]
      BY <1>0, <2>0 DEF TalkTables, Renegotiated
    <2>7. Unproposed'
      BY <1>0, <1>2, <2>2, <2>3, <2>5, <2>6 DEF Unproposed, At, Replying, Answers
    <2>8. Firm'
      <3>0. offered' = offered /\ answeredAtOnce' = answeredAtOnce
        BY <1>6 DEF Replies
      <3>1. ASSUME NEW q \in Requests, q # r, Talk(q) # Talk(r) \/ Fair(Talk(r)), Fair(Talk(q)),
                   Answers(q), pc[q] \in {"update", "message"}
            PROVE  \/ Talk(q) # Talk(r) /\ talks'[Talk(q)] = talks[Talk(q)]
                   \/ Op(q) = "counter" /\ pc[q] = "message"
        <4>1. CASE Talk(q) # Talk(r)
          BY <2>6, <4>1
        <4>2. CASE Talk(q) = Talk(r)
          <5>1. talks[Talk(q)].status \in {"proposed", "countered"} /\ ~Replying(q, "update")
            BY <2>4, <3>1, <4>2 DEF Open
          <5>2. pc[q] = "message" /\ Op(q) \in {"counter", "accept", "reject"}
            BY <1>2, <3>1, <5>1 DEF Replying, Answers
          <5> QED
            BY <1>2, <3>1, <5>1, <5>2 DEF Firm, Replying
        <4> QED
          BY <4>1, <4>2
      <3>2. Fair(Talk(r)) => /\ Op(r) \in {"accept", "reject"} => talks'[Talk(r)].status = OutcomeOf[Op(r)]
                             /\ Op(r) = "accept" => talks'[Talk(r)].price = offered[r].price
        BY <2>0, <2>2, <2>4 DEF Fair
      <3>3. ASSUME NEW q \in Requests, q # r, Fair(Talk(q))
            PROVE  /\ Replying(q, "update") =>
                         /\ talks'[Talk(q)] = offered[q] /\ talks'[Talk(q)].status \in Open
                         /\ \A p \in Requests \ {q} : ~(Replying(p, "update")' /\ Talk(p) = Talk(q))
                   /\ Replying(q, "message") =>
                         /\ Op(q) \in {"accept", "reject"} => talks'[Talk(q)].status = OutcomeOf[Op(q)]
                         /\ Op(q) = "accept" => talks'[Talk(q)].price = offered[q].price
        BY <1>0, <2>3, <3>1, <3>3 DEF Firm, Replying
      <3> QED
        BY <1>0, <2>3, <3>0, <3>2, <3>3 DEF Firm, Replying, Fair
    <2>9. AgreementsHold'
      <3> SUFFICES ASSUME NEW t \in Negotiations \ answeredAtOnce' 
                   PROVE  (/\ \A m \in told : m.talk = t =>
                              /\ m.kind \in {"accept", "reject"} => talks[t].status = OutcomeOf[m.kind]
                              /\ m.kind = "accept" => talks[t].price = m.price
                           /\ talks[t].status \in Closed =>
                              \/ \E m \in told :
                                  m.talk = t /\ m.kind # "negotiate" /\ OutcomeOf[m.kind] = talks[t].status
                              \/ \E q \in Requests :
                                  /\ Answers(q) /\ Talk(q) = t /\ OutcomeOf[Op(q)] = talks[t].status
                                  /\ pc[q] = "message" \/ cut[q] = "message")'
        BY DEF AgreementsHold
      <3>1. told' = told /\ t \in Negotiations \ answeredAtOnce
        BY <1>6 DEF Replies
      <3>2. CASE t = Talk(r)
        <4>1. talks[t].status \in Open
          BY <2>4, <3>1, <3>2 DEF Fair
        <4>2. \A m \in told : m.talk = t => m.kind \notin {"accept", "reject"}
          BY <1>2, <3>1, <4>1 DEF AgreementsHold, Open
        <4>3. Answers(r)' /\ Talk(r)' = t /\ OutcomeOf[Op(r)'] = talks'[t].status /\ pc'[r] = "message"
          BY <1>0, <1>6, <2>2, <2>3, <3>1, <3>2 DEF Replies, Replying
        <4> QED
          BY <3>1, <4>2, <4>3
      <3>3. CASE t # Talk(r)
        <4>1. talks'[t] = talks[t]
          BY <2>6, <3>3
        <4> QED
          BY <1>0, <2>3, <3>1, <4>1 DEF AgreementsHold
      <3> QED
        BY <3>2, <3>3
    <2> QED
      BY <2>1, <2>7, <2>8, <2>9
  <1>7. CASE Tells(r)
    <2>0. PICK m : /\ told' = told \cup {m} /\ m.talk = Talk(r) /\ m.kind = Op(r)
                   /\ (Op(r) # "counter" => m.price = offered[r].price)
      BY <1>7 DEF Tells
    <2>1. pc[r] = "message" /\ pc'[r] = "done" /\ UNCHANGED <<talks, offered, answeredAtOnce>>
          /\ (Op(r) = "negotiate" \/ Answers(r))
      BY <1>2, <1>7 DEF Tells, TalkOps, Answers
    <2>2. Unproposed'
      BY <1>0, <2>1 DEF Unproposed, At, Replying
    <2>3. Firm'
      BY <1>0, <2>1 DEF Firm, Replying, Fair
    <2>4. Fair(Talk(r)) /\ Answers(r) =>
             /\ Op(r) \in {"accept", "reject"} => talks[Talk(r)].status = OutcomeOf[Op(r)]
             /\ Op(r) = "accept" => talks[Talk(r)].price = m.price
      BY <1>2, <2>0, <2>1 DEF Firm, Replying
    <2>5. \A t \in Negotiations \ answeredAtOnce : m.talk = t =>
              /\ m.kind \in {"accept", "reject"} => talks[t].status = OutcomeOf[m.kind]
              /\ m.kind = "accept" => talks[t].price = m.price
      BY <1>2, <2>0, <2>1, <2>4 DEF Fair, Answers
    <2>6. Answers(r) => m.kind # "negotiate"
      BY <1>2, <2>0 DEF Answers
    <2>7. AgreementsHold'
      BY <1>0, <2>0, <2>1, <2>5, <2>6 DEF AgreementsHold
    <2> QED
      BY <2>1, <2>2, <2>3, <2>7 DEF TalkTables
  <1> QED
    BY <1>3, <1>4, <1>5, <1>6, <1>7, TalkSteps

LEMMA TalkKept == Frame /\ TalkInv /\ [Next]_vars => TalkInv'
  <1> SUFFICES ASSUME Frame, TalkInv, [Next]_vars PROVE TalkInv'
    OBVIOUS
  <1> USE DEF TalkInv
  <1>0. job' = job /\ (\A q : Op(q)' = Op(q) /\ Talk(q)' = Talk(q) /\ (Answers(q)' <=> Answers(q)))
    BY Moves DEF Op, Talk, Answers
  <1>1. ASSUME NEW r \in Requests, TalkStep(r), Only(r), Op(r) \in TalkOps, cut' = cut PROVE TalkInv'
    BY <1>0, <1>1, TalkMoves
  <1>2. ASSUME UNCHANGED talkVars,
               \A q \in Requests : \/ pc'[q] = pc[q] /\ cut'[q] = cut[q]
                                   \/ /\ pc'[q] \in {"504", "lost", "429"}
                                      /\ cut'[q] = cut[q] \/ cut[q] = "never"
                                      /\ pc[q] = "message" => cut'[q] = "message"
        PROVE  TalkInv'
    <2>1. UNCHANGED <<talks, offered, told, answeredAtOnce>>
      BY <1>2 DEF talkVars
    <2>2. Unproposed' /\ Firm' /\ TalkTables'
      BY <1>0, <1>2, <2>1 DEF Unproposed, Firm, TalkTables, At, Replying, Fair
    <2>3. AgreementsHold'
      BY <1>0, <1>2, <2>1 DEF AgreementsHold
    <2> QED
      BY <2>2, <2>3
  <1>3. \A r \in Requests : cut[r] # "never" => ~Running(r)
    BY DEF Frame, CutStays, Running, Terminal
  <1>4. ASSUME UNCHANGED talkVars, NEW r \in Requests, Cut(r) \/ Barred(r) PROVE TalkInv'
    BY <1>2, <1>3, <1>4 DEF Cut, Barred, Frame, Placed
  <1>5. ASSUME UNCHANGED talkVars, Fallen PROVE TalkInv'
    BY <1>2, <1>3, <1>5 DEF Fallen, Running, Terminal
  <1>6. ASSUME UNCHANGED talkVars, Unmoved(TalkOps) PROVE TalkInv'
    <2>1. \A q \in Requests : Answers(q) \/ Op(q) = "negotiate" => Op(q) \in TalkOps
      BY DEF TalkOps, Answers
    <2>2. UNCHANGED <<talks, offered, told, answeredAtOnce>>
      BY <1>6 DEF talkVars
    <2>3. Unproposed' /\ Firm' /\ TalkTables'
      BY <1>0, <1>6, <2>1, <2>2 DEF Unproposed, Firm, TalkTables, At, Replying, Fair, Unmoved
    <2>4. AgreementsHold'
      BY <1>0, <1>6, <2>1, <2>2 DEF AgreementsHold, Unmoved
    <2> QED
      BY <2>3, <2>4
  <1> QED
    BY <1>1, <1>4, <1>5, <1>6, TalkTurns

\* What was agreed stays agreed and is what the other agent was told, but for
\* answers that read one proposal at once, and for messages lost to a cut
\* (accept, reject and counter of the negotiation routes).
THEOREM AgreementsAlwaysHold == Spec => []AgreementsHold
  <1> DEFINE Inv == Frame /\ TalkInv
  <1>1. Init => Inv
    BY FrameInit, TalkStart
  <1>2. Inv /\ [Next]_vars => Inv'
    BY FrameStep, TalkKept
  <1>3. Inv => AgreementsHold
    BY DEF TalkInv
  <1> QED
    BY <1>1, <1>2, <1>3, PTL DEF Spec

-----------------------------------------------------------------------------
(***************************************************************************)
(* Servers and their scores.                                               *)
(***************************************************************************)

\* What may happen to a server.
LEMMA TrustTurns ==
    ASSUME Frame, [Next]_vars
    PROVE  \/ \E r \in Requests : TrustStep(r) /\ Only(r) /\ Op(r) \in TrustOps /\ cut' = cut
           \/ UNCHANGED trustVars /\ \E r \in Requests : Cut(r) \/ Barred(r)
           \/ TrustCrash /\ Fallen
           \/ UNCHANGED trustVars /\ Unmoved(TrustOps)
  <1>1. ASSUME NEW r \in Requests, Step(r), Only(r), cut' = cut, Apart(r)
        PROVE  \/ TrustStep(r) /\ Op(r) \in TrustOps
               \/ UNCHANGED trustVars /\ Unmoved(TrustOps)
    BY <1>1, TrustOnly DEF Apart, Only, Unmoved
  <1>2. ASSUME NEW r \in Requests, Cancelled(r) \/ Calling(r) PROVE UNCHANGED trustVars
    BY <1>2 DEF Cancelled, Calling, people
  <1>3. ASSUME NEW t \in Tasks, Send(t) PROVE UNCHANGED trustVars
    BY <1>3 DEF Send, people
  <1>4. ASSUME Tick PROVE UNCHANGED trustVars
    BY <1>4 DEF Tick, people
  <1>5. ASSUME Died PROVE TrustCrash
    BY <1>5 DEF Died
  <1>6. ASSUME UNCHANGED vars PROVE UNCHANGED trustVars /\ UNCHANGED <<pc, cut>>
    BY <1>6 DEF vars, tasks, people
  <1>7. UNCHANGED <<pc, cut>> => Unmoved(TrustOps)
    BY DEF Unmoved
  <1> QED
    BY <1>1, <1>2, <1>3, <1>4, <1>5, <1>6, <1>7, Moves

\* A score, read or in the file, is of the server that has the id, or of one
\* that was deleted while it was computed, or not completely, or is about to be.
Servers == Requests \cup {FirstServer}
Condemned(s, places) ==
    s \in orphaned \cup LeftBehind
    \/ \E q \in Requests : Op(q) = "deleteServer" /\ pc[q] \in places /\ scored[q] = s
Justified(d, places) == \A s \in Range(d.scores) : s = d.server \/ Condemned(s, places)
TrustRows == [server : Servers \cup {NoServer}, scores : Seq(Servers)]
TrustTables ==
    /\ trustDb = [data |-> trustDb.data, saved |-> trustDb.saved, open |-> trustDb.open]
    /\ trustDb.data \in TrustRows /\ trustDb.saved \in TrustRows
    /\ scored = [r \in Requests |-> scored[r]] /\ answered = [r \in Requests |-> answered[r]]
    /\ \A r \in Requests : Op(r) = "score" /\ pc[r] \in {"cached", "compute"} => scored[r] \in Servers
Answering == \A r \in Requests : Op(r) = "score" /\ pc[r] \in {"commit", "done"} =>
    answered[r] \in {scored[r]} \cup orphaned \cup LeftBehind \/ r \in mixed
TrustInv == /\ TrustTables /\ Answering
            /\ Justified(trustDb.data, {"scores"}) /\ Justified(trustDb.saved, {"scores", "commit"})

LEMMA TrustStart == Init => TrustInv
  <1> SUFFICES ASSUME Init PROVE TrustInv
    OBVIOUS
  <1>1. trustDb = [data |-> [server |-> FirstServer, scores |-> <<FirstServer>>],
                   saved |-> [server |-> FirstServer, scores |-> <<FirstServer>>], open |-> FALSE]
    BY DEF Init, TrustInit, Connected
  <1>2. trustDb.data = [server |-> FirstServer, scores |-> <<FirstServer>>]
        /\ trustDb.saved = [server |-> FirstServer, scores |-> <<FirstServer>>]
    BY <1>1
  <1>3. \A r \in Requests : pc[r] \in {"new", "done"} /\ (pc[r] = "done" => Op(r) = "idle")
    BY DEF Init, TaskInit
  <1>4. TrustTables
    <2>1. <<FirstServer>> \in Seq(Servers)
      BY DEF Servers
    <2>2. trustDb.data \in TrustRows /\ trustDb.saved \in TrustRows
      BY <1>2, <2>1 DEF TrustRows, Servers
    <2>3. trustDb = [data |-> trustDb.data, saved |-> trustDb.saved, open |-> trustDb.open]
      BY <1>1
    <2>4. scored = [r \in Requests |-> scored[r]] /\ answered = [r \in Requests |-> answered[r]]
      BY DEF Init, TrustInit
    <2> QED
      BY <1>3, <2>2, <2>3, <2>4 DEF TrustTables
  <1>5. Answering
    BY <1>3 DEF Answering
  <1>6. Range(<<FirstServer>>) = {FirstServer}
    BY DEF Range
  <1> QED
    BY <1>2, <1>4, <1>5, <1>6 DEF TrustInv, Justified

\* What a step does to the tables.
Seen(r) == trustDb'.data \in TrustRows /\ trustDb'.saved = trustDb.saved
           /\ trustDb' = [data |-> trustDb'.data, saved |-> trustDb'.saved, open |-> trustDb'.open]
TrustEffect(r) ==
    \/ /\ Op(r) = "registerServer" /\ pc[r] = "new" /\ pc'[r] = "error"
       /\ UNCHANGED <<trustDb, scored, answered, orphaned, mixed>>
    \/ /\ Op(r) = "registerServer" /\ pc[r] = "new" /\ pc'[r] = "commit" /\ Seen(r)
       /\ trust.server = NoServer /\ trustDb'.data.scores = trust.scores
       /\ UNCHANGED <<scored, answered, orphaned, mixed>>
    \/ /\ Op(r) = "score" /\ pc[r] = "new" /\ pc'[r] \in {"rejected", "compute", "cached"}
       /\ (pc'[r] # "rejected" => scored'[r] \in Servers)
       /\ UNCHANGED <<trustDb, answered, orphaned, mixed>>
    \/ /\ Op(r) = "score" /\ pc[r] = "cached" /\ pc'[r] = "compute"
       /\ UNCHANGED <<trustDb, scored, answered, orphaned, mixed>>
    \/ /\ Op(r) = "score" /\ pc[r] = "cached" /\ pc'[r] = "done" /\ mixed \subseteq mixed'
       /\ answered'[r] \in Range(trust.scores)
       /\ (Deleting \/ trust.server # scored[r] => r \in mixed')
       /\ UNCHANGED <<trustDb, scored, orphaned>>
    \/ /\ Op(r) = "score" /\ pc[r] = "compute" /\ pc'[r] = "commit" /\ Seen(r)
       /\ trustDb'.data.server = trust.server /\ answered'[r] = scored[r]
       /\ Range(trustDb'.data.scores) = Range(trust.scores) \cup {scored[r]}
       /\ orphaned \subseteq orphaned' /\ (trust.server = scored[r] \/ scored[r] \in orphaned')
       /\ UNCHANGED <<scored, mixed>>
    \/ /\ Op(r) = "deleteServer" /\ pc[r] = "new" /\ pc'[r] = "rejected"
       /\ UNCHANGED <<trustDb, scored, answered, orphaned, mixed>>
    \/ /\ Op(r) = "deleteServer" /\ pc[r] = "new" /\ pc'[r] = "scores" /\ Seen(r)
       /\ trustDb'.data.scores = trust.scores /\ scored'[r] = trust.server
       /\ UNCHANGED <<answered, orphaned, mixed>>
    \/ /\ Op(r) = "deleteServer" /\ pc[r] = "scores" /\ pc'[r] = "commit" /\ Seen(r)
       /\ Range(trustDb'.data.scores) = {}
       /\ UNCHANGED <<scored, answered, orphaned, mixed>>
    \/ /\ Op(r) \in TrustOps /\ pc[r] = "commit" /\ pc'[r] = "done"
       /\ trustDb' = [data |-> trustDb.data, saved |-> trustDb.data, open |-> FALSE]
       /\ UNCHANGED <<scored, answered, orphaned, mixed>>

LEMMA TrustSteps ==
    ASSUME Frame, TrustTables, NEW r \in Requests, TrustStep(r)
    PROVE  /\ TrustEffect(r)
           /\ scored' = [q \in Requests |-> scored'[q]] /\ answered' = [q \in Requests |-> answered'[q]]
           /\ \A q \in Requests \ {r} : scored'[q] = scored[q] /\ answered'[q] = answered[q]
  <1>0. /\ pc = [q \in Requests |-> pc[q]] /\ trust = trustDb.data
        /\ scored = [q \in Requests |-> scored[q]] /\ answered = [q \in Requests |-> answered[q]]
        /\ trust \in TrustRows /\ trust.server \in Servers \cup {NoServer} /\ trust.scores \in Seq(Servers)
        /\ NoServer \notin Servers /\ r \in Servers
    BY TrustConstants DEF Frame, Placed, TrustTables, trust, TrustRows, Servers
  <1>1. ASSUME NEW d \in TrustRows, ExecuteTrust(d)
        PROVE  Seen(r) /\ trustDb'.data = d
    BY <1>1 DEF ExecuteTrust, ExecuteImplicit, Seen, TrustTables
  <1>2. CASE RegisterServer(r)
    <2>1. CASE trust.server # NoServer
      BY <1>0, <1>2, <2>1 DEF RegisterServer, TrustEffect, At, Go
    <2>2. CASE trust.server = NoServer
      <3> DEFINE d == [trust EXCEPT !.server = r]
      <3>1. d \in TrustRows /\ d.scores = trust.scores
        BY <1>0 DEF TrustRows
      <3>2. ExecuteTrust(d)
        BY <1>2, <2>2 DEF RegisterServer
      <3>3. Seen(r) /\ trustDb'.data = d
        BY <1>1, <3>1, <3>2
      <3> QED
        BY <1>0, <1>2, <2>2, <3>1, <3>3 DEF RegisterServer, TrustEffect, At, Go
    <2> QED
      BY <2>1, <2>2
  <1>3. CASE LookupServer(r)
    BY <1>0, <1>3 DEF LookupServer, TrustEffect, At, Go
  <1>4. CASE ReadScore(r)
    <2>1. CASE trust.scores = <<>>
      BY <1>0, <1>4, <2>1 DEF ReadScore, TrustEffect, At, Go
    <2>2. CASE trust.scores # <<>>
      <3>1. trust.scores[Len(trust.scores)] \in Range(trust.scores)
        BY <1>0, <2>2 DEF Range
      <3> QED
        BY <1>0, <1>4, <2>2, <3>1 DEF ReadScore, TrustEffect, At, Go
    <2> QED
      BY <2>1, <2>2
  <1>5. CASE StoreScore(r)
    <2> DEFINE d == [trust EXCEPT !.scores = Append(trust.scores, scored[r])]
    <2>1. scored[r] \in Servers
      BY <1>5 DEF StoreScore, At, TrustTables
    <2>2. d \in TrustRows /\ d.server = trust.server /\ d.scores = Append(trust.scores, scored[r])
      BY <1>0, <2>1 DEF TrustRows
    <2>3. ExecuteTrust(d)
      BY <1>5 DEF StoreScore
    <2>4. Seen(r) /\ trustDb'.data = d
      BY <1>1, <2>2, <2>3
    <2>5. Range(Append(trust.scores, scored[r])) = Range(trust.scores) \cup {scored[r]}
      <3> DEFINE s == trust.scores  t == Append(s, scored[r])
      <3>1. /\ s \in Seq(Servers) /\ Len(s) \in Nat /\ DOMAIN s = 1..Len(s) /\ DOMAIN t = 1..(Len(s) + 1)
            /\ t[Len(s) + 1] = scored[r] /\ \A i \in 1..Len(s) : t[i] = s[i]
        BY <1>0, <2>1
      <3>2. \A x \in Range(t) : x \in Range(s) \cup {scored[r]}
        BY <3>1 DEF Range
      <3>3. \A x \in Range(s) \cup {scored[r]} : x \in Range(t)
        BY <3>1 DEF Range
      <3> QED
        BY <3>2, <3>3
    <2> QED
      BY <1>0, <1>5, <2>2, <2>4, <2>5 DEF StoreScore, TrustEffect, At, Go
  <1>6. CASE DeleteServer(r)
    <2>1. CASE trust.server = NoServer
      BY <1>0, <1>6, <2>1 DEF DeleteServer, TrustEffect, At, Go
    <2>2. CASE trust.server # NoServer
      <3> DEFINE d == [trust EXCEPT !.server = NoServer]
      <3>1. d \in TrustRows /\ d.scores = trust.scores
        BY <1>0 DEF TrustRows
      <3>2. ExecuteTrust(d)
        BY <1>6, <2>2 DEF DeleteServer
      <3>3. Seen(r) /\ trustDb'.data = d
        BY <1>1, <3>1, <3>2
      <3> QED
        BY <1>0, <1>6, <2>2, <3>1, <3>3 DEF DeleteServer, TrustEffect, At, Go
    <2> QED
      BY <2>1, <2>2
  <1>7. CASE DeleteScores(r)
    <2> DEFINE d == [trust EXCEPT !.scores = <<>>]
    <2>0. <<>> \in Seq(Servers)
      OBVIOUS
    <2>1. d \in TrustRows /\ d.scores = <<>>
      BY <1>0, <2>0 DEF TrustRows
    <2>2. Seen(r) /\ trustDb'.data = d
      BY <1>1, <1>7, <2>1 DEF DeleteScores
    <2>3. Range(<<>>) = {}
      BY DEF Range
    <2> QED
      BY <1>0, <1>7, <2>1, <2>2, <2>3 DEF DeleteScores, TrustEffect, At, Go
  <1>8. CASE CommitTrust(r)
    BY <1>0, <1>8 DEF CommitTrust, TrustEffect, Go, Commit, Connected, TrustOps
  <1> QED
    BY <1>2, <1>3, <1>4, <1>5, <1>6, <1>7, <1>8 DEF TrustStep

\* A step of a request keeps what excuses a score.
LEMMA CondemnedStays ==
    ASSUME Frame, job' = job, NEW r \in Requests, Only(r), orphaned \subseteq orphaned',
           \A q \in Requests \ {r} : scored'[q] = scored[q],
           pc[r] \notin Terminal, NEW places,
           \/ Op(r) # "deleteServer" \/ pc[r] \notin places
           \/ pc'[r] \in places /\ scored'[r] = scored[r]
    PROVE  /\ LeftBehind \subseteq LeftBehind'
           /\ \A s : Condemned(s, places) => Condemned(s, places)'
  <1>1. \A q \in Requests : Op(q)' = Op(q) /\ (q # r => pc'[q] = pc[q])
    BY DEF Only, Op
  <1>2. LeftBehind \subseteq LeftBehind'
    BY <1>1 DEF LeftBehind, Terminal
  <1>3. ASSUME NEW s, NEW q \in Requests, Op(q) = "deleteServer", pc[q] \in places, scored[q] = s
        PROVE  Op(q)' = "deleteServer" /\ pc'[q] \in places /\ scored'[q] = s
    BY <1>1, <1>3
  <1> QED
    BY <1>2, <1>3 DEF Condemned

LEMMA TrustMoves ==
    ASSUME Frame, TrustInv, job' = job, cut' = cut,
           NEW r \in Requests, TrustStep(r), Only(r), Op(r) \in TrustOps, pc[r] \notin Terminal
    PROVE  TrustInv'
  <1> USE DEF TrustInv
  <1>0. /\ \A q \in Requests \ {r} : pc'[q] = pc[q] /\ scored'[q] = scored[q] /\ answered'[q] = answered[q]
        /\ \A q : Op(q)' = Op(q)
        /\ TrustEffect(r) /\ orphaned \subseteq orphaned' /\ mixed \subseteq mixed'
        /\ scored' = [q \in Requests |-> scored'[q]] /\ answered' = [q \in Requests |-> answered'[q]]
        /\ NoServer \notin Servers
    BY TrustSteps, TrustConstants DEF Only, Op, TrustEffect, Servers
  <1>1. TrustTables'
    <2>1. /\ trustDb' = [data |-> trustDb'.data, saved |-> trustDb'.saved, open |-> trustDb'.open]
          /\ trustDb'.data \in TrustRows /\ trustDb'.saved \in TrustRows
      BY <1>0 DEF TrustTables, TrustEffect, Seen
    <2>2. Op(r) = "score" /\ pc'[r] \in {"cached", "compute"} => scored'[r] \in Servers
      BY <1>0 DEF TrustTables, TrustEffect
    <2> QED
      BY <1>0, <2>1, <2>2 DEF TrustTables
  <1>2. LeftBehind \subseteq LeftBehind'
    BY <1>0, CondemnedStays
  <1>3. Justified(trustDb.data, {"scores"})'
    <2> SUFFICES ASSUME NEW s \in Range(trustDb'.data.scores)
                 PROVE  s = trustDb'.data.server \/ Condemned(s, {"scores"})'
      BY DEF Justified
    <2>1. ~(Op(r) = "deleteServer" /\ pc[r] = "scores")
      BY <1>0 DEF TrustEffect
    <2>2. \A x : Condemned(x, {"scores"}) => Condemned(x, {"scores"})'
      BY <1>0, <2>1, CondemnedStays
    <2>3. \A x \in Range(trust.scores) : x = trust.server \/ Condemned(x, {"scores"})'
      BY <2>2 DEF Justified, trust
    <2>4. \A x \in Range(trust.scores) : x # NoServer
      BY <1>0 DEF TrustTables, TrustRows, trust, Range
    <2>5. CASE Op(r) = "registerServer" /\ pc'[r] = "commit" /\ pc[r] = "new"
      BY <1>0, <2>3, <2>4, <2>5 DEF TrustEffect
    <2>6. CASE Op(r) = "score" /\ pc[r] = "compute"
      <3>1. \A x : x \in orphaned' => Condemned(x, {"scores"})'
        BY DEF Condemned
      <3> QED
        BY <1>0, <2>3, <2>6, <3>1 DEF TrustEffect
    <2>7. CASE Op(r) = "deleteServer" /\ pc[r] = "new" /\ pc'[r] = "scores"
      <3>1. scored'[r] = trust.server /\ Op(r)' = "deleteServer"
        BY <1>0, <2>7 DEF TrustEffect
      <3>2. \A x : x = scored'[r] => Condemned(x, {"scores"})'
        BY <2>7, <3>1 DEF Condemned
      <3>3. trustDb'.data.scores = trust.scores
        BY <1>0, <2>7 DEF TrustEffect
      <3> QED
        BY <2>3, <3>1, <3>2, <3>3
    <2>8. CASE trustDb'.data = trustDb.data
      BY <2>3, <2>8 DEF trust
    <2> QED
      BY <1>0, <2>1, <2>5, <2>6, <2>7, <2>8 DEF TrustEffect
  <1>4. Justified(trustDb.saved, {"scores", "commit"})'
    <2>1. CASE pc[r] = "commit"
      <3>1. trustDb'.saved = trustDb.data
        BY <1>0, <2>1 DEF TrustEffect
      <3>2. \A x : Condemned(x, {"scores"}) => Condemned(x, {"scores"})'
        BY <1>0, <2>1, CondemnedStays
      <3>3. \A x : Condemned(x, {"scores"})' => Condemned(x, {"scores", "commit"})'
        BY DEF Condemned
      <3> QED
        BY <3>1, <3>2, <3>3 DEF Justified
    <2>2. CASE pc[r] # "commit"
      <3>1. trustDb'.saved = trustDb.saved
        BY <1>0, <2>2 DEF TrustEffect, Seen
      <3>2. \/ ~(Op(r) = "deleteServer" /\ pc[r] \in {"scores", "commit"})
            \/ pc'[r] = "commit" /\ scored'[r] = scored[r]
        BY <1>0, <2>2 DEF TrustEffect
      <3>3. \A x : Condemned(x, {"scores", "commit"}) => Condemned(x, {"scores", "commit"})'
        BY <1>0, <3>2, CondemnedStays
      <3> QED
        BY <3>1, <3>3 DEF Justified
    <2> QED
      BY <2>1, <2>2
  <1>5. Answering'
    <2> SUFFICES ASSUME NEW q \in Requests, Op(q) = "score", pc'[q] \in {"commit", "done"}
                 PROVE  answered'[q] \in {scored'[q]} \cup orphaned' \cup LeftBehind' \/ q \in mixed'
      BY <1>0 DEF Answering
    <2>1. CASE q # r \/ pc[q] = "commit"
      BY <1>0, <1>2, <2>1 DEF Answering, TrustEffect
    <2>2. CASE q = r /\ pc[r] = "cached"
      <3>1. /\ answered'[r] \in Range(trustDb.data.scores) /\ UNCHANGED <<scored, orphaned>>
            /\ Deleting \/ trust.server # scored[r] => r \in mixed'
        BY <1>0, <2>2 DEF TrustEffect, trust
      <3>2. Condemned(answered'[r], {"scores"}) => Deleting \/ answered'[r] \in orphaned \cup LeftBehind
        BY DEF Condemned, Deleting, At
      <3> QED
        BY <1>2, <2>2, <3>1, <3>2 DEF Justified, trust
    <2>3. CASE q = r /\ pc[r] = "compute"
      BY <1>0, <2>3 DEF TrustEffect
    <2> QED
      BY <1>0, <2>1, <2>2, <2>3 DEF TrustEffect
  <1> QED
    BY <1>1, <1>3, <1>4, <1>5

LEMMA TrustKept == Frame /\ TrustInv /\ [Next]_vars => TrustInv'
  <1> SUFFICES ASSUME Frame, TrustInv, [Next]_vars PROVE TrustInv'
    OBVIOUS
  <1> USE DEF TrustInv
  <1>0. job' = job /\ \A q : Op(q)' = Op(q)
    BY Moves DEF Op
  <1>1. ASSUME NEW r \in Requests, TrustStep(r), Only(r), Op(r) \in TrustOps, cut' = cut PROVE TrustInv'
    BY <1>0, <1>1, TrustMoves, TrustOnly
  <1>2. ASSUME NEW q \in Requests, \/ \E r \in Requests : Cut(r) \/ Barred(r)
                                    \/ Fallen
        PROVE  \/ pc'[q] = pc[q]
               \/ pc[q] \notin {"504", "lost"} /\ pc'[q] \in {"504", "lost"}
               \/ pc[q] = "new" /\ pc'[q] = "429"
    BY <1>2 DEF Cut, Barred, Fallen, Running, Terminal, Frame, Placed
  <1>3. ASSUME UNCHANGED <<scored, answered, orphaned, mixed>>,
               trustDb' = trustDb \/ (trustDb' = Crash(trustDb) /\ Fallen),
               \A q \in Requests : Op(q) \in TrustOps =>
                     \/ pc'[q] = pc[q]
                     \/ pc[q] \notin {"504", "lost"} /\ pc'[q] \in {"504", "lost"}
                     \/ pc[q] = "new" /\ pc'[q] = "429"
        PROVE  TrustInv'
    <2>1. LeftBehind \subseteq LeftBehind'
      BY <1>0, <1>3 DEF LeftBehind, TrustOps
    <2>2. ASSUME NEW places, "new" \notin places PROVE \A s : Condemned(s, places) => Condemned(s, places)'
      <3>1. ASSUME NEW q \in Requests, Op(q) = "deleteServer", pc[q] \in places
            PROVE  pc'[q] \in places \/ scored[q] \in LeftBehind'
        BY <1>0, <1>3, <2>2, <3>1 DEF LeftBehind, TrustOps
      <3> QED
        BY <1>0, <1>3, <2>1, <3>1 DEF Condemned
    <2>3. Answering'
      BY <1>0, <1>3, <2>1 DEF Answering, TrustOps
    <2>4. CASE trustDb' = trustDb
      <3>1. TrustTables'
        BY <1>0, <1>3, <2>4 DEF TrustTables, TrustOps
      <3> QED
        BY <2>2, <2>3, <2>4, <3>1 DEF Justified
    <2>5. CASE trustDb' = Crash(trustDb) /\ Fallen
      <3>1. trustDb' = [data |-> trustDb.saved, saved |-> trustDb.saved, open |-> FALSE]
        BY <2>5 DEF Crash, Connected
      <3>2. trustDb'.data = trustDb.saved /\ trustDb'.saved = trustDb.saved /\ trustDb'.open = FALSE
        BY <3>1
      <3>3. TrustTables'
        BY <1>0, <1>3, <3>1, <3>2 DEF TrustTables, TrustOps
      <3>4. \A q \in Requests : Op(q) = "deleteServer" => pc'[q] \notin {"scores", "commit"}
        BY <2>5 DEF Fallen, Running, Terminal
      <3>5. \A s : Condemned(s, {"scores", "commit"}) => s \in (orphaned \cup LeftBehind)'
        BY <1>0, <2>2, <3>4 DEF Condemned
      <3>6. \A s, places : s \in (orphaned \cup LeftBehind)' => Condemned(s, places)'
        BY DEF Condemned
      <3>7. Justified(trustDb.data, {"scores"})' /\ Justified(trustDb.saved, {"scores", "commit"})'
        BY <3>2, <3>5, <3>6 DEF Justified
      <3> QED
        BY <2>3, <3>3, <3>7
    <2> QED
      BY <1>3, <2>4, <2>5
  <1>4. UNCHANGED trustVars => UNCHANGED <<trustDb, scored, answered, orphaned, mixed>>
    BY DEF trustVars
  <1>5. TrustCrash => trustDb' = Crash(trustDb) /\ UNCHANGED <<scored, answered, orphaned, mixed>>
    BY DEF TrustCrash
  <1>6. Unmoved(TrustOps) => \A q \in Requests : Op(q) \in TrustOps => pc'[q] = pc[q]
    BY DEF Unmoved
  <1> QED
    BY <1>1, <1>2, <1>3, <1>4, <1>5, <1>6, TrustTurns

LEMMA TrustMeans == TrustInv => ScoresHaveServers
  <1> SUFFICES ASSUME TrustInv PROVE ScoresHaveServers
    OBVIOUS
  <1>1. \A s : Condemned(s, {"scores"}) => Deleting \/ s \in orphaned \cup LeftBehind
    BY DEF Condemned, Deleting, At
  <1> QED
    BY <1>1 DEF TrustInv, Answering, Justified, ScoresHaveServers, At, trust

\* A score is of a server that is there, but for one that was deleted while it
\* was computed, or not completely; and who asks is answered with the score of
\* the server that was asked for (get_score and delete_server, trust/src/api.py).
THEOREM ScoresAlwaysHaveServers == Spec => []ScoresHaveServers
  <1> DEFINE Inv == Frame /\ TrustInv
  <1>1. Init => Inv
    BY FrameInit, TrustStart
  <1>2. Inv /\ [Next]_vars => Inv'
    BY FrameStep, TrustKept
  <1>3. Inv => ScoresHaveServers
    BY TrustMeans
  <1> QED
    BY <1>1, <1>2, <1>3, PTL DEF Spec

-----------------------------------------------------------------------------
(***************************************************************************)
(* Verification jobs.                                                      *)
(***************************************************************************)

\* What may happen to a job.
LEMMA JobTurns ==
    ASSUME Frame, [Next]_vars
    PROVE  \/ \E r \in Requests : VerificationStep(r) /\ Only(r) /\ Op(r) \in JobOps /\ cut' = cut
           \/ UNCHANGED jobVars /\ \E r \in Requests : Cut(r) \/ Barred(r)
           \/ UNCHANGED jobVars /\ Fallen
           \/ UNCHANGED jobVars /\ Unmoved(JobOps)
  <1>1. ASSUME NEW r \in Requests, Step(r), Only(r), cut' = cut, Apart(r)
        PROVE  \/ VerificationStep(r) /\ Op(r) \in JobOps
               \/ UNCHANGED jobVars /\ Unmoved(JobOps)
    BY <1>1, JobOnly DEF Apart, Only, Unmoved
  <1>2. ASSUME NEW r \in Requests, Cancelled(r) \/ Calling(r) PROVE UNCHANGED jobVars
    BY <1>2 DEF Cancelled, Calling, work
  <1>3. ASSUME NEW t \in Tasks, Send(t) PROVE UNCHANGED jobVars
    BY <1>3 DEF Send
  <1>4. ASSUME Tick PROVE UNCHANGED jobVars
    BY <1>4 DEF Tick, work
  <1>5. ASSUME Died PROVE UNCHANGED jobVars
    BY <1>5 DEF Died
  <1>6. ASSUME UNCHANGED vars PROVE UNCHANGED jobVars /\ UNCHANGED <<pc, cut>>
    BY <1>6 DEF vars, tasks, work
  <1>7. UNCHANGED <<pc, cut>> => Unmoved(JobOps)
    BY DEF Unmoved
  <1> QED
    BY <1>1, <1>2, <1>3, <1>4, <1>5, <1>6, <1>7, Moves

\* There is a row from the INSERT on, with the key and the agent of the request
\* that made it, one for each key; who was answered was told of such a row.
\* What a row says follows from where its request stands, unless the row was
\* cancelled at the same time.
JobRow(j) == [status : {"none", "pending", "running", "completed", "failed", "cancelled"},
              result : {"none", "satisfied", "error"}, key : {jobRows[j].key},
              agent : {jobRows[j].agent}, slow : BOOLEAN]
Made(j) == jobRows[j].status # "none"
JobTables ==
    /\ jobRows = [j \in Requests |-> jobRows[j]] /\ \A j \in Requests : jobRows[j] \in JobRow(j)
    /\ verdict = [r \in Requests |-> verdict[r]] /\ answer = [r \in Requests |-> answer[r]]
Asking == {"new", "create", "relookup"}
JobPlaces == \A r \in Requests :
    /\ Op(r) = "submit" => pc[r] \in Asking \cup Terminal \cup
          {"start", "invoke", "surcharge", "prove", "complete", "fail", "reload", "bill"}
    /\ Op(r) = "cancelJob" => pc[r] \in {"new", "cancel"} \cup Terminal
    /\ Executing(r) \/ At(r, "submit", "reload") => Made(r)
    /\ At(r, "cancelJob", "cancel") /\ job[r].target \in Requests => Made(job[r].target)
JobsNamed ==
    /\ \A j \in Requests : Made(j) => /\ Op(j) = "submit" /\ pc[j] \notin Asking
                                      /\ jobRows[j].key = JobKey(j) /\ jobRows[j].agent = job[j].agent
    /\ \A i, j \in Requests : Made(i) /\ Made(j) /\ JobKey(i) = JobKey(j) /\ i # j => JobKey(i) = NoJobKey
AnswersMade == \A r \in Requests : answer[r].job # NoRequest =>
    LET j == answer[r].job IN
    /\ Op(r) = "submit" /\ pc[r] \notin Asking \cup {"reload"} /\ ~Executing(r)
    /\ j \in Requests /\ Made(j)
    /\ jobRows[j].agent = job[r].agent /\ (JobKey(r) # NoJobKey => jobRows[j].key = JobKey(r))
Proving == \A j \in Requests :
    /\ jobRows[j].status = "completed" => j \in proofRows
    /\ j \in proofRows =>
          /\ Op(j) = "submit" /\ pc[j] \notin Asking \cup {"start", "invoke", "surcharge", "prove", "fail"}
          /\ jobRows[j].status = "completed" \/ j \in premature \/ Executing(j) \/ cut[j] = "complete"
    /\ At(j, "submit", "complete") => j \in proofRows
    /\ Op(j) = "submit" /\ pc[j] \in {"surcharge", "prove", "complete", "fail"} =>
          verdict[j] \in {"satisfied", "error"}
Standing == \A j \in Requests :
    /\ jobRows[j].status \in {"pending", "running"} => Executing(j) \/ cut[j] # "never"
    /\ jobRows[j].status = "cancelled" /\ Executing(j) => j \in premature
    /\ \A r \in Requests : Op(r) = "cancelJob" /\ pc[r] = "done" /\ job[r].target = j =>
          jobRows[j].status = "cancelled" \/ j \in premature
Billing == \A j \in Requests :
    /\ At(j, "submit", "reload") /\ j \notin premature => jobRows[j].status \in {"completed", "failed"}
    /\ jobRows[j].status = "completed" => jobRows[j].result \in {"satisfied", "error"}
    /\ answer[j].job = j /\ j \notin premature =>
          /\ answer[j].status = jobRows[j].status /\ answer[j].result = jobRows[j].result
          /\ jobRows[j].status \in {"completed", "failed"}
    /\ j \in billedTo =>
          /\ Op(j) = "submit" /\ pc[j] = "done"
          /\ answer[j].job = j /\ j \notin premature =>
                jobRows[j].status = "completed" /\ jobRows[j].result = "satisfied"
JobInv == JobTables /\ JobPlaces /\ JobsNamed /\ AnswersMade /\ Proving /\ Standing /\ Billing

LEMMA JobStart == Init => JobInv
  <1> SUFFICES ASSUME Init PROVE JobInv
    OBVIOUS
  <1>1. /\ \A r \in Requests : pc[r] \in {"new", "done"} /\ (pc[r] = "done" => Op(r) = "idle")
        /\ jobRows = [r \in Requests |-> NoJob] /\ proofRows = {} /\ billedTo = {}
        /\ \A r \in Requests : answer[r].job = NoRequest
    BY DEF Init, TaskInit, VerificationInit
  <1>2. \A r \in Requests : /\ jobRows[r].status = "none" /\ jobRows[r].result = "none"
                            /\ jobRows[r] \in JobRow(r)
    BY <1>1 DEF NoJob, JobRow
  <1>3. JobTables
    BY <1>1, <1>2 DEF JobTables, Init, VerificationInit
  <1>4. JobPlaces /\ Standing
    BY <1>1, <1>2 DEF JobPlaces, Standing, Asking, Terminal, Executing, At
  <1>5. JobsNamed /\ AnswersMade
    BY <1>1, <1>2 DEF JobsNamed, AnswersMade, Made
  <1>6. Proving
    BY <1>1, <1>2 DEF Proving, At
  <1>7. \A r \in Requests : answer[r].job # r
    BY <1>1, JobConstants
  <1>8. Billing
    BY <1>1, <1>2, <1>7 DEF Billing, At
  <1> QED
    BY <1>3, <1>4, <1>5, <1>6, <1>8 DEF JobInv

\* What a step does to the tables.
Rewritten(j, status, result, key, agent) ==
    /\ \A i \in Requests \ {j} : jobRows'[i] = jobRows[i]
    /\ j \in Requests => jobRows'[j] \in [status : {status}, result : {result}, key : {key},
                                          agent : {agent}, slow : BOOLEAN]
RowSet(j, status, result) == Rewritten(j, status, result, jobRows[j].key, jobRows[j].agent)
JobShown(r, j) == answer'[r].job = j /\ answer'[r].status = jobRows[j].status
               /\ answer'[r].result = jobRows[j].result
FindsJob(r) ==
    /\ Op(r) = "submit" /\ pc[r] \in {"new", "relookup"} /\ pc'[r] = "bill"
    /\ \E j \in Requests : /\ JobKey(r) # NoJobKey /\ Made(j) /\ jobRows[j].key = JobKey(r)
                           /\ jobRows[j].agent = job[r].agent /\ JobShown(r, j)
    /\ UNCHANGED <<jobRows, proofRows, verdict, billedTo, premature>>
Passes(r) ==
    /\ \/ Op(r) = "submit" /\ pc[r] = "new" /\ pc'[r] \in {"create", "rejected"}
       \/ Op(r) = "submit" /\ pc[r] = "create" /\ pc'[r] = "relookup"
       \/ Op(r) = "submit" /\ pc[r] = "relookup" /\ pc'[r] \in {"rejected", "error"}
       \/ Op(r) = "cancelJob" /\ pc[r] = "new" /\ pc'[r] = "rejected"
       \/ /\ Op(r) = "cancelJob" /\ pc[r] = "new" /\ pc'[r] = "cancel"
          /\ job[r].target \in Requests => Made(job[r].target)
    /\ UNCHANGED <<jobRows, proofRows, verdict, answer, billedTo, premature>>
AddsJob(r) ==
    /\ Op(r) = "submit" /\ pc[r] = "create" /\ pc'[r] = "start"
    /\ JobKey(r) = NoJobKey \/ JobWithKey(JobKey(r)) = {}
    /\ Rewritten(r, "pending", "none", JobKey(r), job[r].agent)
    /\ UNCHANGED <<proofRows, verdict, answer, billedTo, premature>>
WorksOn(r) ==
    /\ Op(r) = "submit"
    /\ \/ pc[r] = "start" /\ pc'[r] = "invoke" /\ RowSet(r, "running", jobRows[r].result)
          /\ verdict' = verdict
       \/ pc[r] = "invoke" /\ pc'[r] \in {"surcharge", "prove", "fail"} /\ jobRows' = jobRows
          /\ verdict'[r] \in {"satisfied", "error"}
       \/ pc[r] = "surcharge" /\ pc'[r] = "prove" /\ RowSet(r, jobRows[r].status, jobRows[r].result)
          /\ verdict' = verdict
    /\ UNCHANGED <<proofRows, answer, billedTo, premature>>
AddsProof(r) ==
    /\ Op(r) = "submit" /\ pc[r] = "prove" /\ pc'[r] = "complete" /\ proofRows' = proofRows \cup {r}
    /\ UNCHANGED <<jobRows, verdict, answer, billedTo, premature>>
Ends(r) ==
    /\ Op(r) = "submit" /\ pc'[r] = "reload"
    /\ \/ pc[r] = "complete" /\ RowSet(r, "completed", verdict[r])
       \/ pc[r] = "fail" /\ RowSet(r, "failed", verdict[r])
    /\ UNCHANGED <<proofRows, verdict, answer, billedTo, premature>>
Reloads(r) ==
    /\ Op(r) = "submit" /\ pc[r] = "reload" /\ pc'[r] = "bill" /\ JobShown(r, r)
    /\ UNCHANGED <<jobRows, proofRows, verdict, billedTo, premature>>
Bills(r) ==
    /\ Op(r) = "submit" /\ pc[r] = "bill" /\ pc'[r] = "done"
    /\ \/ billedTo' = billedTo
       \/ /\ billedTo' = billedTo \cup {r}
          /\ answer[r].status # "failed" /\ answer[r].result # "error"
    /\ UNCHANGED <<jobRows, proofRows, verdict, answer, premature>>
Withdraws(r) ==
    /\ Op(r) = "cancelJob" /\ pc[r] = "cancel" /\ pc'[r] = "done"
    /\ RowSet(job[r].target, "cancelled", jobRows[job[r].target].result)
    /\ premature \subseteq premature'
    /\ Executing(job[r].target) \/ jobRows[job[r].target].status \in Ended
          => job[r].target \in premature'
    /\ UNCHANGED <<proofRows, verdict, answer, billedTo>>

LEMMA JobRowKept ==
    ASSUME JobTables, NEW j \in Requests, NEW s, NEW t
    PROVE  /\ [jobRows[j] EXCEPT !.status = s] \in [status : {s}, result : {jobRows[j].result},
                 key : {jobRows[j].key}, agent : {jobRows[j].agent}, slow : BOOLEAN]
           /\ [jobRows[j] EXCEPT !.status = s, !.result = t] \in [status : {s}, result : {t},
                 key : {jobRows[j].key}, agent : {jobRows[j].agent}, slow : BOOLEAN]
           /\ [jobRows[j] EXCEPT !.slow = TRUE] \in [status : {jobRows[j].status},
                 result : {jobRows[j].result}, key : {jobRows[j].key},
                 agent : {jobRows[j].agent}, slow : BOOLEAN]
  <1> DEFINE x == jobRows[j]  k == x.key  a == x.agent  u == x.result  v == x.status
             Rows == [status : {"none", "pending", "running", "completed", "failed", "cancelled"},
                      result : {"none", "satisfied", "error"}, key : {k}, agent : {a}, slow : BOOLEAN]
  <1>1. x \in Rows /\ x.result = u /\ x.status = v
    BY DEF JobTables, JobRow
  <1> HIDE DEF x, k, a, u, v
  <1>2. [x EXCEPT !.status = s] \in [status : {s}, result : {u}, key : {k}, agent : {a}, slow : BOOLEAN]
    BY <1>1
  <1>3. [x EXCEPT !.status = s, !.result = t] \in [status : {s}, result : {t}, key : {k}, agent : {a},
                                                   slow : BOOLEAN]
    BY <1>1
  <1>4. [x EXCEPT !.slow = TRUE] \in [status : {v}, result : {u}, key : {k}, agent : {a}, slow : BOOLEAN]
    BY <1>1
  <1>5. x = jobRows[j] /\ k = jobRows[j].key /\ a = jobRows[j].agent /\ u = jobRows[j].result
        /\ v = jobRows[j].status
    BY DEF x, k, a, u, v
  <1> QED
    BY <1>2, <1>3, <1>4, <1>5

LEMMA JobSteps ==
    ASSUME Frame, JobTables, NEW r \in Requests, VerificationStep(r)
    PROVE  /\ jobRows' = [j \in Requests |-> jobRows'[j]]
           /\ verdict' = [q \in Requests |-> verdict'[q]] /\ answer' = [q \in Requests |-> answer'[q]]
           /\ \A q \in Requests \ {r} : verdict'[q] = verdict[q] /\ answer'[q] = answer[q]
           /\ \/ FindsJob(r) \/ Passes(r) \/ AddsJob(r) \/ WorksOn(r) \/ AddsProof(r) \/ Ends(r)
              \/ Reloads(r) \/ Bills(r) \/ Withdraws(r)
  <1>0. /\ pc = [q \in Requests |-> pc[q]] /\ jobRows = [j \in Requests |-> jobRows[j]]
        /\ verdict = [q \in Requests |-> verdict[q]] /\ answer = [q \in Requests |-> answer[q]]
    BY DEF Frame, Placed, JobTables
  <1>1. /\ jobRows' = [j \in Requests |-> jobRows'[j]]
        /\ verdict' = [q \in Requests |-> verdict'[q]] /\ answer' = [q \in Requests |-> answer'[q]]
        /\ \A q \in Requests \ {r} : verdict'[q] = verdict[q] /\ answer'[q] = answer[q]
    BY <1>0 DEF VerificationStep, LookupJob, CreateJob, RelookupJob, StartJob, InvokeVerifier,
                RaiseCost, StoreProof, EndJob, ReloadJob, BillJob, ReadJob, CancelJob,
                ExistingOr, AnswerWith, jobVars
  <1>2. ASSUME NEW next, ExistingOr(r, next)
        PROVE  \/ pc'[r] \in {next, "rejected"} /\ answer' = answer
               \/ /\ pc'[r] = "bill"
                  /\ \E j \in Requests : /\ JobKey(r) # NoJobKey /\ Made(j) /\ jobRows[j].key = JobKey(r)
                                         /\ jobRows[j].agent = job[r].agent /\ JobShown(r, j)
    <2>1. CASE JobKey(r) = NoJobKey \/ JobWithKey(JobKey(r)) = {}
      BY <1>0, <1>2, <2>1 DEF ExistingOr, Go
    <2>2. CASE ~(JobKey(r) = NoJobKey \/ JobWithKey(JobKey(r)) = {})
      <3>1. PICK j \in JobWithKey(JobKey(r)) :
                IF jobRows[j].agent # job[r].agent THEN Go(r, "rejected") /\ UNCHANGED answer
                                                   ELSE Go(r, "bill") /\ AnswerWith(r, j)
        BY <1>2, <2>2 DEF ExistingOr
      <3>2. j \in Requests /\ Made(j) /\ jobRows[j].key = JobKey(r)
        BY DEF JobWithKey, Made
      <3>3. AnswerWith(r, j) => JobShown(r, j)
        BY <1>0 DEF AnswerWith, JobShown
      <3> QED
        BY <1>0, <2>2, <3>1, <3>2, <3>3 DEF Go
    <2> QED
      BY <2>1, <2>2
  <1>3. CASE LookupJob(r)
    BY <1>1, <1>2, <1>3 DEF LookupJob, FindsJob, Passes, At
  <1>4. CASE CreateJob(r)
    <2>1. CASE JobKey(r) # NoJobKey /\ JobWithKey(JobKey(r)) # {}
      BY <1>0, <1>1, <1>4, <2>1 DEF CreateJob, Passes, At, Go
    <2>2. CASE ~(JobKey(r) # NoJobKey /\ JobWithKey(JobKey(r)) # {})
      <3>1. [NoJob EXCEPT !.status = "pending", !.key = JobKey(r), !.agent = job[r].agent]
              \in [status : {"pending"}, result : {"none"}, key : {JobKey(r)},
                   agent : {job[r].agent}, slow : BOOLEAN]
        BY DEF NoJob
      <3>2. Rewritten(r, "pending", "none", JobKey(r), job[r].agent)
        BY <1>0, <1>4, <2>2, <3>1 DEF CreateJob, Rewritten
      <3> QED
        BY <1>0, <1>1, <1>4, <2>2, <3>2 DEF CreateJob, AddsJob, At, Go
    <2> QED
      BY <2>1, <2>2
  <1>5. CASE RelookupJob(r)
    BY <1>1, <1>2, <1>5 DEF RelookupJob, FindsJob, Passes, At
  <1>6. CASE StartJob(r)
    <2>1. jobRows'[r] = [jobRows[r] EXCEPT !.status = "running"]
          /\ \A i \in Requests \ {r} : jobRows'[i] = jobRows[i]
      BY <1>0, <1>6 DEF StartJob
    <2>2. RowSet(r, "running", jobRows[r].result)
      <3>1. [jobRows[r] EXCEPT !.status = "running"] \in
               [status : {"running"}, result : {jobRows[r].result},
                key : {jobRows[r].key}, agent : {jobRows[r].agent}, slow : BOOLEAN]
        BY JobRowKept
      <3> QED
        BY <2>1, <3>1 DEF RowSet, Rewritten
    <2> QED
      BY <1>0, <1>1, <1>6, <2>2 DEF StartJob, WorksOn, At, Go
  <1>7. CASE InvokeVerifier(r)
    BY <1>0, <1>1, <1>7 DEF InvokeVerifier, WorksOn, At, Go
  <1>8. CASE RaiseCost(r)
    <2>1. jobRows'[r] = [jobRows[r] EXCEPT !.slow = TRUE]
          /\ \A i \in Requests \ {r} : jobRows'[i] = jobRows[i]
      BY <1>0, <1>8 DEF RaiseCost
    <2>2. RowSet(r, jobRows[r].status, jobRows[r].result)
      BY <2>1, JobRowKept DEF RowSet, Rewritten
    <2> QED
      BY <1>0, <1>1, <1>8, <2>2 DEF RaiseCost, WorksOn, At, Go
  <1>9. CASE StoreProof(r)
    BY <1>0, <1>1, <1>9 DEF StoreProof, AddsProof, At, Go
  <1>10. CASE EndJob(r)
    <2> DEFINE s == IF pc[r] = "complete" THEN "completed" ELSE "failed"
    <2>1. jobRows'[r] = [jobRows[r] EXCEPT !.status = s, !.result = verdict[r]]
          /\ \A i \in Requests \ {r} : jobRows'[i] = jobRows[i]
      BY <1>0, <1>10 DEF EndJob
    <2>2. RowSet(r, s, verdict[r])
      <3>1. [jobRows[r] EXCEPT !.status = s, !.result = verdict[r]] \in
               [status : {s}, result : {verdict[r]},
                key : {jobRows[r].key}, agent : {jobRows[r].agent}, slow : BOOLEAN]
        BY JobRowKept
      <3> QED
        BY <2>1, <3>1 DEF RowSet, Rewritten
    <2> QED
      BY <1>0, <1>1, <1>10, <2>2 DEF EndJob, Ends, Go
  <1>11. CASE ReloadJob(r)
    BY <1>0, <1>1, <1>11 DEF ReloadJob, Reloads, AnswerWith, JobShown, At, Go
  <1>12. CASE BillJob(r)
    BY <1>0, <1>1, <1>12 DEF BillJob, Bills, At, Go
  <1>13. CASE ReadJob(r)
    <2>1. \/ pc'[r] = "rejected"
          \/ pc'[r] = "cancel" /\ jobRows[job[r].target].status # "none"
      BY <1>0, <1>13 DEF ReadJob, Go
    <2> QED
      BY <1>1, <1>13, <2>1 DEF ReadJob, Passes, At, jobVars, Made
  <1>14. CASE CancelJob(r)
    <2> DEFINE t == job[r].target
    <2>1. /\ t \in Requests => jobRows'[t] = [jobRows[t] EXCEPT !.status = "cancelled"]
          /\ \A i \in Requests \ {t} : jobRows'[i] = jobRows[i]
      BY <1>0, <1>14 DEF CancelJob
    <2>2. RowSet(t, "cancelled", jobRows[t].result)
      <3>1. ASSUME t \in Requests
            PROVE  [jobRows[t] EXCEPT !.status = "cancelled"] \in
               [status : {"cancelled"}, result : {jobRows[t].result},
                key : {jobRows[t].key}, agent : {jobRows[t].agent}, slow : BOOLEAN]
        BY <3>1, JobRowKept
      <3> QED
        BY <2>1, <3>1 DEF RowSet, Rewritten
    <2> QED
      BY <1>0, <1>1, <1>14, <2>2 DEF CancelJob, Withdraws, At, Go
  <1> QED
    BY <1>3, <1>4, <1>5, <1>6, <1>7, <1>8, <1>9, <1>10, <1>11, <1>12, <1>13, <1>14
       DEF VerificationStep

LEMMA JobMoves ==
    ASSUME Frame, JobInv, job' = job, cut' = cut,
           NEW r \in Requests, VerificationStep(r), Only(r), pc[r] \notin Terminal
    PROVE  JobInv'
  <1> USE DEF JobInv
  <1>0. /\ \A q \in Requests \ {r} : pc'[q] = pc[q] /\ verdict'[q] = verdict[q] /\ answer'[q] = answer[q]
        /\ \A q : Op(q)' = Op(q) /\ JobKey(q)' = JobKey(q)
        /\ \A q \in Requests \ {r} : Executing(q)' = Executing(q)
        /\ jobRows' = [j \in Requests |-> jobRows'[j]]
        /\ verdict' = [q \in Requests |-> verdict'[q]] /\ answer' = [q \in Requests |-> answer'[q]]
    BY JobSteps DEF Only, Op, JobKey, Executing
  <1>1. \/ FindsJob(r) \/ Passes(r) \/ AddsJob(r) \/ WorksOn(r) \/ AddsProof(r) \/ Ends(r)
        \/ Reloads(r) \/ Bills(r) \/ Withdraws(r)
    BY JobSteps
  <1>2. ASSUME NEW j, NEW s, NEW t, NEW k, NEW a, Rewritten(j, s, t, k, a)
        PROVE  /\ \A i \in Requests \ {j} : jobRows'[i] = jobRows[i]
               /\ j \in Requests => /\ jobRows'[j].status = s /\ jobRows'[j].result = t
                                    /\ jobRows'[j].key = k /\ jobRows'[j].agent = a
    BY <1>2 DEF Rewritten
  <1>3. /\ WorksOn(r) \/ Ends(r) => Executing(r) /\ Made(r)
        /\ FindsJob(r) \/ AddsJob(r) => pc[r] \in Asking /\ ~Made(r)
    BY DEF WorksOn, Ends, FindsJob, AddsJob, Executing, JobPlaces, JobsNamed, Asking
  \* The status of a row changes at its own request or by a cancellation.
  <1>4. /\ \A i \in Requests : Made(i) => /\ Made(i)' /\ jobRows'[i].key = jobRows[i].key
                                          /\ jobRows'[i].agent = jobRows[i].agent
        /\ \A i \in Requests : Made(i)' => Made(i) \/ (i = r /\ AddsJob(r))
    <2>1. CASE AddsJob(r)
      <3>1. /\ \A i \in Requests \ {r} : jobRows'[i] = jobRows[i]
            /\ jobRows'[r].status = "pending"
        BY <1>2, <2>1 DEF AddsJob
      <3> QED
        BY <1>3, <2>1, <3>1 DEF Made
    <2>2. CASE jobRows' = jobRows
      BY <2>2 DEF Made
    <2>3. ASSUME NEW j, NEW s, NEW t, RowSet(j, s, t), s # "none", j \in Requests => Made(j)
          PROVE  \A i \in Requests : /\ Made(i) <=> Made(i)'
                    /\ jobRows'[i].key = jobRows[i].key /\ jobRows'[i].agent = jobRows[i].agent
      <3>1. /\ \A i \in Requests \ {j} : jobRows'[i] = jobRows[i]
            /\ j \in Requests => /\ jobRows'[j].status = s /\ jobRows'[j].key = jobRows[j].key
                                 /\ jobRows'[j].agent = jobRows[j].agent
        BY <1>2, <2>3 DEF RowSet
      <3> QED
        BY <2>3, <3>1 DEF Made
    <2>4. CASE WorksOn(r) /\ jobRows' # jobRows
      <3>1. RowSet(r, "running", jobRows[r].result) \/ RowSet(r, jobRows[r].status, jobRows[r].result)
        BY <2>4 DEF WorksOn
      <3>2. jobRows[r].status # "none"
        BY <1>3, <2>4 DEF Made
      <3> QED
        BY <1>3, <2>3, <2>4, <3>1, <3>2
    <2>5. CASE Ends(r)
      <3>1. RowSet(r, "completed", verdict[r]) \/ RowSet(r, "failed", verdict[r])
        BY <2>5 DEF Ends
      <3> QED
        BY <1>3, <2>3, <2>5, <3>1
    <2>6. CASE Withdraws(r)
      <3>1. job[r].target \in Requests => Made(job[r].target)
        BY <2>6 DEF Withdraws, JobPlaces, At
      <3>2. RowSet(job[r].target, "cancelled", jobRows[job[r].target].result)
        BY <2>6 DEF Withdraws
      <3> QED
        BY <2>3, <2>6, <3>1, <3>2
    <2> QED
      BY <1>1, <2>1, <2>2, <2>4, <2>5, <2>6 DEF FindsJob, Passes, AddsProof, Reloads, Bills
  <1>5. \A i \in Requests :
          \/ jobRows'[i] = jobRows[i]
          \/ i = r /\ AddsJob(r) /\ jobRows'[i].status = "pending" /\ jobRows'[i].result = "none"
          \/ /\ i = r /\ WorksOn(r) /\ jobRows'[i].result = jobRows[i].result
             /\ \/ jobRows'[i].status = "running"
                \/ jobRows'[i].status = jobRows[i].status
          \/ /\ i = r /\ Ends(r) /\ jobRows'[i].result = verdict[r]
             /\ \/ pc[r] = "complete" /\ jobRows'[i].status = "completed"
                \/ pc[r] = "fail" /\ jobRows'[i].status = "failed"
          \/ /\ i = job[r].target /\ Withdraws(r) /\ jobRows'[i].status = "cancelled"
             /\ jobRows'[i].result = jobRows[i].result
    <2>1. CASE jobRows' = jobRows
      BY <2>1
    <2>2. CASE AddsJob(r)
      BY <1>2, <2>2 DEF AddsJob
    <2>3. CASE WorksOn(r)
      BY <1>2, <2>3 DEF WorksOn, RowSet
    <2>4. CASE Ends(r)
      BY <1>2, <2>4 DEF Ends, RowSet
    <2>5. CASE Withdraws(r)
      BY <1>2, <2>5 DEF Withdraws, RowSet
    <2> QED
      BY <1>1, <2>1, <2>2, <2>3, <2>4, <2>5 DEF FindsJob, Passes, AddsProof, Reloads, Bills
  <1>6. premature \subseteq premature'
    BY <1>1 DEF FindsJob, Passes, AddsJob, WorksOn, AddsProof, Ends, Reloads, Bills, Withdraws
  <1>7. Op(r) = "submit" /\ pc[r] \in {"complete", "fail"} => verdict[r] \in {"satisfied", "error"}
    BY DEF Proving

  <1>8. JobTables'
    <2>1. \A j \in Requests : jobRows'[j] \in JobRow(j)'
      <3> SUFFICES ASSUME NEW j \in Requests PROVE jobRows'[j] \in JobRow(j)'
        OBVIOUS
      <3>1. ASSUME NEW s \in {"none", "pending", "running", "completed", "failed", "cancelled"},
                   NEW t \in {"none", "satisfied", "error"}, NEW k, NEW a,
                   jobRows'[j] \in [status : {s}, result : {t}, key : {k}, agent : {a}, slow : BOOLEAN]
            PROVE  jobRows'[j] \in JobRow(j)'
        BY <3>1 DEF JobRow
      <3>2. jobRows[j] \in JobRow(j)
        BY DEF JobTables
      <3>3. /\ jobRows[j].status \in {"none", "pending", "running", "completed", "failed", "cancelled"}
            /\ jobRows[j].result \in {"none", "satisfied", "error"}
        BY <3>2 DEF JobRow
      <3>4. CASE jobRows'[j] = jobRows[j]
        BY <3>2, <3>4 DEF JobRow
      <3>5. CASE j = r /\ AddsJob(r)
        BY <3>1, <3>5 DEF AddsJob, Rewritten
      <3>6. CASE j = r /\ WorksOn(r) /\ jobRows'[j] # jobRows[j]
        <4>1. \/ RowSet(r, "running", jobRows[r].result)
              \/ RowSet(r, jobRows[r].status, jobRows[r].result)
          BY <3>6 DEF WorksOn
        <4>2. CASE RowSet(r, "running", jobRows[r].result)
          BY <3>1, <3>3, <3>6, <4>2 DEF RowSet, Rewritten
        <4>3. CASE RowSet(r, jobRows[r].status, jobRows[r].result)
          <5>1. jobRows'[j] \in [status : {jobRows[j].status}, result : {jobRows[j].result},
                    key : {jobRows[j].key}, agent : {jobRows[j].agent}, slow : BOOLEAN]
            BY <3>6, <4>3 DEF RowSet, Rewritten
          <5> QED
            BY <3>3, <5>1 DEF JobRow
        <4> QED
          BY <4>1, <4>2, <4>3
      <3>7. CASE j = r /\ Ends(r)
        BY <1>7, <3>1, <3>7 DEF Ends, RowSet, Rewritten
      <3>8. CASE j = job[r].target /\ Withdraws(r)
        BY <3>1, <3>3, <3>8 DEF Withdraws, RowSet, Rewritten
      <3> QED
        BY <1>5, <3>4, <3>5, <3>6, <3>7, <3>8
    <2> QED
      BY <1>0, <2>1 DEF JobTables
  <1>9. JobPlaces'
    <2>1. /\ Op(r) = "submit" => pc'[r] \in Asking \cup Terminal \cup
                {"start", "invoke", "surcharge", "prove", "complete", "fail", "reload", "bill"}
          /\ Op(r) = "cancelJob" => pc'[r] \in {"new", "cancel"} \cup Terminal
      BY <1>1 DEF FindsJob, Passes, AddsJob, WorksOn, AddsProof, Ends, Reloads, Bills, Withdraws,
                  Asking, Terminal
    <2>2. Executing(r)' \/ At(r, "submit", "reload")' => Made(r)'
      <3>1. Executing(r)' \/ At(r, "submit", "reload")' =>
                Executing(r) \/ At(r, "submit", "reload") \/ AddsJob(r)
        BY <1>0, <1>1 DEF FindsJob, Passes, AddsJob, WorksOn, AddsProof, Ends, Reloads, Bills,
                          Withdraws, Executing, At
      <3>2. AddsJob(r) => Made(r)'
        BY <1>2 DEF AddsJob, Made
      <3> QED
        BY <1>4, <3>1, <3>2 DEF JobPlaces
    <2>3. At(r, "cancelJob", "cancel")' /\ job[r].target \in Requests => Made(job[r].target)'
      <3>1. At(r, "cancelJob", "cancel")' => Passes(r)
        BY <1>0, <1>1 DEF FindsJob, Passes, AddsJob, WorksOn, AddsProof, Ends, Reloads, Bills,
                          Withdraws, At
      <3>2. At(r, "cancelJob", "cancel")' => pc'[r] = "cancel"
        BY DEF At
      <3>3. At(r, "cancelJob", "cancel")' /\ job[r].target \in Requests => Made(job[r].target)
        BY <3>1, <3>2 DEF Passes
      <3> QED
        BY <1>4, <3>3
    <2>4. \A q \in Requests \ {r} :
             /\ Executing(q)' \/ At(q, "submit", "reload")' => Executing(q) \/ At(q, "submit", "reload")
             /\ At(q, "cancelJob", "cancel")' => At(q, "cancelJob", "cancel")
      BY <1>0 DEF At
    <2>5. \A q \in Requests : job[q].target \in Requests /\ Made(job[q].target) => Made(job[q].target)'
      <3> SUFFICES ASSUME NEW q \in Requests, job[q].target \in Requests, Made(job[q].target)
                   PROVE  Made(job[q].target)'
        OBVIOUS
      <3>1. \A i \in Requests : Made(i) => jobRows'[i].status # "none"
        BY <1>4 DEF Made
      <3> QED
        BY <3>1 DEF Made
    <2>6. /\ \A q \in Requests : /\ Executing(q)' \/ At(q, "submit", "reload")' => Made(q)'
                                 /\ At(q, "cancelJob", "cancel")' /\ job[q].target \in Requests =>
                                       Made(job[q].target)'
      BY <1>4, <2>2, <2>3, <2>4, <2>5 DEF JobPlaces
    <2> QED
      BY <1>0, <2>1, <2>6 DEF JobPlaces

  <1>10. JobsNamed'
    <2>1. \A j \in Requests : Made(j)' => /\ Op(j) = "submit" /\ pc'[j] \notin Asking
              /\ jobRows'[j].key = JobKey(j) /\ jobRows'[j].agent = job[j].agent
      <3>1. Made(r) => pc'[r] \notin Asking
        BY <1>1 DEF FindsJob, Passes, AddsJob, WorksOn, AddsProof, Ends, Reloads, Bills, Withdraws,
                    Asking, JobsNamed
      <3>2. AddsJob(r) => /\ Op(r) = "submit" /\ pc'[r] \notin Asking
                          /\ jobRows'[r].key = JobKey(r) /\ jobRows'[r].agent = job[r].agent
        BY <1>2 DEF AddsJob, Asking
      <3> QED
        BY <1>0, <1>4, <3>1, <3>2 DEF JobsNamed
    <2>2. AddsJob(r) => \A i \in Requests : Made(i) => JobKey(i) # JobKey(r) \/ JobKey(r) = NoJobKey
      BY DEF AddsJob, JobWithKey, JobsNamed, Made
    <2>3. \A i, j \in Requests : Made(i)' /\ Made(j)' /\ JobKey(i) = JobKey(j) /\ i # j =>
              JobKey(i) = NoJobKey
      BY <1>4, <2>2 DEF JobsNamed
    <2> QED
      BY <1>0, <2>1, <2>3 DEF JobsNamed
  <1>11. AnswersMade'
    <2> SUFFICES ASSUME NEW q \in Requests, answer'[q].job # NoRequest
                 PROVE  /\ Op(q) = "submit" /\ pc'[q] \notin Asking \cup {"reload"} /\ ~Executing(q)'
                        /\ answer'[q].job \in Requests /\ jobRows'[answer'[q].job].status # "none"
                        /\ jobRows'[answer'[q].job].agent = job[q].agent
                        /\ JobKey(q) # NoJobKey => jobRows'[answer'[q].job].key = JobKey(q)
      BY <1>0 DEF AnswersMade, Made
    <2>1. \A j \in Requests : Made(j) => /\ jobRows'[j].status # "none"
                                         /\ jobRows'[j].key = jobRows[j].key
                                         /\ jobRows'[j].agent = jobRows[j].agent
      BY <1>4 DEF Made
    <2>2. CASE q = r /\ FindsJob(r)
      <3>1. Op(r) = "submit" /\ pc'[r] = "bill"
        BY <2>2 DEF FindsJob
      <3> QED
        BY <1>0, <2>1, <2>2, <3>1 DEF FindsJob, JobShown, Executing, Asking
    <2>3. CASE q = r /\ Reloads(r)
      <3>1. Op(r) = "submit" /\ pc'[r] = "bill" /\ pc[r] = "reload" /\ answer'[r].job = r
        BY <2>3 DEF Reloads, JobShown
      <3>2. Made(r) /\ jobRows[r].agent = job[r].agent /\ jobRows[r].key = JobKey(r)
        BY <3>1 DEF JobPlaces, JobsNamed, At
      <3> QED
        BY <1>0, <2>1, <2>3, <3>1, <3>2 DEF Executing, Asking
    <2>4. CASE answer'[q] = answer[q] /\ (q = r => ~FindsJob(r) /\ ~Reloads(r))
      <3>1. answer[q].job \in Requests /\ Made(answer[q].job)
            /\ Op(q) = "submit" /\ pc[q] \notin Asking \cup {"reload"} /\ ~Executing(q)
            /\ jobRows[answer[q].job].agent = job[q].agent
            /\ (JobKey(q) # NoJobKey => jobRows[answer[q].job].key = JobKey(q))
        BY <2>4 DEF AnswersMade
      <3>2. pc'[q] \notin Asking \cup {"reload"} /\ ~Executing(q)'
        BY <1>0, <1>1, <2>4, <3>1 DEF Passes, AddsJob, WorksOn, AddsProof, Ends, Bills, Withdraws,
             Asking, Executing
      <3> QED
        BY <2>1, <2>4, <3>1, <3>2
    <2> QED
      BY <1>0, <1>1, <2>2, <2>3, <2>4 DEF Passes, AddsJob, WorksOn, AddsProof, Ends, Bills, Withdraws
  <1>12. Proving'
    <2>1. proofRows' = proofRows \/ (AddsProof(r) /\ proofRows' = proofRows \cup {r})
      BY <1>1 DEF FindsJob, Passes, AddsJob, WorksOn, AddsProof, Ends, Reloads, Bills, Withdraws
    <2>2. \A j \in Requests : jobRows'[j].status = "completed" => j \in proofRows'
      <3>1. Ends(r) /\ pc[r] = "complete" => r \in proofRows
        BY DEF Ends, Proving, At
      <3> QED
        BY <1>5, <2>1, <3>1 DEF Proving
    <2>3. ASSUME NEW j \in Requests, j \in proofRows'
          PROVE  /\ Op(j) = "submit"
                 /\ pc'[j] \notin Asking \cup {"start", "invoke", "surcharge", "prove", "fail"}
                 /\ jobRows'[j].status = "completed" \/ j \in premature' \/ Executing(j)' \/ cut[j] = "complete"
      <3>1. CASE j \notin proofRows
        BY <1>0, <2>1, <2>3, <3>1 DEF AddsProof, Executing, Asking
      <3>2. CASE j \in proofRows /\ jobRows'[j].status = "completed"
        <4>1. Op(j) = "submit" /\ pc[j] \notin Asking \cup {"start", "invoke", "surcharge", "prove", "fail"}
          BY <3>2 DEF Proving
        <4> QED
          BY <1>0, <1>1, <3>2, <4>1 DEF FindsJob, Passes, AddsJob, WorksOn, AddsProof, Ends, Reloads,
                                        Bills, Withdraws, Asking
      <3>3. CASE j \in proofRows /\ jobRows'[j].status # "completed"
        <4>1. /\ Op(j) = "submit"
              /\ pc[j] \notin Asking \cup {"start", "invoke", "surcharge", "prove", "fail"}
              /\ jobRows[j].status = "completed" \/ j \in premature \/ Executing(j) \/ cut[j] = "complete"
          BY <3>3 DEF Proving
        <4>2. pc'[j] \notin Asking \cup {"start", "invoke", "surcharge", "prove", "fail"}
          BY <1>0, <1>1, <4>1 DEF FindsJob, Passes, AddsJob, WorksOn, AddsProof, Ends, Reloads,
                                  Bills, Withdraws, Asking
        <4>3. Executing(j) => Executing(j)' \/ (j = r /\ Ends(r))
          BY <1>0, <1>1, <4>1 DEF FindsJob, Passes, AddsJob, WorksOn, AddsProof, Ends, Reloads,
                                  Bills, Withdraws, Executing
        <4>4. j = r => ~Ends(r)
          <5>1. j = r /\ Ends(r) => pc[r] = "complete" /\ pc[r] # "fail"
            BY <4>1 DEF Ends
          <5>2. jobRows'[j] = jobRows[j] /\ j = r /\ Ends(r) => jobRows'[j].status = "completed"
            BY <1>2, <5>1 DEF Ends, RowSet
          <5> QED
            BY <1>2, <3>3, <5>1 DEF Ends, RowSet
        <4>5. jobRows[j].status = "completed" => j \in premature'
          <5>1. j = job[r].target /\ Withdraws(r) /\ jobRows[j].status = "completed" => j \in premature'
            BY DEF Withdraws, Ended
          <5>2. j = r /\ (WorksOn(r) \/ AddsJob(r)) => pc[r] \in Asking \cup {"start", "invoke", "surcharge"}
            BY DEF WorksOn, AddsJob, Asking
          <5> QED
            BY <1>5, <3>3, <4>1, <4>4, <5>1, <5>2
        <4> QED
          BY <1>6, <4>1, <4>2, <4>3, <4>4, <4>5
      <3> QED
        BY <3>1, <3>2, <3>3
    <2>4. \A j \in Requests : Op(j) = "submit" /\ pc'[j] = "complete" => j \in proofRows'
      <3>1. Op(r) = "submit" /\ pc'[r] = "complete" => AddsProof(r)
        BY <1>1 DEF FindsJob, Passes, AddsJob, WorksOn, AddsProof, Ends, Reloads, Bills, Withdraws
      <3> QED
        BY <1>0, <2>1, <3>1 DEF Proving, At, AddsProof
    <2>5. \A j \in Requests : Op(j) = "submit" /\ pc'[j] \in {"surcharge", "prove", "complete", "fail"} =>
              verdict'[j] \in {"satisfied", "error"}
      <3>1. Op(r) = "submit" /\ pc'[r] \in {"surcharge", "prove", "complete", "fail"} =>
               verdict'[r] \in {"satisfied", "error"}
        BY <1>1 DEF FindsJob, Passes, AddsJob, WorksOn, AddsProof, Ends, Reloads, Bills, Withdraws, Proving
      <3> QED
        BY <1>0, <3>1 DEF Proving
    <2> QED
      BY <1>0, <2>2, <2>3, <2>4, <2>5 DEF Proving, At

  <1>13. Standing'
    <2> SUFFICES ASSUME NEW j \in Requests
                 PROVE  /\ jobRows'[j].status \in {"pending", "running"} => Executing(j)' \/ cut[j] # "never"
                        /\ jobRows'[j].status = "cancelled" /\ Executing(j)' => j \in premature'
                        /\ \A q \in Requests : Op(q) = "cancelJob" /\ pc'[q] = "done" /\ job[q].target = j =>
                              jobRows'[j].status = "cancelled" \/ j \in premature'
      BY <1>0 DEF Standing
    <2>1. Executing(j) => Executing(j)' \/ (j = r /\ Ends(r))
      BY <1>0, <1>1 DEF FindsJob, Passes, AddsJob, WorksOn, AddsProof, Ends, Reloads, Bills,
                        Withdraws, Executing
    <2>2. Executing(j)' => Executing(j) \/ (j = r /\ AddsJob(r))
      BY <1>0, <1>1 DEF FindsJob, Passes, AddsJob, WorksOn, AddsProof, Ends, Reloads, Bills,
                        Withdraws, Executing
    <2>3. /\ AddsJob(r) \/ WorksOn(r) => Executing(r)'
          /\ Ends(r) => ~AddsJob(r) /\ jobRows'[r].status \in {"completed", "failed"}
          /\ AddsJob(r) => jobRows'[r].status = "pending" /\ ~WorksOn(r)
      BY <1>0, <1>2 DEF AddsJob, WorksOn, Ends, RowSet, Executing
    <2>4. /\ jobRows[j].status \in {"pending", "running"} => Executing(j) \/ cut[j] # "never"
          /\ jobRows[j].status = "cancelled" /\ Executing(j) => j \in premature
          /\ \A q \in Requests : Op(q) = "cancelJob" /\ pc[q] = "done" /\ job[q].target = j =>
                jobRows[j].status = "cancelled" \/ j \in premature
      BY DEF Standing
    <2>5. Withdraws(r) /\ job[r].target = j => (Executing(j) => j \in premature') /\ jobRows'[j].status = "cancelled"
      BY <1>2 DEF Withdraws, RowSet
    <2>6. jobRows'[j].status \in {"pending", "running"} => Executing(j)' \/ cut[j] # "never"
      BY <1>5, <2>1, <2>3, <2>4
    <2>7. jobRows'[j].status = "cancelled" /\ Executing(j)' => j \in premature'
      BY <1>5, <1>6, <2>2, <2>3, <2>4, <2>5
    <2>8. ASSUME NEW q \in Requests, Op(q) = "cancelJob", pc'[q] = "done", job[q].target = j
          PROVE  jobRows'[j].status = "cancelled" \/ j \in premature'
      <3>1. pc[q] = "done" \/ (Withdraws(r) /\ job[r].target = j)
        BY <1>0, <1>1, <2>8 DEF FindsJob, Passes, AddsJob, WorksOn, AddsProof, Ends, Reloads, Bills, Withdraws
      <3>2. CASE pc[q] = "done"
        <4>1. jobRows[j].status = "cancelled" \/ j \in premature
          BY <2>4, <2>8, <3>2
        <4>2. j = r /\ (WorksOn(r) \/ Ends(r)) => Executing(j)
          BY <1>3
        <4>3. j = r /\ AddsJob(r) => jobRows[j].status = "none"
          BY <1>3 DEF Made
        <4> QED
          BY <1>5, <1>6, <2>4, <4>1, <4>2, <4>3
      <3> QED
        BY <2>5, <3>1, <3>2
    <2> QED
      BY <2>6, <2>7, <2>8
  <1>14. Billing'
    <2> SUFFICES ASSUME NEW j \in Requests
                 PROVE  /\ Op(j) = "submit" /\ pc'[j] = "reload" /\ j \notin premature' =>
                              jobRows'[j].status \in {"completed", "failed"}
                        /\ jobRows'[j].status = "completed" => jobRows'[j].result \in {"satisfied", "error"}
                        /\ answer'[j].job = j /\ j \notin premature' =>
                              /\ answer'[j].status = jobRows'[j].status /\ answer'[j].result = jobRows'[j].result
                              /\ jobRows'[j].status \in {"completed", "failed"}
                        /\ j \in billedTo' =>
                              /\ Op(j) = "submit" /\ pc'[j] = "done"
                              /\ answer'[j].job = j /\ j \notin premature' =>
                                    jobRows'[j].status = "completed" /\ jobRows'[j].result = "satisfied"
      BY <1>0 DEF Billing, At
    <2>1. /\ Op(j) = "submit" /\ pc[j] = "reload" /\ j \notin premature =>
                jobRows[j].status \in {"completed", "failed"}
          /\ jobRows[j].status = "completed" => jobRows[j].result \in {"satisfied", "error"}
          /\ answer[j].job = j /\ j \notin premature =>
                /\ answer[j].status = jobRows[j].status /\ answer[j].result = jobRows[j].result
                /\ jobRows[j].status \in {"completed", "failed"}
          /\ j \in billedTo =>
                /\ Op(j) = "submit" /\ pc[j] = "done"
                /\ answer[j].job = j /\ j \notin premature =>
                      jobRows[j].status = "completed" /\ jobRows[j].result = "satisfied"
      BY DEF Billing, At
    \* Only its executor or a cancellation changes the row of a job.
    <2>2. \/ jobRows'[j] = jobRows[j]
          \/ j = r /\ pc[r] # "done" /\ (Executing(r) \/ AddsJob(r))
          \/ Withdraws(r) /\ j = job[r].target /\ jobRows'[j].status = "cancelled"
      BY <1>3, <1>5 DEF Executing, AddsJob
    <2>3. Withdraws(r) /\ j = job[r].target /\ j \notin premature' =>
              jobRows[j].status \notin {"completed", "failed"}
      BY DEF Withdraws, Ended
    <2>4. Op(j) = "submit" /\ pc'[j] = "reload" /\ j \notin premature' =>
              jobRows'[j].status \in {"completed", "failed"}
      <3>1. pc'[r] = "reload" /\ Op(r) = "submit" => Ends(r)
        BY <1>1 DEF FindsJob, Passes, AddsJob, WorksOn, AddsProof, Ends, Reloads, Bills, Withdraws
      <3>2. Ends(r) => jobRows'[r].status \in {"completed", "failed"}
        BY <1>2 DEF Ends, RowSet
      <3> QED
        BY <1>0, <1>6, <2>1, <2>2, <2>3, <3>1, <3>2
    <2>5. jobRows'[j].status = "completed" => jobRows'[j].result \in {"satisfied", "error"}
      <3>1. Ends(r) => verdict[r] \in {"satisfied", "error"}
        BY <1>7 DEF Ends
      <3> QED
        BY <1>5, <2>1, <3>1
    <2>6. ASSUME answer'[j].job = j, j \notin premature'
          PROVE  /\ answer'[j].status = jobRows'[j].status /\ answer'[j].result = jobRows'[j].result
                 /\ jobRows'[j].status \in {"completed", "failed"}
      <3>1. CASE j = r /\ Reloads(r)
        <4>1. jobRows' = jobRows /\ JobShown(r, r) /\ Op(r) = "submit" /\ pc[r] = "reload"
          BY <3>1 DEF Reloads
        <4> QED
          BY <1>6, <2>1, <2>6, <3>1, <4>1 DEF JobShown
      <3>2. ~(j = r /\ FindsJob(r))
        BY <1>3, <2>6 DEF FindsJob, JobShown
      <3>3. CASE answer'[j] = answer[j]
        <4>1. answer[j].job \in Requests => answer[j].job # NoRequest
          BY JobConstants
        <4>2. ~Executing(j) /\ pc[j] \notin Asking
          BY <2>6, <3>3, <4>1 DEF AnswersMade
        <4>3. ~(j = r /\ (Executing(r) \/ AddsJob(r)))
          BY <1>3, <4>2
        <4> QED
          BY <1>6, <2>1, <2>2, <2>3, <2>6, <3>3, <4>3
      <3> QED
        BY <1>0, <1>1, <3>1, <3>2, <3>3 DEF Passes, AddsJob, WorksOn, AddsProof, Ends, Bills, Withdraws
    <2>7. ASSUME j \in billedTo'
          PROVE  /\ Op(j) = "submit" /\ pc'[j] = "done"
                 /\ answer'[j].job = j /\ j \notin premature' =>
                       jobRows'[j].status = "completed" /\ jobRows'[j].result = "satisfied"
      <3>1. j \in billedTo \/ (j = r /\ Bills(r))
        BY <1>1, <2>7 DEF FindsJob, Passes, AddsJob, WorksOn, AddsProof, Ends, Reloads, Bills, Withdraws
      <3>2. CASE j \in billedTo
        <4>1. pc[j] = "done" /\ j # r
          BY <2>1, <3>2 DEF Terminal
        <4> QED
          BY <1>0, <1>6, <2>1, <2>2, <2>3, <3>2, <4>1
      <3>3. CASE j = r /\ Bills(r) /\ j \notin billedTo
        <4>1. /\ Op(r) = "submit" /\ pc'[r] = "done" /\ jobRows' = jobRows /\ answer' = answer /\ premature' = premature
              /\ answer[r].status # "failed" /\ answer[r].result # "error"
          BY <2>7, <3>3 DEF Bills
        <4> QED
          BY <2>1, <3>3, <4>1
      <3> QED
        BY <3>1, <3>2, <3>3
    <2> QED
      BY <2>4, <2>5, <2>6, <2>7
  <1> QED
    BY <1>8, <1>9, <1>10, <1>11, <1>12, <1>13, <1>14

LEMMA JobKept == Frame /\ JobInv /\ [Next]_vars => JobInv'
  <1> SUFFICES ASSUME Frame, JobInv, [Next]_vars PROVE JobInv'
    OBVIOUS
  <1> USE DEF JobInv
  <1>0. job' = job /\ \A q : Op(q)' = Op(q) /\ JobKey(q)' = JobKey(q)
    BY Moves DEF Op, JobKey
  <1>6. \A q \in Requests : cut[q] # "never" => pc[q] \in {"504", "lost"}
    BY DEF Frame, CutStays
  <1>1. ASSUME NEW r \in Requests, VerificationStep(r), Only(r), cut' = cut PROVE JobInv'
    BY <1>0, <1>1, JobMoves, JobOnly
  <1>2. ASSUME UNCHANGED jobVars,
               \A q \in Requests : Op(q) \in JobOps =>
                   \/ pc'[q] = pc[q] /\ cut'[q] = cut[q]
                   \/ /\ pc[q] \notin {"new", "done"} /\ pc'[q] \in {"504", "lost"} /\ cut'[q] = pc[q]
                      /\ pc[q] \notin {"504", "lost"}
                   \/ /\ pc[q] = "new" /\ pc'[q] = "429" /\ cut'[q] = cut[q]
        PROVE  JobInv'
    <2>0. UNCHANGED <<jobRows, proofRows, verdict, answer, billedTo, premature>>
      BY <1>2 DEF jobVars
    <2>10. \A q \in Requests : Op(q) \in JobOps => pc[q] # "never"
      BY DEF JobPlaces, JobOps, Asking, Terminal
    <2>1. \A q \in Requests : /\ Executing(q)' => Executing(q)
                              /\ Executing(q) => Executing(q)' \/ (cut'[q] # "never" /\ cut'[q] = pc[q])
                              /\ At(q, "submit", "reload")' => At(q, "submit", "reload")
                              /\ At(q, "submit", "complete")' => At(q, "submit", "complete")
                              /\ At(q, "cancelJob", "cancel")' => At(q, "cancelJob", "cancel")
      BY <1>0, <1>2, <2>10 DEF Executing, At, JobOps
    <2>2. \A q : Made(q)' <=> Made(q)
      BY <2>0 DEF Made
    <2>3. JobTables'
      BY <2>0 DEF JobTables, JobRow
    <2>4. JobPlaces'
      <3>1. \A q \in Requests : /\ Executing(q)' \/ At(q, "submit", "reload")' => Made(q)'
                                /\ At(q, "cancelJob", "cancel")' /\ job[q].target \in Requests =>
                                      Made(job[q].target)'
        BY <1>0, <2>0, <2>1, <2>2 DEF JobPlaces, Made
      <3> QED
        BY <1>0, <1>2, <3>1 DEF JobPlaces, JobOps, Asking, Terminal
    <2>5. JobsNamed'
      BY <1>0, <1>2, <2>0, <2>2 DEF JobsNamed, JobOps, Asking
    <2>6. AnswersMade'
      BY <1>0, <1>2, <2>0, <2>1 DEF AnswersMade, Made, JobOps, Asking
    <2>7. Proving'
      <3> SUFFICES ASSUME NEW j \in Requests
                   PROVE  /\ jobRows[j].status = "completed" => j \in proofRows
                          /\ j \in proofRows =>
                                /\ Op(j) = "submit"
                                /\ pc'[j] \notin Asking \cup {"start", "invoke", "surcharge", "prove", "fail"}
                                /\ \/ jobRows[j].status = "completed" \/ j \in premature
                                   \/ Executing(j)' \/ cut'[j] = "complete"
                          /\ Op(j) = "submit" /\ pc'[j] = "complete" => j \in proofRows
                          /\ Op(j) = "submit" /\ pc'[j] \in {"surcharge", "prove", "complete", "fail"} =>
                                verdict[j] \in {"satisfied", "error"}
        BY <1>0, <2>0 DEF Proving, At
      <3>1. Op(j) = "submit" => Op(j) \in JobOps
        BY DEF JobOps
      <3>2. /\ Op(j) = "submit" /\ pc'[j] \in {"surcharge", "prove", "complete", "fail"} => pc'[j] = pc[j]
            /\ Op(j) = "submit" /\ pc[j] \notin Asking =>
                  \/ pc'[j] = pc[j] /\ cut'[j] = cut[j]
                  \/ ~Executing(j) /\ pc'[j] \in {"504", "lost"} /\ cut[j] = cut'[j]
                  \/ pc'[j] \in {"504", "lost"} /\ cut'[j] = pc[j]
        BY <1>2, <3>1 DEF Asking
      <3>3. Op(j) = "submit" /\ cut[j] = "complete" => cut'[j] = "complete"
        BY <1>2, <1>6, <3>1
      <3>4. Executing(j) => pc[j] \in {"start", "invoke", "surcharge", "prove", "complete", "fail"}
        BY DEF Executing
      <3>5. j \in proofRows =>
                /\ Op(j) = "submit"
                /\ pc'[j] \notin Asking \cup {"start", "invoke", "surcharge", "prove", "fail"}
                /\ \/ jobRows[j].status = "completed" \/ j \in premature
                   \/ Executing(j)' \/ cut'[j] = "complete"
        BY <2>1, <3>2, <3>3, <3>4 DEF Proving, Asking
      <3> QED
        BY <3>2, <3>5 DEF Proving, At
    <2>8. Standing'
      <3> SUFFICES ASSUME NEW j \in Requests
                   PROVE  /\ jobRows[j].status \in {"pending", "running"} => Executing(j)' \/ cut'[j] # "never"
                          /\ jobRows[j].status = "cancelled" /\ Executing(j)' => j \in premature
                          /\ \A q \in Requests : Op(q) = "cancelJob" /\ pc'[q] = "done" /\ job[q].target = j =>
                                jobRows[j].status = "cancelled" \/ j \in premature
        BY <1>0, <2>0 DEF Standing
      <3>1. \A q \in Requests : Op(q) = "cancelJob" /\ pc'[q] = "done" => pc[q] = "done"
        BY <1>2 DEF JobOps
      <3>2. jobRows[j].status \in {"pending", "running"} => Op(j) \in JobOps
        BY DEF JobsNamed, Made, JobOps
      <3>3. Op(j) \in JobOps /\ cut[j] # "never" => cut'[j] # "never"
        BY <1>2, <1>6, <2>10
      <3> QED
        BY <2>1, <3>1, <3>2, <3>3 DEF Standing
    <2>9. Billing'
      <3>1. \A j \in Requests : Op(j) = "submit" /\ pc[j] = "done" => pc'[j] = "done"
        BY <1>2 DEF JobOps
      <3> QED
        BY <1>0, <2>0, <2>1, <3>1 DEF Billing
    <2> QED
      BY <2>3, <2>4, <2>5, <2>6, <2>7, <2>8, <2>9
  <1>3. ASSUME UNCHANGED jobVars, NEW r \in Requests, Cut(r) \/ Barred(r) PROVE JobInv'
    BY <1>2, <1>3 DEF Cut, Barred, Frame, Placed, Running, Terminal
  <1>4. ASSUME UNCHANGED jobVars, Fallen PROVE JobInv'
    BY <1>2, <1>4 DEF Fallen, Running, Terminal
  <1>5. ASSUME UNCHANGED jobVars, Unmoved(JobOps) PROVE JobInv'
    BY <1>2, <1>5 DEF Unmoved
  <1> QED
    BY <1>1, <1>3, <1>4, <1>5, JobTurns

LEMMA JobMeans == JobInv => JobsAccounted
  <1> SUFFICES ASSUME JobInv PROVE JobsAccounted
    OBVIOUS
  <1> USE DEF JobInv
  <1>1. \A k \in JobKeys : Cardinality(JobWithKey(k)) <= 1
    <2> SUFFICES ASSUME NEW k \in JobKeys PROVE Cardinality(JobWithKey(k)) <= 1
      OBVIOUS
    <2>1. k # NoJobKey
      BY JobConstants
    <2>2. \A i, j \in JobWithKey(k) : i = j
      <3> SUFFICES ASSUME NEW i \in JobWithKey(k), NEW j \in JobWithKey(k) PROVE i = j
        OBVIOUS
      <3>1. i \in Requests /\ j \in Requests /\ Made(i) /\ Made(j)
            /\ jobRows[i].key = k /\ jobRows[j].key = k
        BY DEF JobWithKey, Made
      <3>2. JobKey(i) = k /\ JobKey(j) = k
        BY <3>1 DEF JobsNamed
      <3> QED
        BY <2>1, <3>1, <3>2 DEF JobsNamed
    <2>3. JobWithKey(k) = {} \/ \E j : JobWithKey(k) = {j}
      BY <2>2
    <2>4. Cardinality(JobWithKey(k)) \in {0, 1}
      BY <2>3, FS_EmptySet, FS_Singleton
    <2> QED
      BY <2>4
  <1>2. \A q, r \in Requests : answer[q].job # NoRequest /\ answer[r].job # NoRequest =>
            /\ jobRows[answer[r].job].agent = job[r].agent
            /\ JobKey(q) = JobKey(r) /\ JobKey(q) # NoJobKey => answer[q].job = answer[r].job
    BY DEF AnswersMade, JobsNamed
  <1>3. ASSUME NEW j \in Requests, j \in proofRows, jobRows[j].status # "completed"
        PROVE  j \in premature \/ Executing(j) \/ cut[j] = "complete"
    BY <1>3 DEF Proving
  <1>4. ASSUME NEW j \in Requests, j \in billedTo, j = answer[j].job, j \notin premature
        PROVE  jobRows[j].status = "completed" /\ jobRows[j].result = "satisfied"
    BY <1>4 DEF Billing
  <1> QED
    BY <1>1, <1>2, <1>3, <1>4 DEF JobsAccounted, Proving, Standing

\* Submissions with one key get one job and never another agent's, a completed
\* job has its proof and a proof its completed job, a job that runs has a
\* request or one that was cut, and who is charged has a job that was not a
\* failure - but for a cancellation beside the executor (submit_verification,
\* _execute_job and cancel_verification, gatekeeper/src/api.py).
THEOREM JobsAlwaysAccounted == Spec => []JobsAccounted
  <1> DEFINE Inv == Frame /\ JobInv
  <1>1. Init => Inv
    BY FrameInit, JobStart
  <1>2. Inv /\ [Next]_vars => Inv'
    BY FrameStep, JobKept
  <1>3. Inv => JobsAccounted
    BY JobMeans
  <1> QED
    BY <1>1, <1>2, <1>3, PTL DEF Spec

-----------------------------------------------------------------------------
(***************************************************************************)
(* Events, the services they suspend, and their deliveries.                *)
(***************************************************************************)

\* What may happen to an event.
LEMMA EventTurns ==
    ASSUME Frame, [Next]_vars
    PROVE  \/ \E r \in Requests : EventStep(r) /\ Only(r) /\ Op(r) \in EventOps /\ cut' = cut
                                  /\ pc[r] \notin Terminal
           \/ \E r \in Requests : EventTimeOut(r) /\ Cut(r)
           \/ UNCHANGED eventVars /\ \E r \in Requests : Barred(r)
           \/ (\E t \in Tasks : SendStep(t)) /\ UNCHANGED <<pc, cut>>
           \/ EventCrash /\ Fallen
           \/ UNCHANGED eventVars /\ Unmoved(EventOps)
  <1>1. ASSUME NEW r \in Requests, Step(r), Only(r), cut' = cut, Apart(r)
        PROVE  \/ EventStep(r) /\ Op(r) \in EventOps /\ pc[r] \notin Terminal
               \/ UNCHANGED eventVars /\ Unmoved(EventOps)
    BY <1>1, EventOnly DEF Apart, Only, Unmoved
  <1>2. ASSUME NEW r \in Requests, Cancelled(r) PROVE EventTimeOut(r)
    BY <1>2 DEF Cancelled
  <1>3. ASSUME NEW r \in Requests, Calling(r) PROVE UNCHANGED eventVars
    BY <1>3 DEF Calling, work
  <1>4. ASSUME NEW t \in Tasks, Send(t) PROVE SendStep(t)
    BY <1>4 DEF Send
  <1>5. ASSUME Tick PROVE UNCHANGED eventVars
    BY <1>5 DEF Tick, work
  <1>6. ASSUME Died PROVE EventCrash
    BY <1>6 DEF Died
  <1>7. ASSUME UNCHANGED vars PROVE UNCHANGED eventVars /\ UNCHANGED <<pc, cut>>
    BY <1>7 DEF vars, tasks, work
  <1>8. UNCHANGED <<pc, cut>> => Unmoved(EventOps)
    BY DEF Unmoved
  <1> QED
    BY <1>1, <1>2, <1>3, <1>4, <1>5, <1>6, <1>7, <1>8, Moves

\* A service that is offered is new; one that was there when an event was
\* published is suspended, or on the list of who is to be suspended, while the
\* handler runs and after it.
Dropping(r) == Op(r) = "publish" /\ job[r].type \in {"low", "drop"}
Unoffered(s) == \A r \in Requests : Op(r) = "offer" /\ job[r].service = s => pc[r] # "insert"
ServiceTables ==
    /\ services = [s \in Services |-> services[s]]
    /\ \A s \in Services : services[s] \in {"none", "active", "inactive"}
    /\ listed = [r \in Requests |-> listed[r]] /\ had = [r \in Requests |-> had[r]]
    /\ \A r \in Requests : /\ had[r] \subseteq Services /\ \A s \in had[r] : services[s] # "none"
                           /\ Op(r) = "publish" /\ pc[r] = "suspend" =>
                                 /\ listed[r] \subseteq Services
                                 /\ \A s \in listed[r] : services[s] # "none"
Offering == \A r \in Requests : Op(r) = "offer" =>
    /\ pc[r] \in {"new", "insert"} \cup Terminal
    /\ pc[r] \in {"new", "insert"} /\ job[r].service \in Services => services[job[r].service] = "none"
Suspending ==
    /\ \A r \in Requests : Op(r) = "publish" =>
          /\ pc[r] \in {"new", "republish", "list", "suspend"} \cup Terminal
          /\ pc[r] \in {"republish", "list", "suspend"} => Dropping(r)
    /\ \A e \in published : e[2] \in {"low", "drop"} =>
          /\ e[1] \in Requests /\ Dropping(e[1])
          /\ pc[e[1]] \in {"republish", "list", "suspend", "done", "504", "lost"}
          /\ pc[e[1]] \in {"504", "lost"} => cut[e[1]] # "never"
    /\ \A r \in Requests : Dropping(r) =>
          /\ pc[r] = "suspend" => \A s \in had[r] : services[s] = "inactive" \/ s \in listed[r]
          /\ pc[r] = "done" /\ r \notin undone => \A s \in had[r] : services[s] = "inactive"
\* Two that register a name at a time know of each other.
Clash(s, t) == s # t /\ NameOf[s] = NameOf[t]
Namesake(s) == \E q \in namesakes : job[q].service = s
Naming ==
    /\ namesakes \subseteq Requests
    /\ \A s, t \in Services : Clash(s, t) /\ services[s] = "active" /\ services[t] = "active" =>
          Namesake(s) \/ Namesake(t)
    /\ \A q, r \in Requests : q # r /\ At(q, "offer", "insert") /\ At(r, "offer", "insert") =>
          q \in namesakes \/ r \in namesakes
    /\ \A r \in Requests, s \in Services :
          At(r, "offer", "insert") /\ services[s] = "active" /\ Clash(s, job[r].service) =>
             r \in namesakes \/ Namesake(s)
BusInv == ServiceTables /\ Offering /\ Suspending /\ Naming

\* A delivery is sent by the task that was started with it, or by one retry
\* unless it is crossed, and only while it is pending.
Carries(t, d) == \/ Sends(t, d)
                 \/ t \in Requests /\ At(t, "retry", "resend") /\ d \in listed[t]
HookRow == [status : {"none", "pending", "delivered", "failed"}, attempts : Nat, retry : BOOLEAN]
Pristine == [status : {"pending"}, attempts : {0}, retry : {FALSE}]
HookTables ==
    /\ deliveries = [d \in Delivery |-> deliveries[d]] /\ \A d \in Delivery : deliveries[d] \in HookRow
    /\ sending = [t \in Tasks |-> sending[t]]
    /\ \A t \in Tasks : sending[t] \in [by : Delivery \cup {NoDelivery}, ok : BOOLEAN, attempts : Nat,
                                        at : {"idle", "post", "count", "update"}]
    /\ listed = [r \in Requests |-> listed[r]] /\ hooks \subseteq Hooks
Sending == \A t \in Tasks : sending[t].at # "idle" =>
    /\ sending[t].by \in Delivery
    /\ t \in Delivery => sending[t].by = t
    /\ t \in Requests => At(t, "retry", "resend") /\ sending[t].by \notin listed[t]
    /\ sending[t].ok => sending[t].at # "post" /\ sending[t].by \in received
Queueing == \A r \in Requests :
    /\ Op(r) = "deliver" => pc[r] \in {"new", "queue"} \cup Terminal
    /\ Op(r) = "retry" => pc[r] \in {"new", "resend"} \cup Terminal
    /\ At(r, "deliver", "queue") => listed[r] \subseteq {r} \X Hooks
    /\ At(r, "retry", "resend") => listed[r] \subseteq Delivery
    /\ \A d \in Delivery : d[1] = r /\ deliveries[d].status # "none" =>
          Op(r) = "deliver" /\ pc[r] # "new" /\ (pc[r] = "queue" => d \notin listed[r])
\* The first task has the row for itself; so has a retry, unless it is crossed.
FirstSent == \A d \in Delivery :
    /\ \A t \in Tasks : Carries(t, d) => deliveries[d].status # "none"
    /\ d \in crossed \cup confirmed => deliveries[d].status # "none"
    /\ Sends(d, d) => /\ deliveries[d] \in Pristine /\ d \notin crossed
                      /\ \A t \in Tasks : Carries(t, d) => t = d
Uncrossed == \A d \in Delivery \ crossed :
    /\ \A t, u \in Tasks : Carries(t, d) /\ Carries(u, d) => t = u
    /\ \A t \in Tasks : Carries(t, d) => deliveries[d].status = "pending"
    /\ \A t \in Tasks : Sends(t, d) /\ sending[t].at = "update" =>
          sending[t].attempts = deliveries[d].attempts + 1
    /\ deliveries[d].status = "pending" => deliveries[d].attempts < MaxAttempts
Accounting == \A d \in Delivery : LET row == deliveries[d] IN
    /\ row.status = "delivered" => d \in received
    /\ d \in confirmed => row.status = "delivered" \/ d \in crossed
    /\ row.status = "failed" => row.attempts = MaxAttempts \/ d \in crossed
    /\ row.attempts <= MaxAttempts \/ d \in crossed
    /\ row.status = "pending" => row \in Pristine \/ row.retry
    /\ row.status = "pending" => row.retry \/ Sends(d, d) \/ d \in stranded
HookInv == HookTables /\ Sending /\ Queueing /\ FirstSent /\ Uncrossed /\ Accounting

LEMMA BusStart == Init => BusInv
  <1> SUFFICES ASSUME Init PROVE BusInv
    OBVIOUS
  <1>1. /\ \A r \in Requests : pc[r] \in {"new", "done"} /\ (pc[r] = "done" => Op(r) = "idle")
        /\ job \in Workloads
        /\ services = [s \in Services |-> IF s \in FirstServices THEN "active" ELSE "none"]
        /\ listed = [r \in Requests |-> {}] /\ had = [r \in Requests |-> {}]
        /\ published = {} /\ namesakes = {}
    BY DEF Init, TaskInit, EventInit
  <1>2. ServiceTables
    BY <1>1 DEF ServiceTables
  <1>3. Offering
    BY <1>1, EventConstants DEF Offering, Terminal, Op
  <1>4. Suspending
    BY <1>1 DEF Suspending, Dropping, Terminal
  <1>5. Naming
    BY <1>1, EventConstants DEF Naming, Clash, At
  <1> QED
    BY <1>2, <1>3, <1>4, <1>5 DEF BusInv

\* A service is suspended, deactivated or left as it was, unless it is new.
LEMMA BusRests ==
    ASSUME BusInv, job' = job, UNCHANGED <<published, had, namesakes, undone>>, UNCHANGED services,
           listed' = [r \in Requests |-> listed'[r]],
           \A q \in Requests : Op(q) \in {"publish", "offer"} =>
               /\ listed'[q] = listed[q]
               /\ \/ pc'[q] = pc[q] /\ cut'[q] = cut[q]
                  \/ pc[q] \notin Terminal /\ pc'[q] \in {"504", "lost"} /\ cut'[q] = pc[q]
                  \/ pc[q] = "new" /\ pc'[q] = "429" /\ cut'[q] = cut[q]
    PROVE  BusInv'
  <1> USE DEF BusInv
  <1>1. \A q : Op(q)' = Op(q) /\ (Dropping(q)' <=> Dropping(q))
    BY DEF Op, Dropping
  <1>2. ServiceTables'
    BY <1>1 DEF ServiceTables
  <1>3. Offering'
    BY <1>1 DEF Offering, Terminal
  <1>4. Suspending'
    <2>1. \A r \in Requests : Op(r) = "publish" =>
            /\ pc'[r] \in {"new", "republish", "list", "suspend"} \cup Terminal
            /\ pc'[r] \in {"republish", "list", "suspend"} => Dropping(r)
      BY DEF Suspending, Terminal
    <2>2. ASSUME NEW e \in published, e[2] \in {"low", "drop"}
          PROVE  /\ e[1] \in Requests /\ Dropping(e[1])
                 /\ pc'[e[1]] \in {"republish", "list", "suspend", "done", "504", "lost"}
                 /\ pc'[e[1]] \in {"504", "lost"} => cut'[e[1]] # "never"
      <3>1. /\ e[1] \in Requests /\ Dropping(e[1]) /\ Op(e[1]) = "publish"
            /\ pc[e[1]] \in {"republish", "list", "suspend", "done", "504", "lost"}
            /\ pc[e[1]] \in {"504", "lost"} => cut[e[1]] # "never"
        BY <2>2 DEF Suspending, Dropping
      <3> DEFINE r == e[1]
      <3>2. /\ r \in Requests /\ Op(r) = "publish"
            /\ pc[r] \in {"republish", "list", "suspend", "done", "504", "lost"}
            /\ pc[r] \in {"504", "lost"} => cut[r] # "never"
        BY <3>1
      <3> HIDE DEF r
      <3>3. /\ pc'[r] \in {"republish", "list", "suspend", "done", "504", "lost"}
            /\ pc'[r] \in {"504", "lost"} => cut'[r] # "never"
        BY <3>2 DEF Terminal
      <3> QED
        BY <3>1, <3>3 DEF r
    <2>3. \A r \in Requests : Dropping(r) =>
            /\ pc'[r] = "suspend" => \A s \in had[r] : services[s] = "inactive" \/ s \in listed'[r]
            /\ pc'[r] = "done" /\ r \notin undone => \A s \in had[r] : services[s] = "inactive"
      BY DEF Suspending, Terminal, Dropping
    <2> QED
      BY <1>1, <2>1, <2>2, <2>3 DEF Suspending
  <1>5. \A q \in Requests : At(q, "offer", "insert")' => At(q, "offer", "insert")
    BY <1>1 DEF At
  <1>6. \A s : Namesake(s)' <=> Namesake(s)
    BY DEF Namesake
  <1>7. Naming'
    BY <1>5, <1>6 DEF Naming, Clash
  <1> QED
    BY <1>2, <1>3, <1>4, <1>7

\* A step of the handler, or of somebody who offers or withdraws a service.
LEMMA PublishMoves ==
    ASSUME Frame, BusInv, job' = job, cut' = cut, NEW r \in Requests, Only(r), pc[r] \notin Terminal,
           PublishEvent(r) \/ PublishDrop(r) \/ ListServices(r) \/ SuspendService(r)
    PROVE  BusInv'
  <1> USE DEF BusInv
  <1>0. /\ \A q : Op(q)' = Op(q) /\ (Dropping(q)' <=> Dropping(q))
        /\ \A q \in Requests \ {r} : pc'[q] = pc[q] /\ listed'[q] = listed[q] /\ had'[q] = had[q]
        /\ pc = [q \in Requests |-> pc[q]] /\ listed' = [q \in Requests |-> listed'[q]]
        /\ had' = [q \in Requests |-> had'[q]] /\ namesakes' = namesakes /\ Op(r) = "publish"
    BY DEF Only, Op, Dropping, Frame, Placed, ServiceTables, PublishEvent, PublishDrop, ListServices,
           SuspendService, At
  \* No service becomes active, none appears.
  <1>1. /\ services' = [s \in Services |-> services'[s]]
        /\ \A s \in Services : services'[s] = services[s] \/ (services'[s] = "inactive" /\ services[s] # "none")
    BY DEF ServiceTables, PublishEvent, PublishDrop, ListServices, SuspendService, At
  <1>2. \/ /\ pc[r] = "new" /\ pc'[r] \in {"republish", "list", "done"}
           /\ pc'[r] = "done" <=> ~Dropping(r)
           /\ published' = published \cup {<<r, job[r].type>>} /\ undone' = undone
           /\ had'[r] = {s \in Services : services[s] = "active"} /\ services' = services
        \/ /\ pc[r] = "republish" /\ pc'[r] = "list" /\ published' = published \cup {<<r, "drop">>}
           /\ UNCHANGED <<services, had, undone>>
        \/ /\ pc[r] = "list" /\ pc'[r] = "suspend" /\ UNCHANGED <<published, services, had, undone>>
           /\ listed'[r] = {s \in Services : services[s] = "active"}
        \/ /\ pc[r] = "suspend" /\ UNCHANGED <<published, had>>
           /\ \/ pc'[r] = "done" /\ listed[r] = {} /\ UNCHANGED <<services, undone>>
              \/ /\ pc'[r] = "suspend" /\ undone' = undone
                 /\ \E s \in listed[r] : services'[s] = "inactive" /\ listed'[r] = listed[r] \ {s}
              \/ pc'[r] = "done" /\ undone' = undone \cup {r} /\ UNCHANGED services
    <2>1. CASE PublishEvent(r)
      <3>1. pc'[r] = CASE job[r].type = "low" -> "republish" [] job[r].type = "drop" -> "list" [] OTHER -> "done"
        BY <1>0, <2>1 DEF PublishEvent, Go
      <3>2. pc'[r] \in {"republish", "list", "done"} /\ (pc'[r] = "done" <=> ~Dropping(r))
        BY <1>0, <3>1 DEF Dropping
      <3> QED
        BY <1>0, <2>1, <3>2 DEF PublishEvent, At, ServiceTables
    <2>2. CASE PublishDrop(r)
      BY <1>0, <2>2 DEF PublishDrop, At, Go
    <2>3. CASE ListServices(r)
      BY <1>0, <2>3 DEF ListServices, At, Go, ServiceTables
    <2>4. CASE SuspendService(r)
      <3>1. CASE /\ listed[r] = {}
                 /\ Go(r, "done")
                 /\ UNCHANGED <<services, listed, undone>>
        BY <1>0, <2>4, <3>1 DEF SuspendService, At, Go
      <3>2. CASE \E s \in listed[r] :
             /\ services' = [services EXCEPT ![s] = "inactive"]
             /\ listed' = [listed EXCEPT ![r] = @ \ {s}]
             /\ UNCHANGED <<pc, undone>>
        BY <1>0, <2>4, <3>2 DEF SuspendService, At, ServiceTables
      <3>3. CASE /\ undone' = undone \cup {r}
                 /\ Go(r, "done")
                 /\ UNCHANGED <<services, listed>>
        BY <1>0, <2>4, <3>3 DEF SuspendService, At, Go
      <3> QED
        BY <2>4, <3>1, <3>2, <3>3 DEF SuspendService
    <2> QED
      BY <2>1, <2>2, <2>3, <2>4
  <1>3. \A s \in Services : services'[s] \in {"none", "active", "inactive"}
                            /\ (services'[s] = "none" <=> services[s] = "none")
                            /\ (services[s] = "inactive" => services'[s] = "inactive")
                            /\ (services'[s] = "active" => services[s] = "active")
    BY <1>1 DEF ServiceTables
  <1>4. ServiceTables'
    <2>1. /\ had'[r] \subseteq Services /\ \A s \in had'[r] : services[s] # "none"
          /\ pc'[r] = "suspend" => listed'[r] \subseteq Services /\ \A s \in listed'[r] : services[s] # "none"
      BY <1>0, <1>2 DEF ServiceTables
    <2>2. \A q \in Requests :
             /\ had'[q] \subseteq Services /\ \A s \in had'[q] : services[s] # "none"
             /\ Op(q) = "publish" /\ pc'[q] = "suspend" =>
                   listed'[q] \subseteq Services /\ \A s \in listed'[q] : services[s] # "none"
      BY <1>0, <2>1 DEF ServiceTables
    <2>3. \A q \in Requests :
             /\ had'[q] \subseteq Services /\ \A s \in had'[q] : services'[s] # "none"
             /\ Op(q) = "publish" /\ pc'[q] = "suspend" =>
                   listed'[q] \subseteq Services /\ \A s \in listed'[q] : services'[s] # "none"
      BY <1>3, <2>2
    <2> QED
      BY <1>0, <1>1, <1>3, <2>3 DEF ServiceTables
  <1>5. Offering'
    BY <1>0, <1>3 DEF Offering
  <1>6. Suspending'
    <2>1. \A q \in Requests : Op(q) = "publish" =>
            /\ pc'[q] \in {"new", "republish", "list", "suspend"} \cup Terminal
            /\ pc'[q] \in {"republish", "list", "suspend"} => Dropping(q)
      BY <1>0, <1>2 DEF Suspending, Terminal
    <2>2. \A e \in published' : e \in published \/ (e[1] = r /\ (e[2] \in {"low", "drop"} => Dropping(r)))
      <3>1. /\ \A e \in {<<r, job[r].type>>} : e[1] = r /\ (e[2] \in {"low", "drop"} => Dropping(r))
            /\ \A e \in {<<r, "drop">>} : e[1] = r
        BY <1>0 DEF Dropping
      <3>2. pc[r] = "republish" => Dropping(r)
        BY <1>0 DEF Suspending
      <3> QED
        BY <1>2, <3>1, <3>2
    <2>3. Dropping(r) => /\ pc'[r] \in {"republish", "list", "suspend", "done"}
                         /\ pc'[r] \in {"504", "lost"} => cut'[r] # "never"
      BY <1>2
    <2>4. ASSUME NEW e \in published', e[2] \in {"low", "drop"}
          PROVE  /\ e[1] \in Requests /\ Dropping(e[1])
                 /\ pc'[e[1]] \in {"republish", "list", "suspend", "done", "504", "lost"}
                 /\ pc'[e[1]] \in {"504", "lost"} => cut'[e[1]] # "never"
      <3>1. CASE e[1] = r
        <4>1. Dropping(r)
          BY <2>2, <2>4, <3>1 DEF Suspending
        <4> QED
          BY <2>3, <3>1, <4>1
      <3>2. CASE e[1] # r
        <4>1. e \in published
          BY <2>2, <3>2
        <4>2. /\ e[1] \in Requests /\ Dropping(e[1])
              /\ pc[e[1]] \in {"republish", "list", "suspend", "done", "504", "lost"}
              /\ pc[e[1]] \in {"504", "lost"} => cut[e[1]] # "never"
          BY <2>4, <4>1 DEF Suspending
        <4>3. pc'[e[1]] = pc[e[1]]
          BY <1>0, <3>2, <4>2
        <4> QED
          BY <4>2, <4>3
      <3> QED
        BY <3>1, <3>2
    <2>5. /\ pc'[r] = "suspend" => \A s \in had'[r] : services'[s] = "inactive" \/ s \in listed'[r]
          /\ Dropping(r) /\ pc'[r] = "done" /\ r \notin undone' => \A s \in had'[r] : services'[s] = "inactive"
      <3>1. \A s \in had[r] : s \in Services /\ services[s] # "none"
        BY DEF ServiceTables
      <3>2. CASE pc[r] = "list"
        BY <1>2, <1>3, <3>1, <3>2 DEF ServiceTables
      <3>3. CASE pc[r] = "suspend"
        <4>1. \A s \in had[r] : services[s] = "inactive" \/ s \in listed[r]
          BY <1>0, <3>3 DEF Suspending
        <4>2. had' = had /\ \A s \in had[r] : services[s] = "inactive" => services'[s] = "inactive"
          BY <1>2, <1>3, <3>1, <3>3
        <4>3. \/ pc'[r] = "done" /\ listed[r] = {}
              \/ pc'[r] = "suspend" /\ \E s \in listed[r] : services'[s] = "inactive" /\ listed'[r] = listed[r] \ {s}
              \/ pc'[r] = "done" /\ r \in undone'
          BY <1>2, <3>3
        <4> QED
          BY <4>1, <4>2, <4>3
      <3> QED
        BY <1>2, <3>2, <3>3
    <2>6. \A q \in Requests \ {r} : Dropping(q) =>
            /\ pc'[q] = "suspend" => \A s \in had'[q] : services'[s] = "inactive" \/ s \in listed'[q]
            /\ pc'[q] = "done" /\ q \notin undone' => \A s \in had'[q] : services'[s] = "inactive"
      <3>1. \A q \in Requests \ {r} : q \notin undone' => q \notin undone
        BY <1>2
      <3>2. \A q \in Requests \ {r} : \A s \in had'[q] : s \in Services /\ s \in had[q]
        BY <1>0 DEF ServiceTables
      <3> QED
        BY <1>0, <1>3, <3>1, <3>2 DEF Suspending
    <2> QED
      BY <1>0, <2>1, <2>4, <2>5, <2>6 DEF Suspending
  <1>7. Naming'
    <2>1. \A q \in Requests : At(q, "offer", "insert")' => At(q, "offer", "insert")
      BY <1>0 DEF At
    <2>2. \A s : Namesake(s)' <=> Namesake(s)
      BY <1>0 DEF Namesake
    <2> QED
      BY <1>0, <1>3, <2>1, <2>2 DEF Naming, Clash
  <1> QED
    BY <1>4, <1>5, <1>6, <1>7

LEMMA OfferMoves ==
    ASSUME Frame, BusInv, job' = job, cut' = cut, NEW r \in Requests, Only(r), pc[r] \notin Terminal,
           FindName(r) \/ InsertService(r) \/ DeactivateService(r)
    PROVE  BusInv'
  <1> USE DEF BusInv
  <1>0. /\ \A q : Op(q)' = Op(q) /\ (Dropping(q)' <=> Dropping(q))
        /\ \A q \in Requests \ {r} : pc'[q] = pc[q]
        /\ UNCHANGED <<published, listed, had, undone>> /\ Op(r) \in {"offer", "deactivate"}
        /\ services = [s \in Services |-> services[s]] /\ job \in Workloads
    BY DEF Only, Op, Dropping, Frame, ServiceTables, FindName, InsertService, DeactivateService, At
  <1> DEFINE v == job[r].service
  <1>2. \/ /\ At(r, "offer", "new") /\ pc'[r] = "rejected" /\ services' = services
           /\ namesakes \subseteq namesakes' /\ namesakes' \subseteq namesakes \cup {r}
        \/ /\ At(r, "offer", "new") /\ pc'[r] = "insert" /\ services' = services
           /\ \A s \in Services : ~(services[s] = "active" /\ NameOf[s] = NameOf[v])
           /\ namesakes \subseteq namesakes' /\ namesakes' \subseteq namesakes \cup {r}
           /\ (\E q \in Requests : At(q, "offer", "insert")) => r \in namesakes'
        \/ /\ At(r, "offer", "insert") /\ pc'[r] = "done" /\ namesakes' = namesakes
           /\ services' = [services EXCEPT ![v] = "active"]
        \/ /\ Op(r) = "deactivate" /\ namesakes' = namesakes
           /\ services' = [services EXCEPT ![v] = IF @ = "none" THEN "none" ELSE "inactive"]
    BY DEF FindName, InsertService, DeactivateService, At, Go, Frame, Placed
  \* Only what is offered may appear.
  <1>3. /\ services' = [s \in Services |-> services'[s]]
        /\ \A s \in Services :
              \/ services'[s] = services[s]
              \/ services[s] # "none" /\ services'[s] = "inactive"
              \/ /\ s = v /\ services[s] = "none" /\ services'[s] = "active"
                 /\ At(r, "offer", "insert")
    <2>1. CASE services' = services
      BY <1>0, <2>1
    <2>2. CASE At(r, "offer", "insert") /\ services' = [services EXCEPT ![v] = "active"]
      <3>1. v \in Services => services[v] = "none"
        BY <2>2 DEF Offering, At
      <3> QED
        BY <1>0, <2>2, <3>1
    <2>3. CASE services' = [services EXCEPT ![v] = IF @ = "none" THEN "none" ELSE "inactive"]
      BY <1>0, <2>3
    <2> QED
      BY <1>2, <2>1, <2>2, <2>3
  <1>4. /\ \A s \in Services : services'[s] \in {"none", "active", "inactive"}
        /\ \A s \in Services : services[s] # "none" => services'[s] # "none"
        /\ \A s \in Services : services[s] = "inactive" => services'[s] = "inactive"
    BY <1>3 DEF ServiceTables
  <1>5. ServiceTables'
    <2>1. \A q \in Requests : /\ had[q] \subseteq Services /\ \A s \in had[q] : services'[s] # "none"
                           /\ Op(q) = "publish" /\ pc'[q] = "suspend" =>
                                 /\ listed[q] \subseteq Services
                                 /\ \A s \in listed[q] : services'[s] # "none"
      BY <1>0, <1>4 DEF ServiceTables
    <2> QED
      BY <1>0, <1>3, <1>4, <2>1 DEF ServiceTables
  <1>6. Offering'
    <2> SUFFICES ASSUME NEW q \in Requests, Op(q) = "offer"
                 PROVE  /\ pc'[q] \in {"new", "insert"} \cup Terminal
                        /\ pc'[q] \in {"new", "insert"} /\ job[q].service \in Services =>
                              services'[job[q].service] = "none"
      BY <1>0 DEF Offering
    <2>1. q = r => pc'[q] \in {"new", "insert"} \cup Terminal
      BY <1>2 DEF Terminal, At
    <2>2. ASSUME job[q].service \in Services, pc'[q] \in {"new", "insert"}
          PROVE  services'[job[q].service] = "none"
      <3>1. q = r => At(r, "offer", "new")
        BY <1>2, <2>2 DEF At
      <3>2. pc[q] \in {"new", "insert"}
        BY <1>0, <2>2, <3>1 DEF At
      <3>3. services[job[q].service] = "none"
        BY <2>2, <3>2 DEF Offering
      <3>4. q # r /\ At(r, "offer", "insert") => job[q].service # v
        BY <1>0, EventConstants DEF At, Op
      <3>5. q = r => ~At(r, "offer", "insert")
        BY <3>1 DEF At
      <3> QED
        BY <1>3, <2>2, <3>3, <3>4, <3>5
    <2> QED
      BY <1>0, <2>1, <2>2 DEF Offering
  <1>7. Suspending'
    <2>0. r \notin {q \in Requests : Op(q) = "publish"}
      BY <1>0
    <2>1. \A q \in Requests : Op(q) = "publish" => pc'[q] = pc[q]
      BY <1>0
    <2>2. \A q \in Requests : \A s \in had[q] : services[s] = "inactive" => services'[s] = "inactive"
      BY <1>4 DEF ServiceTables
    <2>3. \A q \in Requests : Dropping(q) =>
            /\ pc'[q] = "suspend" => \A s \in had[q] : services'[s] = "inactive" \/ s \in listed[q]
            /\ pc'[q] = "done" /\ q \notin undone => \A s \in had[q] : services'[s] = "inactive"
      BY <2>1, <2>2 DEF Suspending, Dropping
    <2>4. \A e \in published : e[2] \in {"low", "drop"} =>
            /\ e[1] \in Requests /\ Dropping(e[1]) /\ pc'[e[1]] = pc[e[1]]
      BY <2>1 DEF Suspending, Dropping
    <2> QED
      BY <1>0, <2>1, <2>3, <2>4 DEF Suspending
  <1>8. Naming'
    <2>1. namesakes \subseteq namesakes' /\ namesakes' \subseteq Requests
      BY <1>2 DEF Naming
    <2>2. \A s : Namesake(s) => Namesake(s)'
      BY <2>1 DEF Namesake
    <2>3. ASSUME NEW s \in Services, services'[s] = "active"
          PROVE  services[s] = "active" \/ (s = v /\ At(r, "offer", "insert"))
      BY <1>3, <2>3
    <2>4. At(r, "offer", "insert") /\ r \in namesakes => Namesake(v)'
      BY <2>1 DEF Namesake
    <2>5. \A s, t \in Services : Clash(s, t) /\ services'[s] = "active" /\ services'[t] = "active" =>
              Namesake(s)' \/ Namesake(t)'
      <3> SUFFICES ASSUME NEW s \in Services, NEW t \in Services, Clash(s, t),
                          services'[s] = "active", services'[t] = "active"
                   PROVE  Namesake(s)' \/ Namesake(t)'
        OBVIOUS
      <3>1. Clash(t, s)
        BY DEF Clash
      <3>2. CASE services[s] = "active" /\ services[t] = "active"
        BY <2>2, <3>2 DEF Naming
      <3>3. CASE t = v /\ At(r, "offer", "insert") /\ services[s] = "active"
        BY <2>2, <2>4, <3>3 DEF Naming
      <3>4. CASE s = v /\ At(r, "offer", "insert") /\ services[t] = "active"
        BY <2>2, <2>4, <3>1, <3>4 DEF Naming
      <3>5. s # t
        BY DEF Clash
      <3> QED
        BY <2>3, <3>2, <3>3, <3>4, <3>5
    <2>6. \A q \in Requests : At(q, "offer", "insert")' =>
              \/ At(q, "offer", "insert") /\ q # r
              \/ q = r /\ At(r, "offer", "new") /\ pc'[r] = "insert"
      BY <1>0, <1>2 DEF At
    <2>7. \A p, q \in Requests : p # q /\ At(p, "offer", "insert")' /\ At(q, "offer", "insert")' =>
             p \in namesakes' \/ q \in namesakes'
      BY <1>2, <2>1, <2>6 DEF Naming, At
    <2>8. \A q \in Requests, s \in Services :
            At(q, "offer", "insert")' /\ services'[s] = "active" /\ Clash(s, job[q].service) =>
               q \in namesakes' \/ Namesake(s)'
      <3> SUFFICES ASSUME NEW q \in Requests, NEW s \in Services, At(q, "offer", "insert")',
                          services'[s] = "active", Clash(s, job[q].service)
                   PROVE  q \in namesakes' \/ Namesake(s)'
        OBVIOUS
      <3>1. CASE q = r
        <4>1. /\ pc[r] = "new" /\ pc'[r] = "insert" /\ services' = services
              /\ \A t \in Services : ~(services[t] = "active" /\ NameOf[t] = NameOf[v])
          BY <1>2, <2>6, <3>1 DEF At
        <4> QED
          BY <3>1, <4>1 DEF Clash
      <3>2. CASE q # r /\ services[s] = "active"
        BY <2>1, <2>2, <2>6, <3>2 DEF Naming
      <3>3. CASE q # r /\ s = v /\ At(r, "offer", "insert")
        BY <2>1, <2>4, <2>6, <3>3 DEF Naming
      <3> QED
        BY <2>3, <3>1, <3>2, <3>3
    <2> QED
      BY <1>0, <2>1, <2>5, <2>7, <2>8 DEF Naming, Clash
  <1> QED
    BY <1>5, <1>6, <1>7, <1>8

LEMMA BusKept == Frame /\ BusInv /\ [Next]_vars => BusInv'
  <1> SUFFICES ASSUME Frame, BusInv, [Next]_vars PROVE BusInv'
    OBVIOUS
  <1>0. job' = job
    BY Moves
  <1>1. UNCHANGED busVars => UNCHANGED <<published, services, listed, had, undone, namesakes>>
    BY DEF busVars
  <1>2. listed = [r \in Requests |-> listed[r]]
    BY DEF BusInv, ServiceTables
  <1>3. ASSUME NEW r \in Requests, EventStep(r), Only(r), Op(r) \in EventOps, cut' = cut, pc[r] \notin Terminal
        PROVE  BusInv'
    <2>1. CASE PublishEvent(r) \/ PublishDrop(r) \/ ListServices(r) \/ SuspendService(r)
      BY <1>0, <1>3, <2>1, PublishMoves
    <2>2. CASE FindName(r) \/ InsertService(r) \/ DeactivateService(r)
      BY <1>0, <1>3, <2>2, OfferMoves
    <2>3. CASE DeliverEvent(r) \/ QueueDelivery(r) \/ ListRetries(r) \/ NextRetry(r) \/ DeleteWebhook(r)
      <3>1. /\ UNCHANGED <<published, services, had, undone, namesakes>>
            /\ Op(r) \in {"deliver", "retry", "unhook"}
            /\ listed' = [q \in Requests |-> listed'[q]]
            /\ \A q \in Requests \ {r} : listed'[q] = listed[q]
        BY <1>1, <1>2, <2>3 DEF DeliverEvent, QueueDelivery, ListRetries, NextRetry, DeleteWebhook, At
      <3>2. \A q \in Requests : Op(q) \in {"publish", "offer"} =>
               listed'[q] = listed[q] /\ pc'[q] = pc[q] /\ cut'[q] = cut[q]
        BY <1>3, <3>1 DEF Only
      <3> QED
        BY <1>0, <3>1, <3>2, BusRests
    <2> QED
      BY <1>3, <2>1, <2>2, <2>3 DEF EventStep
  <1>4. ASSUME UNCHANGED busVars,
               \A q \in Requests : Op(q) \in EventOps =>
                   \/ pc'[q] = pc[q] /\ cut'[q] = cut[q]
                   \/ pc[q] \notin Terminal /\ pc'[q] \in {"504", "lost"} /\ cut'[q] = pc[q]
                   \/ pc[q] = "new" /\ pc'[q] = "429" /\ cut'[q] = cut[q]
        PROVE  BusInv'
    BY <1>0, <1>1, <1>2, <1>4, BusRests DEF EventOps
  <1>5. ASSUME NEW r \in Requests, EventTimeOut(r), Cut(r) PROVE BusInv'
    BY <1>4, <1>5 DEF EventTimeOut, Cut, Frame, Placed, Running
  <1>6. ASSUME NEW r \in Requests, UNCHANGED eventVars, Barred(r) PROVE BusInv'
    BY <1>4, <1>6 DEF eventVars, Barred, Frame, Placed
  <1>7. ASSUME NEW t \in Tasks, SendStep(t), UNCHANGED <<pc, cut>> PROVE BusInv'
    BY <1>4, <1>7 DEF SendStep, PostDelivery, CountAttempt, UpdateDelivery
  <1>8. CASE EventCrash /\ Fallen
    BY <1>4, <1>8 DEF EventCrash, Fallen, Running
  <1>9. CASE UNCHANGED eventVars /\ Unmoved(EventOps)
    BY <1>4, <1>9 DEF eventVars, Unmoved
  <1> QED
    BY <1>3, <1>5, <1>6, <1>7, <1>8, <1>9, EventTurns

LEMMA BusMeans == BusInv => DropSuspends /\ NamesDiffer
  <1> SUFFICES ASSUME BusInv PROVE DropSuspends /\ NamesDiffer
    OBVIOUS
  <1>1. DropSuspends
    BY DEF BusInv, Suspending, DropSuspends, Reacting
  <1>2. NamesDiffer
    BY DEF BusInv, Naming, NamesDiffer, Namesake, Clash
  <1> QED
    BY <1>1, <1>2

LEMMA HookStart == Init => HookInv
  <1> SUFFICES ASSUME Init PROVE HookInv
    OBVIOUS
  <1>1. /\ \A r \in Requests : pc[r] \in {"new", "done"} /\ (pc[r] = "done" => Op(r) = "idle")
        /\ deliveries = [d \in Delivery |-> NoRow] /\ sending = [t \in Tasks |-> Idle]
        /\ listed = [r \in Requests |-> {}] /\ hooks = Hooks /\ confirmed = {} /\ crossed = {}
    BY DEF Init, TaskInit, EventInit
  <1>2. NoRow \in HookRow /\ NoRow.status = "none" /\ NoRow.attempts = 0
    BY DEF NoRow, HookRow
  <1>3. Idle.at = "idle" /\ Idle \in [by : Delivery \cup {NoDelivery}, ok : BOOLEAN, attempts : Nat,
                                      at : {"idle", "post", "count", "update"}]
    BY DEF Idle
  <1>4. HookTables
    BY <1>1, <1>2, <1>3 DEF HookTables
  <1>5. Sending
    BY <1>1, <1>3 DEF Sending
  <1>6. Queueing
    BY <1>1, <1>2 DEF Queueing, At, Terminal
  <1>7. \A t \in Tasks : \A d : ~Carries(t, d)
    BY <1>1, <1>3 DEF Carries, Sends, At
  <1>8. Delivery \subseteq Tasks
    BY DEF Tasks
  <1>9. FirstSent /\ Uncrossed
    BY <1>1, <1>2, <1>7, <1>8 DEF FirstSent, Uncrossed, Carries
  <1>10. Accounting
    BY <1>1, <1>2, EventConstants DEF Accounting
  <1> QED
    BY <1>4, <1>5, <1>6, <1>9, <1>10 DEF HookInv

\* Tasks that end leave what they did; a delivery that had its first task is
\* stranded by that.
LEMMA HookRests ==
    ASSUME HookInv, job' = job, UNCHANGED <<deliveries, received, confirmed, crossed>>,
           hooks' \subseteq hooks, stranded \subseteq stranded', listed' = [r \in Requests |-> listed'[r]],
           sending' = [t \in Tasks |-> sending'[t]],
           \A t \in Tasks : sending'[t] = sending[t] \/ sending'[t] = Idle,
           \A r \in Requests : sending'[r].at = "idle" \/ pc'[r] = pc[r] \/ Op(r) # "retry",
           \A d \in Delivery : sending'[d] = sending[d] \/ (deliveries[d] \in Pristine => d \in stranded'),
           \A q \in Requests : Op(q) \in {"deliver", "retry"} =>
               /\ listed'[q] = listed[q]
               /\ \/ pc'[q] = pc[q]
                  \/ pc[q] \notin Terminal \cup {"new"} /\ pc'[q] \in {"504", "lost"}
                  \/ pc[q] = "new" /\ pc'[q] = "429"
    PROVE  HookInv'
  <1> USE DEF HookInv
  <1>0. /\ \A q : Op(q)' = Op(q)
        /\ Idle.at = "idle" /\ Idle \in [by : Delivery \cup {NoDelivery}, ok : BOOLEAN, attempts : Nat,
                                         at : {"idle", "post", "count", "update"}]
        /\ Requests \subseteq Tasks /\ Delivery \subseteq Tasks
    BY DEF Op, Idle, Tasks
  <1>1. HookTables'
    BY <1>0 DEF HookTables
  <1>2. /\ \A t \in Tasks : \A d : Sends(t, d)' => Sends(t, d) /\ sending'[t] = sending[t]
        /\ \A t \in Tasks : \A d : Carries(t, d)' => Carries(t, d)
        /\ \A d : Sends(d, d) /\ sending'[d] = sending[d] => Sends(d, d)'
    <2>1. \A t \in Tasks : \A d : Sends(t, d)' => Sends(t, d) /\ sending'[t] = sending[t]
      BY <1>0 DEF Sends
    <2>2. \A t \in Requests : At(t, "retry", "resend")' => At(t, "retry", "resend") /\ listed'[t] = listed[t]
      BY <1>0 DEF At
    <2> QED
      BY <2>1, <2>2 DEF Carries, Sends
  <1>3. Sending'
    <2> SUFFICES ASSUME NEW t \in Tasks, sending'[t].at # "idle"
                 PROVE  /\ sending'[t].by \in Delivery
                        /\ t \in Delivery => sending'[t].by = t
                        /\ t \in Requests => At(t, "retry", "resend")' /\ sending'[t].by \notin listed'[t]
                        /\ sending'[t].ok => sending'[t].at # "post" /\ sending'[t].by \in received
      BY DEF Sending
    <2>1. sending'[t] = sending[t] /\ sending[t].at # "idle"
      BY <1>0
    <2>2. t \in Requests => Op(t) = "retry" /\ pc'[t] = pc[t] /\ listed'[t] = listed[t]
      BY <1>0, <2>1 DEF Sending, At
    <2> QED
      BY <1>0, <2>1, <2>2 DEF Sending, At
  <1>4. Queueing'
    <2> SUFFICES ASSUME NEW r \in Requests
                 PROVE  /\ Op(r) = "deliver" => pc'[r] \in {"new", "queue"} \cup Terminal
                        /\ Op(r) = "retry" => pc'[r] \in {"new", "resend"} \cup Terminal
                        /\ Op(r) = "deliver" /\ pc'[r] = "queue" => listed'[r] \subseteq {r} \X Hooks
                        /\ Op(r) = "retry" /\ pc'[r] = "resend" => listed'[r] \subseteq Delivery
                        /\ \A d \in Delivery : d[1] = r /\ deliveries[d].status # "none" =>
                              Op(r) = "deliver" /\ pc'[r] # "new" /\ (pc'[r] = "queue" => d \notin listed'[r])
      BY <1>0 DEF Queueing, At
    <2> QED
      BY DEF Queueing, Terminal, At
  <1>5. FirstSent'
    <2> SUFFICES ASSUME NEW d \in Delivery
                 PROVE  /\ \A t \in Tasks : Carries(t, d)' => deliveries[d].status # "none"
                        /\ d \in crossed \cup confirmed => deliveries[d].status # "none"
                        /\ Sends(d, d)' => /\ deliveries[d] \in Pristine /\ d \notin crossed
                                           /\ \A t \in Tasks : Carries(t, d)' => t = d
      BY DEF FirstSent
    <2> QED
      BY <1>0, <1>2 DEF FirstSent
  <1>6. Uncrossed'
    <2> SUFFICES ASSUME NEW d \in Delivery \ crossed
                 PROVE  /\ \A t, u \in Tasks : Carries(t, d)' /\ Carries(u, d)' => t = u
                        /\ \A t \in Tasks : Carries(t, d)' => deliveries[d].status = "pending"
                        /\ \A t \in Tasks : Sends(t, d)' /\ sending'[t].at = "update" =>
                              sending'[t].attempts = deliveries[d].attempts + 1
                        /\ deliveries[d].status = "pending" => deliveries[d].attempts < MaxAttempts
      BY DEF Uncrossed
    <2> QED
      BY <1>2 DEF Uncrossed
  <1>7. Accounting'
    <2>1. \A d \in Delivery : deliveries[d].status = "pending" =>
              deliveries[d].retry \/ Sends(d, d)' \/ d \in stranded'
      BY <1>2 DEF Accounting
    <2> QED
      BY <2>1 DEF Accounting
  <1> QED
    BY <1>1, <1>3, <1>4, <1>5, <1>6, <1>7

\* A delivery gets its row and its task.
LEMMA QueueMoves ==
    ASSUME HookInv, job' = job, pc = [q \in Requests |-> pc[q]], NEW r \in Requests, Only(r),
           DeliverEvent(r) \/ QueueDelivery(r)
    PROVE  HookInv'
  <1> USE DEF HookInv
  <1>0. /\ \A q : Op(q)' = Op(q)
        /\ \A q \in Requests \ {r} : pc'[q] = pc[q] /\ listed'[q] = listed[q]
        /\ listed = [q \in Requests |-> listed[q]] /\ listed' = [q \in Requests |-> listed'[q]]
        /\ UNCHANGED <<hooks, received, confirmed, crossed, stranded>> /\ Op(r) = "deliver"
        /\ sending = [t \in Tasks |-> sending[t]] /\ deliveries = [d \in Delivery |-> deliveries[d]]
        /\ Requests \subseteq Tasks /\ Delivery \subseteq Tasks
    BY DEF Only, Op, At, HookTables, DeliverEvent, QueueDelivery, Tasks, hookVars
  <1>1. CASE DeliverEvent(r) \/ (QueueDelivery(r) /\ UNCHANGED <<deliveries, sending>>)
    <2>1. /\ UNCHANGED <<deliveries, sending>>
          /\ \/ pc[r] = "new" /\ pc'[r] = "queue" /\ listed'[r] \subseteq {r} \X Hooks
             \/ pc[r] = "queue" /\ pc'[r] = "done"
      <3>1. CASE DeliverEvent(r)
        <4>1. listed'[r] = {<<r, k>> : k \in hooks \cap job[r].concerns}
          BY <1>0, <3>1 DEF DeliverEvent
        <4>2. pc[r] = "new" /\ pc'[r] = "queue" /\ UNCHANGED <<deliveries, sending>>
          BY <1>0, <3>1 DEF DeliverEvent, At, Go, hookVars
        <4>3. listed'[r] \subseteq {r} \X Hooks
          <5>1. \A k \in hooks \cap job[r].concerns : <<r, k>> \in {r} \X Hooks
            BY DEF HookTables
          <5> QED
            BY <4>1, <5>1
        <4> QED
          BY <4>2, <4>3
      <3>2. CASE QueueDelivery(r) /\ UNCHANGED <<deliveries, sending>>
        <4>1. CASE listed[r] = {} /\ Go(r, "done") /\ UNCHANGED <<listed, deliveries, sending>>
          BY <1>0, <3>2, <4>1 DEF QueueDelivery, At, Go
        <4>2. ASSUME NEW d \in listed[r], deliveries' = [deliveries EXCEPT ![d] = [NoRow EXCEPT !.status = "pending"]]
              PROVE  FALSE
          <5>0. listed[r] \subseteq {r} \X Hooks
            BY <3>2 DEF Queueing, QueueDelivery
          <5>1. d \in Delivery /\ d[1] = r
            BY <5>0 DEF Delivery
          <5>2. deliveries[d].status = "none"
            BY <3>2, <5>1 DEF Queueing, QueueDelivery, At
          <5>3. deliveries'[d].status = "pending"
            BY <1>0, <4>2, <5>1 DEF NoRow
          <5> QED
            BY <3>2, <5>2, <5>3
        <4> QED
          BY <3>2, <4>1, <4>2 DEF QueueDelivery
      <3> QED
        BY <1>1, <3>1, <3>2
    <2>2. \A t \in Tasks : \A d : /\ Sends(t, d)' <=> Sends(t, d)
                                  /\ Carries(t, d)' <=> Carries(t, d)
      BY <1>0, <2>1 DEF Sends, Carries, At
    <2>3. HookTables'
      BY <1>0, <2>1 DEF HookTables
    <2>4. Sending'
      BY <1>0, <2>1 DEF Sending, At
    <2>5. Queueing'
      BY <1>0, <2>1 DEF Queueing, At, Terminal
    <2>6. FirstSent'
      BY <1>0, <2>1, <2>2 DEF FirstSent
    <2>7. Uncrossed'
      BY <1>0, <2>1, <2>2 DEF Uncrossed
    <2>8. Accounting'
      BY <1>0, <2>1, <2>2 DEF Accounting
    <2> QED
      BY <2>3, <2>4, <2>5, <2>6, <2>7, <2>8
  <1>2. ASSUME NEW d \in listed[r], QueueDelivery(r),
               deliveries' = [deliveries EXCEPT ![d] = [NoRow EXCEPT !.status = "pending"]],
               sending' = [sending EXCEPT ![d] = [Idle EXCEPT !.by = d, !.at = "post"]],
               listed' = [listed EXCEPT ![r] = @ \ {d}], UNCHANGED pc
        PROVE  HookInv'
    <2>1. At(r, "deliver", "queue") /\ d \in Delivery /\ d[1] = r /\ d \in Tasks /\ listed[r] \subseteq {r} \X Hooks
      <3>1. At(r, "deliver", "queue")
        BY <1>2 DEF QueueDelivery
      <3>2. listed[r] \subseteq {r} \X Hooks
        BY <3>1 DEF Queueing
      <3>3. d \in Delivery /\ d[1] = r
        BY <1>2, <3>2 DEF Delivery
      <3> QED
        BY <1>0, <3>1, <3>2, <3>3
    <2>2. deliveries[d].status = "none"
      BY <2>1 DEF Queueing, At
    <2>3. (\A t \in Tasks : ~Carries(t, d)) /\ d \notin crossed \cup confirmed /\ d \notin Requests
      BY <2>1, <2>2, EventConstants DEF FirstSent, Delivery
    <2>4. /\ deliveries'[d] \in Pristine /\ \A e \in Delivery \ {d} : deliveries'[e] = deliveries[e]
          /\ deliveries' = [e \in Delivery |-> deliveries'[e]]
      <3>1. [NoRow EXCEPT !.status = "pending"] \in Pristine
        BY DEF NoRow, Pristine
      <3> QED
        BY <1>0, <1>2, <2>1, <3>1
    <2>5. /\ sending'[d] \in [by : {d}, at : {"post"}, ok : {FALSE}, attempts : {0}]
          /\ \A t \in Tasks \ {d} : sending'[t] = sending[t]
          /\ sending' = [t \in Tasks |-> sending'[t]]
      <3>1. [Idle EXCEPT !.by = d, !.at = "post"] \in [by : {d}, at : {"post"}, ok : {FALSE}, attempts : {0}]
        BY DEF Idle
      <3> QED
        BY <1>0, <1>2, <2>1, <3>1
    <2>6. /\ sending'[d].by = d /\ sending'[d].at = "post" /\ sending'[d].ok = FALSE
          /\ deliveries'[d].status = "pending" /\ deliveries'[d].attempts = 0 /\ deliveries'[d].retry = FALSE
      BY <2>4, <2>5 DEF Pristine
    <2>7. listed'[r] = listed[r] \ {d} /\ pc' = pc
      BY <1>0, <1>2
    <2>8. \A t \in Tasks \ {d} : \A e : /\ Sends(t, e)' <=> Sends(t, e)
                                        /\ Carries(t, e)' <=> Carries(t, e)
      BY <1>0, <2>1, <2>5, <2>7 DEF Sends, Carries, At
    <2>9. \A e : (Sends(d, e)' <=> e = d) /\ (Carries(d, e)' <=> e = d)
      BY <2>3, <2>6 DEF Sends, Carries
    <2>10. HookTables'
      <3>0. [NoRow EXCEPT !.status = "pending"] \in HookRow
        BY DEF NoRow, HookRow
      <3>1. deliveries'[d] \in HookRow
        BY <1>0, <1>2, <2>1, <3>0
      <3>2. sending'[d] \in [by : Delivery \cup {NoDelivery}, ok : BOOLEAN, attempts : Nat,
                            at : {"idle", "post", "count", "update"}]
        <4>1. [Idle EXCEPT !.by = d, !.at = "post"] \in [by : Delivery \cup {NoDelivery}, ok : BOOLEAN,
                 attempts : Nat, at : {"idle", "post", "count", "update"}]
          BY <2>1 DEF Idle
        <4> QED
          BY <1>0, <1>2, <2>1, <4>1
      <3> QED
        BY <1>0, <2>4, <2>5, <3>1, <3>2 DEF HookTables
    <2>11. Sending'
      <3>1. \A q \in Requests : At(q, "retry", "resend")' <=> At(q, "retry", "resend")
        BY <1>0, <2>7 DEF At
      <3>2. \A q \in Requests : At(q, "retry", "resend") => listed'[q] = listed[q]
        BY <1>0 DEF At
      <3> SUFFICES ASSUME NEW t \in Tasks, sending'[t].at # "idle"
                   PROVE  /\ sending'[t].by \in Delivery
                          /\ t \in Delivery => sending'[t].by = t
                          /\ t \in Requests => At(t, "retry", "resend")' /\ sending'[t].by \notin listed'[t]
                          /\ sending'[t].ok => sending'[t].at # "post" /\ sending'[t].by \in received
        BY <1>0 DEF Sending
      <3>3. CASE t = d
        BY <2>1, <2>3, <2>6, <3>3
      <3>4. CASE t # d
        BY <2>5, <3>1, <3>2, <3>4 DEF Sending
      <3> QED
        BY <3>3, <3>4
    <2>12. Queueing'
      <3> SUFFICES ASSUME NEW q \in Requests
                   PROVE  /\ Op(q) = "deliver" => pc'[q] \in {"new", "queue"} \cup Terminal
                          /\ Op(q) = "retry" => pc'[q] \in {"new", "resend"} \cup Terminal
                          /\ Op(q) = "deliver" /\ pc'[q] = "queue" => listed'[q] \subseteq {q} \X Hooks
                          /\ Op(q) = "retry" /\ pc'[q] = "resend" => listed'[q] \subseteq Delivery
                          /\ \A e \in Delivery : e[1] = q /\ deliveries'[e].status # "none" =>
                                Op(q) = "deliver" /\ pc'[q] # "new" /\ (pc'[q] = "queue" => e \notin listed'[q])
        BY <1>0 DEF Queueing, At
      <3>1. listed'[q] \subseteq listed[q]
        BY <1>0, <2>7
      <3>2. ASSUME NEW e \in Delivery, e[1] = q, deliveries'[e].status # "none"
            PROVE  Op(q) = "deliver" /\ pc'[q] # "new" /\ (pc'[q] = "queue" => e \notin listed'[q])
        <4>1. CASE e = d
          BY <1>0, <2>1, <2>7, <3>2, <4>1 DEF At
        <4>2. CASE e # d
          BY <2>4, <2>7, <3>1, <3>2, <4>2 DEF Queueing
        <4> QED
          BY <4>1, <4>2
      <3> QED
        BY <2>7, <3>1, <3>2 DEF Queueing, At
    <2>13. FirstSent'
      <3> SUFFICES ASSUME NEW e \in Delivery
                   PROVE  /\ \A t \in Tasks : Carries(t, e)' => deliveries'[e].status # "none"
                          /\ e \in crossed \cup confirmed => deliveries'[e].status # "none"
                          /\ Sends(e, e)' => /\ deliveries'[e] \in Pristine /\ e \notin crossed
                                             /\ \A t \in Tasks : Carries(t, e)' => t = e
        BY <1>0 DEF FirstSent
      <3>1. CASE e = d
        BY <2>3, <2>4, <2>6, <2>8, <3>1
      <3>2. CASE e # d
        BY <1>0, <2>4, <2>8, <2>9, <3>2 DEF FirstSent
      <3> QED
        BY <3>1, <3>2
    <2>14. Uncrossed'
      <3> SUFFICES ASSUME NEW e \in Delivery \ crossed
                   PROVE  /\ \A t, u \in Tasks : Carries(t, e)' /\ Carries(u, e)' => t = u
                          /\ \A t \in Tasks : Carries(t, e)' => deliveries'[e].status = "pending"
                          /\ \A t \in Tasks : Sends(t, e)' /\ sending'[t].at = "update" =>
                                sending'[t].attempts = deliveries'[e].attempts + 1
                          /\ deliveries'[e].status = "pending" => deliveries'[e].attempts < MaxAttempts
        BY <1>0 DEF Uncrossed
      <3>1. CASE e = d
        <4>1. \A t \in Tasks : Carries(t, e)' => t = d
          BY <2>3, <2>8, <3>1
        <4>2. \A t \in Tasks : Sends(t, e)' => t = d
          BY <2>3, <2>8, <3>1 DEF Carries
        <4> QED
          BY <2>6, <3>1, <4>1, <4>2, EventConstants
      <3>2. CASE e # d
        BY <2>4, <2>5, <2>8, <2>9, <3>2 DEF Uncrossed
      <3> QED
        BY <3>1, <3>2
    <2>15. Accounting'
      <3> SUFFICES ASSUME NEW e \in Delivery
                   PROVE  /\ deliveries'[e].status = "delivered" => e \in received
                          /\ e \in confirmed => deliveries'[e].status = "delivered" \/ e \in crossed
                          /\ deliveries'[e].status = "failed" => deliveries'[e].attempts = MaxAttempts \/ e \in crossed
                          /\ deliveries'[e].attempts <= MaxAttempts \/ e \in crossed
                          /\ deliveries'[e].status = "pending" => deliveries'[e] \in Pristine \/ deliveries'[e].retry
                          /\ deliveries'[e].status = "pending" =>
                                deliveries'[e].retry \/ Sends(e, e)' \/ e \in stranded
        BY <1>0 DEF Accounting
      <3>1. CASE e = d
        BY <2>3, <2>4, <2>6, <2>9, <3>1, EventConstants
      <3>2. CASE e # d
        BY <1>0, <2>4, <2>8, <3>2 DEF Accounting
      <3> QED
        BY <3>1, <3>2
    <2> QED
      BY <2>10, <2>11, <2>12, <2>13, <2>14, <2>15
  <1> QED
    BY <1>1, <1>2 DEF QueueDelivery

\* A retry takes what it may send, and sends it.
LEMMA RetryMoves ==
    ASSUME HookInv, job' = job, pc = [q \in Requests |-> pc[q]], NEW r \in Requests, Only(r),
           ListRetries(r) \/ NextRetry(r)
    PROVE  HookInv'
  <1> USE DEF HookInv
  <1>0. /\ \A q : Op(q)' = Op(q)
        /\ \A q \in Requests \ {r} : pc'[q] = pc[q] /\ listed'[q] = listed[q]
        /\ listed = [q \in Requests |-> listed[q]] /\ listed' = [q \in Requests |-> listed'[q]]
        /\ UNCHANGED <<hooks, deliveries, received, confirmed, stranded>> /\ Op(r) = "retry"
        /\ sending = [t \in Tasks |-> sending[t]]
        /\ Requests \subseteq Tasks /\ Delivery \subseteq Tasks
        /\ r \in Tasks /\ r \notin Delivery
    BY EventConstants DEF Only, Op, At, HookTables, ListRetries, NextRetry, Tasks, Delivery
  <1>1. CASE ListRetries(r)
    <2>1. /\ pc[r] = "new" /\ pc'[r] = "resend" /\ sending' = sending /\ listed'[r] = Retriable
          /\ crossed' = crossed \cup {d \in Retriable :
                \E q \in Requests : At(q, "retry", "resend") /\ (d \in listed[q] \/ Sends(q, d))}
      BY <1>0, <1>1 DEF ListRetries, At, Go
    <2>2. \A d \in Retriable : /\ d \in Delivery /\ deliveries[d].status = "pending"
                               /\ deliveries[d].retry = TRUE
      BY DEF Retriable, HookTables, HookRow
    <2>3. sending[r].at = "idle" /\ \A d : ~Carries(r, d)
      BY <1>0, <2>1 DEF Sending, Carries, Sends, At
    <2>4. /\ \A t \in Tasks : \A d : Sends(t, d)' <=> Sends(t, d)
          /\ \A t \in Tasks \ {r} : \A d : Carries(t, d)' <=> Carries(t, d)
          /\ \A d : Carries(r, d)' <=> d \in Retriable
      <3>1. \A t \in Tasks : \A d : Sends(t, d)' <=> Sends(t, d)
        BY <2>1 DEF Sends
      <3>2. \A t \in Requests \ {r} : At(t, "retry", "resend")' <=> At(t, "retry", "resend")
        BY <1>0 DEF At
      <3>3. At(r, "retry", "resend")'
        BY <1>0, <2>1 DEF At
      <3>4. \A d : ~Sends(r, d)
        BY <2>3 DEF Carries
      <3> QED
        BY <1>0, <2>1, <3>1, <3>2, <3>3, <3>4 DEF Carries
    \* The first task and a retry do not meet; two retries know of each other.
    <2>5. \A d \in Retriable : ~Sends(d, d)
      BY <2>2 DEF FirstSent, Pristine
    <2>6. ASSUME NEW d \in Retriable, d \notin crossed', NEW t \in Tasks, Carries(t, d) PROVE FALSE
      <3>1. t \notin Requests
        BY <2>1, <2>6 DEF Carries, Sending, Sends
      <3>2. t \in Delivery /\ Sends(t, d)
        BY <2>6, <3>1 DEF Tasks, Carries
      <3>3. t = d
        BY <3>2, <2>6 DEF Sending, Sends
      <3> QED
        BY <2>5, <3>2, <3>3
    <2>7. HookTables'
      BY <1>0, <2>1 DEF HookTables
    <2>8. Sending'
      <3>1. \A q \in Requests : sending[q].at # "idle" =>
               At(q, "retry", "resend")' /\ listed'[q] = listed[q]
        BY <1>0, <2>3 DEF Sending, At
      <3> QED
        BY <1>0, <2>1, <3>1 DEF Sending
    <2>9. Queueing'
      <3>1. Retriable \subseteq Delivery
        BY DEF Retriable
      <3>2. ASSUME NEW d \in Delivery, d[1] = r, deliveries[d].status # "none" PROVE FALSE
        BY <1>0, <3>2 DEF Queueing
      <3> QED
        BY <1>0, <2>1, <3>1, <3>2 DEF Queueing, At
    <2>10. FirstSent'
      <3> SUFFICES ASSUME NEW d \in Delivery
                   PROVE  /\ \A t \in Tasks : Carries(t, d)' => deliveries[d].status # "none"
                          /\ d \in crossed' \cup confirmed => deliveries[d].status # "none"
                          /\ Sends(d, d)' => /\ deliveries[d] \in Pristine /\ d \notin crossed'
                                             /\ \A t \in Tasks : Carries(t, d)' => t = d
        BY <1>0 DEF FirstSent
      <3>1. \A t \in Tasks : Carries(t, d)' => Carries(t, d) \/ (t = r /\ d \in Retriable)
        BY <2>4
      <3>2. d \in crossed' => d \in crossed \/ d \in Retriable
        BY <2>1
      <3> QED
        BY <1>0, <2>2, <2>4, <2>5, <3>1, <3>2 DEF FirstSent
    <2>11. Uncrossed'
      <3> SUFFICES ASSUME NEW d \in Delivery, d \notin crossed'
                   PROVE  /\ \A t, u \in Tasks : Carries(t, d)' /\ Carries(u, d)' => t = u
                          /\ \A t \in Tasks : Carries(t, d)' => deliveries[d].status = "pending"
                          /\ \A t \in Tasks : Sends(t, d)' /\ sending'[t].at = "update" =>
                                sending'[t].attempts = deliveries[d].attempts + 1
                          /\ deliveries[d].status = "pending" => deliveries[d].attempts < MaxAttempts
        BY <1>0 DEF Uncrossed
      <3>1. d \notin crossed
        BY <2>1
      <3>2. \A t, u \in Tasks : Carries(t, d)' /\ Carries(u, d)' => t = u
        <4>1. CASE d \in Retriable
          <5>1. \A t \in Tasks : Carries(t, d)' => t = r
            BY <2>4, <2>6, <4>1
          <5> QED
            BY <5>1
        <4>2. CASE d \notin Retriable
          <5>1. \A t \in Tasks : Carries(t, d)' => Carries(t, d)
            BY <2>4, <4>2
          <5> QED
            BY <3>1, <5>1 DEF Uncrossed
        <4> QED
          BY <4>1, <4>2
      <3>3. \A t \in Tasks : Carries(t, d)' => deliveries[d].status = "pending"
        BY <2>2, <2>4, <3>1 DEF Uncrossed
      <3> QED
        BY <2>1, <2>4, <3>1, <3>2, <3>3 DEF Uncrossed
    <2>12. Accounting'
      BY <1>0, <2>1, <2>4 DEF Accounting
    <2> QED
      BY <2>7, <2>8, <2>9, <2>10, <2>11, <2>12
  <1>2. CASE NextRetry(r)
    <2>1. /\ At(r, "retry", "resend") /\ sending[r].at = "idle" /\ crossed' = crossed
          /\ \/ pc'[r] = "done" /\ listed[r] = {} /\ UNCHANGED <<listed, sending>>
             \/ /\ pc' = pc
                /\ \E d \in listed[r] :
                      /\ sending'[r] \in [by : {d}, at : {"post"}, ok : {FALSE}, attempts : {0}]
                      /\ \A t \in Tasks \ {r} : sending'[t] = sending[t]
                      /\ sending' = [t \in Tasks |-> sending'[t]]
                      /\ listed'[r] = listed[r] \ {d}
      <3>1. \A d : [Idle EXCEPT !.by = d, !.at = "post"] \in [by : {d}, at : {"post"}, ok : {FALSE}, attempts : {0}]
        BY DEF Idle
      <3>4. At(r, "retry", "resend") /\ sending[r].at = "idle" /\ crossed' = crossed
        BY <1>2 DEF NextRetry
      <3>2. CASE listed[r] = {} /\ Go(r, "done") /\ UNCHANGED <<listed, sending>>
        BY <1>2, <3>2 DEF NextRetry, At, Go
      <3>3. CASE \E d \in listed[r] :
                     /\ sending' = [sending EXCEPT ![r] = [Idle EXCEPT !.by = d, !.at = "post"]]
                     /\ listed' = [listed EXCEPT ![r] = @ \ {d}]
                     /\ UNCHANGED pc
        <4>1. PICK d \in listed[r] : /\ sending' = [sending EXCEPT ![r] = [Idle EXCEPT !.by = d, !.at = "post"]]
                                     /\ listed' = [listed EXCEPT ![r] = @ \ {d}]
                                     /\ UNCHANGED pc
          BY <3>3
        <4>2. /\ sending'[r] = [Idle EXCEPT !.by = d, !.at = "post"]
              /\ \A t \in Tasks \ {r} : sending'[t] = sending[t]
              /\ sending' = [t \in Tasks |-> sending'[t]]
              /\ listed'[r] = listed[r] \ {d}
          BY <1>0, <4>1
        <4>3. sending'[r] \in [by : {d}, at : {"post"}, ok : {FALSE}, attempts : {0}]
          BY <3>1, <4>2
        <4>4. pc' = pc
          BY <4>1
        <4>5. \E e \in listed[r] :
                 /\ sending'[r] \in [by : {e}, at : {"post"}, ok : {FALSE}, attempts : {0}]
                 /\ \A t \in Tasks \ {r} : sending'[t] = sending[t]
                 /\ sending' = [t \in Tasks |-> sending'[t]]
                 /\ listed'[r] = listed[r] \ {e}
          BY <4>2, <4>3
        <4> QED
          BY <3>4, <4>4, <4>5
      <3> QED
        BY <1>2, <3>2, <3>3 DEF NextRetry
    <2>2. /\ \A t \in Tasks \ {r} : sending'[t] = sending[t]
          /\ sending' = [t \in Tasks |-> sending'[t]]
          /\ sending'[r].at # "idle" => /\ sending'[r].at = "post" /\ sending'[r].by \in listed[r]
                                        /\ listed'[r] = listed[r] \ {sending'[r].by} /\ pc' = pc
                                        /\ sending'[r].ok = FALSE
          /\ listed'[r] \subseteq listed[r]
          /\ sending'[r].at = "idle" => sending' = sending
      <3>1. CASE pc'[r] = "done" /\ UNCHANGED <<listed, sending>>
        BY <1>0, <2>1, <3>1
      <3>2. CASE ~(pc'[r] = "done" /\ UNCHANGED <<listed, sending>>)
        <4>1. PICK d \in listed[r] : /\ sending'[r] \in [by : {d}, at : {"post"}, ok : {FALSE}, attempts : {0}]
                                     /\ \A t \in Tasks \ {r} : sending'[t] = sending[t]
                                     /\ sending' = [t \in Tasks |-> sending'[t]]
                                     /\ listed'[r] = listed[r] \ {d} /\ pc' = pc
          BY <2>1, <3>2
        <4>2. sending'[r].by = d /\ sending'[r].at = "post" /\ sending'[r].ok = FALSE
          BY <4>1
        <4> QED
          BY <4>1, <4>2
      <3> QED
        BY <3>1, <3>2
    <2>3. sending'[r] \in [by : Delivery \cup {NoDelivery}, ok : BOOLEAN, attempts : Nat,
                          at : {"idle", "post", "count", "update"}]
      <3>1. CASE UNCHANGED <<listed, sending>>
        BY <1>0, <3>1 DEF HookTables
      <3>2. ASSUME NEW d \in listed[r],
                   sending'[r] \in [by : {d}, at : {"post"}, ok : {FALSE}, attempts : {0}]
            PROVE  sending'[r] \in [by : Delivery \cup {NoDelivery}, ok : BOOLEAN, attempts : Nat,
                                    at : {"idle", "post", "count", "update"}]
        <4>1. d \in Delivery
          BY <2>1 DEF Queueing
        <4> DEFINE x == sending'[r]
        <4>2. x = [by |-> d, at |-> "post", ok |-> FALSE, attempts |-> 0]
          BY <3>2
        <4> HIDE DEF x
        <4>3. x \in [by : Delivery \cup {NoDelivery}, ok : BOOLEAN, attempts : Nat,
                     at : {"idle", "post", "count", "update"}]
          BY <4>1, <4>2
        <4> QED
          BY <4>3 DEF x
      <3> QED
        BY <2>1, <3>1, <3>2
    <2>4. \A q \in Requests \ {r} : At(q, "retry", "resend")' <=> At(q, "retry", "resend")
      BY <1>0 DEF At
    <2>5. /\ \A t \in Tasks \ {r} : \A d : /\ Sends(t, d)' <=> Sends(t, d)
                                           /\ Carries(t, d)' <=> Carries(t, d)
          /\ \A d : Carries(r, d)' => Carries(r, d)
          /\ \A d : Sends(r, d)' => sending'[r].at = "post"
      BY <1>0, <2>1, <2>2, <2>4 DEF Sends, Carries
    <2>6. HookTables'
      BY <1>0, <2>2, <2>3 DEF HookTables
    <2>7. Sending'
      <3>1. sending'[r].at # "idle" => /\ sending'[r].by \in Delivery /\ At(r, "retry", "resend")'
                                       /\ sending'[r].by \notin listed'[r]
        BY <1>0, <2>1, <2>2 DEF Queueing, At
      <3> QED
        BY <1>0, <2>2, <2>4, <3>1 DEF Sending
    <2>8. Queueing'
      <3>1. Op(r) = "retry" /\ pc[r] = "resend" /\ pc'[r] \in {"resend", "done"}
        BY <2>1 DEF At
      <3>2. ASSUME NEW d \in Delivery, d[1] = r, deliveries[d].status # "none" PROVE FALSE
        BY <1>0, <3>2 DEF Queueing
      <3> QED
        BY <1>0, <2>2, <3>1, <3>2 DEF Queueing, At, Terminal
    <2>9. \A d \in Delivery : Sends(d, d)' <=> Sends(d, d)
      BY <1>0, <2>5
    <2>10. \A t \in Tasks : \A d : Carries(t, d)' => Carries(t, d)
      BY <2>5
    <2>11. FirstSent'
      BY <1>0, <2>1, <2>9, <2>10 DEF FirstSent
    <2>12. Uncrossed'
      <3> SUFFICES ASSUME NEW d \in Delivery \ crossed
                   PROVE  /\ \A t, u \in Tasks : Carries(t, d)' /\ Carries(u, d)' => t = u
                          /\ \A t \in Tasks : Carries(t, d)' => deliveries[d].status = "pending"
                          /\ \A t \in Tasks : Sends(t, d)' /\ sending'[t].at = "update" =>
                                sending'[t].attempts = deliveries[d].attempts + 1
                          /\ deliveries[d].status = "pending" => deliveries[d].attempts < MaxAttempts
        BY <1>0, <2>1 DEF Uncrossed
      <3>1. \A t \in Tasks : Sends(t, d)' /\ sending'[t].at = "update" => Sends(t, d) /\ sending'[t] = sending[t]
        BY <2>2, <2>5
      <3> QED
        BY <2>10, <3>1 DEF Uncrossed
    <2>13. Accounting'
      BY <1>0, <2>1, <2>9 DEF Accounting
    <2> QED
      BY <2>6, <2>7, <2>8, <2>11, <2>12, <2>13
  <1> QED
    BY <1>1, <1>2

\* What is sent, counted and written is the carrier's own.
LEMMA SendMoves ==
    ASSUME HookInv, job' = job, NEW t \in Tasks, UNCHANGED pc, SendStep(t)
    PROVE  HookInv'
  <1> USE DEF HookInv
  <1> DEFINE d == sending[t].by
             Task == [by : Delivery \cup {NoDelivery}, ok : BOOLEAN, attempts : Nat,
                      at : {"idle", "post", "count", "update"}]
  <1>0. /\ \A q : Op(q)' = Op(q)
        /\ UNCHANGED <<hooks, listed, crossed, stranded>>
        /\ listed = [q \in Requests |-> listed[q]]
        /\ sending = [u \in Tasks |-> sending[u]] /\ deliveries = [e \in Delivery |-> deliveries[e]]
        /\ Requests \subseteq Tasks /\ Delivery \subseteq Tasks
        /\ sending[t] \in Task
        /\ \A q \in Requests : At(q, "retry", "resend")' <=> At(q, "retry", "resend")
    BY DEF Op, At, HookTables, SendStep, PostDelivery, CountAttempt, UpdateDelivery, Tasks, busVars
  <1>1. /\ sending[t].at # "idle" /\ d \in Delivery
        /\ Sends(t, d) /\ Carries(t, d)
        /\ t \in Delivery => d = t
        /\ t \in Requests => At(t, "retry", "resend") /\ d \notin listed[t]
        /\ sending[t].ok => d \in received
    <2>1. sending[t].at # "idle"
      BY DEF SendStep, PostDelivery, CountAttempt, UpdateDelivery
    <2> QED
      BY <2>1 DEF Sending, Sends, Carries
  <1>2. deliveries[d].status # "none" /\ deliveries[d] \in HookRow
    BY <1>1 DEF FirstSent, HookTables
  <1>3. CASE PostDelivery(t) \/ CountAttempt(t)
    <2>1. /\ UNCHANGED <<deliveries, confirmed>> /\ received \subseteq received'
          /\ \A u \in Tasks \ {t} : sending'[u] = sending[u]
          /\ sending' = [u \in Tasks |-> sending'[u]]
          /\ sending'[t] \in Task /\ sending'[t].by = d
          /\ sending'[t].at \in {"count", "update"}
          /\ sending'[t].ok => d \in received'
          /\ sending'[t].at = "update" => sending'[t].attempts = deliveries[d].attempts + 1
      <3> DEFINE x == sending[t]
      <3>0. x \in Task /\ x.by = d
        BY <1>0
      <3>1. CASE PostDelivery(t)
        <4>1. PICK arrives \in BOOLEAN, ok \in BOOLEAN :
                 /\ ok => arrives
                 /\ received' = IF arrives THEN received \cup {d} ELSE received
                 /\ sending' = [sending EXCEPT ![t].at = "count", ![t].ok = ok]
          BY <3>1 DEF PostDelivery
        <4>2. /\ UNCHANGED <<deliveries, confirmed>> /\ received \subseteq received'
              /\ \A u \in Tasks \ {t} : sending'[u] = sending[u]
              /\ sending' = [u \in Tasks |-> sending'[u]]
              /\ sending'[t] = [x EXCEPT !.at = "count", !.ok = ok]
          BY <1>0, <3>1, <4>1 DEF PostDelivery
        <4> HIDE DEF x, d
        <4>3. /\ [x EXCEPT !.at = "count", !.ok = ok] \in Task
              /\ [x EXCEPT !.at = "count", !.ok = ok].by = d
              /\ [x EXCEPT !.at = "count", !.ok = ok].at = "count"
              /\ [x EXCEPT !.at = "count", !.ok = ok].ok = ok
          BY <3>0
        <4>4. ok => d \in received'
          BY <4>1
        <4> QED
          BY <4>2, <4>3, <4>4
      <3>2. CASE CountAttempt(t)
        <4> DEFINE n == deliveries[d].attempts + 1
        <4>0. n \in Nat
          BY <1>2 DEF HookRow
        <4>1. /\ UNCHANGED <<deliveries, confirmed, received>>
              /\ \A u \in Tasks \ {t} : sending'[u] = sending[u]
              /\ sending' = [u \in Tasks |-> sending'[u]]
              /\ sending'[t] = [x EXCEPT !.at = "update", !.attempts = n]
          BY <1>0, <3>2 DEF CountAttempt
        <4>2. x.ok => d \in received'
          BY <1>1, <4>1
        <4> HIDE DEF x, d, n
        <4>3. /\ [x EXCEPT !.at = "update", !.attempts = n] \in Task
              /\ [x EXCEPT !.at = "update", !.attempts = n].by = d
              /\ [x EXCEPT !.at = "update", !.attempts = n].at = "update"
              /\ [x EXCEPT !.at = "update", !.attempts = n].ok = x.ok
              /\ [x EXCEPT !.at = "update", !.attempts = n].attempts = n
          BY <3>0, <4>0
        <4> QED
          BY <4>1, <4>2, <4>3 DEF n
      <3> QED
        BY <1>3, <3>1, <3>2
    <2>2. \A u \in Tasks : \A e : /\ Sends(u, e)' <=> Sends(u, e)
                                  /\ Carries(u, e)' <=> Carries(u, e)
      <3>1. \A u \in Tasks : \A e : Sends(u, e)' <=> Sends(u, e)
        BY <1>1, <2>1 DEF Sends
      <3> QED
        BY <1>0, <3>1 DEF Carries
    <2>3. HookTables'
      BY <1>0, <2>1 DEF HookTables
    <2>4. Sending'
      BY <1>0, <1>1, <2>1 DEF Sending
    <2>5. Queueing'
      BY <1>0, <2>1 DEF Queueing, At
    <2>6. FirstSent'
      BY <1>0, <2>1, <2>2 DEF FirstSent
    <2>7. Uncrossed'
      <3> SUFFICES ASSUME NEW e \in Delivery \ crossed
                   PROVE  /\ \A u, v \in Tasks : Carries(u, e)' /\ Carries(v, e)' => u = v
                          /\ \A u \in Tasks : Carries(u, e)' => deliveries[e].status = "pending"
                          /\ \A u \in Tasks : Sends(u, e)' /\ sending'[u].at = "update" =>
                                sending'[u].attempts = deliveries[e].attempts + 1
                          /\ deliveries[e].status = "pending" => deliveries[e].attempts < MaxAttempts
        BY <1>0, <2>1 DEF Uncrossed
      <3>1. ASSUME NEW u \in Tasks, Sends(u, e)', sending'[u].at = "update"
            PROVE  sending'[u].attempts = deliveries[e].attempts + 1
        <4>1. Sends(u, e)
          BY <2>2, <3>1
        <4>2. CASE u = t
          BY <2>1, <3>1, <4>1, <4>2 DEF Sends
        <4>3. CASE u # t
          BY <2>1, <3>1, <4>1, <4>3 DEF Uncrossed
        <4> QED
          BY <4>2, <4>3
      <3> QED
        BY <2>2, <3>1 DEF Uncrossed
    <2>8. Accounting'
      BY <1>0, <2>1, <2>2 DEF Accounting
    <2> QED
      BY <2>3, <2>4, <2>5, <2>6, <2>7, <2>8
  <1>4. CASE UpdateDelivery(t)
    <2> DEFINE n == sending[t].attempts
    <2>1. /\ sending[t].at = "update" /\ received' = received
          /\ confirmed' = IF sending[t].ok THEN confirmed \cup {d} ELSE confirmed
          /\ \A u \in Tasks \ {t} : sending'[u] = sending[u]
          /\ sending' = [u \in Tasks |-> sending'[u]] /\ sending'[t] = Idle
      BY <1>0, <1>4 DEF UpdateDelivery
    <2>2. /\ deliveries' = [e \in Delivery |-> deliveries'[e]]
          /\ \A e \in Delivery \ {d} : deliveries'[e] = deliveries[e]
          /\ deliveries'[d] \in HookRow /\ deliveries'[d].attempts = n
          /\ deliveries'[d].status \in {"delivered", "failed", "pending"}
          /\ deliveries'[d].status = "delivered" <=> sending[t].ok
          /\ deliveries'[d].status = "failed" => n >= MaxAttempts
          /\ deliveries'[d].status = "pending" => ~(n >= MaxAttempts) /\ deliveries'[d].retry
      <3> DEFINE status == CASE sending[t].ok -> "delivered"
                             [] ~sending[t].ok /\ n >= MaxAttempts -> "failed"
                             [] OTHER -> "pending"
                 row == [status |-> status, attempts |-> n, retry |-> status = "pending"]
      <3>1. deliveries' = [deliveries EXCEPT ![d] = row]
        BY <1>4 DEF UpdateDelivery
      <3>2. n \in Nat /\ sending[t].ok \in BOOLEAN
        BY <1>0
      <3>3. /\ status \in {"delivered", "failed", "pending"}
            /\ status = "delivered" <=> sending[t].ok
            /\ status = "failed" => n >= MaxAttempts
            /\ status = "pending" => ~(n >= MaxAttempts)
        BY <3>2
      <3> HIDE DEF status, n
      <3>4. /\ row \in HookRow /\ row.attempts = n /\ row.status = status
            /\ status = "pending" => row.retry
        BY <3>2, <3>3 DEF HookRow
      <3> HIDE DEF row
      <3>5. /\ deliveries' = [e \in Delivery |-> deliveries'[e]]
            /\ \A e \in Delivery \ {d} : deliveries'[e] = deliveries[e]
            /\ deliveries'[d] = row
        BY <1>0, <1>1, <3>1
      <3> QED
        BY <3>3, <3>4, <3>5
    <2>3. Idle.at = "idle" /\ Idle \in Task
      BY DEF Idle
    <2>4. /\ \A u \in Tasks \ {t} : \A e : /\ Sends(u, e)' <=> Sends(u, e)
                                           /\ Carries(u, e)' <=> Carries(u, e)
          /\ \A e : ~Sends(t, e)'
          /\ \A e : Carries(t, e)' => Carries(t, e) /\ e # d
      <3>1. \A u \in Tasks \ {t} : \A e : Sends(u, e)' <=> Sends(u, e)
        BY <2>1 DEF Sends
      <3>2. \A e : ~Sends(t, e)'
        BY <2>1, <2>3 DEF Sends
      <3> QED
        BY <1>0, <1>1, <3>1, <3>2 DEF Carries
    \* Only the carrier has what is not crossed.
    <2>5. ASSUME d \notin crossed
          PROVE  /\ \A u \in Tasks : \A e : e = d => ~Carries(u, e)'
                 /\ deliveries[d].status = "pending" /\ n = deliveries[d].attempts + 1
                 /\ n <= MaxAttempts
      <3>1. \A u \in Tasks : Carries(u, d) => u = t
        BY <1>1, <2>5 DEF Uncrossed
      <3>2. \A u \in Tasks : \A e : e = d => ~Carries(u, e)'
        BY <2>4, <3>1
      <3>3. deliveries[d].status = "pending" /\ n = deliveries[d].attempts + 1
            /\ deliveries[d].attempts < MaxAttempts
        BY <1>1, <2>1, <2>5 DEF Uncrossed
      <3>4. deliveries[d].attempts \in Nat /\ MaxAttempts \in Nat
        BY <1>2, EventConstants DEF HookRow
      <3> QED
        BY <3>2, <3>3, <3>4
    <2>6. ASSUME NEW e \in Delivery, e = d PROVE ~Sends(e, e)'
      <3>1. CASE t = e
        BY <2>4, <3>1
      <3>2. CASE t # e
        <4>1. ~Sends(e, e)
          BY <1>1, <2>6, <3>2 DEF FirstSent
        <4> QED
          BY <1>0, <2>4, <3>2, <4>1
      <3> QED
        BY <3>1, <3>2
    <2>7. HookTables'
      <3>1. \A u \in Tasks : sending'[u] \in Task
        BY <2>1, <2>3 DEF HookTables
      <3>2. \A e \in Delivery : deliveries'[e] \in HookRow
        BY <2>2 DEF HookTables
      <3> QED
        BY <1>0, <2>1, <2>2, <3>1, <3>2 DEF HookTables
    <2>8. Sending'
      BY <1>0, <2>1, <2>3 DEF Sending
    <2>9. Queueing'
      <3>1. \A e \in Delivery : deliveries'[e].status # "none" => deliveries[e].status # "none"
        BY <1>2, <2>2
      <3> QED
        BY <1>0, <3>1 DEF Queueing, At
    <2>10. FirstSent'
      <3> SUFFICES ASSUME NEW e \in Delivery
                   PROVE  /\ \A u \in Tasks : Carries(u, e)' => deliveries'[e].status # "none"
                          /\ e \in crossed \cup confirmed' => deliveries'[e].status # "none"
                          /\ Sends(e, e)' => /\ deliveries'[e] \in Pristine /\ e \notin crossed
                                             /\ \A u \in Tasks : Carries(u, e)' => u = e
        BY <1>0 DEF FirstSent
      <3>1. CASE e = d
        BY <2>2, <2>6, <3>1
      <3>2. CASE e # d
        <4>1. e \in confirmed' => e \in confirmed
          BY <2>1, <3>2
        <4>2. \A u \in Tasks : Carries(u, e)' => Carries(u, e)
          BY <2>4
        <4>3. Sends(e, e)' => Sends(e, e)
          BY <1>0, <2>4
        <4> QED
          BY <2>2, <3>2, <4>1, <4>2, <4>3 DEF FirstSent
      <3> QED
        BY <3>1, <3>2
    <2>11. Uncrossed'
      <3> SUFFICES ASSUME NEW e \in Delivery \ crossed
                   PROVE  /\ \A u, v \in Tasks : Carries(u, e)' /\ Carries(v, e)' => u = v
                          /\ \A u \in Tasks : Carries(u, e)' => deliveries'[e].status = "pending"
                          /\ \A u \in Tasks : Sends(u, e)' /\ sending'[u].at = "update" =>
                                sending'[u].attempts = deliveries'[e].attempts + 1
                          /\ deliveries'[e].status = "pending" => deliveries'[e].attempts < MaxAttempts
        BY <1>0 DEF Uncrossed
      <3>1. CASE e = d
        <4>1. \A u \in Tasks : ~Carries(u, e)' /\ ~Sends(u, e)'
          BY <2>5, <3>1 DEF Carries
        <4>2. n \in Nat /\ MaxAttempts \in Nat
          BY <1>0, EventConstants
        <4>3. deliveries'[e].status = "pending" => deliveries'[e].attempts < MaxAttempts
          BY <2>2, <3>1, <4>2
        <4> QED
          BY <4>1, <4>3
      <3>2. CASE e # d
        <4>1. \A u \in Tasks : Carries(u, e)' => Carries(u, e)
          BY <2>4
        <4>2. \A u \in Tasks : Sends(u, e)' => Sends(u, e) /\ sending'[u] = sending[u]
          BY <2>1, <2>4
        <4> QED
          BY <2>2, <3>2, <4>1, <4>2 DEF Uncrossed
      <3> QED
        BY <3>1, <3>2
    <2>12. Accounting'
      <3> SUFFICES ASSUME NEW e \in Delivery
                   PROVE  /\ deliveries'[e].status = "delivered" => e \in received
                          /\ e \in confirmed' => deliveries'[e].status = "delivered" \/ e \in crossed
                          /\ deliveries'[e].status = "failed" => deliveries'[e].attempts = MaxAttempts \/ e \in crossed
                          /\ deliveries'[e].attempts <= MaxAttempts \/ e \in crossed
                          /\ deliveries'[e].status = "pending" => deliveries'[e] \in Pristine \/ deliveries'[e].retry
                          /\ deliveries'[e].status = "pending" =>
                                deliveries'[e].retry \/ Sends(e, e)' \/ e \in stranded
        BY <1>0, <2>1 DEF Accounting
      <3>1. CASE e = d
        <4>1. e \in confirmed' => deliveries'[e].status = "delivered" \/ e \in crossed
          BY <1>1, <2>1, <2>2, <2>5, <3>1 DEF Accounting
        <4>2. n \in Nat /\ MaxAttempts \in Nat
          BY <1>0, EventConstants
        <4>3. e \in crossed \/ n <= MaxAttempts
          BY <2>5, <3>1
        <4>4. deliveries'[e].status = "failed" => n = MaxAttempts \/ e \in crossed
          BY <2>2, <3>1, <4>2, <4>3
        <4> QED
          BY <1>1, <2>2, <3>1, <4>1, <4>3, <4>4
      <3>2. CASE e # d
        <4>1. e \in confirmed' => e \in confirmed
          BY <2>1, <3>2
        <4>2. Sends(e, e) => Sends(e, e)'
          BY <1>0, <1>1, <2>4, <3>2
        <4> QED
          BY <2>2, <3>2, <4>1, <4>2 DEF Accounting
      <3> QED
        BY <3>1, <3>2
    <2> QED
      BY <2>7, <2>8, <2>9, <2>10, <2>11, <2>12
  <1> QED
    BY <1>3, <1>4 DEF SendStep

LEMMA HookKept == Frame /\ HookInv /\ [Next]_vars => HookInv'
  <1> SUFFICES ASSUME Frame, HookInv, [Next]_vars PROVE HookInv'
    OBVIOUS
  <1>0. job' = job /\ pc = [q \in Requests |-> pc[q]]
    BY Moves DEF Frame, Placed
  <1>1. /\ UNCHANGED hookVars => UNCHANGED <<hooks, deliveries, sending, received, confirmed, crossed, stranded>>
        /\ UNCHANGED busVars => listed' = listed
    BY DEF hookVars, busVars
  <1>2. /\ listed = [r \in Requests |-> listed[r]] /\ sending = [t \in Tasks |-> sending[t]]
        /\ Requests \subseteq Tasks /\ Delivery \subseteq Tasks
        /\ \A r \in Requests : r \notin Delivery
    BY EventConstants DEF HookInv, HookTables, Tasks, Delivery
  <1>3. ASSUME NEW r \in Requests, EventStep(r), Only(r)
        PROVE  HookInv'
    <2>1. CASE DeliverEvent(r) \/ QueueDelivery(r)
      BY <1>0, <1>3, <2>1, QueueMoves
    <2>2. CASE ListRetries(r) \/ NextRetry(r)
      BY <1>0, <1>3, <2>2, RetryMoves
    <2>3. CASE PublishEvent(r) \/ PublishDrop(r) \/ ListServices(r) \/ SuspendService(r)
               \/ FindName(r) \/ InsertService(r) \/ DeactivateService(r) \/ DeleteWebhook(r)
      <3>1. /\ UNCHANGED <<deliveries, sending, received, confirmed, crossed, stranded>>
            /\ hooks' \subseteq hooks /\ Op(r) \notin {"deliver", "retry"}
            /\ listed' = [q \in Requests |-> listed'[q]]
            /\ \A q \in Requests \ {r} : listed'[q] = listed[q]
        BY <1>1, <1>2, <2>3 DEF PublishEvent, PublishDrop, ListServices, SuspendService, FindName,
           InsertService, DeactivateService, DeleteWebhook, At
      <3>2. \A q \in Requests : Op(q) \in {"deliver", "retry"} => listed'[q] = listed[q] /\ pc'[q] = pc[q]
        BY <1>3, <3>1 DEF Only
      <3> QED
        BY <1>0, <1>2, <3>1, <3>2, HookRests
    <2> QED
      BY <1>3, <2>1, <2>2, <2>3 DEF EventStep
  <1>4. ASSUME NEW r \in Requests, EventTimeOut(r), Cut(r) PROVE HookInv'
    <2>1. /\ UNCHANGED <<hooks, deliveries, received, confirmed, crossed, stranded, listed>>
          /\ sending' = [t \in Tasks |-> sending'[t]] /\ sending'[r] = Idle
          /\ \A t \in Tasks \ {r} : sending'[t] = sending[t]
      BY <1>1, <1>2, <1>4 DEF EventTimeOut
    <2>2. Idle.at = "idle"
      BY DEF Idle
    <2>3. /\ \A q \in Requests \ {r} : pc'[q] = pc[q]
          /\ pc[r] \notin Terminal \cup {"new"} /\ pc'[r] \in {"504", "lost"}
      BY <1>4 DEF Cut, Frame, Placed, Running
    <2> QED
      BY <1>0, <1>2, <2>1, <2>2, <2>3, HookRests
  <1>5. ASSUME NEW r \in Requests, UNCHANGED eventVars, Barred(r) PROVE HookInv'
    <2>1. UNCHANGED <<hooks, deliveries, sending, received, confirmed, crossed, stranded, listed>>
      BY <1>1, <1>5 DEF eventVars
    <2>2. (\A q \in Requests \ {r} : pc'[q] = pc[q]) /\ pc[r] = "new" /\ pc'[r] = "429"
      BY <1>5 DEF Barred, Frame, Placed
    <2>3. Op(r) = "retry" => sending'[r].at = "idle"
      BY <1>2, <2>1, <2>2 DEF HookInv, Sending, At
    <2> QED
      BY <1>0, <1>2, <2>1, <2>2, <2>3, HookRests
  <1>6. ASSUME NEW t \in Tasks, SendStep(t), UNCHANGED <<pc, cut>> PROVE HookInv'
    BY <1>0, <1>6, SendMoves
  <1>7. CASE EventCrash /\ Fallen
    <2>1. /\ UNCHANGED <<hooks, deliveries, received, confirmed, crossed, listed>>
          /\ sending' = [t \in Tasks |-> Idle] /\ stranded \subseteq stranded'
          /\ \A d \in Delivery : deliveries[d] = [NoRow EXCEPT !.status = "pending"] => d \in stranded'
      BY <1>1, <1>7 DEF EventCrash
    <2>2. \A d \in Delivery : deliveries[d] \in Pristine => d \in stranded'
      <3>1. \A x \in Pristine : x = [NoRow EXCEPT !.status = "pending"]
        <4>1. [NoRow EXCEPT !.status = "pending"] \in Pristine
          BY DEF NoRow, Pristine
        <4>2. ASSUME NEW x \in Pristine
              PROVE  x = [status |-> "pending", attempts |-> 0, retry |-> FALSE]
          BY DEF Pristine
        <4> HIDE DEF Pristine
        <4> QED
          BY <4>1, <4>2
      <3> QED
        BY <2>1, <3>1
    <2>3. Idle.at = "idle" /\ \A t \in Tasks : sending'[t] = Idle
      BY <2>1 DEF Idle
    <2>4. \A q \in Requests : \/ pc'[q] = pc[q]
                              \/ pc[q] \notin Terminal \cup {"new"} /\ pc'[q] \in {"504", "lost"}
      BY <1>7 DEF Fallen, Running
    <2>5. sending' = [t \in Tasks |-> sending'[t]]
      BY <2>1, <2>3
    <2> QED
      BY <1>0, <1>2, <2>1, <2>2, <2>3, <2>4, <2>5, HookRests
  <1>8. CASE UNCHANGED eventVars /\ Unmoved(EventOps)
    <2>1. UNCHANGED <<hooks, deliveries, sending, received, confirmed, crossed, stranded, listed>>
      BY <1>1, <1>8 DEF eventVars
    <2>2. \A q \in Requests : Op(q) \in {"deliver", "retry"} => pc'[q] = pc[q]
      BY <1>8 DEF Unmoved, EventOps
    <2> QED
      BY <1>0, <1>2, <2>1, <2>2, HookRests
  <1> QED
    BY <1>3, <1>4, <1>5, <1>6, <1>7, <1>8, EventTurns

\* What follows an event is done, or left undone for a reason: a drop suspends
\* every service there was, two active services of a name overlapped, and a
\* delivery is delivered, sent, found by the next retry, or given up on.
THEOREM ReactionsAlwaysCarriedOut == Spec => []ReactionsCarriedOut
  <1> DEFINE Inv == Frame /\ BusInv /\ HookInv
  <1>1. Init => Inv
    BY FrameInit, BusStart, HookStart
  <1>2. Inv /\ [Next]_vars => Inv'
    BY FrameStep, BusKept, HookKept
  <1>3. Inv => ReactionsCarriedOut
    <2>1. HookInv => DeliveriesAccounted
      BY DEF HookInv, Accounting, DeliveriesAccounted
    <2> QED
      BY <2>1, BusMeans DEF ReactionsCarriedOut
  <1> QED
    BY <1>1, <1>2, <1>3, PTL DEF Spec

\* All of the above: what is asked for is accounted for.
THEOREM WorkAlwaysAccounted == Spec => []WorkAccounted
  BY JobsAlwaysAccounted, AgreementsAlwaysHold, ReactionsAlwaysCarriedOut, ScoresAlwaysHaveServers, PTL
     DEF WorkAccounted
=============================================================================
