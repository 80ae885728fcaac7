---------------------------- MODULE Negotiations ----------------------------
(***************************************************************************)
(* Price negotiations (products/messaging/src/api.py): two agents counter, *)
(* accept or reject an amount.  Each answer reads the row, then updates it *)
(* and then tells the other agent.  A storage write with its commit is one *)
(* step.  The gateway exposes negotiate_price only; nothing looks at the   *)
(* date at which a negotiation expires.                                    *)
(***************************************************************************)
EXTENDS Coroutines

CONSTANTS Negotiations, FirstNegotiation,  \* the one that is there at the start
          Parties

\* The id of a negotiation is made up when it is proposed.
ASSUME NegotiationConstants ==
    /\ FirstNegotiation \in Negotiations
    /\ \A w \in Workloads : \A r \in Requests : w[r].op = "negotiate" =>
          /\ w[r].talk \in Negotiations \ {FirstNegotiation}
          /\ \A q \in Requests \ {r} : w[q].op = "negotiate" => w[q].talk # w[r].talk

VARIABLES talks,        \* table negotiations
          offered,      \* the row as each answer read it
          told,         \* table messages
          answeredAtOnce \* history: negotiations two answers read together

talkVars == <<talks, offered, told, answeredAtOnce>>

NoTalk == [status |-> "none", price |-> 0]
Open == {"proposed", "countered"}
Closed == {"accepted", "rejected"}
OutcomeOf == [counter |-> "countered", accept |-> "accepted", reject |-> "rejected"]
Answers(r) == Op(r) \in DOMAIN OutcomeOf
Talk(r) == job[r].talk

Read(r) ==
    /\ Go(r, "update")
    /\ offered' = [offered EXCEPT ![r] = talks[Talk(r)]]
    /\ answeredAtOnce' = IF \E q \in Requests : Answers(q) /\ pc[q] = "update" /\ Talk(q) = Talk(r)
                        THEN answeredAtOnce \cup {Talk(r)} ELSE answeredAtOnce

\* negotiate_price
Propose(r) ==
    /\ At(r, "negotiate", "new")
    /\ talks' = [talks EXCEPT ![Talk(r)] = [status |-> "proposed", price |-> job[r].price]]
    /\ offered' = [offered EXCEPT ![r] = talks'[Talk(r)]]
    /\ Go(r, "message")
    /\ UNCHANGED <<told, answeredAtOnce>>

\* _assert_party and _assert_open; either agent may accept, its own offer too.
ReadTalk(r) ==
    /\ Answers(r) /\ pc[r] = "new"
    /\ IF job[r].agent \in Parties /\ talks[Talk(r)].status \in Open
       THEN Read(r)
       ELSE Go(r, "rejected") /\ UNCHANGED <<offered, answeredAtOnce>>
    /\ UNCHANGED <<talks, told>>

\* The UPDATE has no condition.
UpdateTalk(r) ==
    /\ Answers(r) /\ pc[r] = "update"
    /\ talks' = [talks EXCEPT ![Talk(r)] =
          [status |-> OutcomeOf[Op(r)], price |-> IF Op(r) = "counter" THEN job[r].price ELSE @.price]]
    /\ Go(r, "message")
    /\ UNCHANGED <<offered, told, answeredAtOnce>>

\* The message tells of the row as it was read.
SendMessage(r) ==
    /\ Answers(r) \/ Op(r) = "negotiate"
    /\ pc[r] = "message"
    /\ told' = told \cup {[talk |-> Talk(r), kind |-> Op(r),
                           price |-> IF Op(r) = "counter" THEN job[r].price ELSE offered[r].price]}
    /\ Go(r, "done")
    /\ UNCHANGED <<talks, offered, answeredAtOnce>>

TalkStep(r) == Propose(r) \/ ReadTalk(r) \/ UpdateTalk(r) \/ SendMessage(r)

TalkInit ==
    /\ talks = [t \in Negotiations |-> IF t = FirstNegotiation
                                       THEN [status |-> "proposed", price |-> 1] ELSE NoTalk]
    /\ offered = [r \in Requests |-> NoTalk]
    /\ told = {} /\ answeredAtOnce = {}

-----------------------------------------------------------------------------
\* What was agreed stays agreed, and is what the other agent was told, unless
\* two answers read it at once; who is not told lost a message to a cut.
AgreementsHold == \A t \in Negotiations \ answeredAtOnce :
    /\ \A m \in told : m.talk = t =>
          /\ m.kind \in {"accept", "reject"} => talks[t].status = OutcomeOf[m.kind]
          /\ m.kind = "accept" => talks[t].price = m.price
    /\ talks[t].status \in Closed =>
          \/ \E m \in told : m.talk = t /\ m.kind # "negotiate" /\ OutcomeOf[m.kind] = talks[t].status
          \/ \E r \in Requests :
                /\ Answers(r) /\ Talk(r) = t /\ OutcomeOf[Op(r)] = talks[t].status
                /\ pc[r] = "message" \/ cut[r] = "message"
============================================================================
