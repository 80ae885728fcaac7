---------------------------- MODULE EscrowProofs ----------------------------
(***************************************************************************)
(* Theorems about Escrows for every workload, every number of escrows,     *)
(* requests and disputes, and any number of faults: the steps that an      *)
(* escrow's status cannot keep apart are told apart by `raced', and        *)
(* without a race an escrow is paid once, recorded once, and no credit is  *)
(* lost between the wallets and the escrows.                               *)
(***************************************************************************)
EXTENDS Escrows, SumLemmas, TLAPS

Local == [esc : Escrows \cup {None}, how : {"release", "refund", "expire"},
          dispute : Disputes \cup {None}, todo : SUBSET (Escrows \cup Disputes)]
Dispute == [status : {"none", "open", "responded", "resolved"},
            resolution : {"none", "release", "refund"}]

Jobs == job \in [Requests -> Job] /\ FreshIds(job)
EscrowTypes ==
    /\ balance \in [Agents -> Int]
    /\ status \in [Escrows -> {"none", "held"} \cup Closed]
    /\ settlements \subseteq Procs \X Escrows
    /\ dispute \in [Disputes -> Dispute]
    /\ pc \in [Procs -> {"new", "idle"} \cup Running \cup Terminal]
    /\ loc \in [Procs -> Local]
    /\ paid \in [Escrows -> Nat]
    /\ raced \subseteq Escrows

\* Who stands where, and what its locals are by then.
Payout == {"read", "pay", "record", "close"}
Resolvers == {"resolve", "sweep"}
Roles ==
    \A p \in Procs :
        /\ pc[p] \in {"hold", "insert"} => Op(p) = "create"
        /\ pc[p] = "new" => p # Scheduler
        /\ pc[p] = "openInsert" => Op(p) = "open"
        /\ pc[p] = "respondWrite" => Op(p) = "respond"
        /\ pc[p] = "next" => Op(p) \in {"due", "sweep"}
        /\ Op(p) = "due" => loc[p].todo \subseteq Escrows
        /\ Op(p) = "sweep" => loc[p].todo \subseteq Disputes
        /\ Op(p) \notin Resolvers => loc[p].dispute = None
        /\ pc[p] = "resolve" => Op(p) = "sweep" /\ loc[p].dispute \in Disputes
        /\ pc[p] \in Payout \cup {"decide"} =>
               /\ loc[p].esc \in Escrows
               /\ Op(p) \in Resolvers => /\ loc[p].dispute \in Disputes
                                         /\ loc[p].esc = Subject[loc[p].dispute]
                                         /\ loc[p].how \in Verdicts
               /\ Op(p) = "release" => loc[p].esc = job[p].esc /\ loc[p].how = "release"
        /\ pc[p] = "decide" => Op(p) \in Resolvers
        /\ pc[p] = "record" => loc[p].how = "release"
Places == Jobs /\ EscrowTypes /\ Roles

\* A row appears only by its creator's INSERT; nothing is paid before.
Unborn ==
    /\ \A r \in Requests : Op(r) = "create" /\ pc[r] \in {"new", "hold", "insert"} =>
           status[job[r].esc] = "none"
    /\ \A e \in Escrows : status[e] = "none" => paid[e] = 0
    /\ \A p \in Procs : pc[p] \in {"pay", "record", "close"} => status[loc[p].esc] # "none"

\* Of an unraced escrow, whoever is between the lookup of its key and the
\* row with the key is there alone.
KeysAlone ==
    \A r \in Requests : job[r].esc \in Escrows \ raced =>
        /\ pc[r] \in {"hold", "insert"} /\ job[r].key # NoKey =>
               /\ \A q \in Creating(job[r].key) : q = r
               /\ ~KeyHeld(job[r].key)
        /\ Key(r) # NoKey /\ pc[r] \in {"read", "pay", "record"} =>
               /\ \A q \in Releasing(Key(r)) : q = r
               /\ ~Settled(Key(r))

\* The payee is paid before anything is written, and the row before the
\* status, raced or not.
PaidFirst ==
    /\ \A p \in Procs : pc[p] \in {"record", "close"} => paid[loc[p].esc] >= 1
    /\ \A p \in Procs : pc[p] = "close" /\ loc[p].how = "release" =>
           <<p, loc[p].esc>> \in settlements
    /\ \A e \in Escrows : status[e] \in Closed => paid[e] >= 1
    /\ \A e \in Escrows : status[e] = "settled" => \E s \in settlements : s[2] = e

\* Of an unraced escrow: one payer at most, while it is held; the row belongs
\* to the payer that is about to write the status.
PayerAlone ==
    \A e \in Escrows \ raced :
        /\ \A p, q \in Paying(e) : p = q
        /\ \A p \in Paying(e) : /\ status[e] = "held"
                                /\ paid[e] = IF pc[p] = "pay" THEN 0 ELSE 1
        /\ Paying(e) = {} => paid[e] = IF status[e] \in Closed THEN 1 ELSE 0
        /\ \A s \in settlements : s[2] = e =>
               \/ status[e] = "settled"
               \/ \E p \in Paying(e) : pc[p] = "close" /\ loc[p].how = "release"

\* Whoever is about to write a decision has carried it out.
Deciding ==
    \A r \in Requests : pc[r] = "decide" =>
        /\ status[loc[r].esc] \in Closed
        /\ loc[r].esc \notin raced => status[loc[r].esc] = Outcome[loc[r].how]

Ordered == Unborn /\ KeysAlone /\ PaidFirst /\ PayerAlone /\ Deciding

\* The escrows whose amount is in no wallet: held and not paid out, or
\* withdrawn by a creator that has not inserted the row.
Unspent == {e \in Escrows : status[e] = "held" /\ paid[e] = 0}
Inserting == {r \in Requests : pc[r] = "insert"}
Backed == Unspent \cup {job[r].esc : r \in Inserting}
Conserved ==
    raced = {} => Sum(balance, Agents) + Sum(Price, Backed)
                  = Sum(Start, Agents) + Sum(Price, Held0)

-----------------------------------------------------------------------------
\* What a workload asks for.
LEMMA JobFacts ==
    ASSUME Jobs, NEW r \in Requests
    PROVE  /\ job[r].op \in Ops /\ job[r].key \in Keys \cup {NoKey}
           /\ job[r].verdict \in Verdicts
           /\ job[r].op \in EscrowOps => job[r].esc \in Escrows
           /\ job[r].op \in DisputeOps => job[r].dispute \in Disputes
           /\ job[r].op = "create" => job[r].esc \notin Held0
           /\ r # Scheduler /\ Op(r) = job[r].op
           /\ r \in Procs
  BY EscrowConstants DEF Jobs, Job, FreshIds, Op, Procs

\* A coroutine's locals, as the assignments leave them.
Locals == loc \in [Procs -> Local]
After(p, e, how, d, todo) ==
    /\ loc' \in [Procs -> Local]
    /\ \A q \in Procs \ {p} : loc'[q] = loc[q]
    /\ loc'[p].esc = e /\ loc'[p].how = how
    /\ loc'[p].dispute = d /\ loc'[p].todo = todo

\* The assignments to a coroutine's locals leave the others' alone.
LEMMA LocalSteps ==
    ASSUME Locals, NEW p \in Procs, NEW e \in Escrows \cup {None},
           NEW d \in Disputes \cup {None},
           NEW how \in {"release", "refund", "expire"},
           NEW s \in SUBSET (Escrows \cup Disputes)
    PROVE  /\ loc' = [loc EXCEPT ![p].esc = e, ![p].how = how] =>
                  After(p, e, how, loc[p].dispute, loc[p].todo)
           /\ loc' = [loc EXCEPT ![p].esc = e, ![p].how = how, ![p].dispute = d] =>
                  After(p, e, how, d, loc[p].todo)
           /\ loc' = [loc EXCEPT ![p].todo = s] =>
                  After(p, loc[p].esc, loc[p].how, loc[p].dispute, s)
           /\ loc' = [loc EXCEPT ![p].todo = s, ![p].esc = e, ![p].how = how, ![p].dispute = d] =>
                  After(p, e, how, d, s)
  <1>1. ASSUME loc' = [loc EXCEPT ![p].esc = e, ![p].how = how]
        PROVE  After(p, e, how, loc[p].dispute, loc[p].todo)
    BY <1>1 DEF After, Locals, Local
  <1>2. ASSUME loc' = [loc EXCEPT ![p].esc = e, ![p].how = how, ![p].dispute = d]
        PROVE  After(p, e, how, d, loc[p].todo)
    <2>1. loc[p] \in Local /\ DOMAIN loc = Procs
      BY DEF Locals
    <2>2. /\ \A q \in Procs \ {p} : loc'[q] = loc[q]
          /\ loc'[p] = [loc[p] EXCEPT !.esc = e, !.how = how, !.dispute = d]
          /\ loc' = [q \in Procs |-> loc'[q]]
      BY <1>2, <2>1
    <2>3. /\ loc'[p] \in Local
          /\ loc'[p].esc = e /\ loc'[p].how = how
          /\ loc'[p].dispute = d /\ loc'[p].todo = loc[p].todo
      BY <2>1, <2>2 DEF Local
    <2>4. \A q \in Procs : loc'[q] \in Local
      BY <2>2, <2>3 DEF Locals
    <2>5. loc' \in [Procs -> Local]
      BY <2>2, <2>4
    <2> QED
      BY <2>2, <2>3, <2>5 DEF After
  <1>3. ASSUME loc' = [loc EXCEPT ![p].todo = s]
        PROVE  After(p, loc[p].esc, loc[p].how, loc[p].dispute, s)
    BY <1>3 DEF After, Locals, Local
  <1>4. ASSUME loc' = [loc EXCEPT ![p].todo = s, ![p].esc = e, ![p].how = how, ![p].dispute = d]
        PROVE  After(p, e, how, d, s)
    <2> DEFINE m == [loc EXCEPT ![p].todo = s, ![p].esc = e]
    <2>1. /\ m \in [Procs -> Local] /\ \A q \in Procs \ {p} : m[q] = loc[q]
          /\ m[p].esc = e /\ m[p].todo = s
      BY DEF Locals, Local
    <2>2. loc' = [m EXCEPT ![p].how = how, ![p].dispute = d]
      BY <1>4 DEF Locals
    <2> HIDE DEF m
    <2> QED
      BY <2>1, <2>2 DEF After, Local
  <1> QED
    BY <1>1, <1>2, <1>3, <1>4

\* Every coroutine starts at its operation's first statement.
LEMMA PlacesInit == Init => Places
  <1> SUFFICES ASSUME Init PROVE Places
    OBVIOUS
  <1> USE EscrowConstants DEF Init, Procs
  <1>1. Jobs
    BY DEF Jobs
  <1>2. EscrowTypes
    BY DEF EscrowTypes, Local, Dispute, Running, Terminal, Closed
  <1>3. Roles
    BY DEF Roles, Payout, Resolvers, Op
  <1> QED
    BY <1>1, <1>2, <1>3 DEF Places

\* What the tables say of escrows and disputes, whatever the workload.
LEMMA Constants ==
    /\ \A e \in Escrows : Terms[e].amount \in Int /\ Terms[e].payer \in Agents
                          /\ Terms[e].payee \in Agents
    /\ \A d \in Disputes : Subject[d] \in Escrows
    /\ Escrows \cap Disputes = {} /\ None \notin Escrows \cup Disputes
    /\ Scheduler \notin Requests
  BY EscrowConstants

\* The pass or the resolution that StartPayout begins is one of these.
LEMMA Starts ==
    ASSUME EscrowTypes, NEW p \in Procs, NEW e \in Escrows,
           NEW how \in {"release", "refund", "expire"}, StartPayout(p, e, how)
    PROVE  After(p, e, how, loc[p].dispute, loc[p].todo) /\ Go(p, "read")
  <1>1. Locals /\ loc[p].dispute \in Disputes \cup {None}
    BY DEF EscrowTypes, Locals, Local
  <1> QED
    BY <1>1, LocalSteps DEF StartPayout

\* The loop over a pass's rows hands its row on: an escrow to the refund, a
\* dispute to the resolution.
LEMMA NextRowMoves ==
    ASSUME EscrowTypes, NEW p \in Procs, NEW x \in Escrows \cup Disputes, NextRow(p, x)
    PROVE  \/ /\ x \in Escrows /\ x \notin Disputes /\ Go(p, "read")
              /\ After(p, x, "expire", None, loc[p].todo \ {x})
           \/ /\ x \in Disputes /\ x \notin Escrows /\ Go(p, "resolve")
              /\ After(p, loc[p].esc, loc[p].how, x, loc[p].todo \ {x})
  <1>1. /\ Locals /\ loc[p].todo \ {x} \in SUBSET (Escrows \cup Disputes)
        /\ loc[p].esc \in Escrows \cup {None}
        /\ loc[p].how \in {"release", "refund", "expire"}
    BY DEF EscrowTypes, Locals, Local
  <1>2. CASE x \in Escrows
    <2>1. x \notin Disputes
      BY <1>2, Constants
    <2>2. loc' = [loc EXCEPT ![p].todo = loc[p].todo \ {x}, ![p].esc = x,
                             ![p].how = "expire", ![p].dispute = None]
      BY <1>2, <2>1 DEF NextRow
    <2> QED
      BY <1>1, <1>2, <2>1, <2>2, LocalSteps DEF NextRow
  <1>3. CASE x \notin Escrows
    <2>1. loc' = [loc EXCEPT ![p].todo = loc[p].todo \ {x}, ![p].esc = loc[p].esc,
                             ![p].how = loc[p].how, ![p].dispute = x]
      BY <1>3 DEF NextRow
    <2>2. x \in Disputes \cup {None} /\ x \in Disputes
      BY <1>3
    <2>3. After(p, loc[p].esc, loc[p].how, x, loc[p].todo \ {x})
      BY <1>1, <2>1, <2>2, LocalSteps
    <2> QED
      BY <1>3, <2>2, <2>3 DEF NextRow
  <1> QED
    BY <1>2, <1>3

\* resolve_dispute raises, or starts the payout of the escrow in dispute with
\* the arbiter's verdict (the sweep's is a refund).
LEMMA ResolveMoves ==
    ASSUME Jobs, EscrowTypes, Roles, NEW r \in Requests, ResolveDispute(r)
    PROVE  /\ Op(r) \in Resolvers
           /\ \/ Go(r, Raised(r)) /\ UNCHANGED loc
              \/ \E d \in Disputes, verdict \in Verdicts :
                     Go(r, "read") /\ After(r, Subject[d], verdict, d, loc[r].todo)
  <1> DEFINE d == IF Op(r) = "sweep" THEN loc[r].dispute ELSE job[r].dispute
             verdict == IF Op(r) = "sweep" THEN "refund" ELSE job[r].verdict
  <1>1. /\ Op(r) \in Resolvers /\ d \in Disputes
        /\ verdict \in Verdicts /\ verdict \in {"release", "refund", "expire"}
    <2>1. CASE pc[r] = "resolve"
      BY <2>1, JobFacts DEF Roles, Resolvers, Verdicts
    <2>2. CASE pc[r] = "new" /\ Op(r) = "resolve"
      BY <2>2, JobFacts DEF Verdicts, DisputeOps, Resolvers
    <2> QED
      BY <2>1, <2>2 DEF ResolveDispute
  <1>2. \/ Go(r, Raised(r)) /\ UNCHANGED loc
        \/ /\ Go(r, "read")
           /\ loc' = [loc EXCEPT ![r].esc = Subject[d], ![r].how = verdict, ![r].dispute = d]
    BY DEF ResolveDispute
  <1>3. Locals /\ Subject[d] \in Escrows \cup {None} /\ r \in Procs
    BY <1>1, Constants, JobFacts DEF EscrowTypes, Locals
  <1> HIDE DEF d, verdict
  <1> QED
    BY <1>1, <1>2, <1>3, LocalSteps

\* The types survive the requests' first statements ...
LEMMA TypesArrive ==
    ASSUME Jobs, EscrowTypes, NEW r \in Requests, Arrive(r)
    PROVE  EscrowTypes'
  <1>0. /\ r \in Procs /\ Op(r) = job[r].op /\ Locals
        /\ Op(r) \in EscrowOps => job[r].esc \in Escrows
    BY JobFacts DEF EscrowTypes, Locals
  <1> USE <1>0 DEF EscrowTypes, Go, tables, history, environment, Running, Terminal, EscrowOps
  <1>1. CASE LookupEscrow(r)
    <2>1. raced' \subseteq Escrows
      BY <1>1, JobFacts DEF LookupEscrow, Creating
    <2> QED
      BY <1>1, <2>1 DEF LookupEscrow
  <1>2. CASE LookupSettlement(r)
    <2>1. raced' \subseteq Escrows
      BY <1>2, JobFacts DEF LookupSettlement, Releasing, Key, Op
    <2>2. (UNCHANGED loc /\ Go(r, "done")) \/ StartPayout(r, job[r].esc, "release")
      BY <1>2 DEF LookupSettlement
    <2>3. loc' \in [Procs -> Local] /\ (Go(r, "done") \/ Go(r, "read"))
      BY <2>2, <1>2, Starts DEF After, LookupSettlement
    <2> QED
      BY <1>2, <2>1, <2>3 DEF LookupSettlement
  <1>3. CASE CancelEscrow(r)
    <2>1. loc' \in [Procs -> Local] /\ Go(r, "read")
      BY <1>3, Starts DEF After, CancelEscrow
    <2> QED
      BY <1>3, <2>1 DEF CancelEscrow
  <1>4. ASSUME NEW met \in BOOLEAN, CheckPerformance(r, met) PROVE EscrowTypes'
    <2>1. (UNCHANGED loc /\ Go(r, "done")) \/ StartPayout(r, job[r].esc, "release")
      BY <1>4 DEF CheckPerformance
    <2>2. loc' \in [Procs -> Local] /\ (Go(r, "done") \/ Go(r, "read"))
      BY <2>1, <1>4, Starts DEF After, CheckPerformance
    <2> QED
      BY <1>4, <2>2 DEF CheckPerformance
  <1>5. CASE ListLate(r)
    <2>1. loc' \in [Procs -> Local]
      BY <1>5, LocalSteps DEF After, ListLate, Local
    <2> QED
      BY <1>5, <2>1 DEF ListLate
  <1>6. CASE OpenDispute(r)
    BY <1>6 DEF OpenDispute
  <1>7. CASE Respond(r)
    BY <1>7 DEF Respond
  <1> QED
    BY <1>1, <1>2, <1>3, <1>4, <1>5, <1>6, <1>7 DEF Arrive

\* ... the payout, its two writes and the passes over expired escrows ...
LEMMA TypesContinue ==
    ASSUME Jobs, EscrowTypes, Roles, NEW p \in Procs, Continue(p) \/ ListExpired(p)
    PROVE  EscrowTypes'
  <1>0. /\ Locals /\ loc[p] \in Local
        /\ pc[p] \in Payout => loc[p].esc \in Escrows
    BY DEF EscrowTypes, Locals, Roles
  <1> USE <1>0 DEF EscrowTypes, Go, tables, history, environment, Running, Terminal, Closed, Payout
  <1>1. CASE ReadEscrow(p)
    BY <1>1 DEF ReadEscrow, Raised
  <1>2. CASE Pay(p)
    <2> DEFINE e == loc[p].esc
               a == Beneficiary(e, loc[p].how)
    <2>1. /\ Terms[e].amount \in Int /\ paid[e] + 1 \in Nat
          /\ balance[a] + Terms[e].amount \in Int \/ a \notin Agents
      BY <1>2, Constants DEF Pay
    <2>2. a \in Agents
      BY <1>2, Constants DEF Pay, Beneficiary
    <2>3. balance' \in [Agents -> Int] /\ paid' \in [Escrows -> Nat]
      BY <1>2, <2>1, <2>2 DEF Pay
    <2> QED
      BY <1>2, <2>3 DEF Pay, Raised
  <1>3. CASE Record(p)
    BY <1>3 DEF Record, Raised
  <1>4. CASE Close(p)
    <2>1. Outcome[loc[p].how] \in Closed
      BY DEF Outcome, Local
    <2> QED
      BY <1>4, <2>1 DEF Close, Succeeded
  <1>5. ASSUME NEW x \in Escrows \cup Disputes, NextRow(p, x) PROVE EscrowTypes'
    <2>1. loc' \in [Procs -> Local]
      BY <1>5, NextRowMoves DEF After
    <2> QED
      BY <1>5, <2>1 DEF NextRow
  <1>6. CASE EndPass(p)
    BY <1>6 DEF EndPass
  <1>7. CASE ListExpired(p)
    <2>1. loc' \in [Procs -> Local]
      BY <1>7, LocalSteps DEF After, ListExpired, Local
    <2> QED
      BY <1>7, <2>1 DEF ListExpired
  <1> QED
    BY <1>1, <1>2, <1>3, <1>4, <1>5, <1>6, <1>7 DEF Continue

\* ... the statements of the other requests ...
LEMMA TypesRequest ==
    ASSUME Jobs, EscrowTypes, Roles, NEW r \in Requests,
           \/ Hold(r) \/ InsertEscrow(r) \/ InsertDispute(r) \/ WriteResponse(r)
           \/ Decide(r) \/ ResolveDispute(r)
    PROVE  EscrowTypes'
  <1>0. /\ r \in Procs /\ Op(r) = job[r].op /\ Locals
        /\ Op(r) \in EscrowOps => job[r].esc \in Escrows
        /\ Op(r) \in DisputeOps => job[r].dispute \in Disputes
        /\ job[r].verdict \in Verdicts
    BY JobFacts DEF EscrowTypes, Locals
  <1> USE <1>0 DEF EscrowTypes, Go, tables, history, environment, Running, Terminal, Roles,
                   EscrowOps, DisputeOps
  <1>1. CASE Hold(r)
    <2>1. job[r].esc \in Escrows
      BY <1>1 DEF Hold
    <2>2. balance' \in [Agents -> Int]
      BY <1>1, <2>1, Constants DEF Hold
    <2> QED
      BY <1>1, <2>2 DEF Hold
  <1>2. CASE InsertEscrow(r)
    BY <1>2 DEF InsertEscrow
  <1>3. CASE InsertDispute(r)
    <2>1. dispute' \in [Disputes -> Dispute]
      BY <1>3 DEF InsertDispute, Dispute
    <2> QED
      BY <1>3, <2>1 DEF InsertDispute
  <1>4. CASE WriteResponse(r)
    <2>1. dispute' \in [Disputes -> Dispute]
      BY <1>4 DEF WriteResponse, Dispute
    <2> QED
      BY <1>4, <2>1 DEF WriteResponse
  <1>5. CASE Decide(r)
    <2>1. loc[r].how \in {"release", "refund"} /\ loc[r].dispute \in Disputes
      BY <1>5 DEF Decide, Payout, Verdicts
    <2>2. dispute' \in [Disputes -> Dispute]
      BY <1>5, <2>1 DEF Decide, Dispute
    <2> QED
      BY <1>5, <2>2 DEF Decide, Finished
  <1>6. CASE ResolveDispute(r)
    <2>1. loc' \in [Procs -> Local] /\ (Go(r, Raised(r)) \/ Go(r, "read"))
      BY <1>6, ResolveMoves DEF After
    <2> QED
      BY <1>6, <2>1 DEF ResolveDispute, Raised
  <1> QED
    BY <1>1, <1>2, <1>3, <1>4, <1>5, <1>6

\* What a crash and a timeout have in common: coroutines end, and each leaves
\* what it was in the middle of.
Cuts ==
    /\ UNCHANGED <<job, balance, status, settlements, dispute, paid, loc>>
    /\ frozen' = frozen /\ overdue' = overdue
    /\ pc' \in [Procs -> {"new", "idle"} \cup Running \cup Terminal]
    /\ \A r \in Requests : pc'[r] = pc[r] \/ pc'[r] \in {"lost", "504"}
    /\ pc'[Scheduler] \in {pc[Scheduler], "idle"}
    /\ raced \subseteq raced' /\ raced' \subseteq Escrows
    /\ \A p \in Procs : pc'[p] # pc[p] => LeftBehind(p) \subseteq raced'
    /\ pc[Scheduler] \notin {"hold", "insert"}

Fault == CrashProcess \/ \E r \in Requests : TimeOut(r)

LEMMA FaultsCut ==
    ASSUME EscrowTypes, Jobs, Roles, Fault
    PROVE  Cuts
  <1>1. /\ \A p \in Procs : p \in Requests \/ p = Scheduler
        /\ \A r \in Requests : r \in Procs /\ r # Scheduler /\ Op(r) = job[r].op
        /\ Scheduler \in Procs
    BY JobFacts DEF Procs
  <1>2. pc[Scheduler] \notin {"hold", "insert"}
    BY <1>1 DEF Roles, Op
  <1>3. \A p \in Procs : LeftBehind(p) \subseteq Escrows
    <2>1. \A r \in Requests : pc[r] = "insert" => job[r].esc \in Escrows
      BY JobFacts DEF Roles, EscrowOps
    <2>2. \A p \in Procs : pc[p] \in {"record", "close"} => loc[p].esc \in Escrows
      BY DEF Roles, Payout
    <2> QED
      BY <1>1, <1>2, <2>1, <2>2 DEF LeftBehind
  <1>4. raced \subseteq Escrows /\ pc \in [Procs -> {"new", "idle"} \cup Running \cup Terminal]
    BY DEF EscrowTypes
  <1>5. CASE CrashProcess
    <2>1. raced' = raced \cup UNION {LeftBehind(p) : p \in Procs}
      BY <1>5 DEF CrashProcess
    <2>2. raced \subseteq raced' /\ raced' \subseteq Escrows
          /\ \A p \in Procs : LeftBehind(p) \subseteq raced'
      BY <1>3, <1>4, <2>1
    <2> QED
      BY <1>1, <1>2, <1>4, <1>5, <2>2 DEF CrashProcess, Cuts, tables, Terminal
  <1>6. ASSUME NEW r \in Requests, TimeOut(r) PROVE Cuts
    <2>1. /\ raced' = raced \cup LeftBehind(r)
          /\ pc' = [pc EXCEPT ![r] = "504"]
      BY <1>6 DEF TimeOut, Go
    <2>2. raced \subseteq raced' /\ raced' \subseteq Escrows /\ LeftBehind(r) \subseteq raced'
      BY <1>1, <1>3, <1>4, <2>1
    <2> QED
      BY <1>1, <1>2, <1>4, <1>6, <2>1, <2>2 DEF TimeOut, Cuts, tables, Terminal
  <1> QED
    BY <1>5, <1>6, <1>1 DEF Fault

\* ... and a deadline, a frozen wallet and a fault.
LEMMA TypesOther ==
    ASSUME EscrowTypes, Jobs, Roles,
           \/ \E x \in Escrows \cup Disputes : Expire(x)
           \/ \E a \in Freezable : SetFrozen(a)
           \/ Fault
           \/ UNCHANGED vars
    PROVE  EscrowTypes'
  <1> USE DEF EscrowTypes, tables, history
  <1>1. CASE Fault
    BY <1>1, FaultsCut DEF Cuts
  <1>2. CASE ~Fault
    BY <1>2 DEF Expire, SetFrozen, vars
  <1> QED
    BY <1>1, <1>2

\* A request's first statements leave it the locals the next one reads, and
\* nobody else's ...
LEMMA RolesArrive ==
    ASSUME Jobs, EscrowTypes, Roles, NEW r \in Requests, Arrive(r)
    PROVE  Roles'
  <1>0. /\ r \in Procs /\ Op(r) = job[r].op /\ r # Scheduler /\ Locals
        /\ Op(r) \in EscrowOps => job[r].esc \in Escrows
        /\ Op(r) \in DisputeOps => job[r].dispute \in Disputes
        /\ \A p \in Procs : job' = job => Op(p)' = Op(p)
    BY JobFacts DEF EscrowTypes, Locals, Op
  <1> USE <1>0 DEF EscrowTypes, Roles, Go, tables, history, environment, Resolvers, EscrowOps, Payout
  <1>1. CASE LookupEscrow(r)
    BY <1>1 DEF LookupEscrow
  <1>2. CASE LookupSettlement(r)
    <2>1. (UNCHANGED loc /\ Go(r, "done")) \/ StartPayout(r, job[r].esc, "release")
      BY <1>2 DEF LookupSettlement
    <2>2. CASE UNCHANGED loc /\ Go(r, "done")
      BY <1>2, <2>2 DEF LookupSettlement
    <2>3. CASE StartPayout(r, job[r].esc, "release")
      BY <1>2, <2>3, Starts DEF LookupSettlement, After
    <2> QED
      BY <2>1, <2>2, <2>3
  <1>3. CASE CancelEscrow(r)
    BY <1>3, Starts DEF CancelEscrow, After
  <1>4. ASSUME NEW met \in BOOLEAN, CheckPerformance(r, met) PROVE Roles'
    <2>1. (UNCHANGED loc /\ Go(r, "done")) \/ StartPayout(r, job[r].esc, "release")
      BY <1>4 DEF CheckPerformance
    <2>2. CASE UNCHANGED loc /\ Go(r, "done")
      BY <1>4, <2>2 DEF CheckPerformance
    <2>3. CASE StartPayout(r, job[r].esc, "release")
      BY <1>4, <2>3, Starts DEF CheckPerformance, After
    <2> QED
      BY <2>1, <2>2, <2>3
  <1>5. CASE ListLate(r)
    <2>1. \E s \in SUBSET Disputes : After(r, loc[r].esc, loc[r].how, loc[r].dispute, s)
      BY <1>5, LocalSteps DEF ListLate, Local
    <2> QED
      BY <1>5, <2>1 DEF ListLate, After
  <1>6. CASE OpenDispute(r)
    BY <1>6 DEF OpenDispute
  <1>7. CASE Respond(r)
    BY <1>7 DEF Respond
  <1> QED
    BY <1>1, <1>2, <1>3, <1>4, <1>5, <1>6, <1>7 DEF Arrive

\* ... as do the payout and the passes ...
LEMMA RolesContinue ==
    ASSUME Jobs, EscrowTypes, Roles, NEW p \in Procs, Continue(p) \/ ListExpired(p)
    PROVE  Roles'
  <1>0. Locals /\ (\A q \in Procs : job' = job => Op(q)' = Op(q))
    BY DEF EscrowTypes, Locals, Op
  <1> USE <1>0 DEF EscrowTypes, Roles, Go, tables, history, environment, Resolvers, Payout, Raised
  <1>1. CASE ReadEscrow(p)
    BY <1>1 DEF ReadEscrow
  <1>2. CASE Pay(p)
    BY <1>2 DEF Pay
  <1>3. CASE Record(p)
    BY <1>3 DEF Record
  <1>4. CASE Close(p)
    BY <1>4 DEF Close, Succeeded
  <1>5. ASSUME NEW x \in Escrows \cup Disputes, NextRow(p, x) PROVE Roles'
    <2>1. x \in loc[p].todo /\ job' = job /\ Op(p) \in {"due", "sweep"}
      BY <1>5 DEF NextRow
    <2>2. CASE x \in Escrows /\ x \notin Disputes /\ Go(p, "read")
               /\ After(p, x, "expire", None, loc[p].todo \ {x})
      BY <2>1, <2>2 DEF After
    <2>3. CASE x \in Disputes /\ x \notin Escrows /\ Go(p, "resolve")
               /\ After(p, loc[p].esc, loc[p].how, x, loc[p].todo \ {x})
      BY <2>1, <2>3 DEF After
    <2> QED
      BY <1>5, <2>2, <2>3, NextRowMoves
  <1>6. CASE EndPass(p)
    BY <1>6 DEF EndPass
  <1>7. CASE ListExpired(p)
    <2>1. \E s \in SUBSET Escrows : After(p, loc[p].esc, loc[p].how, loc[p].dispute, s)
      BY <1>7, LocalSteps DEF ListExpired, Local
    <2> QED
      BY <1>7, <2>1 DEF ListExpired, After
  <1> QED
    BY <1>1, <1>2, <1>3, <1>4, <1>5, <1>6, <1>7 DEF Continue

\* ... and the statements of the other requests;
LEMMA RolesRequest ==
    ASSUME Jobs, EscrowTypes, Roles, NEW r \in Requests,
           \/ Hold(r) \/ InsertEscrow(r) \/ InsertDispute(r) \/ WriteResponse(r)
           \/ Decide(r) \/ ResolveDispute(r)
    PROVE  Roles'
  <1>0. /\ r \in Procs /\ r # Scheduler
        /\ \A p \in Procs : job' = job => Op(p)' = Op(p)
    BY JobFacts DEF Op
  <1> USE <1>0 DEF EscrowTypes, Roles, Go, tables, history, environment, Resolvers, Payout, Raised
  <1>1. CASE Hold(r)
    BY <1>1 DEF Hold
  <1>2. CASE InsertEscrow(r)
    BY <1>2 DEF InsertEscrow
  <1>3. CASE InsertDispute(r)
    BY <1>3 DEF InsertDispute
  <1>4. CASE WriteResponse(r)
    BY <1>4 DEF WriteResponse
  <1>5. CASE Decide(r)
    BY <1>5 DEF Decide, Finished
  <1>6. CASE ResolveDispute(r)
    <2>1. job' = job /\ Op(r) \in Resolvers
      BY <1>6, ResolveMoves DEF ResolveDispute
    <2>2. CASE Go(r, Raised(r)) /\ UNCHANGED loc
      BY <2>1, <2>2
    <2>3. ASSUME NEW d \in Disputes, NEW verdict \in Verdicts,
                 Go(r, "read"), After(r, Subject[d], verdict, d, loc[r].todo)
          PROVE  Roles'
      BY <2>1, <2>3, Constants DEF After
    <2> QED
      BY <1>6, <2>2, <2>3, ResolveMoves
  <1> QED
    BY <1>1, <1>2, <1>3, <1>4, <1>5, <1>6

\* a fault ends coroutines.
LEMMA RolesOther ==
    ASSUME EscrowTypes, Jobs, Roles,
           \/ \E x \in Escrows \cup Disputes : Expire(x)
           \/ \E a \in Freezable : SetFrozen(a)
           \/ Fault
           \/ UNCHANGED vars
    PROVE  Roles'
  <1>0. \A p \in Procs : job' = job => Op(p)' = Op(p)
    BY DEF Op
  <1> USE <1>0 DEF EscrowTypes, Roles, tables, history, Payout
  <1>1. CASE Fault
    <2>1. Cuts
      BY <1>1, FaultsCut
    <2>2. \A p \in Procs : p \in Requests \/ p = Scheduler
      BY DEF Procs
    <2>3. \A p \in Procs : pc'[p] = pc[p] \/ pc'[p] \in {"lost", "504", "idle"}
      BY <2>1, <2>2 DEF Cuts
    <2>4. UNCHANGED <<job, loc>> /\ \A p \in Procs : Op(p)' = Op(p)
      BY <1>0, <2>1 DEF Cuts
    <2> QED
      BY <2>3, <2>4
  <1>2. CASE ~Fault
    BY <1>2 DEF Expire, SetFrozen, vars
  <1> QED
    BY <1>1, <1>2

\* Nobody changes the workload.
LEMMA JobKept == [Next]_vars => job' = job
  <1> USE DEF environment
  <1>1. ASSUME NEW p \in Procs, Continue(p) \/ ListExpired(p) PROVE job' = job
    BY <1>1 DEF Continue, ReadEscrow, Pay, Record, Close, NextRow, EndPass, ListExpired
  <1>2. ASSUME NEW r \in Requests, Arrive(r) \/ ResolveDispute(r) PROVE job' = job
    BY <1>2 DEF Arrive, LookupEscrow, LookupSettlement, CancelEscrow, CheckPerformance, ListLate,
                OpenDispute, Respond, ResolveDispute
  <1>3. ASSUME NEW r \in Requests, ContinueRequest(r) PROVE job' = job
    <2>1. r \in Procs
      BY DEF Procs
    <2> QED
      BY <1>1, <1>2, <1>3, <2>1 DEF ContinueRequest, Hold, InsertEscrow, InsertDispute,
                                    WriteResponse, Decide
  <1>4. Scheduler \in Procs
    BY DEF Procs
  <1> QED
    BY <1>1, <1>2, <1>3, <1>4 DEF Next, Expire, SetFrozen, CrashProcess, TimeOut, vars

\* The places are an invariant.
LEMMA PlacesStep == Places /\ [Next]_vars => Places'
  <1> SUFFICES ASSUME Places, [Next]_vars PROVE Places'
    OBVIOUS
  <1> USE DEF Places
  <1>1. Jobs'
    BY JobKept DEF Jobs, FreshIds
  <1>2. \A r \in Requests : r \in Procs
    BY DEF Procs
  <1>3. Scheduler \in Procs
    BY DEF Procs
  <1>4. EscrowTypes'
    BY <1>2, <1>3, TypesArrive, TypesContinue, TypesRequest, TypesOther DEF Next, ContinueRequest, Fault
  <1>5. Roles'
    BY <1>2, <1>3, RolesArrive, RolesContinue, RolesRequest, RolesOther DEF Next, ContinueRequest, Fault
  <1> QED
    BY <1>1, <1>4, <1>5

\* Every row, wallet and coroutine is what its table or its code says, for
\* every workload: the engine writes no other status and leaves no coroutine
\* without the locals its next statement reads.
THEOREM TypesHold == Spec => []EscrowTypes
  <1> QED
    BY PlacesInit, PlacesStep, PTL DEF Spec, Places

-----------------------------------------------------------------------------
\* A step of p that pays nothing, closes nothing and creates nothing.
Aside(p) ==
    /\ UNCHANGED <<job, balance, status, settlements, paid, raced>>
    /\ pc[p] \notin {"hold", "insert", "pay", "record", "close"}
    /\ \A q \in Procs \ {p} : pc'[q] = pc[q] /\ loc'[q] = loc[q]
    /\ pc'[p] \notin {"new", "hold", "insert", "pay", "record", "close", "decide"}
    /\ pc'[p] = "read" => Key(p) = NoKey

\* Of the first statements, only the two key lookups matter to who pays.
LEMMA AsideArrive ==
    ASSUME Places, NEW r \in Requests, Arrive(r)
    PROVE  \/ Aside(r)
           \/ LookupEscrow(r) /\ Go(r, "hold")
           \/ /\ LookupSettlement(r) /\ StartPayout(r, job[r].esc, "release")
              /\ Key(r) # NoKey /\ ~Settled(Key(r))
  <1>0. /\ r \in Procs /\ Op(r) = job[r].op /\ r # Scheduler
        /\ Op(r) \in EscrowOps => job[r].esc \in Escrows
    BY JobFacts DEF Places
  <1> USE <1>0 DEF Places, EscrowTypes, Go, tables, history, environment, Aside, EscrowOps
  <1>1. CASE LookupEscrow(r)
    BY <1>1 DEF LookupEscrow
  <1>2. CASE LookupSettlement(r)
    <2>1. CASE Key(r) # NoKey /\ Settled(Key(r))
      BY <1>2, <2>1 DEF LookupSettlement
    <2>2. CASE ~ (Key(r) # NoKey /\ Settled(Key(r)))
      <3>1. StartPayout(r, job[r].esc, "release") /\ After(r, job[r].esc, "release", loc[r].dispute, loc[r].todo)
        BY <1>2, <2>2, Starts DEF LookupSettlement
      <3> QED
        BY <1>2, <2>2, <3>1 DEF LookupSettlement, After, StartPayout
    <2> QED
      BY <2>1, <2>2
  <1>3. CASE CancelEscrow(r)
    BY <1>3, Starts DEF CancelEscrow, After, Key
  <1>4. ASSUME NEW met \in BOOLEAN, CheckPerformance(r, met) PROVE Aside(r)
    <2>1. (UNCHANGED loc /\ Go(r, "done")) \/ StartPayout(r, job[r].esc, "release")
      BY <1>4 DEF CheckPerformance
    <2> QED
      BY <1>4, <2>1, Starts DEF CheckPerformance, After, Key
  <1>5. CASE ListLate(r)
    BY <1>5 DEF ListLate
  <1>6. CASE OpenDispute(r)
    BY <1>6 DEF OpenDispute
  <1>7. CASE Respond(r)
    BY <1>7 DEF Respond
  <1> QED
    BY <1>1, <1>2, <1>3, <1>4, <1>5, <1>6, <1>7 DEF Arrive

\* Of the scheduler's and the payout's statements, the ones that read HELD,
\* deposit, insert the row and write the status do.
LEMMA AsideContinue ==
    ASSUME Places, NEW p \in Procs, Continue(p) \/ ListExpired(p)
    PROVE  \/ Aside(p)
           \/ ReadEscrow(p) /\ status[loc[p].esc] = "held"
           \/ Pay(p) \/ Record(p) \/ Close(p)
  <1> USE DEF Places, EscrowTypes, Roles, Go, tables, history, environment, Aside, Raised
  <1>1. CASE ReadEscrow(p)
    BY <1>1 DEF ReadEscrow
  <1>2. ASSUME NEW x \in Escrows \cup Disputes, NextRow(p, x) PROVE Aside(p)
    <2>1. Key(p) = NoKey
      BY <1>2 DEF NextRow, Key
    <2>2. /\ UNCHANGED <<job, balance, status, settlements, paid, raced>>
          /\ pc[p] = "next"
      BY <1>2 DEF NextRow
    <2>3. pc' = [pc EXCEPT ![p] = "read"] \/ pc' = [pc EXCEPT ![p] = "resolve"]
      BY <1>2 DEF NextRow
    <2>4. \A q \in Procs \ {p} : loc'[q] = loc[q]
      BY <1>2 DEF NextRow
    <2>5. /\ \A q \in Procs \ {p} : pc'[q] = pc[q]
          /\ pc'[p] \in {"read", "resolve"}
      BY <2>3
    <2> QED
      BY <2>1, <2>2, <2>4, <2>5
  <1>3. CASE EndPass(p)
    BY <1>3 DEF EndPass
  <1>4. CASE ListExpired(p)
    BY <1>4 DEF ListExpired
  <1> QED
    BY <1>1, <1>2, <1>3, <1>4 DEF Continue

\* A dispute's own statements pay nothing and close no escrow.
LEMMA AsideRequest ==
    ASSUME Places, NEW r \in Requests,
           InsertDispute(r) \/ WriteResponse(r) \/ Decide(r) \/ ResolveDispute(r)
    PROVE  Aside(r)
  <1>0. r \in Procs /\ r # Scheduler
    BY JobFacts DEF Places
  <1> USE <1>0 DEF Places, EscrowTypes, Roles, Go, tables, history, environment, Aside, Raised
  <1>1. CASE InsertDispute(r)
    BY <1>1 DEF InsertDispute
  <1>2. CASE WriteResponse(r)
    BY <1>2 DEF WriteResponse
  <1>3. CASE Decide(r)
    BY <1>3 DEF Decide, Finished
  <1>4. CASE ResolveDispute(r)
    <2>1. Key(r) = NoKey
      BY <1>4, ResolveMoves DEF Key, Resolvers
    <2>2. /\ UNCHANGED <<job, balance, status, settlements, paid, raced>>
          /\ pc[r] \in {"new", "resolve"}
      BY <1>4 DEF ResolveDispute
    <2>3. \/ pc' = [pc EXCEPT ![r] = "read"]
          \/ pc' = [pc EXCEPT ![r] = Raised(r)]
      BY <1>4 DEF ResolveDispute
    <2>4. Raised(r) \in {"next", "error"}
      OBVIOUS
    <2>5. /\ \A q \in Procs \ {r} : pc'[q] = pc[q]
          /\ pc'[r] \in {"read", "next", "error"}
      BY <2>3, <2>4
    <2>6. \A q \in Procs \ {r} : loc'[q] = loc[q]
      BY <1>4, ResolveMoves DEF After
    <2> QED
      BY <2>1, <2>2, <2>5, <2>6
  <1> QED
    BY <1>1, <1>2, <1>3, <1>4

\* What the steps come to for the invariants below.
Still == UNCHANGED <<job, balance, status, settlements, paid, raced, pc, loc>>
Opens(r) == LookupEscrow(r) /\ Go(r, "hold")
Begins(r) == /\ LookupSettlement(r) /\ StartPayout(r, job[r].esc, "release")
             /\ Key(r) # NoKey /\ ~Settled(Key(r))
Reads(p) == ReadEscrow(p) /\ status[loc[p].esc] = "held"

\* Every step is one of these.
LEMMA Steps ==
    ASSUME Places, [Next]_vars
    PROVE  \/ Still
           \/ Cuts
           \/ \E p \in Procs : Aside(p) \/ Reads(p) \/ Pay(p) \/ Record(p) \/ Close(p)
           \/ \E r \in Requests : Opens(r) \/ Begins(r) \/ Hold(r) \/ InsertEscrow(r)
  <1>1. /\ \A r \in Requests : r \in Procs
        /\ Scheduler \in Procs
    BY DEF Procs
  <1>2. ASSUME \/ \E x \in Escrows \cup Disputes : Expire(x)
               \/ \E a \in Freezable : SetFrozen(a)
               \/ UNCHANGED vars
        PROVE  Still
    BY <1>2 DEF Expire, SetFrozen, vars, tables, history, Still
  <1> QED
    BY <1>1, <1>2, AsideArrive, AsideContinue, AsideRequest, FaultsCut
       DEF Next, ContinueRequest, Opens, Begins, Reads, Fault, Places

\* A release with a new key begins its payout.
LEMMA BeginMoves ==
    ASSUME Places, NEW r \in Requests, Begins(r)
    PROVE  /\ job[r].esc \in Escrows /\ r \in Procs /\ Op(r) = "release"
           /\ After(r, job[r].esc, "release", loc[r].dispute, loc[r].todo)
           /\ pc' = [pc EXCEPT ![r] = "read"]
  <1>1. job[r].esc \in Escrows /\ r \in Procs /\ Op(r) = "release"
    BY JobFacts DEF Begins, LookupSettlement, EscrowOps, Places
  <1> QED
    BY <1>1, Starts DEF Begins, Places, Go

\* What the proofs of the invariants need to know of the places.
Known ==
    /\ pc \in [Procs -> {"new", "idle"} \cup Running \cup Terminal]
    /\ status \in [Escrows -> {"none", "held"} \cup Closed]
    /\ paid \in [Escrows -> Nat] /\ balance \in [Agents -> Int]
    /\ settlements \subseteq Procs \X Escrows /\ raced \subseteq Escrows
    /\ \A r \in Requests : r \in Procs /\ r # Scheduler /\ Op(r) = job[r].op
    /\ \A r \in Requests : pc[r] \in {"hold", "insert"} => Op(r) = "create"
    /\ pc[Scheduler] \notin {"hold", "insert"} /\ Scheduler \in Procs
    /\ \A p \in Procs : p \in Requests \/ p = Scheduler
    /\ \A p \in Procs : pc[p] \in Payout \cup {"decide"} => loc[p].esc \in Escrows
    /\ \A p \in Procs : loc[p].how \in {"release", "refund", "expire"}
    /\ \A p \in Procs : pc[p] = "record" => loc[p].how = "release"
    /\ \A p \in Procs : Key(p) # NoKey => /\ p \in Requests /\ Op(p) = "release"
                                          /\ Key(p) = job[p].key
    /\ \A p \in Procs : Op(p) = "release" /\ pc[p] \in Payout => loc[p].esc = job[p].esc
    /\ \A r \in Requests : Op(r) \in {"create", "release"} => job[r].esc \in Escrows
    /\ \A r, s \in Requests : r # s /\ Op(r) = "create" /\ Op(s) = "create" =>
           job[r].esc # job[s].esc
Kept ==
    /\ job' = job
    /\ \A p \in Procs : Op(p)' = Op(p) /\ Key(p)' = Key(p)

\* They hold wherever the places do.
LEMMA PlaceFacts ==
    ASSUME Places, [Next]_vars
    PROVE  Known /\ Kept
  <1>1. Known
    <2>1. /\ \A p \in Procs : p \in Requests \/ p = Scheduler
          /\ \A r \in Requests : r \in Procs /\ r # Scheduler /\ Op(r) = job[r].op
          /\ Scheduler \in Procs
      BY JobFacts DEF Procs, Places
    <2>2. /\ \A r \in Requests : Op(r) \in {"create", "release"} => job[r].esc \in Escrows
          /\ \A r, s \in Requests : r # s /\ Op(r) = "create" /\ Op(s) = "create" =>
                job[r].esc # job[s].esc
      BY <2>1, JobFacts DEF Places, EscrowOps, Jobs, FreshIds
    <2>3. \A p \in Procs : loc[p].how \in {"release", "refund", "expire"}
      BY DEF Places, EscrowTypes, Local
    <2>4. pc[Scheduler] \notin {"hold", "insert"}
      BY <2>1 DEF Places, Roles, Op
    <2> QED
      BY <2>1, <2>2, <2>3, <2>4 DEF Known, Places, EscrowTypes, Roles, Payout, Key
  <1>2. Kept
    BY JobKept DEF Kept, Op, Key
  <1> QED
    BY <1>1, <1>2

\* A row appears only by its creator's INSERT.
LEMMA UnbornStep ==
    ASSUME Places, Unborn, [Next]_vars
    PROVE  Unborn'
  <1>0. Known /\ Kept
    BY PlaceFacts
  <1> USE <1>0 DEF Known, Kept, Unborn, Payout, Go, environment, tables, history, Closed
  <1>1. CASE Still
    BY <1>1 DEF Still
  <1>2. CASE Cuts
    BY <1>2 DEF Cuts
  <1>3. ASSUME NEW p \in Procs, Aside(p) PROVE Unborn'
    BY <1>3 DEF Aside
  <1>4. ASSUME NEW p \in Procs, Reads(p) PROVE Unborn'
    BY <1>4 DEF Reads, ReadEscrow
  <1>5. ASSUME NEW p \in Procs, Pay(p) PROVE Unborn'
    BY <1>5 DEF Pay, Raised
  <1>6. ASSUME NEW p \in Procs, Record(p) PROVE Unborn'
    BY <1>6 DEF Record, Raised
  <1>7. ASSUME NEW p \in Procs, Close(p) PROVE Unborn'
    <2>1. loc[p].esc \in Escrows /\ Outcome[loc[p].how] # "none" /\ status[loc[p].esc] # "none"
      BY <1>7 DEF Close, Outcome
    <2> QED
      BY <1>7, <2>1 DEF Close, Succeeded
  <1>8. ASSUME NEW r \in Requests, Opens(r) PROVE Unborn'
    BY <1>8 DEF Opens, LookupEscrow
  <1>9. ASSUME NEW r \in Requests, Begins(r) PROVE Unborn'
    <2>1. /\ \A q \in Procs \ {r} : loc'[q] = loc[q]
          /\ pc' = [pc EXCEPT ![r] = "read"]
      BY <1>9, BeginMoves DEF After
    <2> QED
      BY <1>9, <2>1 DEF Begins, LookupSettlement
  <1>10. ASSUME NEW r \in Requests, Hold(r) PROVE Unborn'
    BY <1>10 DEF Hold
  <1>11. ASSUME NEW r \in Requests, InsertEscrow(r) PROVE Unborn'
    BY <1>11 DEF InsertEscrow
  <1> QED
    BY Steps, <1>1, <1>2, <1>3, <1>4, <1>5, <1>6, <1>7, <1>8, <1>9, <1>10, <1>11

\* Another holder of the key races both, and the row with it ends the stay.
LEMMA KeysAloneStep ==
    ASSUME Places, Unborn, KeysAlone, [Next]_vars
    PROVE  KeysAlone'
  <1>0. Known /\ Kept
    BY PlaceFacts
  <1> USE <1>0 DEF Known, Kept, Unborn, KeysAlone, Creating, Releasing, KeyHeld, Settled, Go, environment, tables, history
  <1>1. CASE Still
    BY <1>1 DEF Still
  <1>2. CASE Cuts
    BY <1>2 DEF Cuts
  <1>3. ASSUME NEW p \in Procs, Aside(p) PROVE KeysAlone'
    BY <1>3 DEF Aside
  <1>4. ASSUME NEW p \in Procs, Reads(p) PROVE KeysAlone'
    BY <1>4 DEF Reads, ReadEscrow
  <1>5. ASSUME NEW p \in Procs, Pay(p) PROVE KeysAlone'
    BY <1>5 DEF Pay, Raised
  <1>6. ASSUME NEW p \in Procs, Record(p) PROVE KeysAlone'
    BY <1>6 DEF Record, Raised
  <1>7. ASSUME NEW p \in Procs, Close(p) PROVE KeysAlone'
    BY <1>7 DEF Close, Succeeded
  <1>8. ASSUME NEW r \in Requests, Opens(r) PROVE KeysAlone'
    BY <1>8 DEF Opens, LookupEscrow
  <1>9. ASSUME NEW r \in Requests, Begins(r) PROVE KeysAlone'
    <2>1. pc' = [pc EXCEPT ![r] = "read"] /\ job[r].esc \in Escrows
      BY <1>9, BeginMoves
    <2>2. raced' = IF Releasing(Key(r)) = {} THEN raced
                   ELSE raced \cup {job[s].esc : s \in Releasing(Key(r)) \cup {r}}
      BY <1>9 DEF Begins, LookupSettlement, StartPayout
    <2>3. UNCHANGED <<status, settlements>> /\ ~Settled(Key(r))
      BY <1>9 DEF Begins, LookupSettlement
    <2> QED
      BY <2>1, <2>2, <2>3
  <1>10. ASSUME NEW r \in Requests, Hold(r) PROVE KeysAlone'
    BY <1>10 DEF Hold
  <1>11. ASSUME NEW r \in Requests, InsertEscrow(r) PROVE KeysAlone'
    BY <1>11 DEF InsertEscrow
  <1> QED
    BY Steps, <1>1, <1>2, <1>3, <1>4, <1>5, <1>6, <1>7, <1>8, <1>9, <1>10, <1>11

\* The order of the statements: deposit, row, status.
LEMMA PaidFirstStep ==
    ASSUME Places, PaidFirst, Unborn, [Next]_vars
    PROVE  PaidFirst'
  <1>0. Known /\ Kept
    BY PlaceFacts
  <1> USE <1>0 DEF Known, Kept, PaidFirst, Unborn, Payout, Go, environment, tables, history, Closed
  <1>1. CASE Still
    BY <1>1 DEF Still
  <1>2. CASE Cuts
    BY <1>2 DEF Cuts
  <1>3. ASSUME NEW p \in Procs, Aside(p) PROVE PaidFirst'
    BY <1>3 DEF Aside
  <1>4. ASSUME NEW p \in Procs, Reads(p) PROVE PaidFirst'
    BY <1>4 DEF Reads, ReadEscrow
  <1>5. ASSUME NEW p \in Procs, Pay(p) PROVE PaidFirst'
    BY <1>5 DEF Pay, Raised
  <1>6. ASSUME NEW p \in Procs, Record(p) PROVE PaidFirst'
    BY <1>6 DEF Record, Raised
  <1>7. ASSUME NEW p \in Procs, Close(p) PROVE PaidFirst'
    <2>1. loc[p].esc \in Escrows /\ Outcome[loc[p].how] \in Closed
          /\ (Outcome[loc[p].how] = "settled" => loc[p].how = "release")
      BY <1>7 DEF Close, Outcome, Payout
    <2> QED
      BY <1>7, <2>1 DEF Close, Succeeded
  <1>8. ASSUME NEW r \in Requests, Opens(r) PROVE PaidFirst'
    BY <1>8 DEF Opens, LookupEscrow
  <1>9. ASSUME NEW r \in Requests, Begins(r) PROVE PaidFirst'
    <2>1. /\ \A q \in Procs \ {r} : loc'[q] = loc[q]
          /\ pc' = [pc EXCEPT ![r] = "read"]
      BY <1>9, BeginMoves DEF After
    <2> QED
      BY <1>9, <2>1 DEF Begins, LookupSettlement
  <1>10. ASSUME NEW r \in Requests, Hold(r) PROVE PaidFirst'
    BY <1>10 DEF Hold
  <1>11. ASSUME NEW r \in Requests, InsertEscrow(r) PROVE PaidFirst'
    BY <1>11 DEF InsertEscrow
  <1> QED
    BY Steps, <1>1, <1>2, <1>3, <1>4, <1>5, <1>6, <1>7, <1>8, <1>9, <1>10, <1>11

\* A second payer races the escrow, and so does a fault in the middle.
LEMMA PayerAloneStep ==
    ASSUME Places, PayerAlone, KeysAlone, Unborn, [Next]_vars
    PROVE  PayerAlone'
  <1>0. Known /\ Kept
    BY PlaceFacts
  <1> USE <1>0 DEF Known, Kept, PayerAlone, Unborn, Paying, Payout, Go, environment, tables, history, Closed
  <1>1. CASE Still
    BY <1>1 DEF Still
  <1>2. CASE Cuts
    <2>1. ASSUME NEW e \in Escrows \ raced'
          PROVE  /\ e \notin raced
                 /\ \A p \in Procs : loc[p].esc = e /\ pc[p] \in {"record", "close"} => pc'[p] = pc[p]
      BY <1>2 DEF Cuts, LeftBehind
    <2>2. \A p \in Procs : pc'[p] \in {"pay", "record", "close", "decide"} => pc'[p] = pc[p]
      BY <1>2 DEF Cuts
    <2>3. UNCHANGED <<status, paid, settlements, loc>>
      BY <1>2 DEF Cuts
    <2> QED
      BY <2>1, <2>2, <2>3
  <1>3. ASSUME NEW p \in Procs, Aside(p) PROVE PayerAlone'
    BY <1>3 DEF Aside
  <1>4. ASSUME NEW p \in Procs, Reads(p) PROVE PayerAlone'
    BY <1>4 DEF Reads, ReadEscrow
  <1>5. ASSUME NEW p \in Procs, Pay(p) PROVE PayerAlone'
    BY <1>5 DEF Pay, Raised
  <1>6. ASSUME NEW p \in Procs, Record(p) PROVE PayerAlone'
    <2> DEFINE e == loc[p].esc
    <2>1. e \in Escrows /\ p \in Paying(e)
      BY <1>6 DEF Record
    <2>2. CASE Key(p) # NoKey /\ Settled(Key(p))
      <3>1. e \in raced
        BY <1>6, <2>1, <2>2 DEF Record, KeysAlone
      <3>2. \A f \in Escrows \ {e} : Paying(f)' = Paying(f)
        BY <1>6, <2>2 DEF Record, Raised
      <3>3. UNCHANGED <<status, paid, settlements, raced, loc>>
        BY <1>6, <2>2 DEF Record
      <3>4. \A q \in Procs \ {p} : pc'[q] = pc[q]
        BY <1>6, <2>2 DEF Record
      <3> QED
        BY <3>1, <3>2, <3>3, <3>4
    <2>3. CASE ~ (Key(p) # NoKey /\ Settled(Key(p)))
      <3>1. \A f \in Escrows : Paying(f)' = Paying(f)
        BY <1>6, <2>3 DEF Record
      <3>2. UNCHANGED <<status, paid, raced, loc>> /\ settlements' = settlements \cup {<<p, e>>}
        BY <1>6, <2>3 DEF Record
      <3>3. pc' = [pc EXCEPT ![p] = "close"] /\ loc[p].how = "release"
        BY <1>6, <2>3 DEF Record
      <3> QED
        BY <1>6, <2>1, <3>1, <3>2, <3>3 DEF Record
    <2> QED
      BY <2>2, <2>3
  <1>7. ASSUME NEW p \in Procs, Close(p) PROVE PayerAlone'
    <2> DEFINE e == loc[p].esc
    <2>1. /\ e \in Escrows /\ p \in Paying(e)
          /\ Outcome[loc[p].how] \in Closed
          /\ loc[p].how = "release" => Outcome[loc[p].how] = "settled"
      BY <1>7 DEF Close, Outcome
    <2>2. /\ status' = [status EXCEPT ![e] = Outcome[loc[p].how]]
          /\ UNCHANGED <<paid, settlements, raced, loc>>
          /\ \A q \in Procs \ {p} : pc'[q] = pc[q]
          /\ pc'[p] \notin {"pay", "record", "close"} /\ pc[p] = "close"
      BY <1>7 DEF Close, Succeeded
    <2>3. \A f \in Escrows \ {e} : Paying(f)' = Paying(f)
      BY <2>2
    <2>4. e \notin raced => Paying(e)' = {} /\ paid[e] = 1
      BY <2>1, <2>2
    <2>5. e \notin raced => \A s \in settlements : s[2] = e => status'[e] = "settled"
      BY <2>1, <2>2
    <2> HIDE DEF e
    <2> QED
      BY <2>1, <2>2, <2>3, <2>4, <2>5
  <1>8. ASSUME NEW r \in Requests, Opens(r) PROVE PayerAlone'
    BY <1>8 DEF Opens, LookupEscrow
  <1>9. ASSUME NEW r \in Requests, Begins(r) PROVE PayerAlone'
    <2>1. /\ \A q \in Procs \ {r} : loc'[q] = loc[q]
          /\ pc' = [pc EXCEPT ![r] = "read"]
      BY <1>9, BeginMoves DEF After
    <2> QED
      BY <1>9, <2>1 DEF Begins, LookupSettlement
  <1>10. ASSUME NEW r \in Requests, Hold(r) PROVE PayerAlone'
    BY <1>10 DEF Hold
  <1>11. ASSUME NEW r \in Requests, InsertEscrow(r) PROVE PayerAlone'
    BY <1>11 DEF InsertEscrow
  <1> QED
    BY Steps, <1>1, <1>2, <1>3, <1>4, <1>5, <1>6, <1>7, <1>8, <1>9, <1>10, <1>11

\* A closed escrow stays closed until its decision is written.
LEMMA DecidingStep ==
    ASSUME Places, Deciding, PayerAlone, Unborn, [Next]_vars
    PROVE  Deciding'
  <1>0. Known /\ Kept
    BY PlaceFacts
  <1> USE <1>0 DEF Known, Kept, Deciding, PayerAlone, Unborn, Paying, Payout, Go, environment, tables, history, Closed
  <1>1. CASE Still
    BY <1>1 DEF Still
  <1>2. CASE Cuts
    BY <1>2 DEF Cuts
  <1>3. ASSUME NEW p \in Procs, Aside(p) PROVE Deciding'
    BY <1>3 DEF Aside
  <1>4. ASSUME NEW p \in Procs, Reads(p) PROVE Deciding'
    BY <1>4 DEF Reads, ReadEscrow
  <1>5. ASSUME NEW p \in Procs, Pay(p) PROVE Deciding'
    BY <1>5 DEF Pay, Raised
  <1>6. ASSUME NEW p \in Procs, Record(p) PROVE Deciding'
    BY <1>6 DEF Record, Raised
  <1>7. ASSUME NEW p \in Procs, Close(p) PROVE Deciding'
    <2>1. loc[p].esc \in Escrows /\ Outcome[loc[p].how] \in Closed
          /\ (Outcome[loc[p].how] = "settled" => loc[p].how = "release")
      BY <1>7 DEF Close, Outcome, Payout
    <2> QED
      BY <1>7, <2>1 DEF Close, Succeeded
  <1>8. ASSUME NEW r \in Requests, Opens(r) PROVE Deciding'
    BY <1>8 DEF Opens, LookupEscrow
  <1>9. ASSUME NEW r \in Requests, Begins(r) PROVE Deciding'
    <2>1. /\ \A q \in Procs \ {r} : loc'[q] = loc[q]
          /\ pc' = [pc EXCEPT ![r] = "read"]
      BY <1>9, BeginMoves DEF After
    <2> QED
      BY <1>9, <2>1 DEF Begins, LookupSettlement
  <1>10. ASSUME NEW r \in Requests, Hold(r) PROVE Deciding'
    BY <1>10 DEF Hold
  <1>11. ASSUME NEW r \in Requests, InsertEscrow(r) PROVE Deciding'
    <2>1. status[job[r].esc] = "none" /\ job[r].esc \in Escrows
      BY <1>11 DEF InsertEscrow
    <2>2. \A e \in Escrows : status'[e] = status[e] \/ e = job[r].esc
      BY <1>11 DEF InsertEscrow
    <2>3. \A q \in Requests : pc'[q] = "decide" => pc[q] = "decide"
      BY <1>11 DEF InsertEscrow
    <2> QED
      BY <1>11, <2>1, <2>2, <2>3 DEF InsertEscrow
  <1> QED
    BY Steps, <1>1, <1>2, <1>3, <1>4, <1>5, <1>6, <1>7, <1>8, <1>9, <1>10, <1>11

\* What is closed stays closed, and as it was closed unless it is raced.
ClosedKept ==
    \A e \in Escrows : status[e] \in Closed =>
        /\ status'[e] \in Closed
        /\ e \notin raced' => status'[e] = status[e]

\* A status is overwritten only by a payer, and an unraced one is alone.
LEMMA ClosedStep ==
    ASSUME Places, PayerAlone, Unborn, [Next]_vars
    PROVE  ClosedKept
  <1>0. Known /\ Kept
    BY PlaceFacts
  <1> USE <1>0 DEF ClosedKept, Known, Kept, PayerAlone, Unborn, Paying, environment, tables, history, Closed
  <1>1. CASE Still
    BY <1>1 DEF Still
  <1>2. CASE Cuts
    BY <1>2 DEF Cuts
  <1>3. ASSUME NEW p \in Procs, Aside(p) PROVE ClosedKept
    BY <1>3 DEF Aside
  <1>4. ASSUME NEW p \in Procs, Reads(p) PROVE ClosedKept
    BY <1>4 DEF Reads, ReadEscrow
  <1>5. ASSUME NEW p \in Procs, Pay(p) PROVE ClosedKept
    BY <1>5 DEF Pay, Raised
  <1>6. ASSUME NEW p \in Procs, Record(p) PROVE ClosedKept
    BY <1>6 DEF Record, Raised
  <1>7. ASSUME NEW p \in Procs, Close(p) PROVE ClosedKept
    <2>1. loc[p].esc \in Escrows /\ Outcome[loc[p].how] \in Closed
      BY <1>7 DEF Close, Outcome, Payout
    <2> QED
      BY <1>7, <2>1 DEF Close
  <1>8. ASSUME NEW r \in Requests, Opens(r) PROVE ClosedKept
    BY <1>8 DEF Opens, LookupEscrow
  <1>9. ASSUME NEW r \in Requests, Begins(r) PROVE ClosedKept
    BY <1>9 DEF Begins, LookupSettlement
  <1>10. ASSUME NEW r \in Requests, Hold(r) PROVE ClosedKept
    BY <1>10 DEF Hold
  <1>11. ASSUME NEW r \in Requests, InsertEscrow(r) PROVE ClosedKept
    BY <1>11 DEF InsertEscrow
  <1> QED
    BY Steps, <1>1, <1>2, <1>3, <1>4, <1>5, <1>6, <1>7, <1>8, <1>9, <1>10, <1>11

\* A race is never forgotten.
LEMMA RacedStep ==
    ASSUME Places, [Next]_vars
    PROVE  raced \subseteq raced'
  <1>0. Known /\ Kept
    BY PlaceFacts
  <1> USE <1>0 DEF Known, Kept, environment, tables, history
  <1>1. CASE Still
    BY <1>1 DEF Still
  <1>2. CASE Cuts
    BY <1>2 DEF Cuts
  <1>3. ASSUME NEW p \in Procs, Aside(p) PROVE raced \subseteq raced'
    BY <1>3 DEF Aside
  <1>4. ASSUME NEW p \in Procs, Reads(p) PROVE raced \subseteq raced'
    BY <1>4 DEF Reads, ReadEscrow
  <1>5. ASSUME NEW p \in Procs, Pay(p) PROVE raced \subseteq raced'
    BY <1>5 DEF Pay, Raised
  <1>6. ASSUME NEW p \in Procs, Record(p) PROVE raced \subseteq raced'
    BY <1>6 DEF Record, Raised
  <1>7. ASSUME NEW p \in Procs, Close(p) PROVE raced \subseteq raced'
    BY <1>7 DEF Close, Succeeded
  <1>8. ASSUME NEW r \in Requests, Opens(r) PROVE raced \subseteq raced'
    BY <1>8 DEF Opens, LookupEscrow
  <1>9. ASSUME NEW r \in Requests, Begins(r) PROVE raced \subseteq raced'
    BY <1>9 DEF Begins, LookupSettlement
  <1>10. ASSUME NEW r \in Requests, Hold(r) PROVE raced \subseteq raced'
    BY <1>10 DEF Hold
  <1>11. ASSUME NEW r \in Requests, InsertEscrow(r) PROVE raced \subseteq raced'
    BY <1>11 DEF InsertEscrow
  <1> QED
    BY Steps, <1>1, <1>2, <1>3, <1>4, <1>5, <1>6, <1>7, <1>8, <1>9, <1>10, <1>11

\* Nothing is paid or closed when the workload starts.
LEMMA OrderedInit == Init => Ordered
  <1> SUFFICES ASSUME Init PROVE Ordered
    OBVIOUS
  <1>1. Places
    BY PlacesInit
  <1>2. \A r \in Requests : /\ r \in Procs /\ Op(r) = job[r].op
                            /\ job[r].op = "create" => job[r].esc \in Escrows \ Held0
    BY <1>1, JobFacts DEF Places, EscrowOps
  <1>3. \A p \in Procs : pc[p] \in {"new", "idle"}
    BY DEF Init
  <1>4. /\ \A e \in Escrows : status[e] = IF e \in Held0 THEN "held" ELSE "none"
        /\ \A e \in Escrows : paid[e] = 0
        /\ settlements = {}
    BY DEF Init
  <1> QED
    BY <1>2, <1>3, <1>4
       DEF Ordered, Unborn, KeysAlone, PaidFirst, PayerAlone, Deciding, Paying, Closed

\* Every step keeps all five.
LEMMA OrderedStep == Places /\ Ordered /\ [Next]_vars => Ordered'
  BY UnbornStep, KeysAloneStep, PaidFirstStep, PayerAloneStep, DecidingStep DEF Ordered

\* The inductive invariant, of every behaviour.
LEMMA OrderedHolds == Spec => [](Places /\ Ordered)
  BY PlacesInit, PlacesStep, OrderedInit, OrderedStep, PTL DEF Spec

\* An escrow is paid out once, whoever competes for it, unless two of them
\* overlap between reading HELD and writing the status or a fault falls there.
THEOREM EscrowPaidOnceUnlessRaced == Spec => []PaidOnce
  <1>1. Places /\ Ordered => PaidOnce
    <2> SUFFICES ASSUME Places, Ordered, NEW e \in Escrows \ raced PROVE paid[e] <= 1
      BY DEF PaidOnce
    <2>1. CASE Paying(e) = {}
      BY <2>1 DEF Ordered, PayerAlone
    <2>2. CASE Paying(e) # {}
      <3>1. PICK p \in Paying(e) : TRUE
        BY <2>2
      <3>2. paid[e] = IF pc[p] = "pay" THEN 0 ELSE 1
        BY DEF Ordered, PayerAlone
      <3> QED
        BY <3>2
    <2> QED
      BY <2>1, <2>2
  <1> QED
    BY <1>1, OrderedHolds, PTL

\* The status, the settlement row and the payee's deposit are three commits in
\* two databases; what the status says was done has been done.
THEOREM EscrowPayoutsRecorded == Spec => []PayoutsRecorded
  <1>1. Places /\ Ordered => StatusTellsPayout
    BY DEF StatusTellsPayout, Ordered, PaidFirst, PayerAlone, Closed
  <1>2. Places /\ Ordered => SettlementMatches
    <2> SUFFICES ASSUME Places, Ordered, NEW e \in Escrows
                 PROVE  LET rows == {s \in settlements : s[2] = e} IN
                        /\ status[e] = "settled" => rows # {}
                        /\ Quiet /\ e \notin raced /\ rows # {} => status[e] = "settled"
      BY DEF SettlementMatches
    <2>1. status[e] = "settled" => \E s \in settlements : s[2] = e
      BY DEF Ordered, PaidFirst
    <2>2. Quiet => Paying(e) = {}
      BY DEF Quiet, Paying, Terminal
    <2>3. Quiet /\ e \notin raced => \A s \in settlements : s[2] = e => status[e] = "settled"
      BY <2>2 DEF Ordered, PayerAlone
    <2> QED
      BY <2>1, <2>3
  <1> QED
    BY <1>1, <1>2, OrderedHolds, PTL DEF PayoutsRecorded

\* update_escrow_status has no condition on the status it replaces: that it
\* nevertheless replaces HELD only is the payer's being alone.
THEOREM EscrowClosedForGood == Spec => ClosedForGood
  <1>1. Places /\ Ordered /\ [Next]_vars =>
            [\A e \in Escrows \ raced' : status[e] \in Closed => status'[e] = status[e]]_vars
    BY ClosedStep DEF ClosedKept, Ordered
  <1> QED
    BY <1>1, OrderedHolds, PTL DEF Spec, ClosedForGood

-----------------------------------------------------------------------------
\* Only three statements write a dispute, and only the last one its decision.
LEMMA DecisionsWritten ==
    ASSUME Places, [Next]_vars, NEW d \in Disputes
    PROVE  \/ dispute'[d].resolution = dispute[d].resolution
           \/ \E r \in Requests : Decide(r) /\ d = loc[r].dispute
                                  /\ dispute'[d].resolution = loc[r].how
  <1>0. /\ dispute \in [Disputes -> Dispute]
        /\ \A r \in Requests : r \in Procs
    BY DEF Places, EscrowTypes, Procs
  <1> USE <1>0 DEF Dispute, tables, environment, history
  <1>1. ASSUME NEW p \in Procs, Continue(p) \/ ListExpired(p) PROVE dispute' = dispute
    BY <1>1 DEF Continue, ReadEscrow, Pay, Record, Close, NextRow, EndPass, ListExpired
  <1>2. ASSUME NEW r \in Requests, Arrive(r) \/ ResolveDispute(r) \/ Hold(r) \/ InsertEscrow(r)
        PROVE  dispute' = dispute
    BY <1>2 DEF Arrive, LookupEscrow, LookupSettlement, CancelEscrow, CheckPerformance, ListLate,
                OpenDispute, Respond, ResolveDispute, Hold, InsertEscrow
  <1>3. ASSUME NEW r \in Requests, InsertDispute(r) \/ WriteResponse(r)
        PROVE  dispute'[d].resolution = dispute[d].resolution
    BY <1>3 DEF InsertDispute, WriteResponse
  <1>4. ASSUME NEW r \in Requests, Decide(r)
        PROVE  \/ dispute'[d].resolution = dispute[d].resolution
               \/ d = loc[r].dispute /\ dispute'[d].resolution = loc[r].how
    BY <1>4 DEF Decide
  <1>5. ASSUME \/ \E x \in Escrows \cup Disputes : Expire(x)
               \/ \E a \in Freezable : SetFrozen(a)
               \/ CrashProcess \/ (\E r \in Requests : TimeOut(r)) \/ UNCHANGED vars
        PROVE  dispute' = dispute
    BY <1>5 DEF Expire, SetFrozen, CrashProcess, TimeOut, vars
  <1>6. Scheduler \in Procs
    BY DEF Procs
  <1> QED
    BY <1>1, <1>2, <1>3, <1>4, <1>5, <1>6 DEF Next, ContinueRequest

\* Only Decide writes a decision, and the escrow it decided stays closed.
LEMMA ResolutionStep ==
    ASSUME Places, Ordered, ResolutionCarriedOut, [Next]_vars
    PROVE  ResolutionCarriedOut'
  <1> SUFFICES ASSUME NEW d \in Disputes, dispute'[d].resolution # "none"
               PROVE  /\ status'[Subject[d]] \in Closed
                      /\ Subject[d] \notin raced' =>
                             status'[Subject[d]] = Outcome[dispute'[d].resolution]
    BY DEF ResolutionCarriedOut, Closed
  <1>1. /\ Subject[d] \in Escrows
        /\ raced \subseteq raced' /\ ClosedKept
    BY Constants, RacedStep, ClosedStep DEF Ordered
  <1>2. CASE dispute'[d].resolution = dispute[d].resolution
    BY <1>1, <1>2 DEF ResolutionCarriedOut, ClosedKept
  <1>3. ASSUME NEW r \in Requests, Decide(r), d = loc[r].dispute,
               dispute'[d].resolution = loc[r].how
        PROVE  /\ status'[Subject[d]] \in Closed
               /\ Subject[d] \notin raced' =>
                      status'[Subject[d]] = Outcome[dispute'[d].resolution]
    <2>1. loc[r].esc = Subject[d]
      BY <1>3 DEF Decide, Places, Roles, Procs
    <2>2. /\ status[Subject[d]] \in Closed
          /\ Subject[d] \notin raced => status[Subject[d]] = Outcome[loc[r].how]
      BY <1>3, <2>1 DEF Decide, Ordered, Deciding
    <2> QED
      BY <1>1, <1>3, <2>2 DEF ClosedKept
  <1> QED
    BY <1>2, <1>3, DecisionsWritten

\* A decision about a dispute is written after it was carried out, and stays
\* true of the escrow, unless the escrow was raced.
THEOREM EscrowResolutionCarriedOut == Spec => []ResolutionCarriedOut
  <1>1. Init => ResolutionCarriedOut
    BY DEF Init, ResolutionCarriedOut
  <1> QED
    BY <1>1, ResolutionStep, PlacesInit, PlacesStep, OrderedInit, OrderedStep, PTL DEF Spec

-----------------------------------------------------------------------------
\* The credits that are in no wallet.
LEMMA BackedFacts ==
    ASSUME Known, Unborn
    PROVE  /\ IsFiniteSet(Escrows) /\ IsFiniteSet(Agents)
           /\ Backed \subseteq Escrows /\ IsFiniteSet(Backed)
           /\ \A e \in Escrows : Price[e] \in Int /\ Price[e] = Terms[e].amount
  <1>1. Backed \subseteq Escrows
    BY DEF Known, Backed, Unspent, Inserting
  <1> QED
    BY <1>1, EscrowTables, Constants, FS_Subset DEF Price

\* One wallet's change is the change of the sum.
LEMMA BalanceMoves ==
    ASSUME NEW a \in Agents, \A x \in Agents : balance[x] \in Int,
           \A x \in Agents : balance'[x] \in Int,
           \A x \in Agents \ {a} : balance'[x] = balance[x]
    PROVE  Sum(balance', Agents) = Sum(balance, Agents) + balance'[a] - balance[a]
  BY EscrowTables, SumUpdate

\* What the state comes to when credits leave a wallet for an escrow, or an
\* escrow for a wallet.
LEMMA Deposited ==
    ASSUME Known, Unborn, NEW e \in Backed, NEW a \in Agents,
           balance' = [balance EXCEPT ![a] = @ + Terms[e].amount], Backed' = Backed \ {e}
    PROVE  Sum(balance', Agents) + Sum(Price, Backed') = Sum(balance, Agents) + Sum(Price, Backed)
  <1>1. /\ \A x \in Agents : balance[x] \in Int
        /\ e \in Escrows /\ Price[e] = Terms[e].amount /\ Price[e] \in Int
    BY BackedFacts DEF Known
  <1>2. /\ \A x \in Agents : balance'[x] \in Int
        /\ \A x \in Agents \ {a} : balance'[x] = balance[x]
        /\ balance'[a] = balance[a] + Price[e]
    BY <1>1 DEF Known
  <1>3. Sum(balance', Agents) = Sum(balance, Agents) + balance'[a] - balance[a]
    BY <1>1, <1>2, BalanceMoves
  <1>4. Sum(Price, Backed) = Price[e] + Sum(Price, Backed \ {e})
    BY BackedFacts, SumRemove
  <1>5. IsFiniteSet(Backed \ {e}) /\ \A x \in Backed \ {e} : Price[x] \in Int
    BY BackedFacts, FS_RemoveElement
  <1>6. Sum(balance, Agents) \in Int /\ Sum(Price, Backed \ {e}) \in Int
    BY <1>1, <1>5, BackedFacts, SumType
  <1> QED
    BY <1>1, <1>2, <1>3, <1>4, <1>6

\* The same, the other way.
LEMMA Withdrawn ==
    ASSUME Known, Unborn, NEW e \in Escrows \ Backed, NEW a \in Agents,
           balance' = [balance EXCEPT ![a] = @ - Terms[e].amount], Backed' = Backed \cup {e}
    PROVE  Sum(balance', Agents) + Sum(Price, Backed') = Sum(balance, Agents) + Sum(Price, Backed)
  <1>1. /\ \A x \in Agents : balance[x] \in Int
        /\ Price[e] = Terms[e].amount /\ Price[e] \in Int
    BY BackedFacts DEF Known
  <1>2. /\ \A x \in Agents : balance'[x] \in Int
        /\ \A x \in Agents \ {a} : balance'[x] = balance[x]
        /\ balance'[a] = balance[a] - Price[e]
    BY <1>1 DEF Known
  <1>3. Sum(balance', Agents) = Sum(balance, Agents) + balance'[a] - balance[a]
    BY <1>1, <1>2, BalanceMoves
  <1>4. \A x \in Backed \cup {e} : Price[x] \in Int
    BY BackedFacts
  <1>5. Sum(Price, Backed \cup {e}) = Sum(Price, Backed) + Price[e]
    BY <1>4, BackedFacts, SumAdd
  <1>6. Sum(balance, Agents) \in Int /\ Sum(Price, Backed) \in Int
    BY <1>1, <1>4, BackedFacts, SumType
  <1> QED
    BY <1>1, <1>2, <1>3, <1>5, <1>6

\* The sum that no step without a race changes.
Whole == Sum(balance, Agents) + Sum(Price, Backed) = Sum(Start, Agents) + Sum(Price, Held0)

\* Hold moves the amount out of the wallet, Pay moves it into one; the other
\* steps move no credits and leave what is backed.
LEMMA ConservedStep ==
    ASSUME Places, Ordered, Conserved, [Next]_vars
    PROVE  Conserved'
  <1> SUFFICES ASSUME raced' = {} PROVE Whole'
    BY DEF Conserved, Whole
  <1>0. Known /\ Kept /\ Unborn /\ KeysAlone /\ PayerAlone /\ raced = {} /\ Whole
    BY PlaceFacts, RacedStep DEF Ordered, Conserved, Whole
  <1>1. ASSUME balance' = balance, Unspent' = Unspent, Inserting' = Inserting
        PROVE  Whole'
    BY <1>1, <1>0 DEF Whole, Backed, Kept
  <1>2. CASE Still
    <2>1. balance' = balance /\ Unspent' = Unspent /\ Inserting' = Inserting
      BY <1>2 DEF Still, Unspent, Inserting
    <2> QED
      BY <1>1, <2>1
  <1>3. CASE Cuts
    <2>1. balance' = balance /\ Unspent' = Unspent
      BY <1>3 DEF Cuts, Unspent
    <2>2. ASSUME NEW r \in Inserting PROVE pc'[r] = pc[r]
      <3>1. r \in Procs /\ LeftBehind(r) = {job[r].esc}
        BY DEF Inserting, LeftBehind, Procs
      <3> QED
        BY <1>3, <3>1 DEF Cuts
    <2>3. Inserting' = Inserting
      BY <1>3, <2>2 DEF Cuts, Inserting, Procs
    <2> QED
      BY <1>1, <2>1, <2>3
  <1>4. ASSUME NEW p \in Procs, Aside(p) PROVE Whole'
    <2>1. balance' = balance /\ Unspent' = Unspent
      BY <1>4 DEF Aside, Unspent
    <2>2. Inserting' = Inserting
      BY <1>0, <1>4 DEF Aside, Inserting, Known
    <2> QED
      BY <1>1, <2>1, <2>2
  <1>5. ASSUME NEW p \in Procs, ReadEscrow(p) \/ Record(p) PROVE Whole'
    <2>1. balance' = balance /\ Unspent' = Unspent
      BY <1>5 DEF ReadEscrow, Record, Unspent, tables, history
    <2>2. \E next \in {"pay", "done", "next", "idle", "error", "close"} :
              pc' = [pc EXCEPT ![p] = next] /\ pc[p] # "insert"
      BY <1>5 DEF ReadEscrow, Record, Go, Raised
    <2>3. Inserting' = Inserting
      BY <1>0, <2>2 DEF Inserting, Known
    <2> QED
      BY <1>1, <2>1, <2>3
  <1>6. ASSUME NEW p \in Procs, Pay(p) PROVE Whole'
    <2> DEFINE e == loc[p].esc
               a == Beneficiary(e, loc[p].how)
    <2>1. Inserting' = Inserting
      BY <1>0, <1>6 DEF Pay, Go, Raised, Inserting, Known
    <2>2. CASE a \in Wallets0 \ frozen
      <3>1. e \in Escrows /\ p \in Paying(e) /\ a \in Agents
        BY <1>0, <1>6, <2>2, EscrowConstants DEF Pay, Known, Payout, Paying
      <3>2. status[e] = "held" /\ paid[e] = 0
        BY <1>0, <1>6, <3>1 DEF PayerAlone, Pay
      <3>3. /\ balance' = [balance EXCEPT ![a] = @ + Terms[e].amount]
            /\ paid' = [paid EXCEPT ![e] = @ + 1] /\ status' = status
        BY <1>6, <2>2 DEF Pay
      <3>4. Unspent' = Unspent \ {e} /\ e \in Unspent
        BY <1>0, <3>1, <3>2, <3>3 DEF Unspent, Known
      <3>5. \A r \in Inserting : job[r].esc # e
        BY <1>0, <3>2 DEF Inserting, Unborn, Known
      <3>6. Backed' = Backed \ {e} /\ e \in Backed
        BY <1>0, <2>1, <3>4, <3>5 DEF Backed, Kept
      <3>7. Sum(balance', Agents) + Sum(Price, Backed') = Sum(balance, Agents) + Sum(Price, Backed)
        BY <1>0, <3>1, <3>3, <3>6, Deposited
      <3> QED
        BY <1>0, <3>7 DEF Whole
    <2>3. CASE a \notin Wallets0 \ frozen
      <3>1. balance' = balance /\ Unspent' = Unspent
        BY <1>6, <2>3 DEF Pay, Unspent
      <3> QED
        BY <1>1, <2>1, <3>1
    <2> QED
      BY <2>2, <2>3
  <1>7. ASSUME NEW p \in Procs, Close(p) PROVE Whole'
    <2> DEFINE e == loc[p].esc
    <2>1. e \in Escrows /\ p \in Paying(e) /\ pc[p] = "close"
      BY <1>0, <1>7 DEF Close, Known, Payout, Paying
    <2>2. paid[e] = 1
      BY <1>0, <2>1 DEF PayerAlone
    <2>3. Unspent' = Unspent
      BY <1>0, <1>7, <2>1, <2>2 DEF Close, Unspent, Known, history
    <2>4. Inserting' = Inserting
      BY <1>0, <1>7 DEF Close, Go, Succeeded, Inserting, Known
    <2> QED
      BY <1>1, <1>7, <2>3, <2>4 DEF Close
  <1>8. ASSUME NEW r \in Requests, Opens(r) \/ Begins(r) PROVE Whole'
    <2>1. balance' = balance /\ Unspent' = Unspent
      BY <1>8 DEF Opens, LookupEscrow, Begins, LookupSettlement, Unspent, tables
    <2>2. \E next \in {"hold", "read"} : pc' = [pc EXCEPT ![r] = next] /\ pc[r] # "insert"
      BY <1>8 DEF Opens, LookupEscrow, Begins, LookupSettlement, StartPayout, Go
    <2>3. Inserting' = Inserting
      BY <1>0, <2>2 DEF Inserting, Known
    <2> QED
      BY <1>1, <2>1, <2>3
  <1>9. ASSUME NEW r \in Requests, Hold(r) PROVE Whole'
    <2> DEFINE e == job[r].esc
               t == Terms[e]
    <2>1. Unspent' = Unspent /\ e \in Escrows /\ status[e] = "none"
      BY <1>0, <1>9 DEF Hold, Unspent, history, Known, Unborn
    <2>2. CASE t.payer \in Wallets0 \ frozen /\ balance[t.payer] >= t.amount
      <3>1. /\ balance' = [balance EXCEPT ![t.payer] = @ - t.amount]
            /\ pc' = [pc EXCEPT ![r] = "insert"]
        BY <1>9, <2>2 DEF Hold, Go
      <3>2. Inserting' = Inserting \cup {r} /\ r \notin Inserting
        BY <1>0, <1>9, <3>1 DEF Inserting, Known, Hold
      <3>3. t.payer \in Agents
        BY <2>1, Constants
      <3>4. e \notin Unspent /\ \A q \in Inserting : job[q].esc # e
        BY <1>0, <1>9, <2>1 DEF Unspent, Inserting, Known, Hold
      <3>5. Backed' = Backed \cup {e} /\ e \notin Backed
        BY <1>0, <2>1, <3>2, <3>4 DEF Backed, Kept
      <3>6. Sum(balance', Agents) + Sum(Price, Backed') = Sum(balance, Agents) + Sum(Price, Backed)
        BY <1>0, <2>1, <3>1, <3>3, <3>5, Withdrawn
      <3> QED
        BY <1>0, <3>6 DEF Whole
    <2>3. CASE ~ (t.payer \in Wallets0 \ frozen /\ balance[t.payer] >= t.amount)
      <3>1. balance' = balance /\ Inserting' = Inserting
        BY <1>0, <1>9, <2>3 DEF Hold, Go, Inserting, Known
      <3> QED
        BY <1>1, <2>1, <3>1
    <2> QED
      BY <2>2, <2>3
  <1>10. ASSUME NEW r \in Requests, InsertEscrow(r) PROVE Whole'
    <2> DEFINE e == job[r].esc
    <2>1. /\ e \in Escrows /\ status[e] = "none" /\ paid[e] = 0 /\ r \in Inserting
          /\ job[r].key # NoKey => ~KeyHeld(job[r].key)
      BY <1>0, <1>10 DEF InsertEscrow, Known, Unborn, KeysAlone, Inserting
    <2>2. /\ status' = [status EXCEPT ![e] = "held"] /\ pc' = [pc EXCEPT ![r] = "done"]
          /\ UNCHANGED <<paid, balance>>
      BY <1>10, <2>1 DEF InsertEscrow, Go, history
    <2>3. Unspent' = Unspent \cup {e}
      BY <1>0, <2>1, <2>2 DEF Unspent, Known
    <2>4. Inserting' = Inserting \ {r}
      BY <1>0, <2>2 DEF Inserting, Known
    <2>5. Backed' = Backed
      BY <1>0, <2>1, <2>3, <2>4 DEF Backed, Kept
    <2> QED
      BY <1>0, <2>2, <2>5 DEF Whole
  <1> QED
    BY Steps, <1>2, <1>3, <1>4, <1>5, <1>6, <1>7, <1>8, <1>9, <1>10 DEF Reads

\* No credit appears or disappears between the wallets and the escrows, over
\* any sequence of creations, payouts, failures and retries without a race.
THEOREM EscrowFundsConserved == Spec => []FundsConserved
  <1>1. Init => Conserved
    <2> SUFFICES ASSUME Init PROVE Whole
      BY DEF Conserved, Whole
    <2>1. /\ \A e \in Escrows : status[e] = "held" <=> e \in Held0
          /\ \A e \in Escrows : paid[e] = 0
      BY DEF Init
    <2>2. Unspent = Held0
      BY <2>1, EscrowConstants DEF Unspent
    <2>3. Inserting = {}
      BY DEF Init, Inserting, Procs
    <2> QED
      BY <2>2, <2>3 DEF Init, Whole, Backed
  <1>2. Places /\ Ordered /\ Conserved => FundsConserved
    <2> SUFFICES ASSUME Places, Ordered, Conserved, Quiet, raced = {}
                 PROVE  Backed = {e \in Escrows : status[e] = "held"}
      BY DEF FundsConserved, Conserved
    <2>1. Inserting = {}
      BY DEF Inserting, Quiet, Terminal, Procs
    <2>2. \A e \in Escrows : Paying(e) = {}
      BY DEF Quiet, Paying, Terminal
    <2>3. \A e \in Escrows : status[e] = "held" => paid[e] = 0
      BY <2>2 DEF Ordered, PayerAlone, Closed
    <2> QED
      BY <2>1, <2>3 DEF Backed, Unspent
  <1> QED
    BY <1>1, <1>2, ConservedStep, PlacesInit, PlacesStep, OrderedInit, OrderedStep, PTL DEF Spec
=============================================================================
