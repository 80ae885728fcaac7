---------------------------- MODULE RequestProofs ----------------------------
(***************************************************************************)
(* Proofs about RequestPath, for any number of requests, any workload, any *)
(* prices and limits: that the rate limit, the budget and the bill hold    *)
(* over all the paths of a call, that a key of the gate stands for one     *)
(* body, and that a proof pays for one request.                            *)
(*                                                                         *)
(* The frame comes first: where a request of each route may stand, what a  *)
(* step may write, and where it leads.  Each property then has an          *)
(* inductive invariant of its own, which only the writers of its tables    *)
(* can disturb.                                                            *)
(***************************************************************************)
EXTENDS RequestPath, SumLemmas, SequenceTheorems, TLAPS

\* Where the requests of each route can stand.
Asking == {"new", "count", "burst", "countTool", "balance", "run", "findUsage",
           "insertUsage", "charge"} \cup Terminal
Gating == {"reserve", "lookup", "evict", "reinsert", "respond"}
Standing(r) ==
    IF ByProof(r) THEN {"new", "nonce", "verify", "run", "findUsage", "insertUsage", "settle"}
                       \cup Terminal
    ELSE CASE Route(r) = "rest" -> Asking \cup {"record", "budget"}
           [] Route(r) = "gate" -> Asking \cup {"record", "budget"}
                                          \cup (IF Key(r) = NoKey THEN {} ELSE Gating)
           [] Route(r) \in {"execute", "batch"} -> Asking \cup {"event"}
           [] Route(r) = "retry" -> {"new", "next"} \cup Terminal
           [] Route(r) = "idle" -> {"done"}

Awaits == Asking \cup Gating \cup {"record", "budget", "event", "next", "nonce", "verify", "settle"}

\* The awaits at which a request looks at one of its calls.
AtCall == {"countTool", "run", "findUsage", "insertUsage", "charge", "event"}

Jobs ==
    /\ \A r \in Requests :
          /\ job[r] \in Job
          /\ Route(r) # "batch" => Len(job[r].calls) = 1
          /\ ByProof(r) => Route(r) \in {"execute", "batch"}

\* The clock, the locals, and the call a request is at: a request is over
\* before the clock ticks twice.
Placed(r) ==
    /\ pc[r] \in Standing(r)
    /\ Route(r) # "batch" \/ pc[r] \in {"new", "count", "burst", "balance", "nonce", "verify"}
          => call[r] = 1
    /\ job[r].calls # <<>> => call[r] \in DOMAIN job[r].calls
    /\ pc[r] \in AtCall => job[r].calls # <<>>
    /\ Running(r) => since[r] <= now /\ now <= since[r] + 1
    /\ pc[r] \in {"lookup", "evict", "reinsert", "insertUsage"} => since[r] <= stamp[r]
    /\ stamp[r] <= now

Places ==
    /\ Jobs /\ now \in Nat
    /\ pc \in [Requests -> Awaits]
    /\ call \in [Requests -> Nat \ {0}]
    /\ since \in [Requests -> Nat] /\ stamp \in [Requests -> Nat]
    /\ after \in [Requests -> SUBSET Requests]
    /\ \A r \in Requests : Placed(r)

-----------------------------------------------------------------------------
\* What the constants are.
LEMMA Constants ==
    /\ NoKey \notin Keys /\ NoProof \notin Proofs /\ OldKeys \subseteq Keys /\ OldBody \in Bodies
    /\ HourLimit \in Nat /\ BurstLimit \in Nat /\ DailyCap \in Nat /\ Start \in Nat
    /\ Minute \in Nat /\ Hour \in Nat /\ Day \in Nat /\ Ttl \in Nat /\ Ttl >= 2
    /\ IsFiniteSet(Requests)
    /\ \A t \in Tools : Cost[t] \in Nat /\ ToolLimit[t] \in Nat
  BY RequestConstants, RequestTable

\* What a request is.
LEMMA JobFacts ==
    ASSUME Jobs, NEW r \in Requests
    PROVE  /\ Route(r) \in Routes /\ job[r].calls \in Seq(Tools) /\ Key(r) \in Keys \cup {NoKey}
           /\ Proof(r) \in Proofs \cup {NoProof}
           /\ ByProof(r) <=> Proof(r) \in Proofs
           /\ job[r].header \in BOOLEAN /\ job[r].body \in Bodies
           /\ Rest(r) => ~ByProof(r) /\ Route(r) # "batch"
           /\ Route(r) # "batch" => Len(job[r].calls) = 1 /\ job[r].calls # <<>>
           /\ Len(job[r].calls) \in Nat /\ DOMAIN job[r].calls = 1..Len(job[r].calls)
           /\ job[r].calls # <<>> => Len(job[r].calls) >= 1
           /\ \A n \in DOMAIN job[r].calls : job[r].calls[n] \in Tools
  <1>1. /\ job[r].route \in Routes /\ job[r].calls \in Seq(Tools)
        /\ job[r].key \in Keys \cup {NoKey} /\ job[r].proof \in Proofs \cup {NoProof}
        /\ job[r].header \in BOOLEAN /\ job[r].body \in Bodies
    BY DEF Jobs, Job
  <1>2. /\ Route(r) # "batch" => Len(job[r].calls) = 1
        /\ ByProof(r) => Route(r) \in {"execute", "batch"}
    BY DEF Jobs
  <1>3. Proof(r) # NoProof <=> Proof(r) \in Proofs
    BY <1>1, Constants DEF Proof
  <1> DEFINE calls == job[r].calls
  <1>4. /\ Len(calls) \in Nat /\ DOMAIN calls = 1..Len(calls)
        /\ \A n \in DOMAIN calls : calls[n] \in Tools
        /\ calls # <<>> => Len(calls) >= 1
    BY <1>1
  <1>5. Len(calls) = 1 => calls # <<>>
    <2>1. Len(<<>>) = 0
      BY EmptySeq
    <2> HIDE DEF calls
    <2> QED
      BY <2>1
  <1>6. ByProof(r) <=> Proof(r) \in Proofs
    BY <1>3 DEF ByProof
  <1>7. Rest(r) => ~ByProof(r) /\ Route(r) # "batch"
    BY <1>2 DEF Rest
  <1>8. Route(r) # "batch" => Len(calls) = 1 /\ calls # <<>>
    BY <1>2, <1>5
  <1> QED
    BY <1>1, <1>4, <1>6, <1>7, <1>8 DEF Route, Proof, Key

LEMMA PlacesInit == Init => Places
  <1> SUFFICES ASSUME Init PROVE Places
    OBVIOUS
  <1>1. Jobs
    BY RequestConstants DEF Init, Jobs, Route, ByProof, Proof
  <1>2. /\ now = 0 /\ call = [r \in Requests |-> 1]
        /\ since = [r \in Requests |-> 0] /\ stamp = [r \in Requests |-> 0]
        /\ after = [r \in Requests |-> {}]
        /\ pc = [r \in Requests |-> IF job[r].route = "idle" THEN "done" ELSE "new"]
    BY DEF Init
  <1>3. ASSUME NEW r \in Requests PROVE Placed(r)
    <2>1. pc[r] = (IF Route(r) = "idle" THEN "done" ELSE "new")
      BY <1>2 DEF Route
    <2>2. pc[r] \in Standing(r)
      BY <1>1, <2>1, JobFacts DEF Standing, Asking, Terminal, Routes, Jobs
    <2> QED
      BY <1>1, <1>2, <2>1, <2>2, JobFacts DEF Placed, Running, Terminal, AtCall
  <1>4. pc \in [Requests -> Awaits]
    BY <1>2 DEF Awaits, Asking, Terminal
  <1> QED
    BY <1>1, <1>2, <1>3, <1>4 DEF Places

\* A step of one request leaves the others where they are.
LEMMA OthersStay ==
    ASSUME Places, NEW r \in Requests, Step(r) \/ TimeOut(r)
    PROVE  /\ job' = job /\ now' = now
           /\ \A q \in Requests \ {r} :
                /\ pc'[q] = pc[q] /\ call'[q] = call[q] /\ since'[q] = since[q]
                /\ stamp'[q] = stamp[q] /\ after'[q] = after[q]
  <1>0. /\ pc = [q \in Requests |-> pc[q]] /\ call = [q \in Requests |-> call[q]]
        /\ since = [q \in Requests |-> since[q]] /\ stamp = [q \in Requests |-> stamp[q]]
        /\ after = [q \in Requests |-> after[q]]
    BY DEF Places
  <1> USE <1>0 DEF clock, begun, proofs, Go, NextCall, Billed, Charged, Enter
  <1>1. CASE TimeOut(r)
    BY <1>1 DEF TimeOut
  <1>2. CASE Begin(r) \/ RecordEvent(r) \/ CountHour(r) \/ CountBurst(r)
    BY <1>2 DEF Begin, RecordEvent, CountHour, CountBurst
  <1>3. CASE CountTool(r)
    BY <1>3 DEF CountTool
  <1>4. CASE CheckBalance(r) \/ CheckBudget(r) \/ RunTool(r)
    BY <1>4 DEF CheckBalance, CheckBudget, RunTool
  <1>5. CASE FindUsage(r) \/ InsertUsage(r)
    BY <1>5 DEF FindUsage, InsertUsage
  <1>6. CASE ChargeCall(r) \/ RecordEventAfter(r)
    BY <1>6 DEF ChargeCall, RecordEventAfter
  <1>7. CASE ReserveKey(r) \/ LookupKey(r) \/ EvictKey(r) \/ ReinsertKey(r) \/ RecordResponse(r)
    BY <1>7 DEF ReserveKey, LookupKey, EvictKey, ReinsertKey, RecordResponse
  <1>8. CASE ReserveNonce(r) \/ VerifyProof(r) \/ SettleProof(r)
    BY <1>8 DEF ReserveNonce, VerifyProof, SettleProof
  <1>9. CASE RetrySettlement(r) \/ ReplaceQueue(r)
    BY <1>9 DEF RetrySettlement, ReplaceQueue
  <1> QED
    BY <1>1, <1>2, <1>3, <1>4, <1>5, <1>6, <1>7, <1>8, <1>9 DEF Step

\* The locals stay functions on the requests.
LEMMA LocalsStay ==
    ASSUME Places, NEW r \in Requests, Step(r) \/ TimeOut(r)
    PROVE  /\ pc' = [q \in Requests |-> pc'[q]] /\ call' = [q \in Requests |-> call'[q]]
           /\ since' = [q \in Requests |-> since'[q]] /\ stamp' = [q \in Requests |-> stamp'[q]]
           /\ after' = [q \in Requests |-> after'[q]]
  <1>0. /\ pc = [q \in Requests |-> pc[q]] /\ call = [q \in Requests |-> call[q]]
        /\ since = [q \in Requests |-> since[q]] /\ stamp = [q \in Requests |-> stamp[q]]
        /\ after = [q \in Requests |-> after[q]]
    BY DEF Places
  <1> USE <1>0 DEF clock, begun, proofs, Go, NextCall, Billed, Charged, Enter
  <1>1. CASE TimeOut(r)
    BY <1>1 DEF TimeOut
  <1>2. CASE Begin(r) \/ RecordEvent(r) \/ CountHour(r) \/ CountBurst(r)
    BY <1>2 DEF Begin, RecordEvent, CountHour, CountBurst
  <1>3. CASE CountTool(r)
    BY <1>3 DEF CountTool
  <1>4. CASE CheckBalance(r) \/ CheckBudget(r) \/ RunTool(r)
    BY <1>4 DEF CheckBalance, CheckBudget, RunTool
  <1>5. CASE FindUsage(r) \/ InsertUsage(r)
    BY <1>5 DEF FindUsage, InsertUsage
  <1>6. CASE ChargeCall(r) \/ RecordEventAfter(r)
    BY <1>6 DEF ChargeCall, RecordEventAfter
  <1>7. CASE ReserveKey(r) \/ LookupKey(r) \/ EvictKey(r) \/ ReinsertKey(r) \/ RecordResponse(r)
    BY <1>7 DEF ReserveKey, LookupKey, EvictKey, ReinsertKey, RecordResponse
  <1>8. CASE ReserveNonce(r) \/ VerifyProof(r) \/ SettleProof(r)
    BY <1>8 DEF ReserveNonce, VerifyProof, SettleProof
  <1>9. CASE RetrySettlement(r) \/ ReplaceQueue(r)
    BY <1>9 DEF RetrySettlement, ReplaceQueue
  <1> QED
    BY <1>1, <1>2, <1>3, <1>4, <1>5, <1>6, <1>7, <1>8, <1>9 DEF Step

\* At each await a request has one step to take.
LEMMA StepAt ==
    ASSUME NEW r \in Requests, Step(r)
    PROVE  /\ pc[r] = "new" => Begin(r)
           /\ pc[r] = "record" => RecordEvent(r)
           /\ pc[r] = "run" => RunTool(r)
           /\ pc[r] = "findUsage" => FindUsage(r)
           /\ pc[r] = "insertUsage" => InsertUsage(r)
           /\ pc[r] = "charge" => ChargeCall(r)
           /\ pc[r] = "budget" => CheckBudget(r)
           /\ pc[r] = "reserve" => ReserveKey(r)
           /\ pc[r] = "lookup" => LookupKey(r)
           /\ pc[r] = "evict" => EvictKey(r)
           /\ pc[r] = "reinsert" => ReinsertKey(r)
           /\ pc[r] = "respond" => RecordResponse(r)
           /\ pc[r] = "nonce" => ReserveNonce(r)
           /\ pc[r] = "settle" => SettleProof(r)
           /\ pc[r] = "next" => RetrySettlement(r) \/ ReplaceQueue(r)
  BY DEF Step, Begin, RecordEvent, CountHour, CountBurst, CountTool, CheckBalance, CheckBudget,
         RunTool, FindUsage, InsertUsage, ChargeCall, RecordEventAfter, ReserveKey, LookupKey,
         EvictKey, ReinsertKey, RecordResponse, ReserveNonce, VerifyProof, SettleProof,
         RetrySettlement, ReplaceQueue

\* Who writes what.
LEMMA Writers ==
    ASSUME NEW r \in Requests, Step(r)
    PROVE  /\ UNCHANGED events \/ RecordEvent(r) \/ RecordEventAfter(r)
           /\ UNCHANGED admitted \/ CountTool(r)
           /\ UNCHANGED usage \/ InsertUsage(r)
           /\ UNCHANGED <<balance, charged>> \/ ChargeCall(r)
           /\ UNCHANGED unbudgeted \/ CheckBudget(r) \/ FindUsage(r)
           /\ UNCHANGED cache \/ ReserveKey(r) \/ EvictKey(r) \/ ReinsertKey(r) \/ RecordResponse(r)
           /\ UNCHANGED entered \/ LookupKey(r) \/ ReinsertKey(r)
           /\ UNCHANGED clobbered \/ LookupKey(r) \/ EvictKey(r)
           /\ UNCHANGED nonces \/ ReserveNonce(r)
           /\ UNCHANGED <<queues, dropped>> \/ SettleProof(r) \/ ReplaceQueue(r)
           /\ UNCHANGED settled \/ SettleProof(r) \/ RetrySettlement(r)
           /\ UNCHANGED view \/ Begin(r) \/ RetrySettlement(r)
           /\ UNCHANGED ran \/ RunTool(r)
           /\ UNCHANGED <<since, after>> \/ Begin(r)
           /\ UNCHANGED stamp \/ ReserveKey(r) \/ FindUsage(r)
           /\ UNCHANGED call \/ CountTool(r) \/ FindUsage(r) \/ InsertUsage(r) \/ ChargeCall(r)
                             \/ RecordEventAfter(r)
  <1> USE DEF clock, begun, rates, bill, gate, proofs
  <1>1. CASE Begin(r) \/ RecordEvent(r) \/ CountHour(r) \/ CountBurst(r) \/ CountTool(r)
             \/ CheckBalance(r) \/ CheckBudget(r) \/ RunTool(r)
    BY <1>1 DEF Begin, RecordEvent, CountHour, CountBurst, CountTool, CheckBalance, CheckBudget,
                RunTool
  <1>2. CASE FindUsage(r) \/ InsertUsage(r) \/ ChargeCall(r) \/ RecordEventAfter(r)
    BY <1>2 DEF FindUsage, InsertUsage, ChargeCall, RecordEventAfter
  <1>3. CASE ReserveKey(r) \/ LookupKey(r) \/ EvictKey(r) \/ ReinsertKey(r) \/ RecordResponse(r)
    BY <1>3 DEF ReserveKey, LookupKey, EvictKey, ReinsertKey, RecordResponse
  <1>4. CASE ReserveNonce(r) \/ VerifyProof(r) \/ SettleProof(r) \/ RetrySettlement(r)
             \/ ReplaceQueue(r)
    BY <1>4 DEF ReserveNonce, VerifyProof, SettleProof, RetrySettlement, ReplaceQueue
  <1> QED
    BY <1>1, <1>2, <1>3, <1>4 DEF Step

\* A call is over: the next one, or what follows the last.
Advances(r) ==
    IF call[r] < Len(job[r].calls)
    THEN call'[r] = call[r] + 1 /\ pc'[r] = EnterCall(r)
    ELSE /\ call'[r] = call[r]
         /\ pc'[r] = IF ByProof(r) THEN "settle"
                     ELSE IF Route(r) = "gate" /\ Key(r) # NoKey /\ job[r].header THEN "respond"
                     ELSE "done"

\* A usage record is made or found.
Bills(r) == IF ~ByProof(r) THEN call'[r] = call[r] /\ pc'[r] = "charge"
            ELSE IF Route(r) = "batch" THEN Advances(r)
            ELSE call'[r] = call[r] /\ pc'[r] = "settle"

\* Where a step leads its request.
Leads(r) ==
    /\ Running(r) \/ pc[r] = "new"
    /\ pc[r] = "new" => pc'[r] = IF ByProof(r) THEN "nonce" ELSE IF Rest(r) THEN "record"
                                 ELSE IF Route(r) = "retry" THEN "next" ELSE "count"
    /\ pc[r] = "record" => pc'[r] = "count"
    /\ pc[r] = "count" => pc'[r] = "burst" \/ pc'[r] = Counted(r)
    /\ pc[r] = "burst" => pc'[r] = "rejected" \/ pc'[r] = Counted(r)
    /\ pc[r] = "countTool" =>
          IF Route(r) = "batch" THEN (pc'[r] = "run" /\ call'[r] = call[r]) \/ Advances(r)
          ELSE pc'[r] \in {"balance", "rejected"} /\ call'[r] = call[r]
    /\ pc[r] = "balance" => pc'[r] = "rejected" \/ pc'[r] = IF Rest(r) THEN "budget" ELSE FirstCall(r)
    /\ pc[r] = "budget" => pc'[r] = "rejected" \/ pc'[r] = Past(r)
    /\ pc[r] = "reserve" => pc'[r] = "lookup"
    /\ pc[r] = "lookup" => pc'[r] \in {"run", "evict", "rejected", "replayed"}
    /\ pc[r] = "evict" => pc'[r] = "reinsert"
    /\ pc[r] = "reinsert" => pc'[r] \in {"run", "error"}
    /\ pc[r] = "respond" => pc'[r] = "done"
    /\ pc[r] = "run" => pc'[r] = "findUsage" \/ (pc'[r] = "error" /\ Route(r) # "batch")
    /\ pc[r] = "findUsage" => (pc'[r] = "insertUsage" /\ call'[r] = call[r]) \/ Bills(r)
    /\ pc[r] = "insertUsage" => (pc'[r] = "error" /\ call'[r] = call[r]) \/ Bills(r)
    /\ pc[r] = "charge" => \/ pc'[r] = "error" /\ call'[r] = call[r]
                           \/ IF Rest(r) THEN Advances(r)
                              ELSE pc'[r] = "event" /\ call'[r] = call[r]
    /\ pc[r] = "event" => Advances(r)
    /\ pc[r] = "nonce" => pc'[r] \in {"verify", "rejected"}
    /\ pc[r] = "verify" => pc'[r] = "rejected" \/ pc'[r] = FirstCall(r)
    /\ pc[r] = "settle" => pc'[r] = "done"
    /\ pc[r] = "next" => pc'[r] \in {"next", "done"}
    /\ pc[r] \notin {"countTool", "findUsage", "insertUsage", "charge", "event"} => call'[r] = call[r]

LEMMA StepLeads == ASSUME Places, NEW r \in Requests, Step(r) PROVE Leads(r)
  <1>0. /\ pc = [q \in Requests |-> pc[q]] /\ call = [q \in Requests |-> call[q]]
        /\ pc[r] \in Standing(r) /\ Route(r) \in Routes
    BY JobFacts DEF Places, Placed
  <1>1. ASSUME NEW x, Go(r, x) PROVE pc'[r] = x
    BY <1>0, <1>1 DEF Go
  <1>a. ~ (ByProof(r) /\ Route(r) = "gate")
    BY JobFacts DEF Places, Rest
  <1>2. ASSUME NextCall(r) PROVE Advances(r)
    <2>1. CASE call[r] < Len(job[r].calls)
      <3>1. call' = [call EXCEPT ![r] = call[r] + 1] /\ pc' = [pc EXCEPT ![r] = EnterCall(r)]
        BY <1>2, <2>1 DEF NextCall, Go
      <3> QED
        BY <1>0, <2>1, <3>1 DEF Advances
    <2>2. CASE ~ (call[r] < Len(job[r].calls))
      BY <1>0, <1>2, <1>a, <2>2 DEF NextCall, Advances, Go
    <2> QED
      BY <2>1, <2>2
  <1>3. ASSUME Billed(r) PROVE Bills(r)
    BY <1>0, <1>2, <1>3 DEF Billed, Bills, Go
  <1>4. ASSUME Charged(r) PROVE IF Rest(r) THEN Advances(r)
                                ELSE pc'[r] = "event" /\ call'[r] = call[r]
    BY <1>0, <1>2, <1>4 DEF Charged, Go
  <1> USE DEF Leads, Running, Terminal
  <1> HIDE DEF Advances, Bills
  <1>5. CASE Begin(r)
    BY <1>0, <1>5 DEF Begin, Go, Standing, Asking, Routes, Rest
  <1>6. CASE RecordEvent(r) \/ CountHour(r) \/ CountBurst(r)
    BY <1>0, <1>6 DEF RecordEvent, CountHour, CountBurst, Go
  <1>7. CASE CountTool(r)
    BY <1>0, <1>1, <1>2, <1>7 DEF CountTool
  <1>8. CASE CheckBalance(r) \/ CheckBudget(r)
    BY <1>0, <1>1, <1>8 DEF CheckBalance, CheckBudget
  <1>b. CASE RunTool(r)
    <2>1. pc[r] = "run" /\ call' = call
      BY <1>b DEF RunTool
    <2>2. pc'[r] = "findUsage" \/ (pc'[r] = "error" /\ Route(r) # "batch")
      BY <1>0, <1>b DEF RunTool, Go
    <2> QED
      BY <2>1, <2>2
  <1>9. CASE FindUsage(r) \/ InsertUsage(r)
    BY <1>0, <1>1, <1>3, <1>9 DEF FindUsage, InsertUsage
  <1>10. CASE ChargeCall(r) \/ RecordEventAfter(r)
    BY <1>0, <1>1, <1>2, <1>4, <1>10 DEF ChargeCall, RecordEventAfter
  <1>11. CASE ReserveKey(r) \/ LookupKey(r) \/ EvictKey(r) \/ ReinsertKey(r) \/ RecordResponse(r)
    BY <1>0, <1>1, <1>11 DEF ReserveKey, LookupKey, EvictKey, ReinsertKey, RecordResponse, Enter
  <1>12. CASE ReserveNonce(r) \/ VerifyProof(r) \/ SettleProof(r)
    BY <1>0, <1>1, <1>12 DEF ReserveNonce, VerifyProof, SettleProof
  <1>13. CASE RetrySettlement(r) \/ ReplaceQueue(r)
    BY <1>0, <1>1, <1>13 DEF RetrySettlement, ReplaceQueue
  <1> QED
    BY <1>5, <1>6, <1>7, <1>8, <1>b, <1>9, <1>10, <1>11, <1>12, <1>13 DEF Step

\* The least of what that says: which awaits, and how the call moves.
LEMMA Targets ==
    ASSUME NEW r
    PROVE  /\ Advances(r) => pc'[r] \in {"countTool", "run", "settle", "respond", "done"}
           /\ Bills(r) => pc'[r] \in {"countTool", "run", "settle", "respond", "done", "charge"}
           /\ Counted(r) \in {"balance", "countTool"} /\ Past(r) \in {"reserve", "run"}
           /\ FirstCall(r) \in {"countTool", "run", "settle", "done"}
           /\ Advances(r) \/ Bills(r) =>
                 \/ call'[r] = call[r]
                 \/ call[r] < Len(job[r].calls) /\ call'[r] = call[r] + 1
  BY DEF Advances, Bills, Counted, Past, FirstCall, EnterCall

\* When a request reads the clock.
LEMMA Clocks ==
    ASSUME Places, NEW r \in Requests, Step(r)
    PROVE  /\ stamp'[r] = IF pc[r] \in {"reserve", "findUsage"} THEN now ELSE stamp[r]
           /\ IF pc[r] = "new" THEN since'[r] = now /\ after'[r] = {q \in Requests : pc[q] = "done"}
                              ELSE since'[r] = since[r] /\ after'[r] = after[r]
  <1>1. stamp'[r] = IF pc[r] \in {"reserve", "findUsage"} THEN now ELSE stamp[r]
    <2>1. CASE pc[r] \in {"reserve", "findUsage"}
      BY <2>1, StepAt DEF ReserveKey, FindUsage, Places
    <2>2. CASE pc[r] \notin {"reserve", "findUsage"}
      BY <2>2, Writers DEF ReserveKey, FindUsage
    <2> QED
      BY <2>1, <2>2
  <1>2. IF pc[r] = "new" THEN since'[r] = now /\ after'[r] = {q \in Requests : pc[q] = "done"}
                         ELSE since'[r] = since[r] /\ after'[r] = after[r]
    <2>1. CASE pc[r] = "new"
      BY <2>1, StepAt DEF Begin, Places
    <2>2. CASE pc[r] # "new"
      BY <2>2, Writers DEF Begin
    <2> QED
      BY <2>1, <2>2
  <1> QED
    BY <1>1, <1>2

\* Where a request came from.
LEMMA Sources ==
    ASSUME Places, NEW r \in Requests, Step(r)
    PROVE  /\ pc'[r] = "lookup" => pc[r] = "reserve"
           /\ pc'[r] = "evict" => pc[r] = "lookup"
           /\ pc'[r] = "reinsert" => pc[r] = "evict"
           /\ pc'[r] = "insertUsage" => pc[r] = "findUsage"
           /\ pc'[r] = "record" => pc[r] = "new"
           /\ pc'[r] = "count" => pc[r] \in {"new", "record"}
           /\ pc'[r] = "burst" => pc[r] = "count"
           /\ pc'[r] # "new"
  <1>1. Leads(r) /\ pc[r] \in Awaits
    BY StepLeads DEF Places
  <1> HIDE DEF Advances, Bills, Counted, FirstCall, Past
  <1>2. pc[r] \notin Terminal
    BY <1>1 DEF Leads, Running, Terminal
  <1>3. CASE pc[r] \in Gating
    BY <1>1, <1>2, <1>3, Targets DEF Gating, Leads
  <1>4. CASE pc[r] \in AtCall
    BY <1>1, <1>2, <1>4, Targets DEF AtCall, Leads
  <1>5. CASE pc[r] \in {"new", "record", "count", "burst", "balance", "budget"}
    BY <1>1, <1>2, <1>5, Targets DEF Leads
  <1>6. CASE pc[r] \in {"next", "nonce", "verify", "settle"}
    BY <1>1, <1>2, <1>6, Targets DEF Leads
  <1> QED
    BY <1>1, <1>2, <1>3, <1>4, <1>5, <1>6 DEF Awaits, Asking, AtCall

\* The places are an invariant.
LEMMA PlacedStep ==
    ASSUME Places, NEW r \in Requests, Step(r) PROVE Placed(r)'
  <1>1. Leads(r) /\ Placed(r) /\ job' = job /\ now' = now
    BY StepLeads, OthersStay DEF Places
  <1>2. /\ Route(r)' = Route(r) /\ ByProof(r)' = ByProof(r) /\ Key(r)' = Key(r)
        /\ Standing(r)' = Standing(r)
    BY <1>1 DEF Route, ByProof, Proof, Key, Standing
  <1>3. /\ Route(r) \in Routes /\ (Rest(r) => ~ByProof(r) /\ Route(r) # "batch")
        /\ Route(r) # "batch" => Len(job[r].calls) = 1 /\ job[r].calls # <<>>
        /\ Len(job[r].calls) \in Nat /\ DOMAIN job[r].calls = 1..Len(job[r].calls)
        /\ job[r].calls # <<>> => Len(job[r].calls) >= 1
        /\ call[r] \in Nat \ {0} /\ now \in Nat /\ since[r] \in Nat /\ stamp[r] \in Nat
    BY JobFacts DEF Places
  <1>4. stamp'[r] = IF pc[r] \in {"reserve", "findUsage"} THEN now ELSE stamp[r]
    BY Clocks
  <1>5. \/ since'[r] = since[r] /\ pc[r] # "new"
        \/ since'[r] = now /\ pc[r] = "new"
    BY Clocks
  <1> USE DEF Leads, Advances, Bills, Counted, EnterCall, FirstCall, Past
  <1>6. pc'[r] \in Standing(r)
    BY <1>1, <1>3 DEF Placed, Standing, Asking, Gating, Terminal, Rest, Routes, Running
  <1>7. \/ call'[r] = call[r]
        \/ call[r] < Len(job[r].calls) /\ call'[r] = call[r] + 1
    <2> HIDE DEF Advances, Bills
    <2> QED
      BY <1>1, Targets
  <1>8. Route(r) # "batch" => call[r] = 1
    BY <1>1 DEF Placed
  <1>9. Route(r) # "batch" \/ pc'[r] \in {"new", "count", "burst", "balance", "nonce", "verify"}
          => call'[r] = 1
    <2>1. CASE Route(r) # "batch"
      <3>1. call[r] = 1 /\ Len(job[r].calls) = 1
        BY <1>3, <1>8, <2>1
      <3>2. call'[r] = 1
        BY <1>7, <3>1
      <3> QED
        BY <3>2
    <2>2. CASE Route(r) = "batch"
      <3>1. ASSUME pc'[r] \in {"new", "count", "burst", "balance", "nonce", "verify"}
            PROVE  pc[r] \in {"new", "count", "burst", "nonce"} /\ call'[r] = call[r]
        BY <1>1, <1>3, <2>2, <3>1 DEF Placed, Running, Standing, Asking, Terminal
      <3> QED
        BY <1>1, <2>2, <3>1 DEF Placed
    <2> QED
      BY <2>1, <2>2
  <1>10. job[r].calls # <<>> => call'[r] \in DOMAIN job[r].calls
    BY <1>1, <1>3, <1>7 DEF Placed
  <1>11. pc'[r] \in AtCall => job[r].calls # <<>>
    <2>1. CASE Route(r) # "batch" \/ pc[r] \in AtCall
      BY <1>1, <1>3, <2>1 DEF Placed
    <2>2. CASE Route(r) = "batch" /\ pc[r] \notin AtCall
      BY <1>1, <1>3, <2>2 DEF Running, Standing, Asking, Terminal, AtCall, Placed
    <2> QED
      BY <2>1, <2>2
  <1>12. since'[r] <= now /\ now <= since'[r] + 1
    BY <1>1, <1>3, <1>5 DEF Placed, Leads, Running
  <1>13. /\ pc'[r] \in {"lookup", "evict", "reinsert", "insertUsage"} => since'[r] <= stamp'[r]
         /\ stamp'[r] <= now
    <2>1. stamp'[r] <= now
      BY <1>1, <1>3, <1>4 DEF Placed
    <2>2. ASSUME pc'[r] \in {"lookup", "evict", "reinsert", "insertUsage"}
          PROVE  pc[r] \in {"reserve", "lookup", "evict", "findUsage"}
      BY <2>2, Sources
    <2> QED
      BY <1>1, <1>3, <1>4, <1>5, <2>1, <2>2 DEF Placed, Running, Terminal
  <1> QED
    BY <1>1, <1>2, <1>6, <1>9, <1>10, <1>11, <1>12, <1>13 DEF Placed, Running

Stops == {"504", "lost"}

\* Which requests a fault stops; the tables stay.
LEMMA Faults ==
    ASSUME Places, NEW r \in Requests, TimeOut(r) \/ Crash \/ Tick
    PROVE  /\ job' = job /\ now' \in Nat /\ now <= now'
           /\ UNCHANGED <<call, since, stamp, after, events, admitted, usage, balance, charged,
                          unbudgeted, cache, entered, clobbered, nonces, view, settled, ran>>
           /\ pc' = [q \in Requests |-> pc'[q]]
           /\ \A q \in Requests :
                 \/ pc'[q] = pc[q] /\ (now' = now \/ (now' = now + 1 /\ (Running(q) => since[q] = now)))
                 \/ pc'[q] \in Stops /\ Running(q)
  <1> USE DEF clock, begun, rates, bill, gate, proofs, Stops
  <1>0. now \in Nat /\ pc = [q \in Requests |-> pc[q]]
    BY DEF Places
  <1>1. CASE TimeOut(r)
    BY <1>0, <1>1 DEF TimeOut, Go
  <1>2. CASE Crash
    BY <1>0, <1>2 DEF Crash
  <1>3. CASE Tick
    BY <1>0, <1>3 DEF Tick
  <1> QED
    BY <1>1, <1>2, <1>3

LEMMA PlacesNext == Places /\ [Next]_vars => Places'
  <1> SUFFICES ASSUME Places, [Next]_vars PROVE Places'
    OBVIOUS
  <1>1. ASSUME NEW r \in Requests, Step(r) PROVE Places'
    <2>1. /\ job' = job /\ now' = now /\ Placed(r)'
          /\ \A q \in Requests \ {r} :
                /\ pc'[q] = pc[q] /\ call'[q] = call[q] /\ since'[q] = since[q]
                /\ stamp'[q] = stamp[q] /\ after'[q] = after[q]
      BY <1>1, OthersStay, PlacedStep
    <2>2. Jobs'
      BY <2>1 DEF Places, Jobs, Route, ByProof, Proof
    <2>3. ASSUME NEW q \in Requests PROVE Placed(q)'
      <3>1. CASE q = r
        BY <2>1, <3>1
      <3>2. CASE q # r
        BY <2>1, <3>2 DEF Places, Placed, Standing, Running, Route, ByProof, Proof, Key
      <3> QED
        BY <3>1, <3>2
    <2>4. ASSUME NEW q \in Requests
          PROVE  /\ pc'[q] \in Awaits /\ call'[q] \in Nat \ {0} /\ since'[q] \in Nat
                 /\ stamp'[q] \in Nat /\ after'[q] \in SUBSET Requests
      <3>1. CASE q # r
        BY <2>1, <3>1 DEF Places
      <3>2. CASE q = r
        <4>1. /\ now \in Nat /\ call[r] \in Nat \ {0} /\ since[r] \in Nat /\ stamp[r] \in Nat
              /\ after[r] \in SUBSET Requests
          BY DEF Places
        <4>2. call'[r] = call[r] \/ call'[r] = call[r] + 1
          BY <1>1, StepLeads, Targets DEF Leads
        <4>3. since'[r] \in Nat /\ stamp'[r] \in Nat /\ after'[r] \in SUBSET Requests
          BY <1>1, <4>1, Clocks
        <4>4. pc'[r] \in Awaits
          <5>1. pc'[r] \in Standing(r)' /\ Route(r)' \in Routes
            <6>1. Route(r) \in Routes
              BY JobFacts DEF Places
            <6> QED
              BY <2>1, <6>1 DEF Placed, Route
          <5> QED
            BY <5>1 DEF Standing, Awaits, Asking, Gating, Routes, Terminal
        <4> QED
          BY <3>2, <4>1, <4>2, <4>3, <4>4
      <3> QED
        BY <3>1, <3>2
    <2> QED
      BY <1>1, <2>1, <2>2, <2>3, <2>4, LocalsStay DEF Places
  <1>2. ASSUME NEW r \in Requests, TimeOut(r) \/ Crash \/ Tick PROVE Places'
    <2>1. Jobs'
      BY <1>2, Faults DEF Places, Jobs, Route, ByProof, Proof
    <2>2. ASSUME NEW q \in Requests PROVE Placed(q)' /\ pc'[q] \in Awaits
      <3>1. /\ job' = job /\ UNCHANGED <<call, since, stamp>> /\ now <= now' /\ now' \in Nat
            /\ Placed(q) /\ now \in Nat /\ stamp[q] \in Nat /\ since[q] \in Nat
            /\ pc[q] \in Awaits
        BY <1>2, Faults DEF Places
      <3>2. Standing(q)' = Standing(q)
        BY <3>1 DEF Standing, Route, ByProof, Proof, Key
      <3>3. CASE pc'[q] = pc[q] /\ (now' = now \/ (now' = now + 1 /\ (Running(q) => since[q] = now)))
        <4>1. Running(q)' = Running(q)
          BY <3>3 DEF Running
        <4>2. Running(q) => since[q] <= now' /\ now' <= since[q] + 1
          BY <3>1, <3>3 DEF Placed
        <4>3. stamp[q] <= now'
          BY <3>1 DEF Placed
        <4> QED
          BY <3>1, <3>3, <3>2, <4>1, <4>2, <4>3 DEF Placed, Route
      <3>4. CASE pc'[q] \in Stops /\ Running(q)
        <4>1. Standing(q)' = Standing(q) /\ Route(q) \in Routes /\ pc[q] \in Standing(q)
          BY <3>1, <3>2, JobFacts DEF Places, Placed
        <4>2. pc'[q] \in Standing(q) \cap Terminal
          BY <3>4, <4>1 DEF Running, Standing, Routes, Terminal, Stops, Asking
        <4>3. pc'[q] \notin AtCall \cup {"new", "count", "burst", "balance", "nonce", "verify",
                                         "lookup", "evict", "reinsert", "insertUsage"}
          BY <3>4 DEF Stops, AtCall
        <4> QED
          BY <3>1, <4>1, <4>2, <4>3 DEF Placed, Running, Route, Awaits, Asking
      <3> QED
        BY <1>2, <3>3, <3>4, Faults
    <2> QED
      BY <1>2, <2>1, <2>2, Faults DEF Places
  <1>3. CASE UNCHANGED vars
    BY <1>3 DEF vars, Places, Jobs, Placed, Standing, Running, Route, ByProof, Proof, Key
  <1>4. ASSUME Tick \/ Crash PROVE Places'
    <2>1. CASE Requests = {}
      BY <1>4, <2>1 DEF Tick, Crash, Places, Jobs, clock, begun
    <2>2. CASE Requests # {}
      BY <1>2, <1>4, <2>2
    <2> QED
      BY <2>1, <2>2
  <1> QED
    BY <1>1, <1>2, <1>3, <1>4 DEF Next, Terminating

-----------------------------------------------------------------------------
\* Rates.  A REST call that is about to be counted has its event in the table.
Recorded(r) == Rest(r) /\ pc[r] \in {"count", "burst", "countTool"} =>
    \E t \in since[r]..now :
       [by |-> r, call |-> call[r], tool |-> Tool(r), at |-> t] \in events

Rated ==
    /\ IsFiniteSet(events) /\ admitted \subseteq events
    /\ \A e \in events : e.at \in Nat /\ e.at <= now
    /\ \A r \in Requests : Recorded(r)

LEMMA RatedInit == Init => Rated /\ RateBounded
  BY FS_EmptySet DEF Init, Rated, Recorded, RateBounded

\* A REST call is looked at once.
LEMMA RestCounts ==
    ASSUME Places, NEW r \in Requests, Step(r), Rest(r), pc'[r] \in {"count", "burst", "countTool"}
    PROVE  /\ pc[r] \in {"record", "count", "burst"} /\ call'[r] = call[r] /\ since'[r] = since[r]
           /\ pc[r] = "record" => RecordEvent(r)
  <1>1. /\ Leads(r) /\ Placed(r) /\ Route(r) # "batch" /\ ~ByProof(r) /\ Len(job[r].calls) = 1
        /\ Route(r) \in {"rest", "gate"} /\ pc[r] \in Awaits
    BY StepLeads, JobFacts DEF Places, Rest
  <1>2. pc[r] \in {"record", "count", "burst"}
    <2>1. pc[r] \notin {"event", "settle", "nonce", "verify", "next"}
      BY <1>1 DEF Placed, Standing, Asking, Gating, Terminal
    <2>2. ~ (Advances(r) /\ pc'[r] = "countTool")
      BY <1>1 DEF Advances, EnterCall, Placed
    <2>3. ~ (Bills(r) /\ pc'[r] \in {"count", "burst", "countTool"})
      BY <1>1 DEF Bills
    <2>4. pc'[r] = "countTool" => pc[r] \in {"count", "burst"}
      <3>1. CASE pc[r] \in Gating
        BY <1>1, <3>1 DEF Leads, Gating
      <3>2. CASE pc[r] \in AtCall
        BY <1>1, <2>1, <2>2, <2>3, <3>2 DEF Leads, AtCall
      <3>3. CASE pc[r] \in {"new", "record", "balance", "budget"} \cup Terminal
        BY <1>1, <3>3, Targets DEF Leads, Terminal, Running
      <3> QED
        BY <1>1, <2>1, <3>1, <3>2, <3>3 DEF Awaits, Asking, AtCall
    <2>5. pc[r] = "new" => pc'[r] = "record"
      BY <1>1 DEF Leads
    <2> QED
      BY <2>4, <2>5, Sources
  <1>3. call'[r] = call[r] /\ since'[r] = since[r]
    BY <1>1, <1>2, Clocks DEF Leads
  <1>4. pc[r] = "record" => RecordEvent(r)
    BY StepAt
  <1> QED
    BY <1>2, <1>3, <1>4

LEMMA RatedStep == Places /\ Rated /\ [Next]_vars => Rated'
  <1> SUFFICES ASSUME Places, Rated, [Next]_vars PROVE Rated'
    OBVIOUS
  <1>0. now \in Nat
    BY DEF Places
  <1>1. ASSUME NEW r \in Requests, Step(r) PROVE Rated'
    <2>1. job' = job /\ now' = now
      BY <1>1, OthersStay
    <2>2. events' = events \/ events' = events \cup {EventOf(r)}
      BY <1>1, Writers DEF RecordEvent, RecordEventAfter
    <2>3. /\ IsFiniteSet(events') /\ events \subseteq events'
          /\ \A e \in events' : e.at \in Nat /\ e.at <= now'
      <3>1. EventOf(r).at = now
        BY DEF EventOf
      <3>2. IsFiniteSet(events) /\ \A e \in events : e.at \in Nat /\ e.at <= now
        BY DEF Rated
      <3> QED
        BY <1>0, <2>1, <2>2, <3>1, <3>2, FS_AddElement
    <2>4. ASSUME NEW q \in Requests PROVE Recorded(q)'
      <3>1. CASE q # r
        BY <1>1, <2>1, <2>3, <3>1, OthersStay DEF Rated, Recorded, Rest, Route, Tool
      <3>2. CASE q = r
        <4> SUFFICES ASSUME Rest(r), pc'[r] \in {"count", "burst", "countTool"}
                     PROVE  \E t \in since'[r]..now' :
                               [by |-> r, call |-> call'[r], tool |-> Tool(r)', at |-> t] \in events'
          BY <2>1, <3>2 DEF Recorded, Rest, Route
        <4>1. /\ pc[r] \in {"record", "count", "burst"}
              /\ call'[r] = call[r] /\ since'[r] = since[r] /\ Tool(r)' = Tool(r)
          BY <1>1, <2>1, RestCounts DEF Tool
        <4>2. CASE pc[r] = "record"
          <5>1. EventOf(r) \in events'
            BY <1>1, <4>2, RestCounts DEF RecordEvent
          <5>2. now \in since[r]..now
            <6>1. Running(r) /\ Placed(r) /\ since[r] \in Nat
              BY <4>2 DEF Places, Running, Terminal
            <6> QED
              BY <1>0, <6>1 DEF Placed
          <5> QED
            BY <2>1, <4>1, <5>1, <5>2 DEF EventOf
        <4>3. CASE pc[r] # "record"
          BY <2>1, <2>3, <4>1, <4>3 DEF Rated, Recorded
        <4> QED
          BY <4>2, <4>3
      <3> QED
        BY <3>1, <3>2
    <2>5. admitted' \subseteq events'
      <3>1. CASE UNCHANGED admitted
        BY <2>3, <3>1 DEF Rated
      <3>2. CASE CountTool(r)
        <4>1. /\ events' = events /\ pc[r] = "countTool"
              /\ \/ admitted' = admitted
                 \/ Rest(r) /\ since[r] = now /\ admitted' = admitted \cup {EventOf(r)}
          BY <3>2 DEF CountTool
        <4>2. ASSUME Rest(r), since[r] = now PROVE EventOf(r) \in events
          <5>1. PICK t \in since[r]..now :
                   [by |-> r, call |-> call[r], tool |-> Tool(r), at |-> t] \in events
            BY <4>1, <4>2 DEF Rated, Recorded
          <5>2. t = now
            BY <1>0, <4>2, <5>1
          <5> QED
            BY <5>1, <5>2 DEF EventOf
        <4> QED
          BY <4>1, <4>2 DEF Rated
      <3> QED
        BY <1>1, <3>1, <3>2, Writers
    <2> QED
      BY <2>3, <2>4, <2>5 DEF Rated
  <1>2. ASSUME NEW r \in Requests, TimeOut(r) \/ Crash \/ Tick PROVE Rated'
    <2>1. /\ job' = job /\ now' \in Nat /\ now <= now'
          /\ UNCHANGED <<call, since, events, admitted>>
      BY <1>2, Faults
    <2>2. ASSUME NEW q \in Requests PROVE Recorded(q)'
      <3>1. pc'[q] \in {"count", "burst", "countTool"} => pc'[q] = pc[q]
        BY <1>2, Faults DEF Stops
      <3>2. Recorded(q) /\ since[q] \in Nat
        BY DEF Rated, Places
      <3> QED
        <4> SUFFICES ASSUME Rest(q), pc'[q] \in {"count", "burst", "countTool"}
                     PROVE  \E t \in since[q]..now' :
                               [by |-> q, call |-> call[q], tool |-> Tool(q), at |-> t] \in events
          BY <2>1 DEF Recorded, Rest, Route, Tool
        <4>1. PICK t \in since[q]..now :
                 [by |-> q, call |-> call[q], tool |-> Tool(q), at |-> t] \in events
          BY <3>1, <3>2 DEF Recorded
        <4>2. t \in since[q]..now'
          BY <1>0, <2>1, <3>2, <4>1
        <4> QED
          BY <4>1, <4>2
    <2> QED
      BY <1>0, <2>1, <2>2 DEF Rated
  <1>3. CASE UNCHANGED vars
    BY <1>3 DEF vars, Rated, Recorded, Rest, Route, Tool
  <1>4. ASSUME Requests = {}, Tick \/ Crash PROVE Rated'
    BY <1>0, <1>4 DEF Tick, Crash, Rated, rates, bill
  <1> QED
    BY <1>1, <1>2, <1>3, <1>4 DEF Next, Terminating

\* What was admitted in the hour of a call.
InHour(A, x) == {y \in A : y.tool = x.tool /\ y.at \in (x.at - Hour)..x.at}

LEMMA BoundedStep ==
    Places /\ Rated /\ RateBounded /\ [Next]_vars => RateBounded'
  <1> SUFFICES ASSUME Places, Rated, RateBounded, [Next]_vars PROVE RateBounded'
    OBVIOUS
  <1>1. CASE UNCHANGED admitted
    BY <1>1 DEF RateBounded
  <1>2. ASSUME NEW r \in Requests, CountTool(r), admitted' # admitted PROVE RateBounded'
    <2> DEFINE x == EventOf(r)
               calls == {e \in Recent(Hour) : e.tool = Tool(r)}
    <2>1. /\ admitted' = admitted \cup {x} /\ Cardinality(calls) < ToolLimit[Tool(r)]
          /\ x.tool = Tool(r) /\ x.at = now /\ events' = events
      BY <1>2 DEF CountTool, EventOf
    <2>2. /\ now \in Nat /\ Hour \in Nat /\ IsFiniteSet(events)
          /\ \A e \in events : e.at \in Nat /\ e.at <= now
      BY Constants DEF Places, Rated
    <2>3. admitted' \subseteq events
      <3>1. Rated'
        BY RatedStep
      <3> QED
        BY <2>1, <3>1 DEF Rated
    <2>4. IsFiniteSet(calls) /\ Cardinality(calls) \in Nat
      BY <2>2, FS_Subset, FS_CardinalityType DEF Recent
    <2> HIDE DEF x
    <2>5. ASSUME NEW y \in admitted'
          PROVE  Cardinality(InHour(admitted', y)) < ToolLimit[y.tool]
      <3>1. CASE y.tool = Tool(r) /\ y.at = now
        <4>1. InHour(admitted', y) \subseteq calls
          BY <2>2, <2>3, <3>1 DEF InHour, Recent
        <4>2. Cardinality(InHour(admitted', y)) <= Cardinality(calls)
          BY <2>4, <4>1, FS_Subset
        <4>3. Cardinality(InHour(admitted', y)) \in Nat
          BY <2>4, <4>1, FS_Subset, FS_CardinalityType
        <4>4. ToolLimit[Tool(r)] \in Nat
          <5>1. pc[r] = "countTool"
            BY <1>2 DEF CountTool
          <5>2. Tool(r) \in Tools
            BY <5>1, JobFacts DEF Places, Placed, AtCall, Tool
          <5> QED
            BY <5>2, Constants
        <4> HIDE DEF calls
        <4> QED
          BY <2>1, <2>4, <3>1, <4>2, <4>3, <4>4
      <3>2. CASE ~ (y.tool = Tool(r) /\ y.at = now)
        <4>1. y \in admitted /\ y.at \in Nat /\ y.at <= now
          BY <2>1, <2>2, <2>3, <3>2
        <4>2. ~ (x.tool = y.tool /\ x.at \in (y.at - Hour)..y.at)
          BY <2>1, <2>2, <3>2, <4>1
        <4>3. InHour(admitted', y) = InHour(admitted, y)
          BY <2>1, <4>2 DEF InHour
        <4> QED
          BY <4>1, <4>3 DEF RateBounded, InHour
      <3> QED
        BY <3>1, <3>2
    <2> QED
      BY <2>5 DEF RateBounded, InHour
  <1>3. ASSUME NEW r \in Requests, Step(r) \/ TimeOut(r), ~ CountTool(r) PROVE UNCHANGED admitted
    BY <1>3, Writers, Faults
  <1> QED
    BY <1>1, <1>2, <1>3 DEF Next, Terminating, Tick, Crash, vars, rates

\* RateBounded holds of the gateway however its requests interleave: the event
\* a REST call records before it counts is what keeps the others out.
THEOREM RequestRateBounded == Spec => []RateBounded
  <1> DEFINE Inv == Places /\ Rated /\ RateBounded
  <1>1. Init => Inv
    BY PlacesInit, RatedInit
  <1>2. Inv /\ [Next]_vars => Inv'
    BY PlacesNext, RatedStep, BoundedStep
  <1> QED
    BY <1>1, <1>2, PTL DEF Spec

-----------------------------------------------------------------------------
\* Proofs.  From its nonce on, a request has the proof to itself.
Paying(r) == ByProof(r) /\ (\/ WorkOf(r) # {}
                            \/ pc[r] \in {"verify", "run", "findUsage", "insertUsage", "settle", "done"})

Alone ==
    /\ \A r \in Requests : Paying(r) => Proof(r) \in nonces
    /\ \A q, r \in Requests : Paying(q) /\ Paying(r) /\ Proof(q) = Proof(r) => q = r

LEMMA AloneInit == Init => Alone
  <1> SUFFICES ASSUME Init, NEW r \in Requests PROVE ~ Paying(r)
    BY DEF Alone
  <1>1. Places
    BY PlacesInit
  <1>2. ran = {} /\ pc[r] = (IF Route(r) = "idle" THEN "done" ELSE "new")
    BY DEF Init, Route
  <1>3. ByProof(r) => Route(r) \in {"execute", "batch"}
    BY <1>1 DEF Places, Jobs
  <1> QED
    BY <1>2, <1>3 DEF Paying, WorkOf

\* Work is only done in a tool.
LEMMA WorkStep ==
    ASSUME Places, NEW r \in Requests, Step(r), NEW q \in Requests
    PROVE  /\ WorkOf(q) \subseteq WorkOf(q)'
           /\ WorkOf(q)' # WorkOf(q) => q = r /\ pc[r] = "run" /\ RunTool(r)
  <1>1. job' = job
    BY OthersStay
  <1>2. ran' = ran \/ (RunTool(r) /\ pc[r] = "run" /\ ran' = ran \cup {<<r, call[r]>>})
    BY Writers DEF RunTool
  <1> QED
    BY <1>1, <1>2 DEF WorkOf

\* Whoever comes to pay has just reserved the nonce.
LEMMA PayingStep ==
    ASSUME Places, NEW r \in Requests, Step(r), Paying(r)'
    PROVE  \/ Paying(r)
           \/ ReserveNonce(r) /\ Proof(r) \notin nonces /\ nonces' = nonces \cup {Proof(r)}
  <1>1. Leads(r) /\ Placed(r) /\ job' = job
    BY StepLeads, OthersStay DEF Places
  <1>2. ByProof(r)
    BY <1>1 DEF Paying, ByProof, Proof
  <1>3. pc[r] \in {"new", "nonce", "verify", "run", "findUsage", "insertUsage", "settle"}
    BY <1>1, <1>2 DEF Placed, Standing, Leads, Running, Terminal
  <1>4. CASE pc[r] = "new"
    BY <1>1, <1>2, <1>4, WorkStep DEF Leads, Paying
  <1>5. CASE pc[r] = "nonce"
    <2>1. ReserveNonce(r)
      BY <1>5, StepAt
    <2>2. CASE Proof(r) \in nonces
      <3>1. pc'[r] = "rejected"
        BY <2>1, <2>2 DEF ReserveNonce, Go, Places
      <3> QED
        BY <1>5, <3>1, <1>2, WorkStep DEF Paying
    <2>3. CASE Proof(r) \notin nonces
      BY <2>1, <2>3 DEF ReserveNonce
    <2> QED
      BY <2>2, <2>3
  <1>6. CASE pc[r] \in {"verify", "run", "findUsage", "insertUsage", "settle"}
    BY <1>2, <1>6 DEF Paying
  <1> QED
    BY <1>3, <1>4, <1>5, <1>6

LEMMA AloneStep == Places /\ Alone /\ [Next]_vars => Alone'
  <1> SUFFICES ASSUME Places, Alone, [Next]_vars PROVE Alone'
    OBVIOUS
  <1>1. ASSUME NEW r \in Requests, Step(r) PROVE Alone'
    <2>1. job' = job /\ nonces \subseteq nonces'
      BY <1>1, OthersStay, Writers DEF ReserveNonce
    <2>2. ASSUME NEW q \in Requests PROVE Proof(q)' = Proof(q)
      BY <2>1 DEF Proof
    <2>3. ASSUME NEW q \in Requests, q # r PROVE Paying(q)' = Paying(q)
      BY <1>1, <2>1, <2>3, OthersStay, WorkStep DEF Paying, ByProof, Proof
    <2>4. CASE Paying(r)' => Paying(r)
      BY <2>1, <2>2, <2>3, <2>4 DEF Alone
    <2>5. CASE Proof(r) \notin nonces /\ nonces' = nonces \cup {Proof(r)}
      BY <2>2, <2>3, <2>5 DEF Alone
    <2> QED
      BY <1>1, <2>4, <2>5, PayingStep
  <1>2. ASSUME NEW r \in Requests, TimeOut(r) \/ Crash \/ Tick PROVE Alone'
    <2>1. job' = job /\ nonces' = nonces /\ ran' = ran
      BY <1>2, Faults
    <2>2. ASSUME NEW q \in Requests PROVE (Paying(q)' => Paying(q)) /\ Proof(q)' = Proof(q)
      <3>1. pc'[q] = pc[q] \/ pc'[q] \in Stops
        BY <1>2, Faults
      <3> QED
        BY <2>1, <3>1 DEF Paying, WorkOf, ByProof, Proof, Stops
    <2> QED
      BY <2>1, <2>2 DEF Alone
  <1>3. CASE UNCHANGED vars
    BY <1>3 DEF vars, Alone, Paying, WorkOf, ByProof, Proof
  <1>4. ASSUME Requests = {} PROVE Alone'
    BY <1>4 DEF Alone
  <1> QED
    BY <1>1, <1>2, <1>3, <1>4 DEF Next, Terminating

\* A proof that may be settled has paid for work, or for a batch.
Earned(p) == \E q \in Requests : ByProof(q) /\ Proof(q) = p /\ (WorkOf(q) # {} \/ Route(q) = "batch")

\* A retry that waits has settled what it has gone past, or has it left.
Retrying(r) ==
    /\ view[r].list \in 1..Len(queues)
    /\ view[r].next <= Len(ListOf(r)) + 1
    /\ \A i \in 1..Len(ListOf(r)) : i < view[r].next =>
          ListOf(r)[i] \in settled \cup Range(view[r].left)

QueueTypes ==
    /\ queues \in Seq(Seq(Proofs)) /\ Len(queues) >= 1
    /\ view \in [Requests -> [list : Nat, next : Nat \ {0}, left : Seq(Proofs)]]

AllEarned ==
    /\ \A i \in 1..Len(queues) : \A j \in 1..Len(queues[i]) : Earned(queues[i][j])
    /\ \A r \in Requests : \A j \in 1..Len(view[r].left) : Earned(view[r].left[j])
    /\ \A p \in settled : Earned(p)

\* Whoever was answered has its proof settled, listed, or dropped.
Answered(r) ==
    /\ Route(r) # "batch" /\ pc[r] \in {"findUsage", "insertUsage", "settle"} => WorkOf(r) # {}
    /\ pc[r] = "done" => Proof(r) \in settled \cup Range(Pending) \cup dropped

Queued ==
    /\ QueueTypes /\ AllEarned
    /\ \A r \in Requests : pc[r] = "next" => Retrying(r)
    /\ \A r \in Requests : ByProof(r) => Answered(r)

LEMMA QueuedInit == Init => Queued
  <1> SUFFICES ASSUME Init PROVE Queued
    OBVIOUS
  <1>1. /\ queues = <<<<>>>> /\ settled = {}
        /\ view = [r \in Requests |-> [list |-> 1, next |-> 1, left |-> <<>>]]
    BY DEF Init
  <1>2. QueueTypes
    <2>1. <<>> \in Seq(Proofs)
      OBVIOUS
    <2>2. queues \in Seq(Seq(Proofs)) /\ Len(queues) = 1
      BY <1>1, <2>1
    <2> QED
      BY <1>1, <2>1, <2>2 DEF QueueTypes
  <1>3. AllEarned
    BY <1>1 DEF AllEarned
  <1>4. Places
    BY PlacesInit
  <1>5. ASSUME NEW r \in Requests PROVE pc[r] # "next" /\ (ByProof(r) => Answered(r))
    <2>1. pc[r] = (IF Route(r) = "idle" THEN "done" ELSE "new")
      BY DEF Init, Route
    <2>2. ByProof(r) => Route(r) \in {"execute", "batch"}
      BY <1>4 DEF Places, Jobs
    <2> QED
      BY <2>1, <2>2 DEF Answered
  <1> QED
    BY <1>2, <1>3, <1>5 DEF Queued

\* The lists are only added to.
Grown == /\ queues' \in Seq(Seq(Proofs)) /\ Len(queues) <= Len(queues')
         /\ \A i \in 1..Len(queues) :
               /\ Len(queues[i]) <= Len(queues'[i])
               /\ \A j \in 1..Len(queues[i]) : queues'[i][j] = queues[i][j]

\* A proof put at the end of the current list.
LEMMA Enqueued ==
    ASSUME QueueTypes, NEW p \in Proofs, Enqueue(p)
    PROVE  /\ Grown /\ Len(queues') = Len(queues)
           /\ \A i \in 1..Len(queues') : \A j \in 1..Len(queues'[i]) :
                 queues'[i][j] = p \/ (j \in 1..Len(queues[i]) /\ queues'[i][j] = queues[i][j])
           /\ Range(Pending)' = Range(Pending) \cup {p}
  <1> DEFINE n == Len(queues)
             new == Append(queues[n], p)
  <1>1. n \in Nat /\ n >= 1 /\ n \in 1..Len(queues) /\ queues[n] \in Seq(Proofs)
        /\ DOMAIN queues = 1..n /\ \A i \in 1..n : queues[i] \in Seq(Proofs)
    BY DEF QueueTypes
  <1>2. /\ new \in Seq(Proofs) /\ Len(new) = Len(queues[n]) + 1 /\ Len(queues[n]) \in Nat
        /\ new[Len(new)] = p /\ \A j \in 1..Len(queues[n]) : new[j] = queues[n][j]
        /\ DOMAIN new = 1..Len(new) /\ DOMAIN queues[n] = 1..Len(queues[n])
    BY <1>1
  <1>3. queues' = [queues EXCEPT ![n] = new]
    BY DEF Enqueue
  <1> HIDE DEF new
  <1>4. queues' \in Seq(Seq(Proofs))
    <2> DEFINE Lists == Seq(Proofs)
    <2>1. queues \in Seq(Lists) /\ new \in Lists
      BY <1>2 DEF QueueTypes
    <2> HIDE DEF Lists
    <2>2. queues' \in Seq(Lists)
      BY <1>1, <1>3, <2>1, ExceptSeq
    <2> QED
      BY <2>2 DEF Lists
  <1>5. /\ Len(queues') = n /\ queues'[n] = new
        /\ \A i \in 1..n : i # n => queues'[i] = queues[i]
    <2> DEFINE Lists == Seq(Proofs)
    <2>1. queues \in Seq(Lists) /\ new \in Lists
      BY <1>2 DEF QueueTypes
    <2> HIDE DEF Lists
    <2>2. /\ Len(queues') = n
          /\ \A j \in 1..n : queues'[j] = IF j = n THEN new ELSE queues[j]
      BY <1>1, <1>3, <2>1, ExceptSeq
    <2> QED
      BY <1>1, <2>2
  <1>6. Grown
    <2>1. ASSUME NEW i \in 1..n
          PROVE  /\ Len(queues[i]) <= Len(queues'[i])
                 /\ \A j \in 1..Len(queues[i]) : queues'[i][j] = queues[i][j]
      <3>1. CASE i = n
        BY <1>2, <1>5, <3>1
      <3>2. CASE i # n
        <4>1. Len(queues[i]) \in Nat
          BY <1>1
        <4>2. queues'[i] = queues[i]
          BY <1>5, <3>2
        <4> QED
          BY <4>1, <4>2
      <3> QED
        BY <3>1, <3>2
    <2> QED
      <3>1. Len(queues) <= Len(queues')
        <4>1. n \in Nat
          BY <1>1
        <4>2. Len(queues') = n
          BY <1>5
        <4> HIDE DEF n
        <4>3. n <= Len(queues')
          BY <4>1, <4>2
        <4> QED
          BY <4>3 DEF n
      <3> QED
        BY <1>4, <2>1, <3>1 DEF Grown
  <1>7. ASSUME NEW i \in 1..n, NEW j \in 1..Len(queues'[i])
        PROVE  queues'[i][j] = p \/ (j \in 1..Len(queues[i]) /\ queues'[i][j] = queues[i][j])
    <2>1. CASE i = n
      <3>1. j = Len(new) \/ j \in 1..Len(queues[n])
        BY <1>2, <1>5, <2>1
      <3> QED
        BY <1>2, <1>5, <2>1, <3>1
    <2>2. CASE i # n
      BY <1>5, <2>2
    <2> QED
      BY <2>1, <2>2
  <1>8. Range(new) = Range(queues[n]) \cup {p}
    <2>1. 1..Len(new) = 1..Len(queues[n]) \cup {Len(new)}
      BY <1>2
    <2> QED
      BY <1>2, <2>1 DEF Range
  <1>9. Pending' = new /\ Pending = queues[n]
    BY <1>5 DEF Pending
  <1> QED
    BY <1>5, <1>6, <1>7, <1>8, <1>9

\* A new list takes the place of the current one.
LEMMA Replaced ==
    ASSUME QueueTypes, NEW s \in Seq(Proofs), queues' = Append(queues, s)
    PROVE  /\ Grown /\ Len(queues') = Len(queues) + 1 /\ Pending' = s
           /\ queues'[Len(queues')] = s
           /\ \A i \in 1..Len(queues) : queues'[i] = queues[i]
  <1>1. Len(queues) \in Nat /\ \A i \in 1..Len(queues) : queues[i] \in Seq(Proofs)
    BY DEF QueueTypes
  <1>2. /\ queues' \in Seq(Seq(Proofs)) /\ Len(queues') = Len(queues) + 1
        /\ queues'[Len(queues) + 1] = s
        /\ \A i \in 1..Len(queues) : queues'[i] = queues[i]
    BY <1>1 DEF QueueTypes
  <1> QED
    BY <1>1, <1>2 DEF Grown, Pending

\* What was earned stays earned.
LEMMA EarnedStays ==
    ASSUME Places, [Next]_vars, NEW p, Earned(p) PROVE Earned(p)'
  <1>1. PICK q \in Requests : ByProof(q) /\ Proof(q) = p /\ (WorkOf(q) # {} \/ Route(q) = "batch")
    BY DEF Earned
  <1>2. job' = job /\ WorkOf(q) \subseteq WorkOf(q)'
    <2>1. ASSUME NEW r \in Requests, Step(r) PROVE job' = job /\ WorkOf(q) \subseteq WorkOf(q)'
      BY <2>1, OthersStay, WorkStep
    <2>2. ASSUME TimeOut(q) \/ Crash \/ Tick \/ UNCHANGED vars
          PROVE  job' = job /\ WorkOf(q) \subseteq WorkOf(q)'
      <3>1. job' = job /\ ran' = ran
        BY <2>2, Faults DEF vars
      <3> QED
        BY <3>1 DEF WorkOf
    <2>3. ASSUME NEW r \in Requests, TimeOut(r) PROVE job' = job /\ WorkOf(q) \subseteq WorkOf(q)'
      <3>1. job' = job /\ ran' = ran
        BY <2>3, Faults
      <3> QED
        BY <3>1 DEF WorkOf
    <2> QED
      BY <2>1, <2>2, <2>3 DEF Next, Terminating
  <1>3. ByProof(q)' /\ Proof(q)' = p /\ ((WorkOf(q) # {})' \/ Route(q)' = "batch")
    BY <1>1, <1>2 DEF ByProof, Proof, Route
  <1> QED
    BY <1>3 DEF Earned

\* Nothing that was promised an answer is forgotten.
Kept == /\ settled \subseteq settled' /\ dropped \subseteq dropped'
        /\ Range(Pending) \subseteq settled' \cup Range(Pending)' \cup dropped'

\* What the three writers of the lists do.
LEMMA SettleMoves ==
    ASSUME Places, QueueTypes, NEW r \in Requests, SettleProof(r)
    PROVE  /\ ByProof(r) /\ Proof(r) \in Proofs /\ pc[r] = "settle" /\ view' = view
           /\ settled' \subseteq settled \cup {Proof(r)}
           /\ queues' = queues \/ Enqueue(Proof(r))
           /\ Kept /\ Proof(r) \in settled' \cup Range(Pending)' \cup dropped'
  <1>1. pc[r] = "settle" /\ view' = view
    BY DEF SettleProof
  <1>2. ByProof(r) /\ Proof(r) \in Proofs
    <2>1. Placed(r) /\ Route(r) \in Routes
      BY JobFacts DEF Places
    <2>2. ByProof(r)
      BY <1>1, <2>1 DEF Placed, Standing, Asking, Gating, Routes, Terminal
    <2> QED
      BY <2>2, JobFacts DEF Places
  <1>3. /\ settled \subseteq settled' /\ settled' \subseteq settled \cup {Proof(r)}
        /\ dropped \subseteq dropped'
        /\ \/ queues' = queues /\ Proof(r) \in settled' \cup dropped'
           \/ Enqueue(Proof(r))
    BY DEF SettleProof
  <1>4. Range(Pending) \cup {Proof(r)} \subseteq settled' \cup Range(Pending)' \cup dropped'
                                                   \cup Range(Pending)
        /\ Range(Pending) \subseteq Range(Pending)'
        /\ Proof(r) \in settled' \cup Range(Pending)' \cup dropped'
    <2>1. CASE queues' = queues /\ Proof(r) \in settled' \cup dropped'
      BY <2>1 DEF Pending, Range
    <2>2. CASE Enqueue(Proof(r))
      <3>1. Range(Pending)' = Range(Pending) \cup {Proof(r)}
        BY <1>2, <2>2, Enqueued
      <3> QED
        BY <3>1
    <2> QED
      BY <1>3, <2>1, <2>2
  <1> QED
    BY <1>1, <1>2, <1>3, <1>4 DEF Kept

LEMMA RetryMoves ==
    ASSUME QueueTypes, NEW r \in Requests, RetrySettlement(r), Retrying(r)
    PROVE  LET p == ListOf(r)[view[r].next] IN
           /\ view[r].next \in 1..Len(ListOf(r)) /\ view[r].list \in 1..Len(queues)
           /\ queues' = queues /\ dropped' = dropped /\ pc' = pc
           /\ settled \subseteq settled' /\ settled' \subseteq settled \cup {p}
           /\ view' \in [Requests -> [list : Nat, next : Nat \ {0}, left : Seq(Proofs)]]
           /\ \A q \in Requests \ {r} : view'[q] = view[q]
           /\ view'[r].list = view[r].list /\ view'[r].next = view[r].next + 1
           /\ \/ view'[r].left = view[r].left /\ p \in settled'
              \/ view'[r].left = Append(view[r].left, p)
           /\ Range(view[r].left) \subseteq Range(view'[r].left)
           /\ p \in settled' \cup Range(view'[r].left)
           /\ \A j \in 1..Len(view'[r].left) :
                 \/ view'[r].left[j] = p
                 \/ j \in 1..Len(view[r].left) /\ view'[r].left[j] = view[r].left[j]
  <1> DEFINE p == ListOf(r)[view[r].next]
             left == view[r].left
             more == Append(left, p)
             n == view[r].next
  <1>1. /\ n \in 1..Len(ListOf(r)) /\ view[r].list \in 1..Len(queues)
        /\ view[r].list \in Nat /\ n \in Nat \ {0} /\ left \in Seq(Proofs)
        /\ view \in [Requests -> [list : Nat, next : Nat \ {0}, left : Seq(Proofs)]]
    BY DEF QueueTypes, Retrying, RetrySettlement
  <1>2. ListOf(r) \in Seq(Proofs)
    BY <1>1 DEF QueueTypes, ListOf
  <1>3. p \in Proofs
    BY <1>1, <1>2
  <1>4. /\ more \in Seq(Proofs) /\ Len(more) = Len(left) + 1 /\ Len(left) \in Nat
        /\ more[Len(more)] = p /\ \A j \in 1..Len(left) : more[j] = left[j]
        /\ DOMAIN more = 1..Len(more) /\ DOMAIN left = 1..Len(left)
    BY <1>1, <1>3
  <1>5. Range(left) \subseteq Range(more) /\ p \in Range(more)
    BY <1>4 DEF Range
  <1>6. \A j \in 1..Len(more) : more[j] = p \/ (j \in 1..Len(left) /\ more[j] = left[j])
    BY <1>4
  <1>7. /\ queues' = queues /\ dropped' = dropped /\ pc' = pc
        /\ settled \subseteq settled' /\ settled' \subseteq settled \cup {p}
    BY DEF RetrySettlement
  <1>8. \/ p \in settled' /\ view' = [view EXCEPT ![r].next = n + 1]
        \/ view' = [view EXCEPT ![r].next = n + 1, ![r].left = more]
    BY DEF RetrySettlement
  <1> HIDE DEF p, more
  <1>9. CASE p \in settled' /\ view' = [view EXCEPT ![r].next = n + 1]
    <2>1. /\ view' \in [Requests -> [list : Nat, next : Nat \ {0}, left : Seq(Proofs)]]
          /\ \A q \in Requests \ {r} : view'[q] = view[q]
          /\ view'[r].list = view[r].list /\ view'[r].next = n + 1 /\ view'[r].left = left
      BY <1>1, <1>9
    <2> QED
      BY <1>1, <1>7, <1>9, <2>1 DEF p
  <1>10. CASE view' = [view EXCEPT ![r].next = n + 1, ![r].left = more]
    <2>1. /\ view' \in [Requests -> [list : Nat, next : Nat \ {0}, left : Seq(Proofs)]]
          /\ \A q \in Requests \ {r} : view'[q] = view[q]
          /\ view'[r].list = view[r].list /\ view'[r].next = n + 1 /\ view'[r].left = more
      BY <1>1, <1>4, <1>10
    <2> QED
      BY <1>1, <1>5, <1>6, <1>7, <2>1 DEF p, more
  <1> QED
    BY <1>8, <1>9, <1>10

LEMMA ReplaceMoves ==
    ASSUME QueueTypes, NEW r \in Requests, ReplaceQueue(r), Retrying(r)
    PROVE  /\ view[r].left \in Seq(Proofs) /\ queues' = Append(queues, view[r].left)
           /\ settled' = settled /\ view' = view /\ Kept
  <1>1. /\ queues' = Append(queues, view[r].left) /\ settled' = settled /\ view' = view
        /\ view[r].next > Len(ListOf(r))
        /\ dropped' = IF view[r].list = Len(queues) THEN dropped
                      ELSE dropped \cup (Range(Pending) \ Range(view[r].left))
    BY DEF ReplaceQueue
  <1>2. view[r].left \in Seq(Proofs)
    BY DEF QueueTypes
  <1>3. Pending' = view[r].left
    BY <1>1, <1>2, Replaced
  <1>4. Range(Pending) \subseteq settled \cup Range(view[r].left) \cup dropped'
    <2>1. CASE view[r].list = Len(queues)
      <3>1. ListOf(r) = Pending /\ Pending \in Seq(Proofs) /\ view[r].next \in Nat
        BY <2>1 DEF ListOf, Pending, QueueTypes
      <3>2. \A i \in 1..Len(Pending) : Pending[i] \in settled \cup Range(view[r].left)
        BY <1>1, <3>1 DEF Retrying
      <3> QED
        BY <3>1, <3>2 DEF Range
    <2>2. CASE view[r].list # Len(queues)
      BY <1>1, <2>2
    <2> QED
      BY <2>1, <2>2
  <1>5. Range(Pending)' = Range(view[r].left)
    BY <1>3 DEF Range
  <1> QED
    BY <1>1, <1>2, <1>4, <1>5 DEF Kept

LEMMA CrashMoves ==
    ASSUME QueueTypes, Crash
    PROVE  queues' = Append(queues, <<>>) /\ settled' = settled /\ view' = view /\ Kept
  <1>1. /\ queues' = Append(queues, <<>>) /\ settled' = settled /\ view' = view
        /\ dropped' = dropped \cup Range(Pending)
    BY DEF Crash
  <1> QED
    BY <1>1 DEF Kept

\* Who moves the lists, and who does not.
Quiet == UNCHANGED <<queues, view, settled, dropped>>

LEMMA QueueWriters ==
    ASSUME Places, NEW r \in Requests, Step(r) \/ TimeOut(r)
    PROVE  \/ Quiet \/ SettleProof(r) \/ RetrySettlement(r) \/ ReplaceQueue(r)
           \/ UNCHANGED <<queues, settled, dropped>> /\ Begin(r)
  <1>1. CASE TimeOut(r)
    BY <1>1 DEF TimeOut, Quiet, proofs
  <1>2. CASE Step(r)
    BY <1>2, Writers DEF Quiet, Begin
  <1> QED
    BY <1>1, <1>2

LEMMA QuietStays == ASSUME QueueTypes, UNCHANGED <<queues, settled, dropped>> PROVE Grown /\ Kept
  <1>1. Len(queues) \in Nat /\ \A i \in 1..Len(queues) : Len(queues[i]) \in Nat
    BY DEF QueueTypes
  <1>2. Grown
    BY <1>1 DEF QueueTypes, Grown
  <1>3. Kept
    BY DEF Kept, Pending, Range
  <1> QED
    BY <1>2, <1>3

\* The lists stay lists, only grow, and keep what was promised.
LEMMA ListsMove ==
    ASSUME Places, Queued, [Next]_vars PROVE QueueTypes' /\ Grown /\ Kept
  <1> DEFINE Views == [Requests -> [list : Nat, next : Nat \ {0}, left : Seq(Proofs)]]
  <1>1. QueueTypes /\ view \in Views /\ Len(queues) \in Nat /\ Len(queues) >= 1
    BY DEF Queued, QueueTypes
  <1>2. ASSUME Grown, view' \in Views PROVE QueueTypes'
    BY <1>1, <1>2 DEF Grown, QueueTypes
  <1> HIDE DEF Views
  <1>3. ASSUME NEW r \in Requests, SettleProof(r) PROVE QueueTypes' /\ Grown /\ Kept
    <2>1. /\ Proof(r) \in Proofs /\ view' = view /\ Kept
          /\ queues' = queues \/ Enqueue(Proof(r))
      BY <1>1, <1>3, SettleMoves
    <2>2. Grown
      <3>1. CASE queues' = queues
        <4>1. \A i \in 1..Len(queues) : Len(queues[i]) \in Nat
          BY <1>1 DEF QueueTypes
        <4> QED
          BY <1>1, <3>1, <4>1 DEF QueueTypes, Grown
      <3>2. CASE Enqueue(Proof(r))
        BY <1>1, <2>1, <3>2, Enqueued
      <3> QED
        BY <2>1, <3>1, <3>2
    <2> QED
      BY <1>1, <1>2, <2>1, <2>2
  <1>4. ASSUME NEW r \in Requests, RetrySettlement(r) PROVE QueueTypes' /\ Grown /\ Kept
    <2>1. Retrying(r)
      BY <1>4 DEF Queued, RetrySettlement
    <2>2. /\ queues' = queues /\ dropped' = dropped /\ settled \subseteq settled' /\ view' \in Views
      BY <1>1, <1>4, <2>1, RetryMoves DEF Views
    <2>3. Grown
      <3>1. \A i \in 1..Len(queues) : Len(queues[i]) \in Nat
        BY <1>1 DEF QueueTypes
      <3> QED
        BY <1>1, <2>2, <3>1 DEF QueueTypes, Grown
    <2>4. Kept
      BY <2>2 DEF Kept, Pending, Range
    <2> QED
      BY <1>2, <2>2, <2>3, <2>4
  <1>5. ASSUME NEW r \in Requests, ReplaceQueue(r) PROVE QueueTypes' /\ Grown /\ Kept
    <2>1. Retrying(r)
      BY <1>5 DEF Queued, ReplaceQueue
    <2>2. /\ view[r].left \in Seq(Proofs) /\ queues' = Append(queues, view[r].left)
          /\ view' = view /\ Kept
      BY <1>1, <1>5, <2>1, ReplaceMoves
    <2>3. Grown
      BY <1>1, <2>2, Replaced
    <2> QED
      BY <1>1, <1>2, <2>2, <2>3
  <1>6. ASSUME NEW r \in Requests, Begin(r), UNCHANGED <<queues, settled, dropped>>
        PROVE  QueueTypes' /\ Grown /\ Kept
    <2> DEFINE fresh == [list |-> Len(queues), next |-> 1, left |-> <<>>]
    <2>1. view' = view \/ view' = [view EXCEPT ![r] = fresh]
      BY <1>6 DEF Begin
    <2>2. fresh \in [list : Nat, next : Nat \ {0}, left : Seq(Proofs)]
      BY <1>1
    <2> HIDE DEF fresh
    <2>3. view' \in Views
      BY <1>1, <2>1, <2>2 DEF Views
    <2> QED
      BY <1>1, <1>2, <1>6, <2>3, QuietStays
  <1>7. ASSUME Crash PROVE QueueTypes' /\ Grown /\ Kept
    <2>1. queues' = Append(queues, <<>>) /\ view' = view /\ Kept
      BY <1>1, <1>7, CrashMoves
    <2>2. <<>> \in Seq(Proofs)
      OBVIOUS
    <2>3. Grown
      BY <1>1, <2>1, <2>2, Replaced
    <2> QED
      BY <1>1, <1>2, <2>1, <2>3
  <1>8. ASSUME Quiet PROVE QueueTypes' /\ Grown /\ Kept
    BY <1>1, <1>2, <1>8, QuietStays DEF Quiet
  <1>9. Tick \/ UNCHANGED vars => Quiet
    BY DEF Tick, vars, Quiet, proofs
  <1> QED
    BY <1>3, <1>4, <1>5, <1>6, <1>7, <1>8, <1>9, QueueWriters DEF Next, Terminating

\* Nothing is listed or settled that was not earned.
LEMMA EarnedStep == Places /\ Queued /\ [Next]_vars => AllEarned'
  <1> SUFFICES ASSUME Places, Queued, [Next]_vars PROVE AllEarned'
    OBVIOUS
  <1> DEFINE Old(p) == Earned(p)
             Owed == /\ \A i \in 1..Len(queues') : \A j \in 1..Len(queues'[i]) : Old(queues'[i][j])
                     /\ \A r \in Requests : \A j \in 1..Len(view'[r].left) : Old(view'[r].left[j])
                     /\ \A p \in settled' : Old(p)
  <1>1. QueueTypes
    BY DEF Queued
  <1>2. Owed => AllEarned'
    <2>1. \A p : Earned(p) => Earned(p)'
      BY EarnedStays
    <2> QED
      BY <2>1 DEF AllEarned
  <1>3. /\ \A i \in 1..Len(queues) : \A j \in 1..Len(queues[i]) : Old(queues[i][j])
        /\ \A r \in Requests : \A j \in 1..Len(view[r].left) : Old(view[r].left[j])
        /\ \A p \in settled : Old(p)
    BY DEF Queued, AllEarned
  <1> HIDE DEF Old
  <1>4. ASSUME NEW r \in Requests, SettleProof(r) PROVE Owed
    <2>1. /\ ByProof(r) /\ Proof(r) \in Proofs /\ pc[r] = "settle" /\ view' = view
          /\ settled' \subseteq settled \cup {Proof(r)}
          /\ queues' = queues \/ Enqueue(Proof(r))
      BY <1>1, <1>4, SettleMoves
    <2>2. Old(Proof(r))
      <3>1. WorkOf(r) # {} \/ Route(r) = "batch"
        BY <2>1 DEF Queued, Answered
      <3> QED
        BY <2>1, <3>1 DEF Earned, Old
    <2>3. ASSUME NEW i \in 1..Len(queues'), NEW j \in 1..Len(queues'[i]) PROVE Old(queues'[i][j])
      <3>1. CASE queues' = queues
        BY <1>3, <3>1
      <3>2. CASE Enqueue(Proof(r))
        <4>1. /\ Len(queues') = Len(queues)
              /\ queues'[i][j] = Proof(r) \/ (j \in 1..Len(queues[i]) /\ queues'[i][j] = queues[i][j])
          BY <1>1, <2>1, <3>2, Enqueued
        <4> QED
          BY <1>3, <2>2, <4>1
      <3> QED
        BY <2>1, <3>1, <3>2
    <2> QED
      BY <1>3, <2>1, <2>2, <2>3
  <1>5. ASSUME NEW r \in Requests, RetrySettlement(r) PROVE Owed
    <2> DEFINE p == ListOf(r)[view[r].next]
    <2>1. Retrying(r)
      BY <1>5 DEF Queued, RetrySettlement
    <2>2. /\ view[r].next \in 1..Len(ListOf(r)) /\ view[r].list \in 1..Len(queues)
          /\ queues' = queues /\ settled' \subseteq settled \cup {p}
          /\ \A q \in Requests \ {r} : view'[q] = view[q]
          /\ \A j \in 1..Len(view'[r].left) :
                \/ view'[r].left[j] = p
                \/ j \in 1..Len(view[r].left) /\ view'[r].left[j] = view[r].left[j]
      BY <1>1, <1>5, <2>1, RetryMoves
    <2>3. Old(p)
      BY <1>3, <2>2 DEF ListOf
    <2> HIDE DEF p
    <2>4. ASSUME NEW q \in Requests, NEW j \in 1..Len(view'[q].left) PROVE Old(view'[q].left[j])
      <3>1. CASE q = r
        BY <1>3, <2>2, <2>3, <3>1
      <3>2. CASE q # r
        BY <1>3, <2>2, <3>2
      <3> QED
        BY <3>1, <3>2
    <2> QED
      BY <1>3, <2>2, <2>3, <2>4
  <1>6. ASSUME NEW s \in Seq(Proofs), queues' = Append(queues, s), settled' = settled,
               view' = view, \A j \in 1..Len(s) : Old(s[j])
        PROVE  Owed
    <2>1. /\ Len(queues') = Len(queues) + 1 /\ queues'[Len(queues')] = s
          /\ \A i \in 1..Len(queues) : queues'[i] = queues[i]
      BY <1>1, <1>6, Replaced
    <2>2. Len(queues) \in Nat
      BY <1>1 DEF QueueTypes
    <2>3. ASSUME NEW i \in 1..Len(queues') PROVE i \in 1..Len(queues) \/ i = Len(queues')
      BY <2>1, <2>2
    <2>4. ASSUME NEW i \in 1..Len(queues'), NEW j \in 1..Len(queues'[i]) PROVE Old(queues'[i][j])
      <3>1. CASE i \in 1..Len(queues)
        BY <1>3, <2>1, <3>1
      <3>2. CASE i = Len(queues')
        BY <1>6, <2>1, <3>2
      <3> QED
        BY <2>3, <3>1, <3>2
    <2> QED
      BY <1>3, <1>6, <2>4
  <1>7. ASSUME NEW r \in Requests, ReplaceQueue(r) PROVE Owed
    <2>1. Retrying(r)
      BY <1>7 DEF Queued, ReplaceQueue
    <2>2. /\ view[r].left \in Seq(Proofs) /\ queues' = Append(queues, view[r].left)
          /\ settled' = settled /\ view' = view
      BY <1>1, <1>7, <2>1, ReplaceMoves
    <2> QED
      BY <1>3, <1>6, <2>2
  <1>8. ASSUME Crash PROVE Owed
    <2>1. queues' = Append(queues, <<>>) /\ settled' = settled /\ view' = view
      BY <1>1, <1>8, CrashMoves
    <2>2. <<>> \in Seq(Proofs) /\ \A j \in 1..Len(<<>>) : Old(<<>>[j])
      OBVIOUS
    <2> QED
      BY <1>6, <2>1, <2>2
  <1>9. ASSUME NEW r \in Requests, Begin(r), UNCHANGED <<queues, settled, dropped>> PROVE Owed
    <2>1. ASSUME NEW q \in Requests PROVE view'[q].left = view[q].left \/ view'[q].left = <<>>
      BY <1>1, <1>9 DEF Begin, QueueTypes
    <2>2. ASSUME NEW q \in Requests, NEW j \in 1..Len(view'[q].left) PROVE Old(view'[q].left[j])
      <3>1. view'[q].left # <<>>
        OBVIOUS
      <3> QED
        BY <1>3, <2>1, <3>1
    <2> QED
      BY <1>3, <1>9, <2>2
  <1>10. ASSUME Quiet PROVE Owed
    BY <1>3, <1>10 DEF Quiet
  <1>11. Tick \/ UNCHANGED vars => Quiet
    BY DEF Tick, vars, Quiet, proofs
  <1> HIDE DEF Owed
  <1> QED
    BY <1>2, <1>4, <1>5, <1>7, <1>8, <1>9, <1>10, <1>11, QueueWriters DEF Next, Terminating

\* A retry that waits goes on in a list that has only grown.
LEMMA RetryingStays ==
    ASSUME Places, Queued, [Next]_vars, NEW r \in Requests,
           pc[r] = "next", view'[r] = view[r]
    PROVE  Retrying(r)'
  <1>1. QueueTypes /\ Grown /\ QueueTypes' /\ Retrying(r) /\ settled \subseteq settled'
    BY ListsMove DEF Queued, Kept
  <1> DEFINE l == view[r].list
             n == view[r].next
  <1>2. /\ l \in 1..Len(queues) /\ Len(queues) \in Nat /\ Len(queues') \in Nat
        /\ n \in Nat /\ Len(queues[l]) \in Nat /\ Len(queues'[l]) \in Nat
        /\ Len(queues) <= Len(queues') /\ l \in 1..Len(queues')
    <2>1. l \in 1..Len(queues) /\ Len(queues) \in Nat /\ Len(queues') \in Nat
          /\ Len(queues) <= Len(queues') /\ n \in Nat
      BY <1>1 DEF Retrying, QueueTypes, Grown
    <2>2. l \in 1..Len(queues')
      BY <2>1
    <2>3. queues[l] \in Seq(Proofs) /\ queues'[l] \in Seq(Proofs)
      BY <1>1, <2>1, <2>2 DEF QueueTypes
    <2> QED
      BY <2>1, <2>2, <2>3
  <1>3. /\ n <= Len(queues[l]) + 1 /\ Len(queues[l]) <= Len(queues'[l])
        /\ \A j \in 1..Len(queues[l]) : queues'[l][j] = queues[l][j]
        /\ \A i \in 1..Len(queues[l]) : i < n => queues[l][i] \in settled \cup Range(view[r].left)
    BY <1>1, <1>2 DEF Retrying, Grown, ListOf
  <1>4. ASSUME NEW i \in 1..Len(queues'[l]), i < n
        PROVE  queues'[l][i] \in settled' \cup Range(view[r].left)
    <2>1. i \in 1..Len(queues[l])
      BY <1>2, <1>3, <1>4
    <2> QED
      BY <1>1, <1>3, <1>4, <2>1
  <1>5. n <= Len(queues'[l]) + 1
    <2> DEFINE before == Len(queues[l])
               then == Len(queues'[l])
    <2>1. n \in Nat /\ before \in Nat /\ then \in Nat /\ n <= before + 1 /\ before <= then
      BY <1>2, <1>3
    <2> HIDE DEF n, before, then
    <2>2. n <= then + 1
      BY <2>1
    <2> QED
      BY <2>2 DEF then
  <1> QED
    BY <1>2, <1>4, <1>5 DEF Retrying, ListOf, Range

LEMMA RetryingStep ==
    ASSUME Places, Queued, [Next]_vars, NEW r \in Requests, pc'[r] = "next"
    PROVE  Retrying(r)'
  <1>1. QueueTypes /\ QueueTypes'
    BY ListsMove DEF Queued
  <1>2. CASE pc[r] = "next" /\ view'[r] = view[r]
    BY <1>2, RetryingStays
  <1>3. ASSUME NEW q \in Requests, Step(q), q # r PROVE pc[r] = "next" /\ view'[r] = view[r]
    <2>1. pc'[r] = pc[r]
      BY <1>3, OthersStay
    <2>2. CASE UNCHANGED view
      BY <2>1, <2>2
    <2>3. CASE Begin(q)
      BY <1>1, <1>3, <2>1, <2>3 DEF Begin, QueueTypes
    <2>4. CASE RetrySettlement(q)
      BY <1>1, <1>3, <2>1, <2>4 DEF RetrySettlement, QueueTypes
    <2> QED
      BY <1>3, <2>2, <2>3, <2>4, Writers
  <1>4. ASSUME Step(r), pc[r] # "next" PROVE Retrying(r)'
    <2>1. Leads(r) /\ Placed(r) /\ Route(r) \in Routes /\ pc[r] \in Awaits
      BY <1>4, StepLeads, JobFacts DEF Places
    <2>2. pc[r] = "new" /\ ~ByProof(r) /\ Route(r) = "retry"
      <3> HIDE DEF Advances, Bills, Counted, FirstCall, Past
      <3>1. pc[r] \notin Terminal
        BY <2>1 DEF Leads, Running, Terminal
      <3>2. pc[r] \notin Gating
        BY <2>1 DEF Leads, Gating
      <3>3. pc[r] \notin AtCall
        BY <2>1, Targets DEF Leads, AtCall
      <3>4. pc[r] \notin {"record", "count", "burst", "balance", "budget", "nonce", "verify", "settle"}
        BY <2>1, Targets DEF Leads
      <3>5. pc[r] = "new"
        BY <1>4, <2>1, <3>1, <3>2, <3>3, <3>4 DEF Awaits, Asking, AtCall
      <3> QED
        BY <2>1, <3>5 DEF Leads
    <2>3. /\ Begin(r)
          /\ view' = [view EXCEPT ![r] = [list |-> Len(queues), next |-> 1, left |-> <<>>]]
      BY <1>4, <2>2, StepAt DEF Begin
    <2>4. view'[r].list = Len(queues) /\ view'[r].next = 1 /\ view'[r].left = <<>>
      BY <1>1, <2>3 DEF QueueTypes
    <2>5. queues' = queues
      BY <2>3 DEF Begin
    <2>6. Len(queues) \in 1..Len(queues) /\ Len(queues[Len(queues)]) \in Nat
      BY <1>1 DEF QueueTypes
    <2>7. \A i \in 1..Len(queues'[Len(queues)]) : ~ (i < 1)
      OBVIOUS
    <2> QED
      BY <2>4, <2>5, <2>6, <2>7 DEF Retrying, ListOf
  <1>5. ASSUME Step(r), pc[r] = "next" PROVE Retrying(r)'
    <2>1. RetrySettlement(r)
      <3>1. ~ ReplaceQueue(r)
        BY DEF ReplaceQueue, Go, Places
      <3> QED
        BY <1>5, <3>1, StepAt
    <2>2. Retrying(r)
      BY <1>5 DEF Queued
    <2> DEFINE n == view[r].next
               p == ListOf(r)[n]
    <2>3. /\ n \in 1..Len(ListOf(r)) /\ view[r].list \in 1..Len(queues)
          /\ queues' = queues /\ settled \subseteq settled'
          /\ view'[r].list = view[r].list /\ view'[r].next = n + 1
          /\ Range(view[r].left) \subseteq Range(view'[r].left)
          /\ p \in settled' \cup Range(view'[r].left)
      BY <1>1, <2>1, <2>2, RetryMoves
    <2>4. ListOf(r)' = ListOf(r) /\ Len(ListOf(r)) \in Nat
      <3>1. ListOf(r) \in Seq(Proofs)
        BY <1>1, <2>3 DEF ListOf, QueueTypes
      <3> QED
        BY <2>3, <3>1 DEF ListOf
    <2>5. ASSUME NEW i \in 1..Len(ListOf(r)), i < n + 1
          PROVE  ListOf(r)[i] \in settled' \cup Range(view'[r].left)
      <3>1. CASE i = n
        BY <2>3, <3>1
      <3>2. CASE i < n
        BY <2>2, <2>3, <3>2 DEF Retrying
      <3> QED
        BY <2>3, <2>5, <3>1, <3>2
    <2>6. n + 1 <= Len(ListOf(r)) + 1
      BY <2>3, <2>4
    <2> HIDE DEF n
    <2>7. Range(view[r].left)' = Range(view'[r].left)
      BY DEF Range
    <2> QED
      BY <2>3, <2>4, <2>5, <2>6, <2>7 DEF Retrying
  <1>6. ASSUME NEW q \in Requests, TimeOut(q) \/ Crash \/ Tick
        PROVE  pc[r] = "next" /\ view'[r] = view[r]
    BY <1>6, Faults DEF Stops
  <1>7. UNCHANGED vars => pc[r] = "next" /\ view'[r] = view[r]
    BY DEF vars
  <1> QED
    BY <1>2, <1>3, <1>4, <1>5, <1>6, <1>7 DEF Next, Terminating

\* Whoever is answered has settled, and has worked for it.
LEMMA AnsweredStep ==
    ASSUME Places, Queued, [Next]_vars, NEW r \in Requests, ByProof(r)
    PROVE  Answered(r)'
  <1>1. /\ QueueTypes /\ Answered(r) /\ Kept
        /\ Placed(r) /\ Route(r) \in {"execute", "batch"}
    BY ListsMove DEF Queued, Places, Jobs
  <1>2. ASSUME job' = job, WorkOf(r) \subseteq WorkOf(r)', pc'[r] = pc[r] \/ pc'[r] \in Stops
        PROVE  Answered(r)'
    <2>1. Route(r)' = Route(r) /\ Proof(r)' = Proof(r)
      BY <1>2 DEF Route, Proof
    <2>2. Route(r)' # "batch" /\ pc'[r] \in {"findUsage", "insertUsage", "settle"} => WorkOf(r)' # {}
      BY <1>1, <1>2, <2>1 DEF Answered, Stops
    <2>3. pc'[r] = "done" => Proof(r)' \in settled' \cup Range(Pending)' \cup dropped'
      BY <1>1, <1>2, <2>1 DEF Answered, Stops, Kept
    <2> QED
      BY <2>2, <2>3 DEF Answered
  <1>3. ASSUME NEW q \in Requests, Step(q), q # r PROVE Answered(r)'
    BY <1>2, <1>3, OthersStay, WorkStep
  <1>4. ASSUME Step(r) PROVE Answered(r)'
    <2>1. /\ Leads(r) /\ job' = job /\ Route(r)' = Route(r) /\ Proof(r)' = Proof(r)
          /\ WorkOf(r) \subseteq WorkOf(r)'
      BY <1>4, StepLeads, OthersStay, WorkStep DEF Route, Proof
    <2>2. pc[r] \in {"new", "nonce", "verify", "run", "findUsage", "insertUsage", "settle"}
      BY <1>1, <2>1 DEF Placed, Standing, Leads, Running, Terminal
    <2>3. pc'[r] = "done" => pc[r] = "settle"
      BY <2>1, <2>2 DEF Leads, Bills, Advances, FirstCall, EnterCall
    <2>4. pc'[r] = "done" => Proof(r)' \in settled' \cup Range(Pending)' \cup dropped'
      <3> SUFFICES ASSUME pc'[r] = "done" PROVE Proof(r) \in settled' \cup Range(Pending)' \cup dropped'
        BY <2>1
      <3>1. SettleProof(r)
        BY <1>4, <2>3, StepAt
      <3> QED
        BY <1>1, <3>1, SettleMoves
    <2>5. ASSUME Route(r) # "batch", pc'[r] \in {"findUsage", "insertUsage", "settle"}
          PROVE  WorkOf(r)' # {}
      <3>1. job[r].calls # <<>> /\ call[r] \in DOMAIN job[r].calls
        BY <1>1, <2>5, JobFacts DEF Places, Placed
      <3>2. pc[r] \in {"run", "findUsage", "insertUsage"}
        BY <2>1, <2>2, <2>5, <3>1 DEF Leads, FirstCall, EnterCall
      <3>3. CASE pc[r] = "run"
        <4>1. RunTool(r)
          BY <1>4, <3>3, StepAt
        <4>2. ran' = ran \cup {<<r, call[r]>>}
          BY <2>5, <4>1 DEF RunTool, Go, Places
        <4>3. call[r] \in WorkOf(r)'
          BY <2>1, <3>1, <4>2 DEF WorkOf
        <4> QED
          BY <4>3
      <3>4. CASE pc[r] \in {"findUsage", "insertUsage"}
        BY <1>1, <2>1, <2>5, <3>4 DEF Answered
      <3> QED
        BY <3>2, <3>3, <3>4
    <2> QED
      BY <2>1, <2>4, <2>5 DEF Answered
  <1>5. ASSUME NEW q \in Requests, TimeOut(q) \/ Crash \/ Tick PROVE Answered(r)'
    <2>1. job' = job /\ ran' = ran /\ (pc'[r] = pc[r] \/ pc'[r] \in Stops)
      BY <1>5, Faults
    <2> QED
      BY <1>2, <2>1 DEF WorkOf
  <1>6. CASE UNCHANGED vars
    BY <1>2, <1>6 DEF vars, WorkOf
  <1> QED
    BY <1>3, <1>4, <1>5, <1>6 DEF Next, Terminating

LEMMA QueuedStep == Places /\ Queued /\ [Next]_vars => Queued'
  <1> SUFFICES ASSUME Places, Queued, [Next]_vars PROVE Queued'
    OBVIOUS
  <1>1. QueueTypes' /\ AllEarned'
    BY ListsMove, EarnedStep
  <1>2. \A r \in Requests : pc'[r] = "next" => Retrying(r)'
    BY RetryingStep
  <1>3. ASSUME NEW r \in Requests, ByProof(r)' PROVE Answered(r)'
    <2>1. job' = job
      <3>1. ASSUME Tick \/ Crash \/ UNCHANGED vars PROVE job' = job
        BY <3>1 DEF Tick, Crash, vars
      <3> QED
        BY <3>1, OthersStay DEF Next, Terminating
    <2> QED
      BY <1>3, <2>1, AnsweredStep DEF ByProof, Proof
  <1> QED
    BY <1>1, <1>2, <1>3 DEF Queued

\* ProofAccounted holds of the gateway: the nonce that a request takes before
\* it works is what keeps every other request off its proof, and a proof that
\* was not settled when its request was answered is listed until a retry
\* settles it, or is among the losses the property names.
THEOREM RequestProofAccounted == Spec => []ProofAccounted
  <1> DEFINE Inv == Places /\ Alone /\ Queued
  <1>1. Init => Inv
    BY PlacesInit, AloneInit, QueuedInit
  <1>2. Inv /\ [Next]_vars => Inv'
    BY PlacesNext, AloneStep, QueuedStep
  <1>3. Inv => ProofAccounted
    <2> SUFFICES ASSUME Inv PROVE ProofAccounted
      OBVIOUS
    <2>1. ASSUME NEW q \in Requests, NEW r \in Requests, ByProof(q), q # r, Proof(q) = Proof(r)
          PROVE  WorkOf(q) = {} \/ WorkOf(r) = {}
      BY <2>1 DEF Alone, Paying, ByProof
    <2>2. ASSUME NEW r \in Requests, ByProof(r)
          PROVE  /\ pc[r] = "done" => Proof(r) \in settled \cup Range(Pending) \cup dropped
                 /\ Proof(r) \in settled /\ Route(r) = "execute" =>
                      \E q \in Requests : Proof(q) = Proof(r) /\ (WorkOf(q) # {} \/ Route(q) = "batch")
      BY <2>2 DEF Queued, Answered, AllEarned, Earned
    <2> QED
      BY <2>1, <2>2 DEF ProofAccounted
  <1> QED
    BY <1>1, <1>2, <1>3, PTL DEF Spec

-----------------------------------------------------------------------------
\* Bills.  What a set of rows costs.
Costs(S) == IsFiniteSet(S) /\ \A x \in S : x.cost \in Nat

LEMMA CostNat == ASSUME NEW S, Costs(S) PROVE CostOf(S) \in Nat
  <1> DEFINE f == [x \in S |-> x.cost]
  <1>1. IsFiniteSet(S) /\ \A x \in S : f[x] \in Nat
    BY DEF Costs
  <1> HIDE DEF f
  <1>2. Sum(f, S) \in Nat
    BY <1>1, SumNat
  <1> QED
    BY <1>2 DEF CostOf, f

LEMMA CostAdd ==
    ASSUME NEW S, Costs(S), NEW a, a \notin S, a.cost \in Nat
    PROVE  /\ Costs(S \cup {a})
           /\ CostOf(S \cup {a}) = CostOf(S) + a.cost
  <1> DEFINE f == [x \in S |-> x.cost]
             g == [x \in S \cup {a} |-> x.cost]
  <1>1. Costs(S \cup {a}) /\ IsFiniteSet(S)
    BY FS_AddElement DEF Costs
  <1>2. /\ \A x \in S \cup {a} : g[x] \in Int
        /\ \A x \in S : f[x] \in Int /\ f[x] = g[x]
        /\ g[a] = a.cost
    BY DEF Costs
  <1>3. CostOf(S) = Sum(f, S) /\ CostOf(S \cup {a}) = Sum(g, S \cup {a})
    BY DEF CostOf
  <1> HIDE DEF f, g
  <1>4. Sum(f, S) = Sum(g, S)
    BY <1>1, <1>2, SumSame
  <1>5. Sum(g, S \cup {a}) = Sum(g, S) + g[a]
    BY <1>1, <1>2, SumAdd
  <1> QED
    BY <1>1, <1>2, <1>3, <1>4, <1>5

LEMMA CostPart ==
    ASSUME NEW S, Costs(S), NEW T \in SUBSET S
    PROVE  Costs(T) /\ CostOf(T) <= CostOf(S) /\ CostOf(T) \in Nat /\ CostOf(S) \in Nat
  <1> DEFINE f == [x \in S |-> x.cost]
             g == [x \in T |-> x.cost]
  <1>1. Costs(T) /\ IsFiniteSet(S) /\ IsFiniteSet(T)
    BY FS_Subset DEF Costs
  <1>2. /\ \A x \in S : f[x] \in Nat
        /\ \A x \in T : g[x] \in Int /\ g[x] = f[x]
    BY DEF Costs
  <1>3. CostOf(S) = Sum(f, S) /\ CostOf(T) = Sum(g, T)
    BY DEF CostOf
  <1> HIDE DEF f, g
  <1>4. Sum(g, T) = Sum(f, T)
    BY <1>1, <1>2, SumSame
  <1>5. Sum(f, T) \in Nat /\ Sum(f, S) \in Nat /\ Sum(f, T) <= Sum(f, S)
    BY <1>1, <1>2, SumPart
  <1> QED
    BY <1>1, <1>3, <1>4, <1>5

LEMMA CostNothing == CostOf({}) = 0
  BY SumEmpty DEF CostOf

\* A call is charged for once, after its tool has run; and nobody is answered
\* who has not paid.
Paid == {"event", "respond", "done", "error", "504", "lost"}
Worked == {"findUsage", "insertUsage", "charge", "settle"} \cup Paid
Costly(r, n) == Cost[job[r].calls[n]] > 0

ChargeTypes ==
    /\ Costs(charged) /\ balance \in Int
    /\ \A c \in charged : c.by \in Requests /\ c.call \in Nat \ {0}
    /\ \A c, d \in charged : c.by = d.by /\ c.call = d.call => c = d

Charging(c) ==
    /\ ~ByProof(c.by) /\ pc[c.by] \notin {"rejected", "replayed"}
    /\ c.call <= call[c.by] /\ (c.call = call[c.by] => pc[c.by] \in Paid)
    /\ Route(c.by) # "batch" => <<c.by, c.call>> \in ran

\* What has worked, and what of it is paid for.
Done(r, n) == n < call[r] \/ pc[r] \in {"event", "respond", "done"}
Working(r) ==
    /\ Route(r) # "batch" /\ pc[r] \in {"findUsage", "insertUsage", "charge"} => <<r, call[r]>> \in ran
    /\ \A n \in WorkOf(r) :
          /\ n <= call[r] /\ (n = call[r] => pc[r] \in Worked)
          /\ ~ByProof(r) /\ Costly(r, n) /\ Done(r, n) => n \in PaidFor(r)

BillInv ==
    /\ ChargeTypes /\ balance = Start - CostOf(charged)
    /\ \A c \in charged : Charging(c)
    /\ \A r \in Requests : Working(r)

LEMMA BillInit == Init => BillInv
  <1> SUFFICES ASSUME Init PROVE BillInv
    OBVIOUS
  <1>1. /\ charged = {} /\ ran = {} /\ balance = Start
        /\ \A r \in Requests : pc[r] \in {"new", "done"}
    BY DEF Init
  <1>2. ChargeTypes /\ balance = Start - CostOf(charged)
    BY <1>1, Constants, CostNothing, FS_EmptySet DEF ChargeTypes, Costs
  <1> QED
    BY <1>1, <1>2 DEF BillInv, Working, WorkOf

\* What is charged, and when.
LEMMA ChargeMoves ==
    ASSUME Places, ChargeTypes, NEW r \in Requests, ChargeCall(r)
    PROVE  LET n == Cost[Tool(r)]
               x == [by |-> r, call |-> call[r], cost |-> n, at |-> stamp[r]] IN
           /\ pc[r] = "charge" /\ ~ByProof(r) /\ n \in Nat /\ call[r] \in DOMAIN job[r].calls
           /\ ran' = ran
           /\ \/ UNCHANGED <<balance, charged>> /\ (n = 0 \/ pc'[r] = "error")
              \/ balance' = balance - n /\ charged' = charged \cup {x}
  <1>1. pc[r] = "charge" /\ Placed(r) /\ Route(r) \in Routes
    BY JobFacts DEF ChargeCall, Places
  <1>2. ~ByProof(r)
    BY <1>1 DEF Placed, Standing, Terminal
  <1>3. call[r] \in DOMAIN job[r].calls /\ Tool(r) \in Tools
    BY <1>1, JobFacts DEF Places, Placed, AtCall, Tool
  <1>4. Cost[Tool(r)] \in Nat
    BY <1>3, Constants
  <1>5. pc = [q \in Requests |-> pc[q]]
    BY DEF Places
  <1>6. ran' = ran
    BY DEF ChargeCall
  <1> QED
    BY <1>1, <1>2, <1>3, <1>4, <1>5, <1>6 DEF ChargeCall, Go

LEMMA ChargeTypesStep ==
    Places /\ BillInv /\ [Next]_vars => ChargeTypes' /\ (balance = Start - CostOf(charged))'
  <1> SUFFICES ASSUME Places, BillInv, [Next]_vars
               PROVE  ChargeTypes' /\ (balance = Start - CostOf(charged))'
    OBVIOUS
  <1>1. ChargeTypes /\ balance = Start - CostOf(charged)
    BY DEF BillInv
  <1>2. ASSUME UNCHANGED <<balance, charged>> PROVE ChargeTypes' /\ (balance = Start - CostOf(charged))'
    BY <1>1, <1>2 DEF ChargeTypes
  <1>3. ASSUME NEW r \in Requests, ChargeCall(r)
        PROVE  ChargeTypes' /\ (balance = Start - CostOf(charged))'
    <2> DEFINE n == Cost[Tool(r)]
               x == [by |-> r, call |-> call[r], cost |-> n, at |-> stamp[r]]
    <2>1. /\ pc[r] = "charge" /\ n \in Nat
          /\ \/ UNCHANGED <<balance, charged>>
             \/ balance' = balance - n /\ charged' = charged \cup {x}
      BY <1>1, <1>3, ChargeMoves
    <2>2. CASE balance' = balance - n /\ charged' = charged \cup {x}
      <3>1. \A c \in charged : ~ (c.by = r /\ c.call = call[r])
        BY <2>1 DEF BillInv, Charging, Paid
      <3>2. x.by = r /\ x.call = call[r] /\ x.cost = n /\ x \notin charged
        BY <3>1
      <3>3. call[r] \in Nat \ {0}
        BY DEF Places
      <3> HIDE DEF x, n
      <3>4. Costs(charged') /\ CostOf(charged') = CostOf(charged) + n
        BY <1>1, <2>1, <2>2, <3>2, CostAdd DEF ChargeTypes
      <3>5. \A c, d \in charged' : c.by = d.by /\ c.call = d.call => c = d
        BY <1>1, <2>2, <3>1, <3>2 DEF ChargeTypes
      <3>6. CostOf(charged) \in Nat /\ balance \in Int /\ Start \in Nat
        BY <1>1, CostNat, Constants DEF ChargeTypes
      <3>7. balance' = Start - CostOf(charged') /\ balance' \in Int
        BY <1>1, <2>1, <2>2, <3>4, <3>6
      <3>8. \A c \in charged' : c.by \in Requests /\ c.call \in Nat \ {0}
        BY <1>1, <2>2, <3>2, <3>3 DEF ChargeTypes
      <3> QED
        BY <3>4, <3>5, <3>7, <3>8 DEF ChargeTypes
    <2> QED
      BY <1>2, <2>1, <2>2
  <1>4. ASSUME NEW r \in Requests, Step(r) \/ TimeOut(r), ~ChargeCall(r)
        PROVE  UNCHANGED <<balance, charged>>
    BY <1>4, Writers, Faults
  <1>5. Tick \/ Crash \/ UNCHANGED vars => UNCHANGED <<balance, charged>>
    BY DEF Tick, Crash, vars, bill
  <1> QED
    BY <1>2, <1>3, <1>4, <1>5 DEF Next, Terminating

\* Whoever has been charged goes to its next call, or on to its answer, and is
\* not rejected any more.
LEMMA ChargedMoves ==
    ASSUME Places, NEW r \in Requests, Step(r), ~ByProof(r), NEW n \in Nat \ {0}, n <= call[r],
           n = call[r] => pc[r] \in Paid \cup {"charge"}
    PROVE  /\ pc'[r] \notin {"rejected", "replayed"}
           /\ n <= call'[r]
           /\ n = call'[r] => pc'[r] \in Paid
  <1>1. /\ Leads(r) /\ Placed(r) /\ Route(r) \in Routes /\ call[r] \in Nat \ {0}
    BY StepLeads, JobFacts DEF Places
  <1>2. \/ call'[r] = call[r]
        \/ call[r] < Len(job[r].calls) /\ call'[r] = call[r] + 1
    BY <1>1, Targets DEF Leads
  <1>3. CASE n = call[r]
    <2>1. \/ pc'[r] \in {"done", "error", "event"} /\ call'[r] = call[r]
          \/ Advances(r)
      BY <1>1, <1>3 DEF Leads, Paid, Running, Terminal
    <2>2. Advances(r) => \/ pc'[r] \in {"done", "respond"} /\ call'[r] = call[r]
                         \/ pc'[r] \in {"countTool", "run"} /\ call'[r] = call[r] + 1
      BY DEF Advances, EnterCall
    <2> QED
      BY <1>1, <1>3, <2>1, <2>2 DEF Paid
  <1>4. CASE n < call[r]
    <2>1. call[r] # 1
      BY <1>4
    <2>2. Route(r) = "batch" /\ pc[r] \in AtCall
      BY <1>1, <2>1 DEF Placed, Standing, Asking, Terminal, AtCall, Leads, Running
    <2>3. pc'[r] \notin {"rejected", "replayed"}
      BY <1>1, <2>2, Targets DEF Leads, AtCall, Rest
    <2> QED
      BY <1>1, <1>2, <1>4, <2>3
  <1> QED
    BY <1>1, <1>3, <1>4

LEMMA ChargingStep == Places /\ BillInv /\ [Next]_vars => \A c \in charged' : Charging(c)'
  <1> SUFFICES ASSUME Places, BillInv, [Next]_vars, NEW c \in charged' PROVE Charging(c)'
    OBVIOUS
  <1>1. ASSUME NEW q \in Requests, Step(q) PROVE Charging(c)'
    <2>1. job' = job /\ ran \subseteq ran'
      BY <1>1, OthersStay, Writers DEF RunTool
    <2>2. \/ c \in charged
          \/ /\ ChargeCall(q) /\ pc[q] = "charge" /\ ~ByProof(q) /\ c.by = q /\ c.call = call[q]
      <3>1. CASE charged' = charged
        BY <3>1
      <3>2. CASE ChargeCall(q)
        BY <3>2, ChargeMoves DEF BillInv
      <3> QED
        BY <1>1, <3>1, <3>2, Writers
    <2>3. /\ c.by \in Requests /\ c.call \in Nat \ {0} /\ call[q] \in Nat \ {0}
      BY <2>2 DEF BillInv, ChargeTypes, Places
    <2>4. ~ByProof(c.by) /\ c.call <= call[c.by] /\ (c.call = call[c.by] => pc[c.by] \in Paid \cup {"charge"})
          /\ (Route(c.by) # "batch" => <<c.by, c.call>> \in ran)
      <3>1. CASE c \in charged
        BY <3>1 DEF BillInv, Charging
      <3>2. CASE ChargeCall(q) /\ pc[q] = "charge" /\ ~ByProof(q) /\ c.by = q /\ c.call = call[q]
        BY <2>3, <3>2 DEF BillInv, Working
      <3> QED
        BY <2>2, <3>1, <3>2
    <2>5. CASE c.by = q
      BY <1>1, <2>1, <2>3, <2>4, <2>5, ChargedMoves DEF Charging, ByProof, Proof, Route
    <2>6. CASE c.by # q
      BY <1>1, <2>1, <2>2, <2>3, <2>6, OthersStay DEF BillInv, Charging, ByProof, Proof, Route
    <2> QED
      BY <2>5, <2>6
  <1>2. ASSUME NEW q \in Requests, TimeOut(q) \/ Crash \/ Tick PROVE Charging(c)'
    <2>1. c \in charged /\ c.by \in Requests /\ Charging(c)
      BY <1>2, Faults DEF BillInv, ChargeTypes
    <2>2. /\ job' = job /\ call' = call /\ ran' = ran
          /\ pc'[c.by] = pc[c.by] \/ pc'[c.by] \in Stops
      BY <1>2, <2>1, Faults
    <2> QED
      BY <2>1, <2>2 DEF Charging, Stops, Paid, ByProof, Proof, Route
  <1>3. CASE UNCHANGED vars
    BY <1>3 DEF vars, BillInv, Charging, ByProof, Proof, Route
  <1>4. CASE Requests = {}
    <2>1. charged' = charged
      BY <1>4 DEF Next, Terminating, Tick, Crash, vars, bill
    <2> QED
      BY <1>4, <2>1 DEF BillInv, ChargeTypes
  <1> QED
    BY <1>1, <1>2, <1>3, <1>4 DEF Next, Terminating

\* Work that a request has done is behind it, and paid for when it goes on.
LEMMA WorkMoves ==
    ASSUME Places, BillInv, NEW r \in Requests, Step(r), NEW n \in WorkOf(r)
    PROVE  /\ n <= call'[r] /\ (n = call'[r] => pc'[r] \in Worked)
           /\ ~ByProof(r) /\ Costly(r, n) /\ Done(r, n)' => n \in PaidFor(r)'
  <1>1. /\ Leads(r) /\ Placed(r) /\ Route(r) \in Routes /\ call[r] \in Nat \ {0} /\ job' = job
        /\ n \in 1..Len(job[r].calls) /\ Len(job[r].calls) \in Nat
    BY StepLeads, OthersStay, JobFacts DEF Places, WorkOf
  <1>2. \/ call'[r] = call[r]
        \/ call[r] < Len(job[r].calls) /\ call'[r] = call[r] + 1
    BY <1>1, Targets DEF Leads
  <1>3. /\ n <= call[r] /\ (n = call[r] => pc[r] \in Worked)
        /\ ~ByProof(r) /\ Costly(r, n) /\ Done(r, n) => n \in PaidFor(r)
    BY DEF BillInv, Working
  <1>4. charged \subseteq charged'
    BY Writers, ChargeMoves DEF BillInv
  <1>5. PaidFor(r) \subseteq PaidFor(r)'
    BY <1>4 DEF PaidFor, ChargesOf
  <1>6. CASE n < call[r]
    BY <1>1, <1>2, <1>3, <1>5, <1>6 DEF Done
  <1>7. CASE n = call[r]
    <2>1. pc[r] \in {"findUsage", "insertUsage", "charge", "settle", "event", "respond"}
      BY <1>1, <1>3, <1>7 DEF Worked, Paid, Leads, Running, Terminal
    <2>2. Advances(r) => \/ pc'[r] \in {"done", "respond", "settle"} /\ call'[r] = call[r]
                         \/ call'[r] = call[r] + 1
      BY DEF Advances
    <2>3. call'[r] = call[r] => pc'[r] \in Worked
      BY <1>1, <2>1, <2>2 DEF Leads, Bills, Worked, Paid
    <2>4. ASSUME ~ByProof(r), Costly(r, n), Done(r, n)' PROVE n \in PaidFor(r)'
      <3>1. CASE pc[r] \in {"event", "respond"}
        BY <1>3, <1>5, <2>4, <3>1 DEF Done
      <3>2. CASE pc[r] = "settle"
        BY <1>1, <2>4, <3>2 DEF Placed, Standing, Asking, Gating, Terminal, Routes
      <3>3. CASE pc[r] \in {"findUsage", "insertUsage"}
        BY <1>1, <1>7, <2>4, <3>3 DEF Leads, Bills, Done
      <3>4. CASE pc[r] = "charge"
        <4>1. ChargeCall(r)
          BY <3>4, StepAt
        <4>2. pc'[r] # "error" /\ Cost[Tool(r)] # 0
          <5>1. pc'[r] = "error" => call'[r] = call[r]
            BY <1>1, <3>4 DEF Leads, Advances, EnterCall
          <5> QED
            BY <1>1, <1>7, <2>4, <5>1, ChargeMoves, <4>1 DEF Done, Costly, Tool, BillInv
        <4> DEFINE x == [by |-> r, call |-> call[r], cost |-> Cost[Tool(r)], at |-> stamp[r]]
        <4>3. x \in charged' /\ x.by = r /\ x.call = call[r]
          BY <4>1, <4>2, ChargeMoves DEF BillInv
        <4> QED
          BY <1>7, <4>3 DEF PaidFor, ChargesOf
      <3> QED
        BY <2>1, <3>1, <3>2, <3>3, <3>4
    <2> QED
      BY <1>1, <1>2, <1>7, <2>3, <2>4
  <1> QED
    BY <1>1, <1>3, <1>6, <1>7

LEMMA WorkingStep ==
    ASSUME Places, BillInv, [Next]_vars, NEW r \in Requests
    PROVE  Working(r)'
  <1>0. Working(r) /\ call[r] \in Nat
    BY DEF BillInv, Places
  <1>1. ASSUME Step(r) PROVE Working(r)'
    <2>1. /\ Leads(r) /\ Placed(r) /\ Route(r) \in Routes /\ job' = job /\ pc[r] \in Awaits
      BY <1>1, StepLeads, OthersStay, JobFacts DEF Places
    <2>2. ran' = ran \/ (RunTool(r) /\ pc[r] = "run" /\ ran' = ran \cup {<<r, call[r]>>})
      BY <1>1, Writers DEF RunTool
    <2>3. ASSUME Route(r) # "batch", pc'[r] \in {"findUsage", "insertUsage", "charge"}
          PROVE  <<r, call'[r]>> \in ran'
      <3>1. pc[r] \in {"run", "findUsage", "insertUsage"} /\ call'[r] = call[r]
        <4> HIDE DEF Counted, FirstCall, Past
        <4>1. CASE pc[r] \in AtCall
          BY <2>1, <2>3, <4>1 DEF Leads, AtCall, Advances, Bills, EnterCall
        <4>2. CASE pc[r] \in Gating \cup Terminal
          BY <2>1, <2>3, <4>2 DEF Leads, Gating, Terminal, Running
        <4>3. CASE pc[r] \in {"new", "record", "count", "burst", "balance", "budget", "next",
                              "nonce", "verify", "settle"}
          BY <2>1, <2>3, <4>3, Targets DEF Leads
        <4> QED
          BY <2>1, <4>1, <4>2, <4>3 DEF Awaits, Asking, AtCall
      <3>2. CASE pc[r] = "run"
        <4>1. RunTool(r)
          BY <1>1, <3>2, StepAt
        <4>2. ran' = ran \cup {<<r, call[r]>>}
          BY <2>3, <4>1 DEF RunTool, Go, Places
        <4> QED
          BY <3>1, <4>2
      <3>3. CASE pc[r] \in {"findUsage", "insertUsage"}
        BY <1>0, <2>2, <2>3, <3>1, <3>3 DEF Working
      <3> QED
        BY <3>1, <3>2, <3>3
    <2>4. ASSUME NEW n \in WorkOf(r)'
          PROVE  /\ n <= call'[r] /\ (n = call'[r] => pc'[r] \in Worked)
                 /\ ~ByProof(r) /\ Costly(r, n) /\ Done(r, n)' => n \in PaidFor(r)'
      <3>1. CASE n \in WorkOf(r)
        BY <1>1, <3>1, WorkMoves
      <3>2. CASE n \notin WorkOf(r)
        <4>1. RunTool(r) /\ pc[r] = "run" /\ n = call[r]
          BY <2>1, <2>2, <3>2 DEF WorkOf
        <4>2. pc'[r] \in {"findUsage", "error"} /\ call'[r] = call[r]
          BY <2>1, <4>1 DEF Leads
        <4> QED
          BY <1>0, <4>1, <4>2 DEF Worked, Paid, Done
      <3> QED
        BY <3>1, <3>2
    <2> QED
      BY <2>1, <2>3, <2>4 DEF Working, ByProof, Proof, Route, Costly
  <1>2. ASSUME job' = job, ran' = ran, call'[r] = call[r], charged \subseteq charged',
               \/ pc'[r] = pc[r]
               \/ pc'[r] \in Stops
        PROVE  Working(r)'
    <2>1. WorkOf(r)' = WorkOf(r) /\ PaidFor(r) \subseteq PaidFor(r)'
      BY <1>2 DEF WorkOf, PaidFor, ChargesOf
    <2> QED
      BY <1>0, <1>2, <2>1 DEF Working, Stops, Worked, Paid, Done, Costly, ByProof, Proof, Route
  <1>3. ASSUME NEW q \in Requests, Step(q), q # r PROVE Working(r)'
    <2>1. /\ job' = job /\ call'[r] = call[r] /\ pc'[r] = pc[r]
          /\ WorkOf(r)' = WorkOf(r)
      BY <1>3, OthersStay, WorkStep
    <2>2. charged \subseteq charged' /\ ran \subseteq ran'
      BY <1>3, Writers, ChargeMoves DEF BillInv, RunTool
    <2>3. PaidFor(r) \subseteq PaidFor(r)'
      BY <2>2 DEF PaidFor, ChargesOf
    <2> QED
      BY <1>0, <2>1, <2>2, <2>3 DEF Working, Done, Costly, ByProof, Proof, Route
  <1>4. ASSUME NEW q \in Requests, TimeOut(q) \/ Crash \/ Tick PROVE Working(r)'
    <2>1. job' = job /\ ran' = ran /\ call'[r] = call[r] /\ charged' = charged
          /\ (pc'[r] = pc[r] \/ pc'[r] \in Stops)
      BY <1>4, Faults
    <2> QED
      BY <1>2, <2>1
  <1>5. CASE UNCHANGED vars
    BY <1>2, <1>5 DEF vars
  <1> QED
    BY <1>1, <1>3, <1>4, <1>5 DEF Next, Terminating

\* BillsMatchWork holds of the gateway: the wallet has lost what the charges
\* say, each charge is for one call of a request that ran, and no request is
\* answered before what it ran is paid for.
THEOREM RequestBillsMatchWork == Spec => []BillsMatchWork
  <1> DEFINE Inv == Places /\ BillInv
  <1>1. Init => Inv
    BY PlacesInit, BillInit
  <1>2. Inv /\ [Next]_vars => Inv'
    BY PlacesNext, ChargeTypesStep, ChargingStep, WorkingStep DEF BillInv
  <1>3. Inv => BillsMatchWork
    <2> SUFFICES ASSUME Inv PROVE BillsMatchWork
      OBVIOUS
    <2>1. ASSUME NEW r \in Requests
          PROVE  /\ Cardinality(ChargesOf(r)) = Cardinality(PaidFor(r))
                 /\ pc[r] \in {"rejected", "replayed"} \/ ByProof(r) => ChargesOf(r) = {}
                 /\ Route(r) # "batch" => PaidFor(r) \subseteq WorkOf(r)
                 /\ pc[r] = "done" /\ ~ByProof(r) =>
                      WorkOf(r) \cap {n \in DOMAIN job[r].calls : Cost[job[r].calls[n]] > 0}
                      \subseteq PaidFor(r)
      <3>1. Cardinality(ChargesOf(r)) = Cardinality(PaidFor(r))
        <4> DEFINE S == ChargesOf(r)
                   f == [c \in S |-> c.call]
        <4>1. IsFiniteSet(S)
          BY FS_Subset DEF BillInv, ChargeTypes, Costs, ChargesOf
        <4>2. \A c, d \in S : f[c] = f[d] => c = d
          BY DEF BillInv, ChargeTypes, ChargesOf
        <4>3. f \in Bijection(S, PaidFor(r))
          BY <4>2 DEF Bijection, Injection, Surjection, PaidFor, IsInjective
        <4> QED
          BY <4>1, <4>3, FS_Bijection DEF ExistsBijection
      <3>2. pc[r] \in {"rejected", "replayed"} \/ ByProof(r) => ChargesOf(r) = {}
        BY DEF BillInv, Charging, ChargesOf
      <3>3. ASSUME Route(r) # "batch", NEW n \in PaidFor(r) PROVE n \in WorkOf(r)
        <4>1. PICK c \in charged : c.by = r /\ n = c.call
          BY DEF PaidFor, ChargesOf
        <4>2. <<r, n>> \in ran /\ n \in Nat \ {0} /\ n <= call[r]
          BY <3>3, <4>1 DEF BillInv, ChargeTypes, Charging
        <4>3. n \in DOMAIN job[r].calls
          BY <3>3, <4>2, JobFacts DEF Places, Placed
        <4> QED
          BY <4>2, <4>3 DEF WorkOf
      <3>4. pc[r] = "done" /\ ~ByProof(r) =>
               WorkOf(r) \cap {n \in DOMAIN job[r].calls : Cost[job[r].calls[n]] > 0}
               \subseteq PaidFor(r)
        BY DEF BillInv, Working, Done, Costly
      <3> QED
        BY <3>1, <3>2, <3>3, <3>4
    <2> QED
      BY <2>1 DEF BillsMatchWork, BillInv
  <1> QED
    BY <1>1, <1>2, <1>3, PTL DEF Spec

-----------------------------------------------------------------------------
\* The budget.  What the requests that saw each other have used.
Seen == {u \in usage : Rest(u.by) /\ u.by \notin unbudgeted}
Within(S, t) == {x \in S : x.at \in (t - Day)..t}

\* Whom the budget has admitted: at most one that it will see, and there is
\* room for what it asks.
Allowed(r) == Rest(r) /\ pc[r] \in Admitted /\ r \notin unbudgeted
From(r) == IF pc[r] = "insertUsage" THEN stamp[r] ELSE now
Room(r) == \A t \in Nat : t >= From(r) => CostOf(Within(Seen, t)) + TotalCost(r) <= DailyCap

UsageTypes == Costs(usage) /\ \A u \in usage : u.by \in Requests /\ u.at \in Nat
Capped == \A t \in Nat : CostOf(Within(Seen, t)) <= DailyCap

\* What is charged has been recorded at the same time.
Booked(r) == Rest(r) /\ r \notin unbudgeted /\ pc[r] = "charge" =>
    \E u \in usage : u.by = r /\ u.cost = Cost[Tool(r)] /\ u.at = stamp[r]
Entry(c) == Rest(c.by) /\ c.by \notin unbudgeted =>
    \E u \in usage : u.by = c.by /\ u.cost = c.cost /\ u.at = c.at

BudgetInv ==
    /\ UsageTypes /\ Capped
    /\ \A q, r \in Requests : Allowed(q) /\ Allowed(r) => q = r
    /\ \A r \in Requests : Allowed(r) => Room(r)
    /\ \A r \in Requests : Booked(r)
    /\ \A c \in charged : Entry(c)

LEMMA BudgetInit == Init => BudgetInv
  <1> SUFFICES ASSUME Init PROVE BudgetInv
    OBVIOUS
  <1>1. usage = {} /\ charged = {} /\ \A r \in Requests : pc[r] \in {"new", "done"}
    BY DEF Init
  <1>2. ASSUME NEW t \in Nat PROVE CostOf(Within(Seen, t)) = 0
    <2>1. Within(Seen, t) = {}
      BY <1>1 DEF Within, Seen
    <2> QED
      BY <2>1, CostNothing
  <1>3. UsageTypes /\ Capped
    BY <1>1, <1>2, Constants, FS_EmptySet DEF UsageTypes, Costs, Capped
  <1> QED
    BY <1>1, <1>3 DEF BudgetInv, Allowed, Admitted, Booked

\* A price is the price of the one call of a REST request.
LEMMA Prices ==
    ASSUME Places, NEW r \in Requests
    PROVE  /\ TotalCost(r) \in Nat
           /\ Rest(r) => TotalCost(r) = Cost[Tool(r)]
  <1> DEFINE calls == job[r].calls
             f == [n \in DOMAIN calls |-> Cost[calls[n]]]
             S == DOMAIN calls
  <1>1. /\ Len(calls) \in Nat /\ S = 1..Len(calls)
        /\ \A n \in S : f[n] \in Nat
    BY JobFacts, Constants DEF Places
  <1>2. IsFiniteSet(S)
    <2>1. 1 \in Int /\ Len(calls) \in Int
      BY <1>1
    <2>2. IsFiniteSet(1..Len(calls))
      <3> HIDE DEF calls, f, S
      <3> QED
        BY <2>1, FS_Interval
    <2> QED
      BY <1>1, <2>2
  <1>3. TotalCost(r) = Sum(f, S)
    BY DEF TotalCost, PriceOf
  <1>4. ASSUME Rest(r) PROVE TotalCost(r) = Cost[Tool(r)]
    <2>1. Len(calls) = 1 /\ call[r] = 1
      BY <1>4, JobFacts DEF Places, Placed
    <2>2. S = {1} /\ f[1] = Cost[Tool(r)] /\ f[1] \in Nat
      BY <1>1, <2>1 DEF Tool
    <2> HIDE DEF f, S
    <2>3. IsFiniteSet({}) /\ 1 \notin {} /\ {} \cup {1} = {1}
      BY FS_EmptySet
    <2>4. \A n \in {} \cup {1} : f[n] \in Int
      BY <2>2
    <2>5. Sum(f, {} \cup {1}) = Sum(f, {}) + f[1]
      BY <2>3, <2>4, SumAdd
    <2>6. Sum(f, {}) = 0
      BY SumEmpty
    <2>7. Sum(f, S) = Sum(f, {}) + f[1]
      BY <2>2, <2>3, <2>5
    <2> QED
      BY <1>3, <2>2, <2>6, <2>7
  <1> HIDE DEF f, S
  <1>5. Sum(f, S) \in Nat
    BY <1>1, <1>2, SumNat
  <1> QED
    BY <1>3, <1>4, <1>5

\* What is within a day of what was seen costs no more when less is seen.
LEMMA SeenLess ==
    ASSUME UsageTypes, NEW S, S \subseteq Seen, NEW t \in Nat
    PROVE  /\ Costs(Within(Seen, t)) /\ Costs(Within(S, t))
           /\ CostOf(Within(S, t)) \in Nat /\ CostOf(Within(Seen, t)) \in Nat
           /\ CostOf(Within(S, t)) <= CostOf(Within(Seen, t))
  <1>1. Within(Seen, t) \in SUBSET usage
    BY DEF Within, Seen
  <1>2. Costs(Within(Seen, t))
    BY <1>1, CostPart DEF UsageTypes
  <1>3. Within(S, t) \in SUBSET Within(Seen, t)
    BY DEF Within
  <1> QED
    BY <1>2, <1>3, CostPart

\* Who is admitted, and by what.
LEMMA AllowedMoves ==
    ASSUME Places, NEW r \in Requests, Step(r), Rest(r), pc'[r] \in Admitted
    PROVE  \/ pc[r] \in Admitted \ {"insertUsage"}
           \/ pc[r] = "budget" /\ CheckBudget(r)
  <1>1. /\ Leads(r) /\ Placed(r) /\ Route(r) \in {"rest", "gate"} /\ ~ByProof(r)
        /\ Len(job[r].calls) = 1 /\ call[r] = 1 /\ pc[r] \in Awaits
    BY StepLeads, JobFacts DEF Places, Placed, Rest
  <1>2. pc[r] \notin {"event", "settle", "nonce", "verify", "next"} \cup Terminal
    BY <1>1 DEF Placed, Standing, Asking, Gating, Terminal, Leads, Running
  <1>3. ~ (Advances(r) /\ pc'[r] \in Admitted)
    BY <1>1 DEF Advances, Admitted
  <1>4. pc[r] \notin {"insertUsage", "charge", "countTool"}
    BY <1>1, <1>3 DEF Leads, Bills, Rest, Admitted
  <1>5. pc[r] \notin {"new", "record", "count", "burst", "balance", "respond"}
    BY <1>1, Targets DEF Leads, Rest, Admitted
  <1>6. pc[r] \in Admitted \/ pc[r] = "budget"
    BY <1>1, <1>2, <1>4, <1>5 DEF Awaits, Asking, Gating, Admitted
  <1> QED
    BY <1>4, <1>6, StepAt

\* What a step leaves of the usage that is seen.
LEMMA SeenMoves ==
    ASSUME Places, UsageTypes, NEW r \in Requests, Step(r)
    PROVE  /\ job' = job /\ now' = now /\ unbudgeted \subseteq unbudgeted' /\ usage \subseteq usage'
           /\ \/ usage' = usage /\ Seen' \subseteq Seen
              \/ LET u == [by |-> r, key |-> UsageKey(r), cost |-> Cost[Tool(r)], at |-> stamp[r]] IN
                 /\ InsertUsage(r) /\ pc[r] = "insertUsage" /\ unbudgeted' = unbudgeted
                 /\ usage' = usage \cup {u} /\ u \notin usage
                 /\ Seen' = IF Rest(r) /\ r \notin unbudgeted THEN Seen \cup {u} ELSE Seen
  <1>1. job' = job /\ now' = now
    BY OthersStay
  <1>2. unbudgeted \subseteq unbudgeted'
    BY Writers DEF CheckBudget, FindUsage
  <1>3. CASE usage' = usage
    BY <1>1, <1>2, <1>3 DEF Seen, Rest, Route
  <1>4. CASE InsertUsage(r) /\ usage' # usage
    <2> DEFINE u == [by |-> r, key |-> UsageKey(r), cost |-> Cost[Tool(r)], at |-> stamp[r]]
    <2>1. /\ pc[r] = "insertUsage" /\ unbudgeted' = unbudgeted /\ usage' = usage \cup {u}
          /\ ~UsageKnown(r)
      BY <1>4 DEF InsertUsage
    <2>2. u.by = r /\ u.key = UsageKey(r)
      OBVIOUS
    <2> HIDE DEF u
    <2>3. u \notin usage
      BY <2>1, <2>2 DEF UsageKnown
    <2>4. Seen' = IF Rest(r) /\ r \notin unbudgeted THEN Seen \cup {u} ELSE Seen
      BY <1>1, <2>1, <2>2 DEF Seen, Rest, Route
    <2> QED
      BY <1>1, <1>4, <2>1, <2>3, <2>4 DEF u
  <1> QED
    BY <1>1, <1>2, <1>3, <1>4, Writers

\* The cap: a record that is written has been let in.
LEMMA CappedStep ==
    ASSUME Places, BudgetInv, NEW r \in Requests, Step(r)
    PROVE  UsageTypes' /\ Capped'
  <1>0. /\ UsageTypes /\ Capped
        /\ \/ usage' = usage /\ Seen' \subseteq Seen
           \/ LET u == [by |-> r, key |-> UsageKey(r), cost |-> Cost[Tool(r)], at |-> stamp[r]] IN
              /\ InsertUsage(r) /\ pc[r] = "insertUsage" /\ unbudgeted' = unbudgeted
              /\ usage' = usage \cup {u} /\ u \notin usage
              /\ Seen' = IF Rest(r) /\ r \notin unbudgeted THEN Seen \cup {u} ELSE Seen
    BY SeenMoves DEF BudgetInv
  <1>1. DailyCap \in Nat /\ Day \in Nat /\ stamp[r] \in Nat
    BY Constants DEF Places
  <1>2. ASSUME Seen' \subseteq Seen PROVE Capped'
    <2>1. ASSUME NEW t \in Nat PROVE CostOf(Within(Seen', t)) <= DailyCap
      BY <1>0, <1>1, <1>2, SeenLess DEF Capped
    <2> QED
      BY <2>1 DEF Capped, Within
  <1>3. CASE usage' = usage /\ Seen' \subseteq Seen
    BY <1>0, <1>2, <1>3 DEF UsageTypes
  <1>4. CASE LET u == [by |-> r, key |-> UsageKey(r), cost |-> Cost[Tool(r)], at |-> stamp[r]] IN
             /\ InsertUsage(r) /\ pc[r] = "insertUsage" /\ unbudgeted' = unbudgeted
             /\ usage' = usage \cup {u} /\ u \notin usage
             /\ Seen' = IF Rest(r) /\ r \notin unbudgeted THEN Seen \cup {u} ELSE Seen
    <2> DEFINE u == [by |-> r, key |-> UsageKey(r), cost |-> Cost[Tool(r)], at |-> stamp[r]]
    <2>1. Cost[Tool(r)] \in Nat
      <3>1. Tool(r) \in Tools
        BY <1>4, JobFacts DEF Places, Placed, AtCall, Tool
      <3> QED
        BY <3>1, Constants
    <2>2. u.by = r /\ u.at = stamp[r] /\ u.cost = Cost[Tool(r)] /\ u.cost \in Nat
      BY <2>1
    <2>3. /\ pc[r] = "insertUsage" /\ usage' = usage \cup {u} /\ u \notin usage
          /\ Seen' = IF Rest(r) /\ r \notin unbudgeted THEN Seen \cup {u} ELSE Seen
      BY <1>4
    <2> HIDE DEF u
    <2>4. UsageTypes'
      BY <1>0, <1>1, <2>2, <2>3, CostAdd DEF UsageTypes
    <2>5. CASE ~ (Rest(r) /\ r \notin unbudgeted)
      BY <1>2, <2>3, <2>4, <2>5
    <2>6. CASE Rest(r) /\ r \notin unbudgeted
      <3>1. Room(r) /\ TotalCost(r) = u.cost
        BY <2>2, <2>3, <2>6, Prices DEF BudgetInv, Allowed, Admitted
      <3>2. ASSUME NEW t \in Nat PROVE CostOf(Within(Seen', t)) <= DailyCap
        <4>1. u \notin Within(Seen, t) /\ Costs(Within(Seen, t)) /\ CostOf(Within(Seen, t)) \in Nat
          BY <1>0, <2>3, SeenLess DEF Within, Seen
        <4>2. CASE u.at \in (t - Day)..t
          <5>1. Within(Seen', t) = Within(Seen, t) \cup {u}
            BY <2>3, <2>6, <4>2 DEF Within
          <5>2. CostOf(Within(Seen', t)) = CostOf(Within(Seen, t)) + u.cost
            BY <2>2, <4>1, <5>1, CostAdd
          <5>3. t >= stamp[r]
            BY <1>1, <2>2, <4>2
          <5>4. CostOf(Within(Seen, t)) + u.cost <= DailyCap
            BY <2>3, <3>1, <5>3 DEF Room, From
          <5> QED
            BY <5>2, <5>4
        <4>3. CASE u.at \notin (t - Day)..t
          <5>1. Within(Seen', t) = Within(Seen, t)
            BY <2>3, <2>6, <4>3 DEF Within
          <5> QED
            BY <1>0, <5>1 DEF Capped
        <4> QED
          BY <4>2, <4>3
      <3>3. Capped'
        BY <3>2 DEF Capped, Within
      <3> QED
        BY <2>4, <3>3
    <2> QED
      BY <2>5, <2>6
  <1> QED
    BY <1>0, <1>3, <1>4

\* Room that there was is left while others use nothing.
LEMMA RoomStays ==
    ASSUME Places, UsageTypes, NEW q \in Requests, job' = job, Seen' \subseteq Seen,
           From(q) \in Nat, From(q)' \in Nat, From(q) <= From(q)', Room(q)
    PROVE  Room(q)'
  <1>1. TotalCost(q)' = TotalCost(q) /\ TotalCost(q) \in Nat /\ DailyCap \in Nat
    BY Prices, Constants DEF TotalCost
  <1>2. ASSUME NEW t \in Nat, t >= From(q)'
        PROVE  CostOf(Within(Seen', t)) + TotalCost(q) <= DailyCap
    <2>1. CostOf(Within(Seen, t)) + TotalCost(q) <= DailyCap
      BY <1>2 DEF Room
    <2>2. /\ CostOf(Within(Seen', t)) \in Nat /\ CostOf(Within(Seen, t)) \in Nat
          /\ CostOf(Within(Seen', t)) <= CostOf(Within(Seen, t))
      BY SeenLess
    <2> QED
      BY <1>1, <2>1, <2>2
  <1> QED
    BY <1>1, <1>2 DEF Room, Within

\* The check leaves room for what it lets in.
LEMMA CheckMoves ==
    ASSUME Places, UsageTypes, Capped, NEW r \in Requests, CheckBudget(r), Rest(r),
           pc'[r] \in Admitted, Seen' \subseteq Seen, job' = job, now' = now
    PROVE  Room(r)' /\ (Unrecorded(r) => r \in unbudgeted')
  <1>1. /\ TotalCost(r)' = TotalCost(r) /\ TotalCost(r) \in Nat /\ DailyCap \in Nat /\ Day \in Nat
        /\ now \in Nat /\ \A u \in usage : u.at \in Nat
    BY Prices, Constants DEF TotalCost, Places, UsageTypes
  <1>2. /\ pc'[r] = Past(r)
        /\ \/ TotalCost(r) = 0
           \/ ~ (SpentSince(now - Day) + TotalCost(r) > DailyCap)
        /\ Unrecorded(r) => r \in unbudgeted'
    BY <1>1 DEF CheckBudget, Go, Admitted, Places
  <1>3. From(r)' = now
    BY <1>2 DEF From, Past
  <1>4. ASSUME NEW t \in Nat, t >= now
        PROVE  CostOf(Within(Seen', t)) + TotalCost(r) <= DailyCap
    <2>1. /\ CostOf(Within(Seen', t)) \in Nat /\ CostOf(Within(Seen, t)) \in Nat
          /\ CostOf(Within(Seen', t)) <= CostOf(Within(Seen, t))
      BY SeenLess
    <2>2. CASE TotalCost(r) = 0
      BY <1>1, <2>1, <2>2 DEF Capped
    <2>3. CASE ~ (SpentSince(now - Day) + TotalCost(r) > DailyCap)
      <3> DEFINE Spent == {u \in usage : ~ByProof(u.by) /\ u.at >= now - Day}
      <3>1. Within(Seen', t) \in SUBSET Spent
        <4>1. ASSUME NEW u \in Within(Seen', t)
              PROVE  u \in usage /\ Rest(u.by) /\ u.at \in (t - Day)..t
          BY DEF Within, Seen
        <4>2. ASSUME NEW u \in Within(Seen', t) PROVE ~ByProof(u.by) /\ u.at >= now - Day
          BY <1>1, <1>4, <4>1, JobFacts DEF UsageTypes, Places
        <4> QED
          BY <4>1, <4>2
      <3>2. Costs(Spent)
        <4>1. Spent \in SUBSET usage
          OBVIOUS
        <4> QED
          BY <4>1, CostPart DEF UsageTypes
      <3>3. CostOf(Spent) = SpentSince(now - Day)
        BY DEF SpentSince
      <3> HIDE DEF Spent
      <3>4. CostOf(Within(Seen', t)) <= CostOf(Spent) /\ CostOf(Spent) \in Nat
        BY <3>1, <3>2, CostPart
      <3> QED
        BY <1>1, <2>1, <2>3, <3>3, <3>4
    <2> QED
      BY <1>2, <2>2, <2>3
  <1> QED
    BY <1>1, <1>2, <1>3, <1>4 DEF Room, Within

\* Whoever is admitted next is alone in the books, and has room.
LEMMA AllowedStep ==
    ASSUME Places, BudgetInv, NEW r \in Requests, Step(r)
    PROVE  /\ \A q, p \in Requests : Allowed(q)' /\ Allowed(p)' => q = p
           /\ \A q \in Requests : Allowed(q)' => Room(q)'
  <1>0. /\ UsageTypes /\ Capped /\ job' = job /\ now' = now /\ now \in Nat
        /\ unbudgeted \subseteq unbudgeted'
        /\ \A q \in Requests : Rest(q)' = Rest(q) /\ stamp[q] \in Nat
    BY SeenMoves DEF BudgetInv, Places, Rest, Route
  <1>1. ASSUME NEW q \in Requests, q # r
        PROVE  From(q)' = From(q) /\ From(q) \in Nat /\ pc'[q] = pc[q] /\ (Allowed(q)' => Allowed(q))
    BY <1>0, <1>1, OthersStay DEF Allowed, From
  <1>2. ASSUME NEW q \in Requests, q # r, Allowed(q)' PROVE Seen' \subseteq Seen /\ Room(q)'
    <2>1. Allowed(q) /\ Room(q)
      BY <1>1, <1>2 DEF BudgetInv
    <2>2. ~ (Rest(r) /\ pc[r] = "insertUsage" /\ r \notin unbudgeted)
      BY <1>2, <2>1 DEF BudgetInv, Allowed, Admitted
    <2>3. Seen' \subseteq Seen
      BY <1>0, <2>2, SeenMoves
    <2>4. From(q) <= From(q)'
      BY <1>1, <1>2
    <2> QED
      BY <1>0, <1>1, <1>2, <2>1, <2>3, <2>4, RoomStays
  <1>3. ASSUME Allowed(r)'
        PROVE  Room(r)' /\ \A p \in Requests : Allowed(p)' => p = r
    <2>1. Rest(r) /\ pc'[r] \in Admitted /\ r \notin unbudgeted /\ r \notin unbudgeted'
      BY <1>0, <1>3 DEF Allowed
    <2>2. pc[r] # "insertUsage"
      BY <2>1, AllowedMoves
    <2>3. Seen' \subseteq Seen
      BY <1>0, <2>2, SeenMoves
    <2>4. CASE pc[r] \in Admitted \ {"insertUsage"}
      <3>1. Allowed(r) /\ Room(r)
        BY <2>1, <2>4 DEF Allowed, BudgetInv
      <3>2. From(r) = now
        BY <2>2 DEF From
      <3>3. From(r)' = now
        <4>1. pc'[r] = "insertUsage" => pc[r] = "findUsage"
          BY Sources
        <4>2. pc'[r] = "insertUsage" => stamp'[r] = now
          BY <4>1, Clocks
        <4> QED
          BY <1>0, <4>2 DEF From
      <3>4. Room(r)'
        BY <1>0, <2>3, <3>1, <3>2, <3>3, RoomStays
      <3> QED
        BY <1>1, <3>1, <3>4 DEF BudgetInv
    <2>5. CASE CheckBudget(r)
      <3>1. Room(r)' /\ ~Unrecorded(r)
        BY <1>0, <2>1, <2>3, <2>5, CheckMoves
      <3>2. ASSUME NEW p \in Requests, Allowed(p)', p # r PROVE FALSE
        BY <1>1, <3>1, <3>2 DEF Allowed, Unrecorded
      <3> QED
        BY <3>1, <3>2
    <2> QED
      BY <2>1, <2>4, <2>5, AllowedMoves
  <1>4. ASSUME NEW q \in Requests, NEW p \in Requests, Allowed(q)', Allowed(p)' PROVE q = p
    <2>1. CASE q = r \/ p = r
      BY <1>3, <1>4, <2>1
    <2>2. CASE q # r /\ p # r
      BY <1>1, <1>4, <2>2 DEF BudgetInv
    <2> QED
      BY <2>1, <2>2
  <1> QED
    BY <1>2, <1>3, <1>4

\* What is charged is booked first.
LEMMA BookedStep ==
    ASSUME Places, BudgetInv, ChargeTypes, NEW r \in Requests, Step(r)
    PROVE  (\A q \in Requests : Booked(q)') /\ (\A c \in charged' : Entry(c)')
  <1>0. /\ job' = job /\ unbudgeted \subseteq unbudgeted' /\ usage \subseteq usage'
        /\ Booked(r) /\ pc = [q \in Requests |-> pc[q]]
    BY SeenMoves DEF BudgetInv, Places
  <1>1. ASSUME NEW q \in Requests, q # r PROVE Booked(q)'
    <2>1. /\ pc'[q] = pc[q] /\ stamp'[q] = stamp[q] /\ Tool(q)' = Tool(q) /\ Rest(q)' = Rest(q)
      BY <1>0, <1>1, OthersStay DEF Tool, Rest, Route
    <2>2. Booked(q)
      BY DEF BudgetInv
    <2>3. ASSUME Rest(q)', q \notin unbudgeted', pc'[q] = "charge"
          PROVE  \E u \in usage' : u.by = q /\ u.cost = Cost[Tool(q)]' /\ u.at = stamp'[q]
      <3>1. PICK u \in usage : u.by = q /\ u.cost = Cost[Tool(q)] /\ u.at = stamp[q]
        BY <1>0, <2>1, <2>2, <2>3 DEF Booked
      <3>2. Cost[Tool(q)]' = Cost[Tool(q)]
        BY <2>1
      <3> QED
        BY <1>0, <2>1, <3>1, <3>2
    <2> QED
      BY <2>3 DEF Booked
  <1>2. ASSUME Rest(r), r \notin unbudgeted', pc'[r] = "charge"
        PROVE  \E u \in usage' : u.by = r /\ u.cost = Cost[Tool(r)]' /\ u.at = stamp'[r]
    <2>1. Leads(r) /\ pc[r] \in Awaits
      BY StepLeads DEF Places
    <2>2. pc[r] \in {"findUsage", "insertUsage"}
      <3> HIDE DEF Counted, FirstCall, Past, Advances
      <3>1. CASE pc[r] \in AtCall
        BY <1>2, <2>1, <3>1, Targets DEF Leads, AtCall
      <3>2. CASE pc[r] \in Gating \cup Terminal
        BY <1>2, <2>1, <3>2 DEF Leads, Gating, Terminal, Running
      <3>3. CASE pc[r] \in {"new", "record", "count", "burst", "balance", "budget", "next",
                            "nonce", "verify", "settle"}
        BY <1>2, <2>1, <3>3, Targets DEF Leads
      <3> QED
        BY <2>1, <3>1, <3>2, <3>3 DEF Awaits, Asking, AtCall
    <2>3. pc[r] = "insertUsage"
      <3>1. ASSUME FindUsage(r) PROVE FALSE
        BY <1>0, <1>2, <3>1 DEF FindUsage, Go
      <3> QED
        BY <2>2, <3>1, StepAt
    <2>4. InsertUsage(r)
      BY <2>3, StepAt
    <2>5. /\ [by |-> r, key |-> UsageKey(r), cost |-> Cost[Tool(r)], at |-> stamp[r]] \in usage'
          /\ stamp' = stamp
      BY <1>0, <1>2, <2>4 DEF InsertUsage, Go
    <2>6. call'[r] = call[r]
      BY <1>2, <2>1, <2>3 DEF Leads, Bills, Advances, EnterCall
    <2>7. Cost[Tool(r)]' = Cost[Tool(r)]
      BY <1>0, <2>6 DEF Tool
    <2> QED
      BY <2>5, <2>7
  <1>3. Booked(r)'
    BY <1>0, <1>2 DEF Booked, Rest, Route
  <1>4. ASSUME NEW c \in charged' PROVE Entry(c)'
    <2>1. CASE c \in charged
      BY <1>0, <2>1 DEF BudgetInv, Entry, Rest, Route
    <2>2. CASE c \notin charged
      <3>1. ChargeCall(r)
        BY <2>2, Writers
      <3>2. /\ pc[r] = "charge" /\ c.by = r /\ c.cost = Cost[Tool(r)] /\ c.at = stamp[r]
        BY <2>2, <3>1, ChargeMoves
      <3> QED
        BY <1>0, <3>2 DEF Booked, Entry, Rest, Route
    <2> QED
      BY <2>1, <2>2
  <1> QED
    BY <1>1, <1>3, <1>4

LEMMA BudgetStep == Places /\ BillInv /\ BudgetInv /\ [Next]_vars => BudgetInv'
  <1> SUFFICES ASSUME Places, BillInv, BudgetInv, [Next]_vars PROVE BudgetInv'
    OBVIOUS
  <1>1. ASSUME NEW r \in Requests, Step(r) PROVE BudgetInv'
    BY <1>1, CappedStep, AllowedStep, BookedStep DEF BudgetInv, BillInv
  <1>2. ASSUME job' = job, UNCHANGED <<usage, unbudgeted, charged, call, stamp>>,
               now <= now', now' \in Nat,
               \A q \in Requests : pc'[q] = pc[q] \/ pc'[q] \in Stops
        PROVE  BudgetInv'
    <2>1. Seen' = Seen /\ UsageTypes /\ Capped
      BY <1>2 DEF Seen, Rest, Route, BudgetInv
    <2>2. UsageTypes' /\ Capped'
      BY <1>2, <2>1 DEF UsageTypes, Capped, Within
    <2>3. ASSUME NEW q \in Requests, Allowed(q)' PROVE Allowed(q) /\ Room(q)'
      <3>1. Allowed(q) /\ pc'[q] = pc[q]
        BY <1>2, <2>3 DEF Allowed, Rest, Route, Stops, Admitted
      <3>2. From(q) \in Nat /\ From(q)' \in Nat /\ From(q) <= From(q)'
        BY <1>2, <3>1 DEF From, Places
      <3>3. Room(q)
        BY <3>1 DEF BudgetInv
      <3> QED
        BY <1>2, <2>1, <3>1, <3>2, <3>3, RoomStays
    <2>4. ASSUME NEW q \in Requests PROVE Booked(q)'
      BY <1>2 DEF BudgetInv, Booked, Rest, Route, Tool, Stops
    <2>5. ASSUME NEW c \in charged' PROVE Entry(c)'
      BY <1>2 DEF BudgetInv, Entry, Rest, Route
    <2>6. \A q, r \in Requests : Allowed(q)' /\ Allowed(r)' => q = r
      BY <2>3 DEF BudgetInv
    <2> QED
      BY <2>2, <2>3, <2>4, <2>5, <2>6 DEF BudgetInv
  <1>3. ASSUME NEW r \in Requests, TimeOut(r) \/ Crash \/ Tick PROVE BudgetInv'
    <2>1. /\ job' = job /\ UNCHANGED <<usage, unbudgeted, charged, call, stamp>>
          /\ now <= now' /\ now' \in Nat
          /\ \A q \in Requests : pc'[q] = pc[q] \/ pc'[q] \in Stops
      BY <1>3, Faults
    <2> QED
      BY <1>2, <2>1
  <1>4. CASE UNCHANGED vars
    BY <1>2, <1>4 DEF vars, Places
  <1>5. ASSUME Requests = {}, Tick \/ Crash PROVE BudgetInv'
    <2>1. /\ job' = job /\ UNCHANGED <<usage, unbudgeted, charged, call, stamp>>
          /\ now <= now' /\ now' \in Nat
      BY <1>5 DEF Places, Tick, Crash, begun, bill
    <2> QED
      BY <1>2, <1>5, <2>1
  <1> QED
    BY <1>1, <1>3, <1>4, <1>5 DEF Next, Terminating

\* BudgetRespected holds of the gateway: a call that the budget let in while
\* nobody else was on the way to the books finds there what it was compared
\* with, so what is booked, and therefore what is charged, stays within it.
THEOREM RequestBudgetRespected == Spec => []BudgetRespected
  <1> DEFINE Inv == Places /\ BillInv /\ BudgetInv
  <1>1. Init => Inv
    BY PlacesInit, BillInit, BudgetInit
  <1>2. Inv /\ [Next]_vars => Inv'
    BY PlacesNext, ChargeTypesStep, ChargingStep, WorkingStep, BudgetStep DEF BillInv
  <1>3. Inv => BudgetRespected
    <2> SUFFICES ASSUME Inv, NEW t \in 0..now
                 PROVE  CostOf({c \in charged : /\ Rest(c.by) /\ c.by \notin unbudgeted
                                                /\ c.at \in (t - Day)..t}) <= DailyCap
      BY DEF BudgetRespected
    <2> DEFINE C == {c \in charged : Rest(c.by) /\ c.by \notin unbudgeted /\ c.at \in (t - Day)..t}
               W == Within(Seen, t)
               Books(c, u) == u.by = c.by /\ u.cost = c.cost /\ u.at = c.at
               h == [c \in C |-> CHOOSE u \in W : Books(c, u)]
               f == [c \in C |-> c.cost]
               g == [u \in W |-> u.cost]
    <2>1. t \in Nat /\ now \in Nat
      BY DEF Places
    <2>2. Costs(C)
      <3>1. C \in SUBSET charged
        OBVIOUS
      <3> QED
        BY <3>1, CostPart DEF BillInv, ChargeTypes
    <2>3. ASSUME NEW c \in C PROVE h[c] \in W /\ Books(c, h[c])
      <3>1. PICK u \in usage : Books(c, u)
        BY DEF BudgetInv, Entry
      <3>2. u \in W
        BY <3>1 DEF Within, Seen
      <3> QED
        BY <3>1, <3>2
    <2>4. ASSUME NEW c \in C, NEW d \in C, h[c] = h[d] PROVE c = d
      <3>1. Books(c, h[c]) /\ Books(d, h[d])
        BY <2>3
      <3>2. c.by = d.by /\ c.by \in Requests /\ Rest(c.by)
        <4> HIDE DEF h
        <4> QED
          BY <2>4, <3>1 DEF BillInv, ChargeTypes
      <3>3. call[c.by] = 1
        BY <3>2, JobFacts DEF Places, Placed
      <3>4. c.call \in Nat \ {0} /\ d.call \in Nat \ {0} /\ c.call <= 1 /\ d.call <= 1
        BY <3>2, <3>3 DEF BillInv, ChargeTypes, Charging
      <3>5. c.call = d.call
        BY <3>4
      <3> QED
        BY <3>2, <3>5 DEF BillInv, ChargeTypes
    <2>5. Costs(W) /\ CostOf(W) \in Nat /\ CostOf(W) <= DailyCap
      <3>1. Costs(W) /\ CostOf(W) \in Nat
        BY <2>1, SeenLess DEF BudgetInv
      <3> QED
        BY <2>1, <3>1 DEF BudgetInv, Capped
    <2>6. /\ IsFiniteSet(C) /\ IsFiniteSet(W)
          /\ \A c \in C : f[c] \in Int /\ f[c] = g[h[c]]
          /\ \A u \in W : g[u] \in Nat
          /\ {h[c] : c \in C} \in SUBSET W
      <3>1. IsFiniteSet(C) /\ IsFiniteSet(W) /\ \A u \in W : g[u] \in Nat
        BY <2>2, <2>5 DEF Costs
      <3>2. ASSUME NEW c \in C PROVE f[c] \in Int /\ f[c] = g[h[c]] /\ h[c] \in W
        <4>1. f[c] = c.cost /\ c.cost \in Nat
          BY <2>2 DEF Costs
        <4>2. h[c] \in W /\ h[c].cost = c.cost
          BY <2>3
        <4> HIDE DEF h, W
        <4>3. g[h[c]] = h[c].cost
          BY <4>2
        <4> QED
          BY <4>1, <4>2, <4>3
      <3> HIDE DEF h
      <3> QED
        BY <3>1, <3>2
    <2>7. CostOf(C) = Sum(f, C) /\ CostOf(W) = Sum(g, W)
      BY DEF CostOf
    <2> HIDE DEF C, W, f, g, h
    <2>8. Sum(f, C) = Sum(g, {h[c] : c \in C})
      BY <2>4, <2>6, SumRenamed
    <2>9. /\ Sum(g, {h[c] : c \in C}) \in Nat /\ Sum(g, {h[c] : c \in C}) <= Sum(g, W)
      BY <2>6, SumPart
    <2>10. DailyCap \in Nat
      BY Constants
    <2>11. CostOf(C) <= DailyCap
      BY <2>5, <2>7, <2>8, <2>9, <2>10
    <2> QED
      BY <2>11 DEF C
  <1> QED
    BY <1>1, <1>2, <1>3, PTL DEF Spec

-----------------------------------------------------------------------------
\* Keys.  Between its row and its response a request is in the gate.
Through == {"run", "findUsage", "insertUsage", "charge", "respond"}
InGate(r) == Route(r) = "gate" /\ Key(r) # NoKey /\ pc[r] \in Through
Entries(k) == {x \in entered : Key(x.by) = k}

RowType == [body : Bodies \cup {0}, reply : SUBSET Requests, at : Int]
EntryTypes ==
    /\ cache \in [Keys -> RowType]
    /\ \A k \in Keys : cache[k] # NoRow => cache[k].at \in Nat
    /\ \A x \in entered : /\ x.by \in Requests /\ x.at \in Nat
                          /\ Route(x.by) = "gate" /\ Key(x.by) \in Keys
                          /\ pc[x.by] \in Through \cup Terminal
    /\ \A r \in Requests : \A q \in after[r] : q \in Requests /\ pc[q] = "done"

\* The row that a key has is the one its last entries came in under, or it is
\* of a later time.
Row(k) ==
    IF cache[k] = NoRow THEN \A x \in Entries(k) : x.at < now - Ttl
    ELSE /\ cache[k].at <= now
         /\ \A q \in cache[k].reply : job[q].body = cache[k].body
         /\ \A x \in Entries(k) :
               \/ x.at < cache[k].at - Ttl
               \/ x.at = cache[k].at /\ job[x.by].body = cache[k].body
         /\ \A x \in Entries(k) :
               x.at = cache[k].at /\ job[x.by].header /\ pc[x.by] = "done" => cache[k].reply # {}

\* Whoever is in the gate came in under the row.
Inside(r) == /\ cache[Key(r)] # NoRow
             /\ \E x \in entered : x.by = r /\ x.at = cache[Key(r)].at

\* Whoever is about to put a row in the place of an old one comes after all
\* that entered under it, or will find one that is too new to go.
Replacing(r) ==
    IF cache[Key(r)] = NoRow THEN \A x \in Entries(Key(r)) : x.at < stamp[r] - Ttl
    ELSE \/ cache[Key(r)].at >= stamp[r] - 1
         \/ pc[r] = "evict" /\ Expired(cache[Key(r)], stamp[r])

Apart(x, y) ==
    /\ job[x.by].body # job[y.by].body => (x.at < y.at - Ttl \/ y.at < x.at - Ttl)
    /\ job[x.by].header /\ x.by \in after[y.by] => x.at # y.at

KeyInv ==
    /\ EntryTypes
    /\ \A k \in Keys \ clobbered : Row(k)
    /\ \A r \in Requests : InGate(r) /\ Key(r) \notin clobbered => Inside(r)
    /\ \A r \in Requests : pc[r] \in {"evict", "reinsert"} /\ Key(r) \notin clobbered => Replacing(r)
    /\ \A x, y \in entered : Key(x.by) = Key(y.by) /\ x.by # y.by /\ Key(x.by) \notin clobbered
          => Apart(x, y)

LEMMA KeyInit == Init => KeyInv
  <1> SUFFICES ASSUME Init PROVE KeyInv
    OBVIOUS
  <1>1. /\ entered = {} /\ now = 0 /\ after = [r \in Requests |-> {}]
        /\ cache = [k \in Keys |-> IF k \in OldKeys THEN OldRow ELSE NoRow]
        /\ \A r \in Requests : pc[r] \in {"new", "done"}
    BY DEF Init
  <1>2. OldRow \in RowType /\ NoRow \in RowType /\ OldRow.at = 0 /\ OldRow.reply = {}
    BY Constants DEF OldRow, NoRow, RowType
  <1>3. EntryTypes
    <2>1. ASSUME NEW k \in Keys, cache[k] # NoRow PROVE cache[k].at \in Nat
      BY <1>1, <1>2, <2>1
    <2>2. cache \in [Keys -> RowType]
      BY <1>1, <1>2
    <2> QED
      BY <1>1, <2>1, <2>2 DEF EntryTypes
  <1>4. ASSUME NEW k \in Keys PROVE Row(k)
    <2>1. CASE cache[k] = NoRow
      BY <1>1, <2>1 DEF Row, Entries
    <2>2. CASE cache[k] # NoRow
      <3>1. cache[k] = OldRow
        BY <1>1, <2>2
      <3> QED
        BY <1>1, <1>2, <2>2, <3>1 DEF Row, Entries
    <2> QED
      BY <2>1, <2>2
  <1> QED
    BY <1>1, <1>3, <1>4 DEF KeyInv, InGate, Through

\* A request at the gate has a key.
LEMMA GateKey ==
    ASSUME Places, NEW r \in Requests, pc[r] \in Gating
    PROVE  Route(r) = "gate" /\ Key(r) \in Keys /\ Key(r) # NoKey /\ ~ByProof(r)
  <1>1. Placed(r) /\ Route(r) \in Routes /\ Key(r) \in Keys \cup {NoKey}
    BY JobFacts DEF Places
  <1>2. ~ByProof(r)
    BY <1>1 DEF Placed, Standing, Gating, Terminal
  <1>3. Route(r) = "gate" /\ Key(r) # NoKey
    BY <1>1, <1>2 DEF Placed, Standing, Gating, Asking, Terminal, Routes
  <1> QED
    BY <1>1, <1>2, <1>3

LEMMA Rows ==
    ASSUME EntryTypes, NEW k \in Keys
    PROVE  /\ cache[k] \in RowType /\ cache[k].at \in Int
           /\ cache[k] # NoRow <=> cache[k].at \in Nat
           /\ NoRow \in RowType /\ NoRow.reply = {} /\ NoRow.at = -1
           /\ Ttl \in Nat /\ Ttl >= 2
           /\ cache = [j \in Keys |-> cache[j]]
  <1>1. NoRow.at = -1 /\ NoRow.reply = {} /\ NoRow \in RowType
    BY DEF NoRow, RowType
  <1>2. cache[k] \in RowType /\ cache = [j \in Keys |-> cache[j]]
    BY DEF EntryTypes
  <1>3. cache[k].at \in Int
    BY <1>2 DEF RowType
  <1>4. cache[k] # NoRow <=> cache[k].at \in Nat
    BY <1>1 DEF EntryTypes
  <1> QED
    BY <1>1, <1>2, <1>3, <1>4, Constants

LEMMA NewRows ==
    ASSUME Places, NEW r \in Requests, NEW time \in Nat
    PROVE  /\ NewRow(r, time) \in RowType /\ NewRow(r, time) # NoRow
           /\ NewRow(r, time).body = job[r].body /\ NewRow(r, time).reply = {}
           /\ NewRow(r, time).at = time
  <1>1. NewRow(r, time).at = time /\ NoRow.at = -1
    BY DEF NewRow, NoRow
  <1>2. job[r].body \in Bodies
    BY JobFacts DEF Places
  <1> QED
    BY <1>1, <1>2 DEF NewRow, RowType

\* What each step of the gate does to the row of its key, and who enters.
Elsewhere(k) == cache' \in [Keys -> RowType] /\ \A j \in Keys \ {k} : cache'[j] = cache[j]

LEMMA ReserveMoves ==
    ASSUME Places, EntryTypes, NEW r \in Requests, ReserveKey(r)
    PROVE  /\ pc[r] = "reserve" /\ pc'[r] = "lookup" /\ stamp'[r] = now
           /\ entered' = entered /\ clobbered' = clobbered /\ Elsewhere(Key(r))
           /\ \/ cache' = cache /\ cache[Key(r)] # NoRow
              \/ cache[Key(r)] = NoRow /\ cache'[Key(r)] = NewRow(r, now)
  <1>1. pc[r] = "reserve" /\ Key(r) \in Keys /\ now \in Nat
    BY GateKey DEF ReserveKey, Gating, Places
  <1>2. pc'[r] = "lookup" /\ stamp'[r] = now /\ entered' = entered /\ clobbered' = clobbered
    BY DEF ReserveKey, Go, Places
  <1>3. /\ cache' = IF cache[Key(r)] = NoRow THEN [cache EXCEPT ![Key(r)] = NewRow(r, now)] ELSE cache
        /\ NewRow(r, now) \in RowType /\ cache \in [Keys -> RowType]
    BY <1>1, NewRows DEF ReserveKey, EntryTypes
  <1> QED
    BY <1>1, <1>2, <1>3 DEF Elsewhere

LEMMA LookupMoves ==
    ASSUME Places, EntryTypes, NEW r \in Requests, LookupKey(r)
    PROVE  /\ pc[r] = "lookup" /\ cache' = cache
           /\ clobbered \subseteq clobbered' /\ clobbered' \subseteq clobbered \cup {Key(r)}
           /\ \/ entered' = entered
              \/ \E a \in Nat : entered' = entered \cup {[by |-> r, at |-> a]} /\ pc'[r] = "run"
           /\ Key(r) \notin clobbered' =>
                 /\ cache[Key(r)] # NoRow
                 /\ \/ entered' = entered /\ pc'[r] = "evict" /\ Expired(cache[Key(r)], stamp[r])
                    \/ entered' = entered /\ pc'[r] \in {"rejected", "replayed"}
                    \/ /\ pc'[r] = "run" /\ cache[Key(r)].reply = {}
                       /\ cache[Key(r)].body = job[r].body
                       /\ entered' = entered \cup {[by |-> r, at |-> cache[Key(r)].at]}
  <1>1. /\ pc[r] = "lookup" /\ Key(r) \in Keys /\ stamp[r] \in Nat
        /\ pc = [q \in Requests |-> pc[q]] /\ cache' = cache
        /\ NewRow(r, stamp[r]).at = stamp[r]
    <2>1. pc[r] = "lookup" /\ cache' = cache /\ stamp[r] \in Nat /\ pc = [q \in Requests |-> pc[q]]
      BY DEF LookupKey, Places
    <2>2. Key(r) \in Keys
      BY <2>1, GateKey DEF Gating
    <2> QED
      BY <2>1, <2>2, NewRows
  <1>2. cache[Key(r)] # NoRow => cache[Key(r)].at \in Nat
    BY <1>1 DEF EntryTypes
  <1>3. clobbered' = IF cache[Key(r)] = NoRow THEN clobbered \cup {Key(r)} ELSE clobbered
    BY DEF LookupKey
  <1>4. CASE cache[Key(r)] = NoRow
    <2>1. Enter(r, NewRow(r, stamp[r]))
      BY <1>4 DEF LookupKey
    <2>2. entered' = entered \cup {[by |-> r, at |-> stamp[r]]} /\ pc'[r] = "run"
      BY <1>1, <2>1 DEF Enter, Go
    <2> QED
      BY <1>1, <1>3, <1>4, <2>2
  <1>5. CASE cache[Key(r)] # NoRow
    <2>1. \/ Expired(cache[Key(r)], stamp[r]) /\ pc'[r] = "evict" /\ entered' = entered
          \/ pc'[r] \in {"rejected", "replayed"} /\ entered' = entered
          \/ /\ Enter(r, cache[Key(r)]) /\ cache[Key(r)].reply = {}
             /\ cache[Key(r)].body = job[r].body
      BY <1>1, <1>5 DEF LookupKey, Go
    <2>2. Enter(r, cache[Key(r)]) =>
             entered' = entered \cup {[by |-> r, at |-> cache[Key(r)].at]} /\ pc'[r] = "run"
      BY <1>1 DEF Enter, Go
    <2>3. clobbered' = clobbered
      BY <1>3, <1>5
    <2> QED
      BY <1>1, <1>2, <1>5, <2>1, <2>2, <2>3
  <1> QED
    BY <1>4, <1>5

LEMMA EvictMoves ==
    ASSUME Places, EntryTypes, NEW r \in Requests, EvictKey(r)
    PROVE  /\ pc[r] = "evict" /\ pc'[r] = "reinsert"
           /\ entered' = entered /\ Elsewhere(Key(r)) /\ cache'[Key(r)] = NoRow
           /\ clobbered \subseteq clobbered' /\ clobbered' \subseteq clobbered \cup {Key(r)}
           /\ Key(r) \notin clobbered' =>
                 /\ ~InUse(r)
                 /\ cache[Key(r)] = NoRow \/ Expired(cache[Key(r)], stamp[r])
  <1>1. pc[r] = "evict" /\ Key(r) \in Keys
    BY GateKey DEF EvictKey, Gating
  <1>2. NoRow \in RowType /\ cache \in [Keys -> RowType]
    BY <1>1, Rows DEF EntryTypes
  <1>3. pc'[r] = "reinsert" /\ entered' = entered /\ cache' = [cache EXCEPT ![Key(r)] = NoRow]
    BY DEF EvictKey, Go, Places
  <1>4. clobbered' = IF \/ InUse(r)
                        \/ cache[Key(r)] # NoRow /\ ~Expired(cache[Key(r)], stamp[r])
                     THEN clobbered \cup {Key(r)} ELSE clobbered
    BY DEF EvictKey
  <1> QED
    BY <1>1, <1>2, <1>3, <1>4 DEF Elsewhere

LEMMA ReinsertMoves ==
    ASSUME Places, EntryTypes, NEW r \in Requests, ReinsertKey(r)
    PROVE  /\ pc[r] = "reinsert" /\ clobbered' = clobbered /\ Elsewhere(Key(r))
           /\ \/ /\ cache[Key(r)] = NoRow /\ cache'[Key(r)] = NewRow(r, stamp[r]) /\ pc'[r] = "run"
                 /\ entered' = entered \cup {[by |-> r, at |-> stamp[r]]}
              \/ cache' = cache /\ entered' = entered /\ pc'[r] = "error"
  <1>1. pc[r] = "reinsert" /\ Key(r) \in Keys /\ stamp[r] \in Nat
    BY GateKey DEF ReinsertKey, Gating, Places
  <1>2. NewRow(r, stamp[r]) \in RowType /\ NewRow(r, stamp[r]).at = stamp[r]
    BY <1>1, NewRows
  <1>3. clobbered' = clobbered /\ cache \in [Keys -> RowType] /\ pc = [q \in Requests |-> pc[q]]
    BY DEF ReinsertKey, EntryTypes, Places
  <1>4. CASE cache[Key(r)] = NoRow
    <2>1. cache' = [cache EXCEPT ![Key(r)] = NewRow(r, stamp[r])] /\ Enter(r, NewRow(r, stamp[r]))
      BY <1>4 DEF ReinsertKey
    <2>2. entered' = entered \cup {[by |-> r, at |-> stamp[r]]} /\ pc'[r] = "run"
      BY <1>2, <1>3, <2>1 DEF Enter, Go
    <2> QED
      BY <1>1, <1>2, <1>3, <1>4, <2>1, <2>2 DEF Elsewhere
  <1>5. CASE cache[Key(r)] # NoRow
    <2>1. cache' = cache /\ entered' = entered /\ pc'[r] = "error"
      BY <1>3, <1>5 DEF ReinsertKey, Go
    <2> QED
      BY <1>1, <1>3, <2>1 DEF Elsewhere
  <1> QED
    BY <1>4, <1>5

LEMMA RespondMoves ==
    ASSUME Places, EntryTypes, NEW r \in Requests, RecordResponse(r)
    PROVE  /\ pc[r] = "respond" /\ pc'[r] = "done"
           /\ entered' = entered /\ clobbered' = clobbered /\ Elsewhere(Key(r))
           /\ \/ cache' = cache /\ cache[Key(r)] = NoRow
              \/ /\ cache[Key(r)] # NoRow /\ cache'[Key(r)].reply = {r}
                 /\ cache'[Key(r)].body = cache[Key(r)].body
                 /\ cache'[Key(r)].at = cache[Key(r)].at
  <1>1. pc[r] = "respond" /\ Key(r) \in Keys
    BY GateKey DEF RecordResponse, Gating
  <1>2. pc'[r] = "done" /\ entered' = entered /\ clobbered' = clobbered
    BY DEF RecordResponse, Go, Places
  <1>3. cache \in [Keys -> RowType]
    BY DEF EntryTypes
  <1>4. CASE cache[Key(r)] = NoRow
    BY <1>1, <1>2, <1>3, <1>4 DEF RecordResponse, Elsewhere
  <1>5. CASE cache[Key(r)] # NoRow
    <2>1. cache' = [cache EXCEPT ![Key(r)].reply = {r}]
      BY <1>5 DEF RecordResponse
    <2> QED
      BY <1>1, <1>2, <1>3, <1>5, <2>1 DEF Elsewhere, RowType
  <1> QED
    BY <1>4, <1>5

\* A step elsewhere leaves the row of a key and its entries alone.
LEMMA KeyFrame ==
    ASSUME Places, EntryTypes, NEW r \in Requests, Step(r), NEW j \in Keys,
           j # Key(r) \/ pc[r] \notin Gating
    PROVE  /\ cache'[j] = cache[j] /\ Entries(j)' = Entries(j)
           /\ j \in clobbered' <=> j \in clobbered
  <1>1. job' = job /\ (pc[r] \in Gating => Key(r) \in Keys)
    BY OthersStay, GateKey
  <1>2. UNCHANGED entered => Entries(j)' = Entries(j)
    BY <1>1 DEF Entries, Key
  <1>3. CASE UNCHANGED <<cache, entered, clobbered>>
    BY <1>2, <1>3
  <1>4. ASSUME NEW a, entered' = entered \cup {[by |-> r, at |-> a]}, j # Key(r)
        PROVE  Entries(j)' = Entries(j)
    BY <1>1, <1>4 DEF Entries, Key
  <1>5. CASE ReserveKey(r)
    BY <1>2, <1>5, ReserveMoves DEF Elsewhere, Gating
  <1>6. CASE LookupKey(r)
    BY <1>2, <1>4, <1>6, LookupMoves DEF Gating
  <1>7. CASE EvictKey(r)
    BY <1>2, <1>7, EvictMoves DEF Elsewhere, Gating
  <1>8. CASE ReinsertKey(r)
    BY <1>2, <1>4, <1>8, ReinsertMoves DEF Elsewhere, Gating
  <1>9. CASE RecordResponse(r)
    BY <1>2, <1>9, RespondMoves DEF Elsewhere, Gating
  <1> QED
    BY <1>3, <1>5, <1>6, <1>7, <1>8, <1>9, Writers

\* Whoever is through the gate stays there until the end, and one with the
\* header ends by recording its response.
LEMMA ThroughMoves ==
    ASSUME Places, NEW r \in Requests, Step(r), Route(r) = "gate", Key(r) # NoKey, pc[r] \in Through
    PROVE  /\ pc'[r] \in (Through \cup Terminal) \ {"rejected", "replayed"}
           /\ pc'[r] = "done" /\ job[r].header => pc[r] = "respond"
  <1>1. /\ Leads(r) /\ Placed(r) /\ ~ByProof(r) /\ Len(job[r].calls) = 1 /\ call[r] = 1 /\ Rest(r)
    BY StepLeads, JobFacts DEF Places, Placed, Rest
  <1>2. Advances(r) => pc'[r] = IF job[r].header THEN "respond" ELSE "done"
    BY <1>1 DEF Advances
  <1> QED
    BY <1>1, <1>2 DEF Leads, Bills, Through, Terminal

LEMMA EntryTypesStep ==
    ASSUME Places, EntryTypes, NEW r \in Requests, Step(r) PROVE EntryTypes'
  <1>1. /\ job' = job /\ now \in Nat /\ stamp[r] \in Nat /\ pc[r] \notin Terminal
        /\ \A q \in Requests \ {r} : pc'[q] = pc[q] /\ after'[q] = after[q]
    BY OthersStay, StepLeads DEF Places, Leads, Running, Terminal
  <1> DEFINE Typed == cache' \in [Keys -> RowType] /\ \A k \in Keys : cache'[k] # NoRow => cache'[k].at \in Nat
             Came == \/ entered' = entered
                     \/ \E a \in Nat : /\ entered' = entered \cup {[by |-> r, at |-> a]}
                                       /\ pc'[r] = "run" /\ pc[r] \in Gating
  <1>2. Typed
    <2>1. CASE cache' = cache
      BY <2>1 DEF EntryTypes
    <2>2. ASSUME Elsewhere(Key(r)), Key(r) \in Keys,
                 cache'[Key(r)] # NoRow => cache'[Key(r)].at \in Nat
          PROVE  Typed
      BY <2>2 DEF Elsewhere, EntryTypes
    <2> HIDE DEF Typed
    <2>3. CASE ReserveKey(r)
      BY <1>1, <2>1, <2>2, <2>3, ReserveMoves, NewRows, GateKey DEF Gating
    <2>4. CASE EvictKey(r)
      BY <2>2, <2>4, EvictMoves, GateKey DEF Gating
    <2>5. CASE ReinsertKey(r)
      BY <1>1, <2>1, <2>2, <2>5, ReinsertMoves, NewRows, GateKey DEF Gating
    <2>6. CASE RecordResponse(r)
      BY <2>1, <2>2, <2>6, RespondMoves, GateKey DEF Gating, EntryTypes
    <2> QED
      BY <2>1, <2>3, <2>4, <2>5, <2>6, Writers
  <1>3. Came
    <2>1. CASE LookupKey(r)
      BY <2>1, LookupMoves DEF Gating
    <2>2. CASE ReinsertKey(r)
      BY <1>1, <2>2, ReinsertMoves DEF Gating
    <2> QED
      BY <2>1, <2>2, Writers
  <1>4. ASSUME NEW x \in entered'
        PROVE  /\ x.by \in Requests /\ x.at \in Nat
               /\ Route(x.by)' = "gate" /\ Key(x.by)' \in Keys
               /\ pc'[x.by] \in Through \cup Terminal
    <2>1. Route(x.by)' = Route(x.by) /\ Key(x.by)' = Key(x.by)
      BY <1>1 DEF Route, Key
    <2>2. CASE x \in entered
      <3>1. /\ x.by \in Requests /\ x.at \in Nat /\ Route(x.by) = "gate" /\ Key(x.by) \in Keys
            /\ pc[x.by] \in Through \cup Terminal
        BY <2>2 DEF EntryTypes
      <3>2. CASE x.by = r
        BY <1>1, <2>1, <3>1, <3>2, ThroughMoves, Constants
      <3>3. CASE x.by # r
        BY <1>1, <2>1, <3>1, <3>3
      <3> QED
        BY <3>2, <3>3
    <2>3. CASE x \notin entered
      <3>1. x.by = r /\ x.at \in Nat /\ pc'[r] = "run" /\ pc[r] \in Gating
        BY <1>3, <2>3
      <3> QED
        BY <2>1, <3>1, GateKey DEF Through
    <2> QED
      BY <2>2, <2>3
  <1>5. ASSUME NEW p \in Requests, NEW q \in after'[p] PROVE q \in Requests /\ pc'[q] = "done"
    <2>1. q \in Requests /\ pc[q] = "done"
      BY <1>1, Clocks DEF EntryTypes
    <2> QED
      BY <1>1, <2>1 DEF Terminal
  <1> QED
    BY <1>2, <1>4, <1>5 DEF EntryTypes

\* A row stays as good as it is while it is left alone.
LEMMA RowStays ==
    ASSUME Places, EntryTypes, NEW j \in Keys, Row(j), job' = job, now' \in Nat, now <= now',
           cache'[j] = cache[j], Entries(j)' = Entries(j),
           \A x \in Entries(j) : pc'[x.by] = "done" /\ job[x.by].header => pc[x.by] = "done"
    PROVE  Row(j)'
  <1>1. /\ now \in Nat /\ Ttl \in Nat /\ \A x \in Entries(j) : x.at \in Nat
        /\ cache[j].at \in Int
    BY Rows DEF Places, EntryTypes, Entries
  <1>2. CASE cache[j] = NoRow
    BY <1>1, <1>2 DEF Row
  <1>3. CASE cache[j] # NoRow
    BY <1>1, <1>3 DEF Row
  <1> QED
    BY <1>2, <1>3

\* A new row comes after the entries that there were.
LEMMA RowRenewed ==
    ASSUME Places, EntryTypes, NEW r \in Requests, NEW j \in Keys, NEW time \in Nat, time <= now',
           job' = job, cache'[j] = NewRow(r, time),
           \A x \in Entries(j) : x.at < time - Ttl,
           \A x \in Entries(j)' : x \in Entries(j) \/ (x.by = r /\ x.at = time),
           pc'[r] # "done"
    PROVE  Row(j)'
  <1> DEFINE row == NewRow(r, time)
  <1>1. row # NoRow /\ row.at = time /\ row.reply = {} /\ row.body = job[r].body
    BY NewRows
  <1>2. Ttl \in Nat /\ \A x \in Entries(j) : x.at \in Nat /\ x.at # time
    BY Constants DEF EntryTypes, Entries
  <1> HIDE DEF row
  <1> QED
    BY <1>1, <1>2 DEF Row, row

LEMMA RowStep ==
    ASSUME Places, KeyInv, NEW r \in Requests, Step(r), NEW j \in Keys, j \notin clobbered'
    PROVE  Row(j)'
  <1>1. /\ EntryTypes /\ job' = job /\ now' = now /\ now \in Nat /\ stamp[r] \in Nat
        /\ stamp[r] <= now /\ Ttl \in Nat
        /\ \A q \in Requests \ {r} : pc'[q] = pc[q]
    BY OthersStay, Constants DEF KeyInv, Places, Placed
  <1>2. clobbered \subseteq clobbered'
    BY <1>1, Writers, LookupMoves, EvictMoves
  <1>3. Row(j)
    BY <1>2 DEF KeyInv
  <1>4. ASSUME NEW x \in Entries(j) PROVE x.by \in Requests /\ x.at \in Nat /\ Key(x.by) = j
    BY <1>1 DEF EntryTypes, Entries
  <1>5. ASSUME cache'[j] = cache[j], Entries(j)' = Entries(j),
               pc'[r] = "done" /\ job[r].header => pc[r] = "done" \/ Key(r) # j \/ Route(r) # "gate"
        PROVE  Row(j)'
    <2>1. \A x \in Entries(j) : Route(x.by) = "gate"
      BY <1>1 DEF EntryTypes, Entries
    <2> QED
      BY <1>1, <1>3, <1>4, <1>5, <2>1, RowStays
  <1>6. CASE j # Key(r) \/ pc[r] \notin Gating
    <2>1. cache'[j] = cache[j] /\ Entries(j)' = Entries(j)
      BY <1>1, <1>6, KeyFrame
    <2>2. ASSUME NEW x \in Entries(j), x.by = r, pc'[r] = "done", job[r].header PROVE pc[r] = "done"
      <3>1. Route(r) = "gate" /\ Key(r) = j /\ j # NoKey /\ pc[r] \in Through \cup Terminal
        BY <1>1, <1>4, <2>2, Constants DEF EntryTypes, Entries
      <3>2. pc[r] \notin Terminal
        BY StepLeads DEF Leads, Running, Terminal
      <3> QED
        BY <1>6, <2>2, <3>1, <3>2, ThroughMoves DEF Gating
    <2> QED
      BY <1>1, <1>3, <1>4, <2>1, <2>2, RowStays
  <1>7. CASE j = Key(r) /\ pc[r] = "reserve"
    <2>1. /\ ReserveKey(r) /\ pc'[r] = "lookup" /\ entered' = entered
          /\ \/ cache' = cache
             \/ cache[j] = NoRow /\ cache'[j] = NewRow(r, now)
      BY <1>1, <1>7, StepAt, ReserveMoves
    <2>2. Entries(j)' = Entries(j)
      BY <1>1, <2>1 DEF Entries, Key
    <2>3. CASE cache' = cache
      BY <1>5, <2>1, <2>2, <2>3
    <2>4. CASE cache[j] = NoRow /\ cache'[j] = NewRow(r, now)
      <3>1. \A x \in Entries(j) : x.at < now - Ttl
        BY <1>3, <2>4 DEF Row
      <3>2. now <= now' /\ pc'[r] # "done"
        BY <1>1, <2>1
      <3> QED
        BY <1>1, <2>2, <2>4, <3>1, <3>2, RowRenewed
    <2> QED
      BY <2>1, <2>3, <2>4
  <1>8. CASE j = Key(r) /\ pc[r] = "lookup"
    <2>1. /\ LookupKey(r) /\ cache' = cache /\ cache[j] # NoRow
          /\ \/ entered' = entered /\ pc'[r] \in {"evict", "rejected", "replayed"}
             \/ /\ pc'[r] = "run" /\ cache[j].reply = {} /\ cache[j].body = job[r].body
                /\ entered' = entered \cup {[by |-> r, at |-> cache[j].at]}
      BY <1>1, <1>8, StepAt, LookupMoves
    <2>2. CASE entered' = entered /\ pc'[r] \in {"evict", "rejected", "replayed"}
      <3>1. Entries(j)' = Entries(j)
        BY <1>1, <2>2 DEF Entries, Key
      <3> QED
        BY <1>5, <2>1, <2>2, <3>1
    <2>3. CASE /\ pc'[r] = "run" /\ cache[j].reply = {} /\ cache[j].body = job[r].body
               /\ entered' = entered \cup {[by |-> r, at |-> cache[j].at]}
      <3> DEFINE new == [by |-> r, at |-> cache[j].at]
      <3>1. Entries(j)' = Entries(j) \cup {new} /\ new.by = r /\ new.at = cache[j].at
        BY <1>1, <1>8, <2>3 DEF Entries, Key
      <3> HIDE DEF new
      <3>2. /\ cache[j].at <= now
            /\ \A x \in Entries(j) : \/ x.at < cache[j].at - Ttl
                                     \/ x.at = cache[j].at /\ job[x.by].body = cache[j].body
            /\ \A x \in Entries(j) : x.at = cache[j].at /\ job[x.by].header => pc[x.by] # "done"
        BY <1>3, <2>1, <2>3 DEF Row
      <3>3. ASSUME NEW x \in Entries(j)'
            PROVE  /\ \/ x.at < cache[j].at - Ttl
                      \/ x.at = cache[j].at /\ job[x.by].body = cache[j].body
                   /\ x.at = cache[j].at /\ job[x.by].header => pc'[x.by] # "done"
        <4>1. CASE x = new
          BY <2>3, <3>1, <4>1
        <4>2. CASE x # new
          BY <1>1, <1>4, <2>3, <3>1, <3>2, <4>2
        <4> QED
          BY <4>1, <4>2
      <3> QED
        BY <1>1, <2>1, <2>3, <3>2, <3>3 DEF Row
    <2> QED
      BY <2>1, <2>2, <2>3
  <1>9. CASE j = Key(r) /\ pc[r] = "evict"
    <2>1. /\ EvictKey(r) /\ entered' = entered /\ cache'[j] = NoRow
          /\ cache[j] = NoRow \/ Expired(cache[j], stamp[r])
      BY <1>1, <1>9, StepAt, EvictMoves
    <2>2. Entries(j)' = Entries(j)
      BY <1>1, <2>1 DEF Entries, Key
    <2>3. cache[j].at \in Int
      BY <1>1, Rows
    <2>4. \A x \in Entries(j) : x.at < now - Ttl
      <3>1. CASE cache[j] = NoRow
        BY <1>3, <3>1 DEF Row
      <3>2. CASE cache[j] # NoRow
        BY <1>1, <1>3, <1>4, <2>1, <2>3, <3>2 DEF Row, Expired
      <3> QED
        BY <3>1, <3>2
    <2> QED
      BY <1>1, <2>1, <2>2, <2>4 DEF Row
  <1>10. CASE j = Key(r) /\ pc[r] = "reinsert"
    <2>1. /\ ReinsertKey(r)
          /\ \/ /\ cache[j] = NoRow /\ cache'[j] = NewRow(r, stamp[r]) /\ pc'[r] = "run"
                /\ entered' = entered \cup {[by |-> r, at |-> stamp[r]]}
             \/ cache' = cache /\ entered' = entered /\ pc'[r] = "error"
      BY <1>1, <1>10, StepAt, ReinsertMoves
    <2>2. CASE cache' = cache /\ entered' = entered /\ pc'[r] = "error"
      <3>1. Entries(j)' = Entries(j)
        BY <1>1, <2>2 DEF Entries, Key
      <3> QED
        BY <1>5, <2>2, <3>1
    <2>3. CASE /\ cache[j] = NoRow /\ cache'[j] = NewRow(r, stamp[r]) /\ pc'[r] = "run"
               /\ entered' = entered \cup {[by |-> r, at |-> stamp[r]]}
      <3>1. \A x \in Entries(j) : x.at < stamp[r] - Ttl
        BY <1>2, <1>10, <2>3 DEF KeyInv, Replacing
      <3>2. \A x \in Entries(j)' : x \in Entries(j) \/ (x.by = r /\ x.at = stamp[r])
        BY <1>1, <2>3 DEF Entries, Key
      <3> QED
        <4>1. stamp[r] <= now' /\ pc'[r] # "done"
          BY <1>1, <2>3
        <4> QED
          BY <1>1, <2>3, <3>1, <3>2, <4>1, RowRenewed
    <2> QED
      BY <2>1, <2>2, <2>3
  <1>11. CASE j = Key(r) /\ pc[r] = "respond"
    <2>1. /\ RecordResponse(r) /\ entered' = entered /\ pc'[r] = "done"
          /\ \/ cache' = cache /\ cache[j] = NoRow
             \/ /\ cache[j] # NoRow /\ cache'[j].reply = {r}
                /\ cache'[j].body = cache[j].body /\ cache'[j].at = cache[j].at
      BY <1>1, <1>11, StepAt, RespondMoves
    <2>2. Entries(j)' = Entries(j)
      BY <1>1, <2>1 DEF Entries, Key
    <2>3. Inside(r)
      <3>1. Route(r) = "gate" /\ Key(r) # NoKey
        BY <1>11, GateKey DEF Gating
      <3> QED
        BY <1>2, <1>11, <3>1 DEF KeyInv, InGate, Through
    <2>4. PICK y \in entered : y.by = r /\ y.at = cache[j].at
      BY <1>11, <2>3 DEF Inside
    <2>5. y \in Entries(j) /\ cache[j] # NoRow
      BY <1>11, <2>3, <2>4 DEF Entries, Inside
    <2>6. /\ cache[j].at <= now /\ cache[j].at \in Nat
          /\ \A x \in Entries(j) : \/ x.at < cache[j].at - Ttl
                                   \/ x.at = cache[j].at /\ job[x.by].body = cache[j].body
      BY <1>1, <1>3, <2>5, Rows DEF Row
    <2>7. job[r].body = cache[j].body
      BY <1>1, <2>4, <2>5, <2>6
    <2>8. cache'[j] # NoRow
      BY <1>1, <2>1, <2>5, <2>6, Rows
    <2> QED
      BY <1>1, <2>1, <2>2, <2>5, <2>6, <2>7, <2>8 DEF Row
  <1> QED
    BY <1>6, <1>7, <1>8, <1>9, <1>10, <1>11 DEF Gating

\* How a request comes through the gate.
LEMMA ThroughFrom ==
    ASSUME Places, NEW r \in Requests, Step(r), Route(r) = "gate", Key(r) # NoKey,
           pc'[r] \in Through
    PROVE  pc[r] \in (Through \ {"respond"}) \cup {"lookup", "reinsert"}
  <1>1. /\ Leads(r) /\ Placed(r) /\ ~ByProof(r) /\ Len(job[r].calls) = 1 /\ call[r] = 1 /\ Rest(r)
        /\ pc[r] \in Awaits
    BY StepLeads, JobFacts DEF Places, Placed, Rest
  <1>2. pc[r] \notin {"event", "settle", "nonce", "verify", "next"} \cup Terminal
    BY <1>1 DEF Placed, Standing, Asking, Gating, Terminal, Leads, Running
  <1>3. Past(r) = "reserve" /\ Counted(r) \in {"balance", "countTool"}
    BY Targets DEF Past
  <1>4. pc[r] \notin {"new", "record", "count", "burst", "countTool", "balance", "budget"}
    BY <1>1, <1>3 DEF Leads, Through, Rest
  <1>5. pc[r] \notin {"reserve", "evict", "respond"}
    BY <1>1 DEF Leads, Through
  <1> QED
    BY <1>1, <1>2, <1>4, <1>5 DEF Awaits, Asking, Gating, Through

\* Entries come under the row, or before it.
LEMMA RowLast ==
    ASSUME EntryTypes, NEW k \in Keys, Row(k), cache[k] # NoRow, NEW x \in Entries(k)
    PROVE  x.at <= cache[k].at /\ x.at \in Nat /\ cache[k].at \in Nat
  <1>1. x.at \in Nat /\ cache[k].at \in Nat /\ Ttl \in Nat
    BY Rows DEF EntryTypes, Entries
  <1> QED
    BY <1>1 DEF Row

LEMMA EnteredStays ==
    ASSUME Places, EntryTypes, NEW r \in Requests, Step(r)
    PROVE  entered \subseteq entered' /\ clobbered \subseteq clobbered'
  BY Writers, LookupMoves, EvictMoves, ReinsertMoves

LEMMA InsideStep ==
    ASSUME Places, KeyInv, NEW r \in Requests, Step(r), NEW q \in Requests, InGate(q)',
           Key(q) \notin clobbered'
    PROVE  Inside(q)'
  <1> DEFINE k == Key(q)
  <1>1. /\ EntryTypes /\ job' = job /\ entered \subseteq entered' /\ clobbered \subseteq clobbered'
        /\ stamp[r] \in Nat
    BY OthersStay, EnteredStays DEF KeyInv, Places
  <1>2. Key(q)' = k /\ Route(q)' = Route(q)
    BY <1>1 DEF Key, Route
  <1>3. Route(q) = "gate" /\ k # NoKey /\ pc'[q] \in Through /\ k \in Keys
    <2>1. Route(q) = "gate" /\ k # NoKey /\ pc'[q] \in Through
      BY <1>2 DEF InGate
    <2> QED
      BY <2>1, JobFacts DEF Places
  <1>4. ASSUME NEW x \in entered', x.by = q, x.at = cache'[k].at, cache'[k] # NoRow PROVE Inside(q)'
    BY <1>2, <1>4 DEF Inside
  <1>5. ASSUME pc[q] \in Through, cache[k] # NoRow => cache'[k] # NoRow /\ cache'[k].at = cache[k].at
        PROVE  Inside(q)'
    <2>1. Inside(q)
      BY <1>1, <1>3, <1>5 DEF KeyInv, InGate
    <2>2. PICK x \in entered : x.by = q /\ x.at = cache[k].at
      BY <2>1 DEF Inside
    <2> QED
      BY <1>1, <1>4, <1>5, <2>1, <2>2 DEF Inside
  <1>6. CASE q = r
    <2>1. pc[r] \in (Through \ {"respond"}) \cup {"lookup", "reinsert"}
      BY <1>3, <1>6, ThroughFrom
    <2>2. CASE pc[r] \in Through \ {"respond"}
      <3>1. cache'[k] = cache[k]
        BY <1>1, <1>3, <2>2, KeyFrame DEF Through, Gating
      <3> QED
        BY <1>5, <1>6, <2>2, <3>1
    <2>3. CASE pc[r] = "lookup"
      <3>1. LookupKey(r)
        BY <2>3, StepAt
      <3>2. /\ cache' = cache /\ cache[k] # NoRow
            /\ entered' = entered \cup {[by |-> r, at |-> cache[k].at]}
        BY <1>1, <1>3, <1>6, <3>1, LookupMoves DEF Through
      <3> DEFINE new == [by |-> r, at |-> cache[k].at]
      <3>3. new \in entered' /\ new.by = q /\ new.at = cache'[k].at /\ cache'[k] # NoRow
        BY <1>6, <3>2
      <3> HIDE DEF new
      <3> QED
        BY <1>4, <3>3
    <2>4. CASE pc[r] = "reinsert"
      <3>1. ReinsertKey(r)
        BY <2>4, StepAt
      <3>2. /\ cache'[k] = NewRow(r, stamp[r])
            /\ entered' = entered \cup {[by |-> r, at |-> stamp[r]]}
        BY <1>1, <1>3, <1>6, <3>1, ReinsertMoves DEF Through
      <3>3. cache'[k] # NoRow /\ cache'[k].at = stamp[r]
        BY <1>1, <3>2, NewRows
      <3> DEFINE new == [by |-> r, at |-> stamp[r]]
      <3>4. new \in entered' /\ new.by = q /\ new.at = cache'[k].at
        BY <1>6, <3>2, <3>3
      <3> HIDE DEF new
      <3> QED
        BY <1>4, <3>3, <3>4
    <2> QED
      BY <2>1, <2>2, <2>3, <2>4
  <1>7. CASE q # r
    <2>1. pc[q] \in Through /\ Inside(q) /\ cache[k] # NoRow
      <3>1. pc[q] \in Through
        BY <1>3, <1>7, OthersStay
      <3> QED
        BY <1>1, <1>3, <3>1 DEF KeyInv, InGate, Inside
    <2>2. CASE k # Key(r) \/ pc[r] \notin Gating
      BY <1>1, <1>3, <1>5, <2>1, <2>2, KeyFrame
    <2>3. CASE k = Key(r) /\ pc[r] = "reserve"
      BY <1>1, <1>5, <2>1, <2>3, StepAt, ReserveMoves
    <2>4. CASE k = Key(r) /\ pc[r] = "lookup"
      BY <1>1, <1>5, <2>1, <2>4, StepAt, LookupMoves
    <2>5. CASE k = Key(r) /\ pc[r] = "evict"
      <3>1. InUse(r)
        BY <1>3, <1>7, <2>1, <2>5 DEF InUse, Through
      <3> QED
        BY <1>1, <2>5, <3>1, StepAt, EvictMoves
    <2>6. CASE k = Key(r) /\ pc[r] = "reinsert"
      BY <1>1, <1>5, <2>1, <2>6, StepAt, ReinsertMoves
    <2>7. CASE k = Key(r) /\ pc[r] = "respond"
      <3>1. cache'[k].at = cache[k].at
        BY <1>1, <2>1, <2>7, StepAt, RespondMoves
      <3>2. cache[k].at \in Nat /\ NoRow.at = -1
        BY <1>1, <1>3, <2>1, Rows
      <3>3. cache'[k] # NoRow
        BY <3>1, <3>2
      <3> QED
        BY <1>5, <2>1, <3>1, <3>3
    <2> QED
      BY <2>2, <2>3, <2>4, <2>5, <2>6, <2>7 DEF Gating
  <1> QED
    BY <1>6, <1>7

LEMMA ReplacingStep ==
    ASSUME Places, KeyInv, NEW r \in Requests, Step(r), NEW q \in Requests,
           pc'[q] \in {"evict", "reinsert"}, Key(q) \notin clobbered'
    PROVE  Replacing(q)'
  <1> DEFINE k == Key(q)
  <1>1. /\ EntryTypes /\ job' = job /\ clobbered \subseteq clobbered' /\ Ttl \in Nat /\ Ttl >= 2
        /\ now \in Nat /\ stamp[r] \in Nat /\ stamp[q] \in Nat /\ stamp[r] <= now /\ stamp[q] <= now
    BY OthersStay, EnteredStays, Constants DEF KeyInv, Places, Placed
  <1>2. Key(q)' = k /\ k \notin clobbered
    BY <1>1 DEF Key
  <1>3. UNCHANGED entered => Entries(k)' = Entries(k)
    BY <1>1 DEF Entries, Key
  <1>4. CASE q = r
    <2>1. /\ pc'[r] = "evict" => pc[r] = "lookup"
          /\ pc'[r] = "reinsert" => pc[r] = "evict"
      BY Sources
    <2>2. k \in Keys /\ stamp'[r] = stamp[r]
      BY <1>4, <2>1, GateKey, Clocks DEF Gating
    <2>3. CASE pc'[r] = "evict"
      <3>1. LookupKey(r)
        BY <2>1, <2>3, StepAt
      <3>2. cache' = cache /\ cache[k] # NoRow /\ Expired(cache[k], stamp[r])
        BY <1>1, <1>4, <2>3, <3>1, LookupMoves
      <3> QED
        BY <1>2, <1>4, <2>2, <2>3, <3>2 DEF Replacing, Expired
    <2>4. CASE pc'[r] = "reinsert"
      <3>1. EvictKey(r)
        BY <2>1, <2>4, StepAt
      <3>2. /\ cache'[k] = NoRow /\ entered' = entered
            /\ cache[k] = NoRow \/ Expired(cache[k], stamp[r])
        BY <1>1, <1>4, <3>1, EvictMoves
      <3>3. \A x \in Entries(k) : x.at < stamp[r] - Ttl
        <4>1. CASE cache[k] = NoRow
          BY <1>2, <1>4, <2>1, <2>4, <4>1 DEF KeyInv, Replacing
        <4>2. CASE cache[k] # NoRow
          <5>1. Row(k)
            BY <1>2, <2>2 DEF KeyInv
          <5>2. \A x \in Entries(k) : x.at <= cache[k].at /\ x.at \in Nat /\ cache[k].at \in Nat
            BY <1>1, <2>2, <4>2, <5>1, RowLast
          <5> QED
            BY <1>1, <3>2, <4>2, <5>2 DEF Expired
        <4> QED
          BY <4>1, <4>2
      <3> QED
        BY <1>2, <1>3, <1>4, <2>2, <3>2, <3>3 DEF Replacing
    <2> QED
      BY <1>4, <2>3, <2>4
  <1>5. CASE q # r
    <2>1. pc'[q] = pc[q] /\ stamp'[q] = stamp[q]
      BY <1>5, OthersStay
    <2>2. k \in Keys /\ Replacing(q) /\ Row(k)
      BY <1>2, <2>1, GateKey DEF KeyInv, Gating
    <2>3. since[q] \in Nat /\ since[r] \in Nat /\ now <= since[q] + 1 /\ since[q] <= stamp[q]
      BY <2>1 DEF Places, Placed, Running, Terminal
    <2>4. ASSUME cache'[k] = cache[k], Entries(k)' = Entries(k) PROVE Replacing(q)'
      BY <1>2, <2>1, <2>2, <2>4 DEF Replacing, Expired
    <2>5. ASSUME NEW time \in Nat, now <= time + 1, NEW p \in Requests, cache'[k] = NewRow(p, time)
          PROVE  Replacing(q)'
      <3>1. cache'[k] # NoRow /\ cache'[k].at = time
        BY <2>5, NewRows
      <3>2. time >= stamp[q] - 1
        BY <1>1, <2>5
      <3> QED
        BY <1>2, <2>1, <3>1, <3>2 DEF Replacing
    <2>6. CASE k # Key(r) \/ pc[r] \notin Gating
      <3>1. k \in Keys /\ EntryTypes
        BY <1>1, <2>2
      <3>2. cache'[k] = cache[k] /\ Entries(k)' = Entries(k)
        BY <1>2, <2>6, <3>1, KeyFrame
      <3> QED
        BY <2>4, <3>2
    <2>7. CASE k = Key(r) /\ pc[r] = "reserve"
      <3>1. /\ entered' = entered
            /\ cache' = cache \/ cache'[k] = NewRow(r, now)
        BY <1>1, <2>7, StepAt, ReserveMoves
      <3>2. now <= now + 1
        BY <1>1
      <3> QED
        BY <1>1, <1>3, <2>4, <2>5, <3>1, <3>2
    <2>8. CASE k = Key(r) /\ pc[r] = "lookup"
      <3>1. cache' = cache /\ cache[k] # NoRow
        BY <1>1, <2>8, StepAt, LookupMoves
      <3> QED
        BY <1>2, <2>1, <2>2, <3>1 DEF Replacing, Expired
    <2>9. CASE k = Key(r) /\ pc[r] = "evict"
      <3>1. /\ cache'[k] = NoRow /\ entered' = entered
            /\ cache[k] = NoRow \/ Expired(cache[k], stamp[r])
        BY <1>1, <2>9, StepAt, EvictMoves
      <3>2. \A x \in Entries(k) : x.at < stamp[q] - Ttl
        <4>1. CASE cache[k] = NoRow
          BY <2>2, <4>1 DEF Replacing
        <4>2. CASE cache[k] # NoRow
          <5>1. \A x \in Entries(k) : x.at <= cache[k].at /\ x.at \in Nat
            BY <1>1, <2>2, <4>2, RowLast
          <5>2. cache[k].at \in Nat
            BY <1>1, <2>2, <4>2, Rows
          <5>3. cache[k].at < stamp[r] - Ttl
            BY <3>1, <4>2 DEF Expired
          <5>4. ~ (cache[k].at >= stamp[q] - 1)
            BY <1>1, <2>3, <5>2, <5>3
          <5>5. cache[k].at < stamp[q] - Ttl
            BY <2>2, <4>2, <5>4 DEF Replacing, Expired
          <5> QED
            BY <1>1, <5>1, <5>2, <5>5
        <4> QED
          BY <4>1, <4>2
      <3> QED
        BY <1>2, <1>3, <2>1, <3>1, <3>2 DEF Replacing
    <2>10. CASE k = Key(r) /\ pc[r] = "reinsert"
      <3>1. \/ cache'[k] = NewRow(r, stamp[r])
            \/ cache' = cache /\ entered' = entered
        BY <1>1, <2>10, StepAt, ReinsertMoves
      <3>2. now <= stamp[r] + 1
        <4>1. Placed(r) /\ since[r] \in Nat
          BY DEF Places
        <4>2. now <= since[r] + 1 /\ since[r] <= stamp[r]
          BY <2>10, <4>1 DEF Placed, Running, Terminal
        <4> QED
          BY <1>1, <4>1, <4>2
      <3> QED
        BY <1>1, <1>3, <2>4, <2>5, <3>1, <3>2
    <2>11. CASE k = Key(r) /\ pc[r] = "respond"
      <3>1. /\ entered' = entered
            /\ \/ cache' = cache
               \/ cache[k] # NoRow /\ cache'[k].at = cache[k].at
        BY <1>1, <2>11, StepAt, RespondMoves
      <3>2. CASE cache[k] # NoRow /\ cache'[k].at = cache[k].at
        <4>1. cache[k].at \in Nat /\ NoRow.at = -1
          BY <1>1, <2>2, <3>2, Rows
        <4>2. cache'[k] # NoRow
          BY <3>2, <4>1
        <4> QED
          BY <1>2, <2>1, <2>2, <3>2, <4>2 DEF Replacing, Expired
      <3> QED
        BY <1>3, <2>4, <3>1, <3>2
    <2> QED
      BY <2>6, <2>7, <2>8, <2>9, <2>10, <2>11 DEF Gating
  <1> QED
    BY <1>4, <1>5

\* Under which time a request enters, and after whom.
LEMMA NewEntry ==
    ASSUME Places, KeyInv, NEW r \in Requests, Step(r), NEW x \in entered', x \notin entered,
           Key(r) \notin clobbered'
    PROVE  /\ x.by = r /\ pc[r] \in {"lookup", "reinsert"}
           /\ \A y \in Entries(Key(r)) :
                 \/ y.at < x.at - Ttl /\ y.at # x.at
                 \/ /\ y.at = x.at /\ job[y.by].body = job[r].body
                    /\ ~ (job[y.by].header /\ pc[y.by] = "done")
  <1> DEFINE k == Key(r)
  <1>1. EntryTypes /\ clobbered \subseteq clobbered' /\ Ttl \in Nat /\ stamp[r] \in Nat
    BY EnteredStays, Constants DEF KeyInv, Places
  <1>2. \A y \in Entries(k) : y.at \in Nat
    BY <1>1 DEF EntryTypes, Entries
  <1>3. CASE LookupKey(r)
    <2>1. /\ pc[r] = "lookup" /\ cache[k] # NoRow
          /\ cache[k].reply = {} /\ cache[k].body = job[r].body
          /\ entered' = entered \cup {[by |-> r, at |-> cache[k].at]}
      BY <1>1, <1>3, LookupMoves
    <2>2. x.by = r /\ x.at = cache[k].at
      BY <2>1
    <2>3. k \in Keys
      BY <2>1, GateKey DEF Gating
    <2>4. Row(k) /\ cache[k].at \in Nat
      BY <1>1, <2>1, <2>3, Rows DEF KeyInv
    <2>5. ASSUME NEW y \in Entries(k)
          PROVE  \/ y.at < x.at - Ttl
                 \/ /\ y.at = x.at /\ job[y.by].body = job[r].body
                    /\ ~ (job[y.by].header /\ pc[y.by] = "done")
      BY <2>1, <2>2, <2>4 DEF Row
    <2>6. ASSUME NEW y \in Entries(k), y.at < x.at - Ttl PROVE y.at # x.at
      BY <1>1, <1>2, <2>2, <2>4, <2>6
    <2> QED
      BY <2>1, <2>2, <2>5, <2>6
  <1>4. CASE ReinsertKey(r)
    <2>1. /\ pc[r] = "reinsert" /\ cache[k] = NoRow
          /\ entered' = entered \cup {[by |-> r, at |-> stamp[r]]}
      BY <1>1, <1>4, ReinsertMoves
    <2>2. x.by = r /\ x.at = stamp[r]
      BY <2>1
    <2>3. \A y \in Entries(k) : y.at < stamp[r] - Ttl
      BY <1>1, <2>1 DEF KeyInv, Replacing
    <2>4. ASSUME NEW y \in Entries(k) PROVE y.at < x.at - Ttl /\ y.at # x.at
      BY <1>1, <1>2, <2>2, <2>3
    <2> QED
      BY <2>1, <2>2, <2>4
  <1> QED
    BY <1>3, <1>4, Writers

LEMMA ApartStep ==
    ASSUME Places, KeyInv, NEW r \in Requests, Step(r), NEW x \in entered', NEW y \in entered',
           Key(x.by)' = Key(y.by)', x.by # y.by, Key(x.by)' \notin clobbered'
    PROVE  Apart(x, y)'
  <1>1. /\ EntryTypes /\ job' = job /\ clobbered \subseteq clobbered'
        /\ pc[r] \notin Terminal
    BY OthersStay, EnteredStays, StepLeads DEF KeyInv, Leads, Running, Terminal
  <1>2. Key(x.by) = Key(y.by) /\ Key(x.by) \notin clobbered' /\ Key(x.by) \notin clobbered
    BY <1>1 DEF Key
  <1>3. ASSUME NEW z \in entered'
        PROVE  after'[z.by] = after[z.by] /\ (z \in entered => z.by \in Requests /\ pc[z.by] # "new")
    <2>1. z \in entered => z.by \in Requests /\ pc[z.by] # "new"
      BY <1>1 DEF EntryTypes, Through, Terminal
    <2>2. z \notin entered => z.by = r /\ pc[r] # "new"
      <3>1. UNCHANGED entered \/ (LookupKey(r) /\ pc[r] = "lookup") \/ (ReinsertKey(r) /\ pc[r] = "reinsert")
        BY Writers DEF LookupKey, ReinsertKey
      <3>2. ASSUME LookupKey(r), z \notin entered PROVE z.by = r
        BY <1>1, <3>2, LookupMoves
      <3>3. ASSUME ReinsertKey(r), z \notin entered PROVE z.by = r
        BY <1>1, <3>3, ReinsertMoves
      <3> QED
        BY <3>1, <3>2, <3>3
    <2>3. CASE z.by = r
      BY <2>1, <2>2, <2>3, Clocks
    <2>4. CASE z.by # r
      BY <2>1, <2>2, <2>4, OthersStay
    <2> QED
      BY <2>1, <2>3, <2>4
  <1>4. CASE x \in entered /\ y \in entered
    <2>1. Apart(x, y)
      BY <1>2, <1>4 DEF KeyInv
    <2> QED
      BY <1>1, <1>3, <2>1 DEF Apart
  <1>5. ASSUME NEW z \in entered', NEW w \in entered', z \notin entered, z.by # w.by,
               Key(z.by) = Key(w.by), Key(z.by) \notin clobbered'
        PROVE  /\ z.by = r /\ pc[r] \in {"lookup", "reinsert"} /\ w.by \in Requests
               /\ \/ w.at < z.at - Ttl /\ w.at # z.at
                  \/ /\ w.at = z.at /\ job[w.by].body = job[z.by].body
                     /\ ~ (job[w.by].header /\ pc[w.by] = "done")
    <2>1. z.by = r
      <3>1. ASSUME LookupKey(r) PROVE z.by = r
        BY <1>1, <1>5, <3>1, LookupMoves
      <3>2. ASSUME ReinsertKey(r) PROVE z.by = r
        BY <1>1, <1>5, <3>2, ReinsertMoves
      <3> QED
        BY <1>5, <3>1, <3>2, Writers
    <2>2. Key(r) \notin clobbered'
      BY <1>5, <2>1
    <2>3. w \in entered
      BY <1>5, <2>1, <2>2, NewEntry
    <2>4. w \in Entries(Key(r)) /\ w.by \in Requests
      BY <1>1, <1>5, <2>1, <2>3 DEF Entries, EntryTypes
    <2> QED
      BY <1>5, <2>1, <2>2, <2>4, NewEntry
  <1>6. CASE x \notin entered
    <2>1. /\ x.by = r /\ pc[r] \in {"lookup", "reinsert"} /\ y.by \in Requests
          /\ \/ y.at < x.at - Ttl /\ y.at # x.at
             \/ y.at = x.at /\ job[y.by].body = job[x.by].body
      BY <1>2, <1>5, <1>6
    <2>2. x.by \notin after'[y.by]
      BY <1>1, <1>3, <2>1 DEF EntryTypes
    <2> QED
      BY <1>1, <2>1, <2>2 DEF Apart
  <1>7. CASE y \notin entered
    <2>1. /\ y.by = r /\ pc[r] \in {"lookup", "reinsert"} /\ x.by \in Requests
          /\ \/ x.at < y.at - Ttl /\ x.at # y.at
             \/ /\ x.at = y.at /\ job[x.by].body = job[y.by].body
                /\ ~ (job[x.by].header /\ pc[x.by] = "done")
      BY <1>2, <1>5, <1>7
    <2>2. x.by \in after'[y.by] => pc[x.by] = "done"
      BY <1>1, <1>3, <2>1 DEF EntryTypes
    <2> QED
      BY <1>1, <2>1, <2>2 DEF Apart
  <1> QED
    BY <1>4, <1>6, <1>7

\* Time, timeouts and crashes leave the gate as it is.
LEMMA KeyQuiet ==
    ASSUME Places, KeyInv, job' = job, UNCHANGED <<cache, entered, clobbered, after, stamp>>,
           now <= now', now' \in Nat,
           \A q \in Requests : pc'[q] = pc[q] \/ (pc'[q] \in Stops /\ pc[q] # "done")
    PROVE  KeyInv'
  <1>1. EntryTypes
    BY DEF KeyInv
  <1>2. ASSUME NEW q \in Requests PROVE Key(q)' = Key(q) /\ Route(q)' = Route(q)
    BY DEF Key, Route
  <1>3. EntryTypes'
    <2>1. ASSUME NEW x \in entered' PROVE /\ x.by \in Requests /\ x.at \in Nat
                                          /\ Route(x.by)' = "gate" /\ Key(x.by)' \in Keys
                                          /\ pc'[x.by] \in Through \cup Terminal
      BY <1>1, <1>2 DEF EntryTypes, Stops, Terminal
    <2>2. ASSUME NEW p \in Requests, NEW q \in after'[p] PROVE q \in Requests /\ pc'[q] = "done"
      BY <1>1 DEF EntryTypes
    <2> QED
      BY <1>1, <2>1, <2>2 DEF EntryTypes
  <1>4. ASSUME NEW k \in Keys PROVE Entries(k)' = Entries(k)
    BY DEF Entries, Key
  <1>5. ASSUME NEW k \in Keys \ clobbered' PROVE Row(k)'
    <2>1. Row(k) /\ cache'[k] = cache[k]
      BY DEF KeyInv
    <2>2. \A x \in Entries(k) : pc'[x.by] = "done" => pc[x.by] = "done"
      BY <1>1 DEF EntryTypes, Entries, Stops
    <2> QED
      BY <1>1, <1>4, <2>1, <2>2, RowStays
  <1>6. ASSUME NEW q \in Requests, InGate(q)', Key(q)' \notin clobbered' PROVE Inside(q)'
    <2>1. InGate(q) /\ Key(q) \notin clobbered
      BY <1>2, <1>6 DEF InGate, Stops, Through
    <2> QED
      BY <1>2, <2>1 DEF KeyInv, Inside
  <1>7. ASSUME NEW q \in Requests, pc'[q] \in {"evict", "reinsert"}, Key(q)' \notin clobbered'
        PROVE  Replacing(q)'
    <2>1. pc'[q] = pc[q] /\ Key(q) \notin clobbered
      BY <1>2, <1>7 DEF Stops
    <2>2. Key(q) \in Keys
      BY <1>7, <2>1, GateKey DEF Gating
    <2> QED
      BY <1>2, <1>4, <1>7, <2>1, <2>2 DEF KeyInv, Replacing, Expired
  <1>8. ASSUME NEW x \in entered', NEW y \in entered', Key(x.by)' = Key(y.by)', x.by # y.by,
               Key(x.by)' \notin clobbered'
        PROVE  Apart(x, y)'
    <2>1. Key(x.by) = Key(y.by) /\ Key(x.by) \notin clobbered
      BY <1>8 DEF Key
    <2>2. Apart(x, y)
      BY <1>8, <2>1 DEF KeyInv
    <2> QED
      BY <2>2 DEF Apart
  <1> QED
    BY <1>3, <1>5, <1>6, <1>7, <1>8 DEF KeyInv

LEMMA KeyStep == Places /\ KeyInv /\ [Next]_vars => KeyInv'
  <1> SUFFICES ASSUME Places, KeyInv, [Next]_vars PROVE KeyInv'
    OBVIOUS
  <1>1. ASSUME NEW r \in Requests, Step(r) PROVE KeyInv'
    <2>1. EntryTypes'
      BY <1>1, EntryTypesStep DEF KeyInv
    <2>2. \A k \in Keys \ clobbered' : Row(k)'
      BY <1>1, RowStep
    <2>3. job' = job
      BY <1>1, OthersStay
    <2>4. ASSUME NEW q \in Requests, InGate(q)', Key(q)' \notin clobbered' PROVE Inside(q)'
      BY <1>1, <2>3, <2>4, InsideStep DEF Key
    <2>5. ASSUME NEW q \in Requests, pc'[q] \in {"evict", "reinsert"}, Key(q)' \notin clobbered'
          PROVE  Replacing(q)'
      BY <1>1, <2>3, <2>5, ReplacingStep DEF Key
    <2>6. ASSUME NEW x \in entered', NEW y \in entered', Key(x.by)' = Key(y.by)', x.by # y.by,
                 Key(x.by)' \notin clobbered'
          PROVE  Apart(x, y)'
      BY <1>1, <2>6, ApartStep
    <2> QED
      BY <2>1, <2>2, <2>4, <2>5, <2>6 DEF KeyInv
  <1>2. ASSUME NEW r \in Requests, TimeOut(r) \/ Crash \/ Tick PROVE KeyInv'
    <2>1. /\ job' = job /\ UNCHANGED <<cache, entered, clobbered, after, stamp>>
          /\ now <= now' /\ now' \in Nat
          /\ \A q \in Requests : pc'[q] = pc[q] \/ (pc'[q] \in Stops /\ pc[q] # "done")
      BY <1>2, Faults DEF Running, Terminal
    <2> QED
      BY <2>1, KeyQuiet
  <1>3. CASE UNCHANGED vars
    BY <1>3, KeyQuiet DEF vars, Places
  <1>4. ASSUME Requests = {}, Tick \/ Crash PROVE KeyInv'
    <2>1. /\ job' = job /\ UNCHANGED <<cache, entered, clobbered, after, stamp>>
          /\ now <= now' /\ now' \in Nat
      BY <1>4 DEF Places, Tick, Crash, begun, gate
    <2> QED
      BY <1>4, <2>1, KeyQuiet
  <1> QED
    BY <1>1, <1>2, <1>3, <1>4 DEF Next, Terminating

\* KeyBindsBody holds of the gateway when an idempotency row outlives two
\* requests: whoever passes the gate has found the row of its key, or has put
\* one there after all that the earlier ones had left were expired.
THEOREM RequestKeyBindsBody == Spec => []KeyBindsBody
  <1> DEFINE Inv == Places /\ KeyInv
  <1>1. Init => Inv
    BY PlacesInit, KeyInit
  <1>2. Inv /\ [Next]_vars => Inv'
    BY PlacesNext, KeyStep
  <1>3. Inv => KeyBindsBody
    <2> SUFFICES ASSUME Inv PROVE KeyBindsBody
      OBVIOUS
    <2>1. ASSUME NEW k \in Keys \ clobbered, NEW q \in cache[k].reply
          PROVE  job[q].body = cache[k].body
      <3>1. cache[k] # NoRow
        BY Rows DEF KeyInv
      <3> QED
        BY <3>1 DEF KeyInv, Row
    <2>2. ASSUME NEW x \in entered, NEW y \in entered, Key(x.by) = Key(y.by), x.by # y.by,
                 Key(x.by) \notin clobbered
          PROVE  Apart(x, y)
      BY <2>2 DEF KeyInv
    <2> QED
      BY <2>1, <2>2 DEF KeyBindsBody, Apart
  <1> QED
    BY <1>1, <1>2, <1>3, PTL DEF Spec

=============================================================================
