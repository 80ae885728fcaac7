---------------------------- MODULE IntentProofs ----------------------------
(***************************************************************************)
(* Theorems about Intents for every workload, pricing and number of        *)
(* crashes and timeouts: types, the exclusion of captures, captures that   *)
(* move all or nothing, the life of an intent, and the funds: what is      *)
(* taken, settled and returned.                                            *)
(***************************************************************************)
EXTENDS Intents, SumLemmas, TLAPS

\* The clamped fee is one of three naturals.
LEMMA FeeType == ASSUME NEW n \in Int, n >= 0 PROVE FeeOf(n) \in Nat
  <1> DEFINE p == (n * Percent) \div 100
             m == Min({MaxFee, p})
  <1>1. p \in Int
    BY IntentConstants
  <1>2. m \in Int
    <2> HIDE DEF p
    <2>1. \E x \in {MaxFee, p} : \A y \in {MaxFee, p} : x <= y
      BY <1>1, IntentConstants
    <2>2. m \in {MaxFee, p}
      BY <2>1 DEF Min
    <2> QED
      BY <2>2, <1>1, IntentConstants
  <1>3. Max({MinFee, m}) \in {MinFee, m} /\ Max({MinFee, m}) >= MinFee
    <2> HIDE DEF m
    <2>1. \E x \in {MinFee, m} : \A y \in {MinFee, m} : x >= y
      BY <1>2, IntentConstants
    <2> QED
      BY <2>1 DEF Max
  <1>4. Max({MinFee, m}) \in Nat
    <2> HIDE DEF m
    <2> QED
      BY <1>2, <1>3, IntentConstants
  <1> QED
    BY <1>4 DEF FeeOf

\* Who asks for what: the lookups of a job are well typed.
LEMMA JobTypes ==
    ASSUME job \in Workloads, NEW r \in Requests
    PROVE  /\ Op(r) \in Ops /\ Intent(r) \in Intents
           /\ Payer(r) \in Agents /\ Payee(r) \in Agents
           /\ Terms[Intent(r)].amount \in Int /\ job[r].amount \in Int
  BY IntentConstants DEF Op, Intent, Payer, Payee, Job

-----------------------------------------------------------------------------
\* Types need to know that an intent is inserted only after its validation.

Validated == \A r \in Requests :
    pc[r] \in {"insert", "charge"} => Terms[Intent(r)].amount > 0
Typed == TypeOK /\ Validated

LEMMA TypedInit == Init => Typed
  <1> SUFFICES ASSUME Init PROVE Typed
    OBVIOUS
  <1>1. \A i \in Pending0 : FeeOf(Terms[i].amount) \in Nat /\ Terms[i].amount \in Nat
    BY FeeType, IntentConstants
  <1> QED
    BY <1>1, IntentConstants DEF Init, Typed, TypeOK, Validated, Running, Terminal

LEMMA TypedArrive ==
    ASSUME Typed, NEW r \in Requests, Arrive(r) PROVE Typed'
  <1> USE DEF Typed, TypeOK, Validated, Go, rows, funds, locals, environment
  <1>0. Intent(r) \in Intents /\ Terms[Intent(r)].amount \in Int
    BY JobTypes
  <1>1. CASE LookupIntent(r)
    BY <1>0, <1>1 DEF LookupIntent, Terminal, Running, Intent, Op
  <1>2. CASE LookupCapture(r)
    BY <1>2 DEF LookupCapture, Terminal, Running, Intent
  <1>3. CASE ReadRefund(r)
    BY <1>0, <1>3 DEF ReadRefund, Terminal, Running, Disturb, Intent
  <1> QED
    BY <1>1, <1>2, <1>3 DEF Arrive

LEMMA TypedContinue ==
    ASSUME Typed, NEW r \in Requests, Continue(r) PROVE Typed'
  <1> USE DEF Typed, TypeOK, Validated, Go, rows, funds, locals, environment
  <1>0. /\ Intent(r) \in Intents /\ Terms[Intent(r)].amount \in Int
        /\ Payer(r) \in Agents /\ Payee(r) \in Agents /\ job[r].amount \in Int
    BY JobTypes
  <1>1. CASE InsertIntent(r)
    BY <1>0, <1>1 DEF InsertIntent, Terminal, Running, Intent
  <1>2. CASE ChargeFee(r)
    <2>1. FeeOf(Terms[Intent(r)].amount) \in Nat
      BY <1>0, <1>2, FeeType DEF ChargeFee
    <2> QED
      BY <1>0, <1>2, <2>1 DEF ChargeFee, CanPay, Terminal, Running, Intent
  <1>3. CASE ReadIntent(r)
    BY <1>0, <1>3 DEF ReadIntent, Disturb, Terminal, Running, Intent
  <1>4. CASE Reserve(r)
    BY <1>0, <1>4 DEF Reserve, Terminal, Running, Intent
  <1>5. CASE Withdraw(r)
    BY <1>0, <1>5 DEF Withdraw, CanPay, Terminal, Running, Intent
  <1>6. CASE Deposit(r)
    BY <1>0, <1>6 DEF Deposit, Disturb, Terminal, Running, Intent
  <1>7. CASE RecordSettlement(r)
    BY <1>0, <1>7 DEF RecordSettlement, Disturb, Terminal, Running, Intent
  <1>8. CASE Finish(r)
    BY <1>0, <1>8 DEF Finish, Terminal, Running, Intent
  <1>9. CASE DebitBack(r)
    BY <1>0, <1>9 DEF DebitBack, Disturb, Terminal, Running, Intent
  <1>10. CASE CreditBack(r)
    BY <1>0, <1>10 DEF CreditBack, Terminal, Running, Intent
  <1>11. CASE Revert(r)
    BY <1>0, <1>11 DEF Revert, Terminal, Running, Intent
  <1>12. CASE ReadVoid(r)
    BY <1>0, <1>12 DEF ReadVoid, Terminal, Running, Intent
  <1>13. CASE Void(r)
    BY <1>0, <1>13 DEF Void, Terminal, Running, Intent
  <1>14. CASE TakeBack(r)
    BY <1>0, <1>14 DEF TakeBack, CanPay, Terminal, Running, Intent
  <1>15. CASE GiveBack(r)
    BY <1>0, <1>15 DEF GiveBack, Disturb, Terminal, Running, Intent
  <1>16. CASE CreditFee(r)
    <2>1. FeeOf(seen[r]) \in Nat
      BY FeeType
    <2> QED
      BY <1>0, <1>16, <2>1 DEF CreditFee, Terminal, Running, Intent
  <1> QED
    BY <1>1, <1>2, <1>3, <1>4, <1>5, <1>6, <1>7, <1>8, <1>9, <1>10, <1>11, <1>12,
       <1>13, <1>14, <1>15, <1>16 DEF Continue

\* A crash ends the running requests, and a timeout one of them: nothing but
\* their places changes, and the intents of those midway count as disturbed.
Cuts ==
    /\ UNCHANGED <<job, frozen, rows, funds, locals, short>>
    /\ raced \subseteq raced'
    /\ \A r \in Requests :
           \/ pc'[r] = pc[r]
           \/ /\ pc[r] \in Running /\ pc'[r] \in {"504", "lost"}
              /\ pc[r] \in Midway => Intent(r) \in raced'
Fault == CrashProcess \/ \E r \in Requests : TimeOut(r)

LEMMA FaultsCut == Typed /\ Fault => Cuts
  <1> SUFFICES ASSUME Typed, Fault PROVE Cuts
    OBVIOUS
  <1>1. CASE CrashProcess
    BY <1>1 DEF CrashProcess, Cuts
  <1>2. ASSUME NEW r \in Requests, TimeOut(r) PROVE Cuts
    BY <1>2 DEF TimeOut, Cuts, Go, Disturb, Typed, TypeOK
  <1> QED
    BY <1>1, <1>2 DEF Fault

LEMMA TypedNext == Typed /\ [Next]_vars => Typed'
  <1> SUFFICES ASSUME Typed, [Next]_vars PROVE Typed'
    OBVIOUS
  <1> USE DEF Typed, TypeOK, Validated, rows, funds, locals, Intent
  <1>1. CASE \E r \in Requests : Arrive(r) \/ Continue(r)
    BY <1>1, TypedArrive, TypedContinue
  <1>2. CASE \E a \in Freezable : SetFrozen(a)
    BY <1>2, IntentConstants DEF SetFrozen
  <1>3. CASE CrashProcess
    BY <1>3, IntentConstants, JobTypes DEF CrashProcess, Terminal, Running
  <1>4. ASSUME NEW r \in Requests, TimeOut(r) PROVE Typed'
    BY <1>4, IntentConstants, JobTypes DEF TimeOut, Go, Disturb, Terminal, Running
  <1>5. CASE UNCHANGED vars
    BY <1>5 DEF vars
  <1> QED
    BY <1>1, <1>2, <1>3, <1>4, <1>5 DEF Next, Terminating

\* Every reachable state is well typed: no balance, amount or settlement is
\* ever negative, unguarded reversals and unconditional updates included.
THEOREM IntentTypes == Spec => []TypeOK
  <1>1. Typed => TypeOK
    BY DEF Typed
  <1> QED
    BY <1>1, TypedInit, TypedNext, PTL DEF Spec

-----------------------------------------------------------------------------
\* The reservation.  An intent that does not exist has nobody at work on it,
\* and a creation that has not inserted its row is the only one that will.

Unborn == \A r \in Requests :
    /\ Op(r) = "create" /\ pc[r] \in {"new", "insert"} => status[Intent(r)] = "none"
    /\ pc[r] = "insert" => Op(r) = "create"
    /\ pc[r] \in Running \ {"insert", "charge"} =>
           Op(r) # "create" /\ status[Intent(r)] # "none"
    /\ pc[r] \in {"reserve", "debitBack", "creditBack", "revert"} => Op(r) = "capture"
\* While a capture holds an intent, the row is not pending.
Locked == \A r \in Requests :
    Op(r) = "capture" /\ pc[r] \in Reserved => status[Intent(r)] # "pending"
LockInv == Typed /\ Unborn /\ Locked /\ CaptureExclusive

LEMMA FreshJob ==
    ASSUME job \in Workloads, NEW r \in Requests, Op(r) = "create"
    PROVE  /\ Intent(r) \notin Pending0
           /\ \A s \in Requests \ {r} : Op(s) = "create" => Intent(s) # Intent(r)
  BY IntentConstants DEF FreshIds, Op, Intent

LEMMA LockInit == Init => LockInv
  <1> SUFFICES ASSUME Init PROVE LockInv
    OBVIOUS
  <1>1. Typed
    BY TypedInit
  <1>2. Unborn
    <2>1. \A r \in Requests : Op(r) = "create" => status[Intent(r)] = "none"
      BY <1>1, FreshJob, JobTypes DEF Init
    <2> QED
      BY <2>1 DEF Init, Unborn, Running
  <1>3. Locked /\ CaptureExclusive
    BY DEF Init, Locked, CaptureExclusive, Holding, Reserving, Reserved
  <1> QED
    BY <1>1, <1>2, <1>3 DEF LockInv

LEMMA LockStep ==
    ASSUME LockInv, NEW r \in Requests, Arrive(r) \/ Continue(r)
    PROVE  Unborn' /\ Locked' /\ CaptureExclusive'
  <1> USE DEF LockInv, Unborn, Locked, CaptureExclusive, Holding, Reserving,
              Go, rows, Op, Intent, Running, Reserved
  <1>0. /\ Intent(r) \in Intents /\ \A s \in Requests : Intent(s) \in Intents
        /\ job' = job /\ job \in Workloads
        /\ DOMAIN pc = Requests /\ pc = [s \in Requests |-> pc[s]]
        /\ DOMAIN status = Intents /\ status = [i \in Intents |-> status[i]]
    <2>1. job' = job
      BY DEF Arrive, Continue, LookupIntent, LookupCapture, ReadRefund, InsertIntent,
             ChargeFee, ReadIntent, Reserve, Withdraw, Deposit, RecordSettlement,
             Finish, DebitBack, CreditBack, Revert, ReadVoid, Void, TakeBack, GiveBack,
             CreditFee, environment
    <2> QED
      BY <2>1, JobTypes DEF Typed, TypeOK
  <1>1. CASE LookupIntent(r)
    BY <1>0, <1>1 DEF LookupIntent
  <1>2. CASE LookupCapture(r)
    BY <1>0, <1>2 DEF LookupCapture
  <1>3. CASE ReadRefund(r)
    BY <1>0, <1>3 DEF ReadRefund
  <1>4. CASE InsertIntent(r)
    BY <1>0, <1>4, FreshJob DEF InsertIntent
  <1>5. CASE ChargeFee(r)
    BY <1>0, <1>5 DEF ChargeFee
  <1>6. CASE ReadIntent(r)
    BY <1>0, <1>6 DEF ReadIntent
  <1>7. CASE Reserve(r)
    BY <1>0, <1>7 DEF Reserve
  <1>8. CASE Withdraw(r)
    BY <1>0, <1>8 DEF Withdraw
  <1>9. CASE Deposit(r)
    BY <1>0, <1>9 DEF Deposit
  <1>10. CASE RecordSettlement(r)
    BY <1>0, <1>10 DEF RecordSettlement
  <1>11. CASE Finish(r)
    BY <1>0, <1>11 DEF Finish
  <1>12. CASE DebitBack(r)
    BY <1>0, <1>12 DEF DebitBack
  <1>13. CASE CreditBack(r)
    BY <1>0, <1>13 DEF CreditBack
  <1>14. CASE Revert(r)
    BY <1>0, <1>14 DEF Revert
  <1>15. CASE ReadVoid(r)
    BY <1>0, <1>15 DEF ReadVoid
  <1>16. CASE Void(r)
    BY <1>0, <1>16 DEF Void
  <1>17. CASE TakeBack(r)
    BY <1>0, <1>17 DEF TakeBack
  <1>18. CASE GiveBack(r)
    <2>1. /\ pc[r] = "giveBack" /\ status' = status
          /\ \E next \in {"creditFee", "error"} : pc' = [pc EXCEPT ![r] = next]
      BY <1>18 DEF GiveBack
    <2> QED
      BY <1>0, <2>1
  <1>19. CASE CreditFee(r)
    BY <1>0, <1>19 DEF CreditFee
  <1> QED
    BY <1>1, <1>2, <1>3, <1>4, <1>5, <1>6, <1>7, <1>8, <1>9, <1>10, <1>11, <1>12,
       <1>13, <1>14, <1>15, <1>16, <1>17, <1>18, <1>19 DEF Arrive, Continue

LEMMA LockNext == LockInv /\ [Next]_vars => LockInv'
  <1> SUFFICES ASSUME LockInv, [Next]_vars PROVE LockInv'
    OBVIOUS
  <1>0. Typed'
    BY TypedNext DEF LockInv
  <1> USE DEF LockInv, Unborn, Locked, CaptureExclusive, Holding, Reserving, rows, Op, Intent
  <1>1. CASE \E r \in Requests : Arrive(r) \/ Continue(r)
    BY <1>0, <1>1, LockStep
  <1>2. CASE \E a \in Freezable : SetFrozen(a)
    BY <1>0, <1>2 DEF SetFrozen
  <1>3. CASE Fault
    BY <1>0, <1>3, FaultsCut DEF Cuts, Running, Reserved
  <1>4. CASE UNCHANGED vars
    BY <1>0, <1>4 DEF vars
  <1> QED
    BY <1>1, <1>2, <1>3, <1>4 DEF Next, Terminating, Fault

\* For any requests, failures, crashes and timeouts, the captures of one intent exclude
\* each other: the compare-and-set works as a lock that only its holder opens.
THEOREM CapturesExclude == Spec => []CaptureExclusive
  <1>1. LockInv => CaptureExclusive
    BY DEF LockInv
  <1> QED
    BY <1>1, LockInit, LockNext, PTL DEF Spec

-----------------------------------------------------------------------------
\* All or nothing.  What a capture has taken and given, at every await.

HasRow(r) == <<r, part[r]>> \in settlements
NoRow(r) == \A s \in settlements : s[1] # r
Flow(r) ==
    /\ pc[r] \notin {"insert", "charge", "readVoid", "void", "takeBack", "giveBack", "creditFee"}
    /\ pc[r] \in {"new", "read", "reserve", "withdraw", "rejected"} =>
           gave[r] = 0 /\ got[r] = 0 /\ NoRow(r)
    /\ pc[r] = "deposit" => gave[r] = part[r] /\ got[r] = 0 /\ NoRow(r)
    /\ pc[r] \in {"record", "debitBack"} =>
           gave[r] = part[r] /\ got[r] = part[r] /\ NoRow(r)
    /\ pc[r] = "finish" => gave[r] = part[r] /\ got[r] = part[r] /\ HasRow(r)
    /\ pc[r] = "creditBack" =>
           gave[r] = part[r] /\ (r \in short \/ got[r] = 0) /\ NoRow(r)
    /\ pc[r] \in {"revert", "error"} =>
           gave[r] = 0 /\ (r \in short \/ got[r] = 0) /\ NoRow(r)
    /\ pc[r] = "done" =>
           \/ gave[r] = part[r] /\ got[r] = part[r] /\ HasRow(r)
           \/ gave[r] = 0 /\ got[r] = 0 /\ NoRow(r)
FlowInv == Typed /\ \A r \in Requests : Op(r) = "capture" => Flow(r)

\* A request touches nobody else's part of the history.
LEMMA FlowOthers ==
    ASSUME NEW r, NEW s, r # s, Flow(r),
           pc'[r] = pc[r], part'[r] = part[r], gave'[r] = gave[r], got'[r] = got[r],
           short \subseteq short',
           settlements \subseteq settlements',
           \A x \in settlements' \ settlements : x[1] = s
    PROVE  Flow(r)'
  BY DEF Flow, HasRow, NoRow

LEMMA FlowStep ==
    ASSUME FlowInv, NEW s \in Requests, Arrive(s) \/ Continue(s)
    PROVE  \A r \in Requests : Op(r)' = "capture" => Flow(r)'
  <1> USE DEF Go, rows, funds, locals, environment, Op
  <1>0. /\ job' = job
        /\ pc = [q \in Requests |-> pc[q]] /\ part = [q \in Requests |-> part[q]]
        /\ gave \in [Requests -> Int] /\ got \in [Requests -> Int]
        /\ part \in [Requests -> Int] /\ settlements \subseteq Requests \X Nat
        /\ Op(s) = "capture" => Flow(s)
    <2>1. job' = job
      BY DEF Arrive, Continue, LookupIntent, LookupCapture, ReadRefund, InsertIntent,
             ChargeFee, ReadIntent, Reserve, Withdraw, Deposit, RecordSettlement,
             Finish, DebitBack, CreditBack, Revert, ReadVoid, Void, TakeBack, GiveBack,
             CreditFee
    <2> QED
      BY <2>1 DEF FlowInv, Typed, TypeOK
  <1> DEFINE OwnPart ==
        /\ \A q \in Requests \ {s} : /\ pc'[q] = pc[q] /\ part'[q] = part[q]
                                     /\ gave'[q] = gave[q] /\ got'[q] = got[q]
        /\ short \subseteq short' /\ settlements \subseteq settlements'
        /\ \A x \in settlements' \ settlements : x[1] = s
        /\ Op(s) = "capture" => Flow(s)'
  <1>a. ASSUME OwnPart PROVE \A r \in Requests : Op(r)' = "capture" => Flow(r)'
    BY <1>a, <1>0, FlowOthers DEF FlowInv
  <1>1. CASE LookupIntent(s)
    BY <1>0, <1>1, <1>a DEF LookupIntent
  <1>2. CASE LookupCapture(s)
    BY <1>0, <1>2, <1>a DEF LookupCapture, Flow, NoRow, HasRow
  <1>3. CASE ReadRefund(s)
    BY <1>0, <1>3, <1>a DEF ReadRefund
  <1>4. CASE InsertIntent(s)
    BY <1>0, <1>4, <1>a DEF InsertIntent, Flow
  <1>5. CASE ChargeFee(s)
    BY <1>0, <1>5, <1>a DEF ChargeFee, Flow
  <1>6. CASE ReadIntent(s)
    BY <1>0, <1>6, <1>a DEF ReadIntent, Flow, NoRow
  <1>7. CASE Reserve(s)
    BY <1>0, <1>7, <1>a DEF Reserve, Flow, NoRow
  <1>8. CASE Withdraw(s)
    BY <1>0, <1>8, <1>a DEF Withdraw, Flow, NoRow
  <1>9. CASE Deposit(s)
    BY <1>0, <1>9, <1>a DEF Deposit, Flow, NoRow
  <1>10. CASE RecordSettlement(s)
    BY <1>0, <1>10, <1>a DEF RecordSettlement, Flow, NoRow, HasRow
  <1>11. CASE Finish(s)
    <2>1. /\ pc[s] = "finish" /\ pc' = [pc EXCEPT ![s] = "done"]
          /\ UNCHANGED <<settlements, gave, got, part, short>>
      BY <1>11 DEF Finish
    <2>2. Op(s) = "capture" => Flow(s)'
      BY <1>0, <2>1 DEF Flow, NoRow, HasRow
    <2> QED
      BY <1>0, <1>a, <2>1, <2>2
  <1>12. CASE DebitBack(s)
    <2>1. /\ pc[s] = "debitBack" /\ pc' = [pc EXCEPT ![s] = "creditBack"]
          /\ UNCHANGED <<settlements, gave, part>>
          /\ \/ got' = [got EXCEPT ![s] = @ - part[s]] /\ UNCHANGED short
             \/ short' = short \cup {s} /\ UNCHANGED got
      BY <1>12 DEF DebitBack
    <2>2. Op(s) = "capture" => Flow(s)'
      BY <1>0, <2>1 DEF Flow, NoRow, HasRow
    <2> QED
      BY <1>0, <1>a, <2>1, <2>2
  <1>13. CASE CreditBack(s)
    BY <1>0, <1>13, <1>a DEF CreditBack, Flow, NoRow
  <1>14. CASE Revert(s)
    BY <1>0, <1>14, <1>a DEF Revert, Flow, NoRow
  <1>15. CASE ReadVoid(s)
    BY <1>0, <1>15, <1>a DEF ReadVoid, Flow
  <1>16. CASE Void(s)
    BY <1>0, <1>16, <1>a DEF Void, Flow
  <1>17. CASE TakeBack(s)
    BY <1>0, <1>17, <1>a DEF TakeBack, Flow
  <1>18. CASE GiveBack(s)
    BY <1>0, <1>18, <1>a DEF GiveBack, Flow
  <1>19. CASE CreditFee(s)
    BY <1>0, <1>19, <1>a DEF CreditFee, Flow
  <1> QED
    BY <1>1, <1>2, <1>3, <1>4, <1>5, <1>6, <1>7, <1>8, <1>9, <1>10, <1>11, <1>12,
       <1>13, <1>14, <1>15, <1>16, <1>17, <1>18, <1>19 DEF Arrive, Continue

LEMMA FlowNext == FlowInv /\ [Next]_vars => FlowInv'
  <1> SUFFICES ASSUME FlowInv, [Next]_vars PROVE FlowInv'
    OBVIOUS
  <1>0. Typed'
    BY TypedNext DEF FlowInv
  <1> USE DEF FlowInv, rows, funds, locals, Op
  <1>1. CASE \E r \in Requests : Arrive(r) \/ Continue(r)
    BY <1>0, <1>1, FlowStep
  <1>2. CASE \E a \in Freezable : SetFrozen(a)
    BY <1>0, <1>2 DEF SetFrozen, Flow, HasRow, NoRow
  <1>3. CASE Fault
    <2>1. Cuts
      BY <1>3, FaultsCut
    <2>2. ASSUME NEW r \in Requests, Flow(r) PROVE Flow(r)'
      <3>1. pc'[r] = pc[r] \/ pc'[r] \in {"504", "lost"}
        BY <2>1 DEF Cuts
      <3> QED
        BY <2>1, <2>2, <3>1 DEF Cuts, Flow, HasRow, NoRow
    <2> QED
      BY <1>0, <2>1, <2>2 DEF Cuts
  <1>4. CASE UNCHANGED vars
    BY <1>0, <1>4 DEF vars, Flow, HasRow, NoRow
  <1> QED
    BY <1>1, <1>2, <1>3, <1>4 DEF Next, Terminating, Fault

\* For any requests, freezes, crashes and timeouts, a capture that was answered moved
\* the whole amount and left its settlement, or moved nothing and left none;
\* the only exception is a reversal that found the payee's wallet short.
THEOREM CapturesAllOrNothing == Spec => []AllOrNothing
  <1>1. Init => FlowInv
    BY TypedInit DEF Init, FlowInv, Flow, HasRow, NoRow
  <1>2. FlowInv => AllOrNothing
    BY DEF FlowInv, Flow, AllOrNothing, HasRow, NoRow
  <1> QED
    BY <1>1, <1>2, FlowNext, PTL DEF Spec

-----------------------------------------------------------------------------
\* The life of an intent.  While it is undisturbed, a partial capture or a
\* refund at work on it is alone, and finds the row as it read it; a capture
\* between its two compare-and-sets finds it captured.

Working == Running \ {"insert", "charge", "read", "creditFee"}
Placed == \A r \in Requests :
    /\ pc[r] \in {"read", "withdraw", "deposit", "record", "finish"} =>
           Op(r) \in {"capture", "partial"}
    /\ pc[r] \in {"readVoid", "void", "takeBack", "giveBack"} => Op(r) = "refund"
Alone == \A r, s \in Requests :
    /\ r # s /\ Intent(r) = Intent(s) /\ Intent(r) \notin raced
    /\ pc[r] \in Working /\ pc[s] \in Working
    => Op(r) = "capture" /\ Op(s) = "capture"
AsRead == \A r \in Requests : Intent(r) \notin raced =>
    /\ Op(r) = "capture" /\ pc[r] \in Reserved => status[Intent(r)] = "captured"
    /\ Op(r) = "partial" /\ pc[r] \in Working => status[Intent(r)] = "pending"
    /\ pc[r] \in {"readVoid", "void"} => status[Intent(r)] = "pending"
LifeInv == LockInv /\ Placed /\ Alone /\ AsRead

\* A request that does not overlap others is alone, or a capture among such.
LEMMA NoOverlap ==
    ASSUME NEW r \in Requests, NEW s \in Requests, ~Overlap(r), r # s,
           Intent(s) = Intent(r), pc[s] \in Working
    PROVE  Op(r) = "capture" /\ Op(s) = "capture"
  <1>1. s \in AtWork(Intent(r)) \ {r}
    BY DEF AtWork, Working
  <1>2. {Op(r), Op(s)} = {"capture"}
    BY <1>1 DEF Overlap
  <1> QED
    BY <1>2

LEMMA LifeStep ==
    ASSUME LifeInv, NEW r \in Requests, Arrive(r) \/ Continue(r)
    PROVE  Placed' /\ Alone' /\ AsRead'
  <1> USE DEF LifeInv, Placed, Alone, AsRead, Go, Disturb, rows, Op, Intent,
              Running, Working, Reserved
  <1>0. /\ Intent(r) \in Intents /\ \A s \in Requests : Intent(s) \in Intents
        /\ job' = job /\ job \in Workloads
        /\ DOMAIN pc = Requests /\ pc = [s \in Requests |-> pc[s]]
        /\ DOMAIN status = Intents /\ status = [i \in Intents |-> status[i]]
        /\ Unborn /\ \A i \in Intents : \A p, s \in Holding(i) : p = s
    <2>1. job' = job
      BY DEF Arrive, Continue, LookupIntent, LookupCapture, ReadRefund, InsertIntent,
             ChargeFee, ReadIntent, Reserve, Withdraw, Deposit, RecordSettlement,
             Finish, DebitBack, CreditBack, Revert, ReadVoid, Void, TakeBack, GiveBack,
             CreditFee, environment
    <2> QED
      BY <2>1, JobTypes DEF LockInv, Typed, TypeOK, CaptureExclusive
  <1>1. CASE LookupIntent(r)
    BY <1>0, <1>1 DEF LookupIntent
  <1>2. CASE LookupCapture(r)
    BY <1>0, <1>2 DEF LookupCapture
  <1>3. CASE ReadRefund(r)
    <2>1. \E next \in {"rejected", "readVoid", "takeBack", "done", "error"} :
             /\ pc[r] = "new" /\ Op(r) = "refund" /\ pc' = [pc EXCEPT ![r] = next]
             /\ UNCHANGED status
             /\ next = "readVoid" => status[Intent(r)] = "pending"
             /\ \/ next \notin Working /\ raced \subseteq raced'
                \/ Overlap(r) /\ raced' = raced \cup {Intent(r)}
                \/ ~Overlap(r) /\ raced' = raced
      BY <1>3 DEF ReadRefund
    <2> QED
      BY <1>0, <2>1, NoOverlap
  <1>4. CASE InsertIntent(r)
    <2>1. /\ pc[r] = "insert" /\ raced' = raced
          /\ \/ pc' = [pc EXCEPT ![r] = "error"] /\ UNCHANGED status
             \/ /\ pc' = [pc EXCEPT ![r] = "charge"]
                /\ status' = [status EXCEPT ![Intent(r)] = "pending"]
      BY <1>4 DEF InsertIntent
    <2>2. \A s \in Requests : pc[s] \in Working => Intent(s) # Intent(r)
      BY <1>0, <2>1 DEF Unborn
    <2> QED
      BY <1>0, <2>1, <2>2
  <1>5. CASE ChargeFee(r)
    BY <1>0, <1>5 DEF ChargeFee
  <1>6. CASE ReadIntent(r)
    <2>1. \E next \in {"reserve", "withdraw", "error"} :
             /\ pc[r] = "read" /\ pc' = [pc EXCEPT ![r] = next] /\ UNCHANGED status
             /\ next \in Working => status[Intent(r)] = "pending"
             /\ next = "reserve" <=> next \in Working /\ Op(r) = "capture"
             /\ \/ next = "error" /\ raced' = raced
                \/ Overlap(r) /\ raced' = raced \cup {Intent(r)}
                \/ ~Overlap(r) /\ raced' = raced
      BY <1>6 DEF ReadIntent
    <2>2. Op(r) \in {"capture", "partial"}
      BY <2>1
    <2> QED
      BY <1>0, <2>1, <2>2, NoOverlap
  <1>7. CASE Reserve(r)
    <2>1. /\ pc[r] = "reserve" /\ raced' = raced /\ Op(r) = "capture"
          /\ \/ pc' = [pc EXCEPT ![r] = "error"] /\ UNCHANGED status
             \/ /\ pc' = [pc EXCEPT ![r] = "withdraw"] /\ status[Intent(r)] = "pending"
                /\ status' = [status EXCEPT ![Intent(r)] = "captured"]
      BY <1>0, <1>7 DEF Reserve, Unborn
    <2> QED
      BY <1>0, <2>1
  <1>8. CASE Withdraw(r)
    BY <1>0, <1>8 DEF Withdraw
  <1>9. CASE Deposit(r)
    BY <1>0, <1>9 DEF Deposit
  <1>10. CASE RecordSettlement(r)
    BY <1>0, <1>10 DEF RecordSettlement
  <1>11. CASE Finish(r)
    <2>1. /\ pc[r] = "finish" /\ raced' = raced /\ pc' = [pc EXCEPT ![r] = "done"]
          /\ \/ status' = [status EXCEPT ![Intent(r)] = "settled"]
             \/ UNCHANGED status
      BY <1>11 DEF Finish
    <2>2. \A s \in Requests : s # r /\ Intent(s) = Intent(r) /\ Intent(r) \notin raced =>
             /\ pc[s] \in Working => Op(s) = "capture" /\ pc[s] \notin Reserved
      BY <1>0, <2>1 DEF Holding, Reserving
    <2> QED
      BY <1>0, <2>1, <2>2
  <1>12. CASE DebitBack(r)
    BY <1>0, <1>12 DEF DebitBack
  <1>13. CASE CreditBack(r)
    BY <1>0, <1>13 DEF CreditBack
  <1>14. CASE Revert(r)
    <2>1. /\ pc[r] = "revert" /\ Op(r) = "capture" /\ raced' = raced
          /\ pc' = [pc EXCEPT ![r] = "error"]
          /\ \/ status' = [status EXCEPT ![Intent(r)] = "pending"]
             \/ UNCHANGED status
      BY <1>0, <1>14 DEF Revert, Unborn
    <2>2. \A s \in Requests : s # r /\ Intent(s) = Intent(r) /\ Intent(r) \notin raced =>
             /\ pc[s] \in Working => Op(s) = "capture" /\ pc[s] \notin Reserved
      BY <1>0, <2>1 DEF Holding, Reserving
    <2> QED
      BY <1>0, <2>1, <2>2
  <1>15. CASE ReadVoid(r)
    BY <1>0, <1>15 DEF ReadVoid
  <1>16. CASE Void(r)
    BY <1>0, <1>16 DEF Void
  <1>17. CASE TakeBack(r)
    BY <1>0, <1>17 DEF TakeBack
  <1>18. CASE GiveBack(r)
    BY <1>0, <1>18 DEF GiveBack
  <1>19. CASE CreditFee(r)
    BY <1>0, <1>19 DEF CreditFee
  <1> QED
    BY <1>1, <1>2, <1>3, <1>4, <1>5, <1>6, <1>7, <1>8, <1>9, <1>10, <1>11, <1>12,
       <1>13, <1>14, <1>15, <1>16, <1>17, <1>18, <1>19 DEF Arrive, Continue

LEMMA LifeNext == LifeInv /\ [Next]_vars => LifeInv'
  <1> SUFFICES ASSUME LifeInv, [Next]_vars PROVE LifeInv'
    OBVIOUS
  <1>0. LockInv'
    BY LockNext DEF LifeInv
  <1> USE DEF LifeInv, Placed, Alone, AsRead, rows, Op, Intent
  <1>1. CASE \E r \in Requests : Arrive(r) \/ Continue(r)
    BY <1>0, <1>1, LifeStep
  <1>2. CASE \E a \in Freezable : SetFrozen(a)
    BY <1>0, <1>2 DEF SetFrozen
  <1>3. CASE Fault
    BY <1>0, <1>3, FaultsCut DEF Cuts, LockInv, Running, Working, Reserved
  <1>4. CASE UNCHANGED vars
    BY <1>0, <1>4 DEF vars
  <1> QED
    BY <1>1, <1>2, <1>3, <1>4 DEF Next, Terminating, Fault

\* Which step changes a status, and from what.
Advance == \A i \in Intents \ raced' :
    status'[i] # status[i] => <<status[i], status'[i]>> \in Steps

LEMMA LifeAdvance == LifeInv /\ [Next]_vars => Advance
  <1> SUFFICES ASSUME LifeInv, [Next]_vars PROVE Advance
    OBVIOUS
  <1> USE DEF rows, Steps
  <1>0. DOMAIN status = Intents /\ \A r \in Requests : Intent(r) \in Intents
    BY JobTypes DEF LifeInv, LockInv, Typed, TypeOK
  <1>1. ASSUME NEW r \in Requests, Continue(r) PROVE Advance
    <2>1. CASE InsertIntent(r)
      <3>1. status[Intent(r)] = "none"
        BY <2>1 DEF InsertIntent, LifeInv, LockInv, Unborn
      <3> QED
        BY <1>0, <2>1, <3>1 DEF InsertIntent, Advance
    <2>2. CASE Reserve(r)
      BY <1>0, <2>2 DEF Reserve, Advance
    <2>3. CASE Finish(r)
      <3>1. Intent(r) \notin raced => status[Intent(r)] \in {"captured", "pending"}
        BY <2>3 DEF Finish, LifeInv, Placed, AsRead, Reserved, Working, Running
      <3>2. raced' = raced /\ (status' = status \/ status' = [status EXCEPT ![Intent(r)] = "settled"])
        BY <2>3 DEF Finish
      <3> QED
        BY <1>0, <3>1, <3>2 DEF Advance
    <2>4. CASE Revert(r)
      BY <1>0, <2>4 DEF Revert, Advance
    <2>5. CASE Void(r)
      <3>1. Intent(r) \notin raced => status[Intent(r)] = "pending"
        BY <2>5 DEF Void, LifeInv, AsRead
      <3> QED
        BY <1>0, <2>5, <3>1 DEF Void, Advance
    <2>6. CASE UNCHANGED status
      BY <2>6 DEF Advance
    <2> QED
      BY <1>1, <2>1, <2>2, <2>3, <2>4, <2>5, <2>6
      DEF Continue, ChargeFee, ReadIntent, Withdraw, Deposit, RecordSettlement,
          DebitBack, CreditBack, ReadVoid, TakeBack, GiveBack, CreditFee
  <1>2. CASE UNCHANGED status
    BY <1>2 DEF Advance
  <1> QED
    BY <1>1, <1>2 DEF Next, Arrive, LookupIntent, LookupCapture, ReadRefund, SetFrozen,
       CrashProcess, TimeOut, Terminating, vars

\* The status of an undisturbed intent only moves along its life: nothing
\* undoes a settlement or a void, although most updates are unconditional.
THEOREM IntentsFollowLife == Spec => IntentLifecycle
  <1>1. Init => LifeInv
    BY LockInit DEF Init, LifeInv, Placed, Alone, AsRead, Working, Running, Reserved
  <1>2. LifeInv /\ [Next]_vars => [Advance]_vars
    BY LifeAdvance
  <1> QED
    BY <1>1, <1>2, LifeNext, PTL DEF Spec, IntentLifecycle, Advance

-----------------------------------------------------------------------------
\* Funds and rows.  What a step of a request may touch: its own place and
\* history, its own intent, and settlement rows of its own.

Local(r) ==
    /\ job' = job /\ raced \subseteq raced'
    /\ \A q \in Requests \ {r} :
           /\ pc'[q] = pc[q] /\ seen'[q] = seen[q] /\ part'[q] = part[q]
           /\ gave'[q] = gave[q] /\ got'[q] = got[q]
    /\ \A i \in Intents \ {Intent(r)} :
           status'[i] = status[i] /\ amount'[i] = amount[i] /\ fee'[i] = fee[i]
    /\ settlements \subseteq settlements'
    /\ \A x \in settlements' \ settlements : x[1] = r
    /\ frozen' = frozen

LEMMA StepIsLocal ==
    ASSUME Typed, NEW r \in Requests, Arrive(r) \/ Continue(r)
    PROVE  Local(r)
  <1> USE DEF Local, Go, Disturb, rows, funds, locals, environment
  <1>0. Intent(r) \in Intents /\ TypeOK
    BY JobTypes DEF Typed, TypeOK
  <1>1. CASE LookupIntent(r) \/ LookupCapture(r) \/ ReadRefund(r)
    BY <1>0, <1>1 DEF LookupIntent, LookupCapture, ReadRefund, TypeOK
  <1>2. CASE InsertIntent(r) \/ ChargeFee(r) \/ ReadIntent(r)
    BY <1>0, <1>2 DEF InsertIntent, ChargeFee, ReadIntent, TypeOK
  <1>3. CASE Reserve(r) \/ Withdraw(r) \/ Deposit(r)
    BY <1>0, <1>3 DEF Reserve, Withdraw, Deposit, TypeOK
  <1>4. CASE RecordSettlement(r) \/ Finish(r) \/ DebitBack(r)
    BY <1>0, <1>4 DEF RecordSettlement, Finish, DebitBack, TypeOK
  <1>5. CASE CreditBack(r) \/ Revert(r) \/ ReadVoid(r) \/ Void(r)
    BY <1>0, <1>5 DEF CreditBack, Revert, ReadVoid, Void, TypeOK
  <1>6. CASE TakeBack(r) \/ GiveBack(r) \/ CreditFee(r)
    BY <1>0, <1>6 DEF TakeBack, GiveBack, CreditFee, TypeOK
  <1> QED
    BY <1>1, <1>2, <1>3, <1>4, <1>5, <1>6 DEF Arrive, Continue

\* Where a capture or a part of an undisturbed intent stands tells what it
\* has taken, given and recorded.
Clean(r) == Intent(r) \notin raced
Zero(r) == gave[r] = 0 /\ got[r] = 0 /\ NoRow(r)
Moved(r) == gave[r] = part[r] /\ got[r] = part[r] /\ HasRow(r)
Flying == {"deposit", "record", "finish", "debitBack", "creditBack"}
Trail(r) ==
    /\ \A x \in settlements : x[1] = r => x[2] = part[r]
    /\ pc[r] \in {"deposit", "creditBack"} =>
           gave[r] = part[r] /\ got[r] = 0 /\ NoRow(r)
    /\ pc[r] \in {"record", "debitBack"} =>
           gave[r] = part[r] /\ got[r] = part[r] /\ NoRow(r)
    /\ pc[r] = "finish" => Moved(r)
    /\ pc[r] = "done" => Moved(r) \/ Zero(r)
    /\ pc[r] \notin Flying \cup {"done"} => Zero(r)
Trails == \A r \in Requests : Clean(r) /\ Op(r) # "refund" => Trail(r)
Kinds ==
    /\ \A r \in Requests : /\ pc[r] = "creditFee" => Op(r) = "refund"
                           /\ pc[r] = "charge" => Op(r) = "create"
    /\ IsFiniteSet(settlements) /\ \A x \in settlements : Op(x[1]) # "refund"

LEMMA KindsStep ==
    ASSUME LifeInv, Kinds, NEW r \in Requests, Arrive(r) \/ Continue(r)
    PROVE  Kinds'
  <1>0. Local(r) /\ Typed /\ Placed /\ Unborn
    BY StepIsLocal DEF LifeInv, LockInv
  <1>1. \A q : Op(q)' = Op(q)
    BY <1>0 DEF Local, Op
  <1>2. (pc'[r] = "creditFee" => Op(r) = "refund") /\ (pc'[r] = "charge" => Op(r) = "create")
    <2>1. CASE Arrive(r)
      BY <1>0, <2>1 DEF Arrive, LookupIntent, LookupCapture, ReadRefund, Go, Typed, TypeOK
    <2>2. CASE InsertIntent(r) \/ ChargeFee(r) \/ ReadIntent(r) \/ Reserve(r)
      BY <1>0, <2>2 DEF InsertIntent, ChargeFee, ReadIntent, Reserve, Go, Typed, TypeOK,
                        Placed, Unborn
    <2>3. CASE Withdraw(r) \/ Deposit(r) \/ RecordSettlement(r) \/ Finish(r)
      BY <1>0, <2>3 DEF Withdraw, Deposit, RecordSettlement, Finish, Go, Typed, TypeOK
    <2>4. CASE DebitBack(r) \/ CreditBack(r) \/ Revert(r)
      BY <1>0, <2>4 DEF DebitBack, CreditBack, Revert, Go, Typed, TypeOK
    <2>5. CASE ReadVoid(r) \/ Void(r) \/ TakeBack(r) \/ GiveBack(r) \/ CreditFee(r)
      BY <1>0, <2>5 DEF ReadVoid, Void, TakeBack, GiveBack, CreditFee, Go, Typed, TypeOK,
                        Placed
    <2> QED
      BY <2>1, <2>2, <2>3, <2>4, <2>5 DEF Continue
  <1>3. CASE settlements' = settlements
    BY <1>0, <1>1, <1>2, <1>3 DEF Kinds, Local
  <1>4. CASE settlements' # settlements
    <2>1. RecordSettlement(r)
      BY <1>4 DEF Arrive, Continue, LookupIntent, LookupCapture, ReadRefund, InsertIntent,
             ChargeFee, ReadIntent, Reserve, Withdraw, Deposit,
             Finish, DebitBack, CreditBack, Revert, ReadVoid, Void, TakeBack, GiveBack,
             CreditFee, rows
    <2>2. settlements' = settlements \cup {<<r, part[r]>>} /\ Op(r) # "refund"
      BY <1>0, <1>4, <2>1 DEF RecordSettlement, Placed
    <2>3. IsFiniteSet(settlements')
      BY <2>2, FS_AddElement DEF Kinds
    <2> QED
      BY <1>0, <1>1, <1>2, <2>2, <2>3 DEF Kinds, Local
  <1> QED
    BY <1>3, <1>4

LEMMA TrailOthers ==
    ASSUME NEW r, NEW s, r # s, Trail(r), Op(r)' = Op(r),
           pc'[r] = pc[r], part'[r] = part[r], gave'[r] = gave[r], got'[r] = got[r],
           settlements \subseteq settlements',
           \A x \in settlements' \ settlements : x[1] = s
    PROVE  Trail(r)'
  BY DEF Trail, HasRow, NoRow, Zero, Moved

LEMMA TrailOwn ==
    ASSUME LifeInv, Kinds, NEW r \in Requests, Trail(r), Op(r) # "refund",
           Arrive(r) \/ Continue(r), Clean(r)'
    PROVE  Trail(r)'
  <1> USE DEF Go, Disturb, rows, funds, locals, environment
  <1>0. /\ pc = [q \in Requests |-> pc[q]] /\ part = [q \in Requests |-> part[q]]
        /\ gave \in [Requests -> Int] /\ got \in [Requests -> Int]
        /\ part \in [Requests -> Int] /\ settlements \subseteq Requests \X Nat
        /\ Placed /\ Unborn /\ Kinds /\ Intent(r)' = Intent(r)
    BY StepIsLocal DEF LifeInv, LockInv, Typed, TypeOK, Local, Intent
  <1>1. CASE LookupIntent(r)
    BY <1>0, <1>1 DEF LookupIntent, Trail, Zero, Moved, NoRow, HasRow, Flying
  <1>2. CASE LookupCapture(r)
    BY <1>0, <1>2 DEF LookupCapture, Trail, Zero, Moved, NoRow, HasRow, Flying
  <1>3. CASE ReadRefund(r)
    BY <1>3 DEF ReadRefund
  <1>4. CASE InsertIntent(r)
    BY <1>0, <1>4 DEF InsertIntent, Trail, Zero, Moved, NoRow, HasRow, Flying
  <1>5. CASE ChargeFee(r)
    BY <1>0, <1>5 DEF ChargeFee, Trail, Zero, Moved, NoRow, HasRow, Flying
  <1>6. CASE ReadIntent(r)
    BY <1>0, <1>6 DEF ReadIntent, Trail, Zero, Moved, NoRow, HasRow, Flying
  <1>7. CASE Reserve(r)
    BY <1>0, <1>7 DEF Reserve, Trail, Zero, Moved, NoRow, HasRow, Flying
  <1>8. CASE Withdraw(r)
    BY <1>0, <1>8 DEF Withdraw, Trail, Zero, Moved, NoRow, HasRow, Flying
  <1>9. CASE Deposit(r)
    <2>1. pc[r] = "deposit" /\ Op(r) \in {"capture", "partial"}
      BY <1>0, <1>9 DEF Deposit, Placed
    <2>2. UNCHANGED <<settlements, gave, part>>
      BY <1>9 DEF Deposit
    <2>3. \/ pc' = [pc EXCEPT ![r] = "record"] /\ got' = [got EXCEPT ![r] = @ + part[r]]
          \/ pc' = [pc EXCEPT ![r] = "creditBack"] /\ got' = got
      BY <2>1, <1>0, <1>9 DEF Deposit, Clean
    <2> QED
      BY <1>0, <2>1, <2>2, <2>3 DEF Trail, Zero, Moved, NoRow, HasRow, Flying
  <1>10. CASE RecordSettlement(r)
    <2>1. pc[r] = "record" /\ Op(r) \in {"capture", "partial"}
      BY <1>0, <1>10 DEF RecordSettlement, Placed
    <2>2. UNCHANGED <<gave, got, part>>
      BY <1>10 DEF RecordSettlement
    <2>3. \/ pc' = [pc EXCEPT ![r] = "debitBack"] /\ settlements' = settlements
          \/ pc' = [pc EXCEPT ![r] = "finish"] /\ settlements' = settlements \cup {<<r, part[r]>>}
      BY <2>1, <1>0, <1>10 DEF RecordSettlement, Clean
    <2> QED
      BY <1>0, <2>1, <2>2, <2>3 DEF Trail, Zero, Moved, NoRow, HasRow, Flying
  <1>11. CASE Finish(r)
    <2>1. /\ pc[r] = "finish" /\ pc' = [pc EXCEPT ![r] = "done"]
          /\ UNCHANGED <<settlements, gave, got, part>>
      BY <1>11 DEF Finish
    <2> QED
      BY <1>0, <2>1 DEF Trail, Zero, Moved, NoRow, HasRow, Flying
  <1>12. CASE DebitBack(r)
    <2>1. /\ pc[r] = "debitBack" /\ pc' = [pc EXCEPT ![r] = "creditBack"]
          /\ UNCHANGED <<settlements, gave, part>>
          /\ got' = [got EXCEPT ![r] = @ - part[r]]
      BY <1>0, <1>12 DEF DebitBack, Clean
    <2> QED
      BY <1>0, <2>1 DEF Trail, Zero, Moved, NoRow, HasRow, Flying
  <1>13. CASE CreditBack(r)
    BY <1>0, <1>13 DEF CreditBack, Trail, Zero, Moved, NoRow, HasRow, Flying
  <1>14. CASE Revert(r)
    BY <1>0, <1>14 DEF Revert, Trail, Zero, Moved, NoRow, HasRow, Flying
  <1>15. CASE ReadVoid(r) \/ Void(r) \/ TakeBack(r) \/ GiveBack(r)
    BY <1>0, <1>15 DEF ReadVoid, Void, TakeBack, GiveBack, Placed
  <1>16. CASE CreditFee(r)
    BY <1>0, <1>16 DEF CreditFee, Kinds
  <1> QED
    BY <1>1, <1>2, <1>3, <1>4, <1>5, <1>6, <1>7, <1>8, <1>9, <1>10, <1>11, <1>12,
       <1>13, <1>14, <1>15, <1>16 DEF Arrive, Continue

LEMMA TrailStep ==
    ASSUME LifeInv, Kinds, Trails, NEW r \in Requests, Arrive(r) \/ Continue(r)
    PROVE  Trails'
  <1>0. Local(r)
    BY StepIsLocal DEF LifeInv, LockInv
  <1> SUFFICES ASSUME NEW q \in Requests, Clean(q)', Op(q)' # "refund"
               PROVE  Trail(q)'
    BY DEF Trails
  <1>1. Clean(q) /\ Op(q)' = Op(q) /\ Trail(q)
    BY <1>0 DEF Local, Clean, Intent, Op, Trails
  <1>2. CASE q = r
    BY <1>1, <1>2, TrailOwn
  <1>3. CASE q # r
    BY <1>0, <1>1, <1>3, TrailOthers DEF Local
  <1> QED
    BY <1>2, <1>3

\* What a capture or a part at work has read is what the row still says, and
\* it moves no more than that; a refund returns what the row says.
Offer(r) ==
    /\ seen[r] = amount[Intent(r)] /\ part[r] <= seen[r]
    /\ Op(r) = "capture" => part[r] = seen[r]
Offers == \A r \in Requests :
    Clean(r) /\ Op(r) # "refund" /\ pc[r] \in Reserved \cup {"reserve"} => Offer(r)

\* How a step rewrites the row of its intent.
Rewrite(r) ==
    LET i == Intent(r) IN
    \/ pc[r] # "finish" /\ status'[i] = status[i] /\ amount'[i] = amount[i]
    \/ /\ pc[r] = "insert" /\ status[i] = "none"
       /\ status'[i] = "pending" /\ amount'[i] = Terms[i].amount
    \/ /\ pc[r] = "reserve" /\ Op(r) = "capture" /\ status[i] = "pending"
       /\ status'[i] = "captured" /\ amount'[i] = amount[i]
    \/ /\ pc[r] = "revert" /\ Op(r) = "capture" /\ status[i] = "captured"
       /\ status'[i] = "pending" /\ amount'[i] = amount[i]
    \/ /\ pc[r] = "finish" /\ status[i] \in {"captured", "pending"} /\ part[r] = amount[i]
       /\ status'[i] = "settled" /\ amount'[i] = amount[i]
    \/ /\ pc[r] = "finish" /\ Op(r) = "partial" /\ status[i] = "pending"
       /\ status'[i] = "pending" /\ amount'[i] = amount[i] - part[r] /\ part[r] < amount[i]
    \/ /\ pc[r] = "void" /\ status[i] = "pending"
       /\ status'[i] = "voided" /\ amount'[i] = amount[i]

LEMMA StepRewrites ==
    ASSUME LifeInv, Offers, NEW r \in Requests, Arrive(r) \/ Continue(r), Clean(r)
    PROVE  Rewrite(r)
  <1> DEFINE i == Intent(r)
  <1> USE DEF rows, funds, locals, environment
  <1>0. /\ i \in Intents /\ DOMAIN status = Intents /\ DOMAIN amount = Intents
        /\ seen[r] \in Nat /\ part[r] \in Nat /\ amount[i] \in Nat
        /\ Unborn /\ Placed /\ AsRead
    BY JobTypes DEF LifeInv, LockInv, Typed, TypeOK
  <1>1. CASE InsertIntent(r)
    BY <1>0, <1>1 DEF InsertIntent, Unborn, Rewrite
  <1>2. CASE Reserve(r)
    BY <1>0, <1>2 DEF Reserve, Unborn, Rewrite
  <1>3. CASE Revert(r)
    BY <1>0, <1>3 DEF Revert, Unborn, Rewrite
  <1>4. CASE Finish(r)
    <2>1. pc[r] = "finish" /\ Op(r) \in {"capture", "partial"}
      BY <1>0, <1>4 DEF Finish, Placed
    <2>2. Offer(r)
      BY <2>1 DEF Offers, Reserved
    <2>3. /\ Op(r) = "capture" => status[i] = "captured"
          /\ Op(r) = "partial" => status[i] = "pending"
      BY <1>0, <2>1 DEF AsRead, Clean, Reserved, Working, Running
    <2>4. CASE Op(r) = "capture" \/ seen[r] - part[r] <= 0
      <3>1. status' = [status EXCEPT ![i] = "settled"] /\ amount' = amount
        BY <1>4, <2>4 DEF Finish
      <3>2. part[r] = amount[i]
        BY <1>0, <2>2, <2>4 DEF Offer
      <3> QED
        BY <1>0, <2>1, <2>3, <3>1, <3>2 DEF Rewrite
    <2>5. CASE ~(Op(r) = "capture" \/ seen[r] - part[r] <= 0)
      <3>1. status' = status /\ amount' = [amount EXCEPT ![i] = seen[r] - part[r]]
        BY <1>4, <2>5 DEF Finish
      <3>2. part[r] < amount[i] /\ seen[r] = amount[i]
        BY <1>0, <2>2, <2>5 DEF Offer
      <3> QED
        BY <1>0, <2>1, <2>3, <2>5, <3>1, <3>2 DEF Rewrite
    <2> QED
      BY <2>4, <2>5
  <1>5. CASE Void(r)
    BY <1>0, <1>5 DEF Void, AsRead, Clean, Rewrite
  <1>6. CASE pc[r] # "finish" /\ UNCHANGED <<status, amount>>
    BY <1>6 DEF Rewrite
  <1> QED
    BY <1>1, <1>2, <1>3, <1>4, <1>5, <1>6
    DEF Arrive, Continue, LookupIntent, LookupCapture, ReadRefund, ChargeFee, ReadIntent,
        Withdraw, Deposit, RecordSettlement, DebitBack, CreditBack, ReadVoid, TakeBack,
        GiveBack, CreditFee

\* Only its own step rewrites the amount of an intent that a request has read.
LEMMA AmountStays ==
    ASSUME LifeInv, Offers, NEW r \in Requests, Arrive(r) \/ Continue(r),
           NEW q \in Requests \ {r}, Clean(q)', pc[q] \in Working
    PROVE  amount'[Intent(q)] = amount[Intent(q)]
  <1>0. /\ Local(r) /\ Unborn /\ Alone /\ Intent(q) \in Intents
    BY StepIsLocal, JobTypes DEF LifeInv, LockInv, Typed, TypeOK
  <1>1. Clean(q)
    BY <1>0 DEF Local, Clean, Intent
  <1>2. CASE Intent(q) # Intent(r)
    BY <1>0, <1>2 DEF Local
  <1>3. CASE Intent(q) = Intent(r)
    <2>1. Rewrite(r)
      BY <1>1, <1>3, StepRewrites DEF Clean
    <2>2. status[Intent(r)] # "none"
      BY <1>0, <1>3 DEF Unborn, Working
    <2>3. ~(pc[r] = "finish" /\ Op(r) = "partial")
      BY <1>0, <1>1, <1>3 DEF Alone, Clean, Working, Running
    <2> QED
      BY <1>3, <2>1, <2>2, <2>3 DEF Rewrite
  <1> QED
    BY <1>2, <1>3

LEMMA OfferStep ==
    ASSUME LifeInv, Kinds, Offers, NEW r \in Requests, Arrive(r) \/ Continue(r)
    PROVE  Offers'
  <1> USE DEF Go, rows, funds, locals, environment
  <1>0. /\ Local(r) /\ Placed /\ Unborn /\ pc = [q \in Requests |-> pc[q]]
        /\ seen \in [Requests -> Nat] /\ part \in [Requests -> Nat] /\ amount \in [Intents -> Nat]
        /\ Intent(r) \in Intents
    BY StepIsLocal, JobTypes DEF LifeInv, LockInv, Typed, TypeOK
  <1> SUFFICES ASSUME NEW q \in Requests, Clean(q)', Op(q)' # "refund",
                      pc'[q] \in Reserved \cup {"reserve"}
               PROVE  Offer(q)'
    BY DEF Offers, Reserved
  <1>1. /\ Clean(q) /\ Op(q)' = Op(q) /\ Intent(q)' = Intent(q)
        /\ Op(q)' = "capture" <=> Op(q) = "capture"
    BY <1>0 DEF Local, Clean, Intent, Op
  <1>2. CASE q # r
    <2>1. /\ pc[q] = pc'[q] /\ seen'[q] = seen[q] /\ part'[q] = part[q] /\ pc[q] \in Working
      BY <1>0, <1>2 DEF Local, Reserved, Working, Running
    <2>2. Offer(q) /\ amount'[Intent(q)] = amount[Intent(q)]
      BY <1>1, <1>2, <2>1, AmountStays DEF Offers
    <2> QED
      BY <1>1, <2>1, <2>2 DEF Offer
  <1>3. CASE q = r /\ ReadIntent(r)
    <2>1. pc[r] = "read" /\ pc' = [pc EXCEPT ![r] = pc'[r]] /\ amount' = amount
      BY <1>0, <1>3 DEF ReadIntent
    <2>2. /\ seen' = [seen EXCEPT ![r] = amount[Intent(r)]]
          /\ \E n \in {amount[Intent(r)], job[r].amount} :
                /\ part' = [part EXCEPT ![r] = n] /\ n <= amount[Intent(r)]
                /\ Op(r) = "capture" => n = amount[Intent(r)]
      BY <1>0, <1>3 DEF ReadIntent, Reserved
    <2> QED
      BY <1>0, <1>1, <1>3, <2>1, <2>2 DEF Offer
  <1>4. CASE q = r /\ ~ReadIntent(r)
    <2>1. /\ pc[r] \in Reserved \cup {"reserve"} /\ pc[r] # "finish"
          /\ UNCHANGED <<seen, part, amount>>
      BY <1>0, <1>1, <1>4, KindsStep
      DEF Arrive, Continue, LookupIntent, LookupCapture, ReadRefund, InsertIntent,
          ChargeFee, Reserve, Withdraw, Deposit, RecordSettlement,
          Finish, DebitBack, CreditBack, Revert, ReadVoid, Void, TakeBack, GiveBack,
          CreditFee, Reserved, Placed
    <2> QED
      BY <1>1, <1>4, <2>1 DEF Offer, Offers
  <1> QED
    BY <1>2, <1>3, <1>4

\* A refund has returned nothing until its transfers are over, and then what
\* the row of the settled intent says; a voided intent had nothing to return.
Repaid(r) ==
    /\ pc[r] \in {"readVoid", "void", "takeBack", "giveBack", "creditFee"} =>
           seen[r] = amount[Intent(r)] /\ part[r] = amount[Intent(r)]
    /\ pc[r] \in {"takeBack", "giveBack"} => status[Intent(r)] = "settled"
    /\ pc[r] \in {"creditFee", "done"} =>
           \/ status[Intent(r)] = "voided" /\ gave[r] = 0
           \/ status[Intent(r)] = "settled" /\ gave[r] = -amount[Intent(r)]
    /\ pc[r] \notin {"creditFee", "done", "504", "lost"} => gave[r] = 0
Repaids == \A r \in Requests : Clean(r) /\ Op(r) = "refund" => Repaid(r)

\* While a refund is at work, and after it, the row stays as it was read.
LEMMA RefundRowStays ==
    ASSUME LifeInv, Offers, NEW r \in Requests, Arrive(r) \/ Continue(r),
           NEW q \in Requests \ {r}, Clean(q)', Repaid(q), Op(q) = "refund",
           pc[q] \in {"readVoid", "void", "takeBack", "giveBack", "creditFee", "done"}
    PROVE  /\ status'[Intent(q)] = status[Intent(q)]
           /\ amount'[Intent(q)] = amount[Intent(q)]
  <1>0. Local(r) /\ Unborn /\ Alone /\ Intent(q) \in Intents
    BY StepIsLocal, JobTypes DEF LifeInv, LockInv, Typed, TypeOK
  <1>1. Clean(q)
    BY <1>0 DEF Local, Clean, Intent
  <1>2. CASE Intent(q) # Intent(r)
    BY <1>0, <1>2 DEF Local
  <1>3. CASE Intent(q) = Intent(r)
    <2>1. Rewrite(r)
      BY <1>1, <1>3, StepRewrites DEF Clean
    <2>2. CASE pc[q] \in {"readVoid", "void"}
      <3>1. status[Intent(r)] # "none" /\ pc[r] \notin Working
        BY <1>0, <1>1, <1>3, <2>2 DEF Unborn, Alone, Clean, Working, Running
      <3> QED
        BY <1>3, <2>1, <3>1 DEF Rewrite, Working, Running
    <2>3. CASE pc[q] \notin {"readVoid", "void"}
      <3>1. status[Intent(r)] \in {"voided", "settled"}
        BY <1>3, <2>3 DEF Repaid
      <3> QED
        BY <1>3, <2>1, <3>1 DEF Rewrite
    <2> QED
      BY <2>2, <2>3
  <1> QED
    BY <1>2, <1>3

LEMMA RepaidOwn ==
    ASSUME LifeInv, Kinds, NEW r \in Requests, Repaid(r), Op(r) = "refund",
           Arrive(r) \/ Continue(r), Clean(r)'
    PROVE  Repaid(r)'
  <1> USE DEF Go, Disturb, rows, funds, locals, environment
  <1>0. /\ pc = [q \in Requests |-> pc[q]] /\ part = [q \in Requests |-> part[q]]
        /\ seen = [q \in Requests |-> seen[q]]
        /\ gave \in [Requests -> Int] /\ part \in [Requests -> Nat]
        /\ amount \in [Intents -> Nat] /\ Intent(r) \in Intents /\ DOMAIN status = Intents
        /\ Placed /\ Unborn /\ Kinds /\ AsRead /\ Intent(r)' = Intent(r) /\ Clean(r)
    BY StepIsLocal, JobTypes DEF LifeInv, LockInv, Typed, TypeOK, Local, Intent, Clean
  <1>1. CASE ReadRefund(r)
    BY <1>0, <1>1 DEF ReadRefund, Repaid
  <1>2. CASE ReadVoid(r)
    BY <1>0, <1>2 DEF ReadVoid, Repaid, AsRead, Clean
  <1>3. CASE Void(r)
    BY <1>0, <1>3 DEF Void, Repaid
  <1>4. CASE TakeBack(r)
    BY <1>0, <1>4 DEF TakeBack, Repaid
  <1>5. CASE GiveBack(r)
    <2>1. /\ pc[r] = "giveBack" /\ pc' = [pc EXCEPT ![r] = "creditFee"]
          /\ gave' = [gave EXCEPT ![r] = @ - part[r]]
          /\ UNCHANGED <<status, amount, seen, part>>
      BY <1>0, <1>5 DEF GiveBack, Clean
    <2> QED
      BY <1>0, <2>1 DEF Repaid
  <1>6. CASE CreditFee(r)
    BY <1>0, <1>6 DEF CreditFee, Repaid
  <1>7. ~LookupIntent(r) /\ ~LookupCapture(r)
    BY DEF LookupIntent, LookupCapture
  <1>8. /\ pc[r] \notin {"insert", "charge", "read", "withdraw", "deposit", "record", "finish"}
        /\ pc[r] \notin {"reserve", "debitBack", "creditBack", "revert"}
    BY <1>0 DEF Placed, Unborn, Kinds
  <1> QED
    BY <1>1, <1>2, <1>3, <1>4, <1>5, <1>6, <1>7, <1>8
    DEF Arrive, Continue, InsertIntent, ChargeFee, ReadIntent, Reserve, Withdraw,
        Deposit, RecordSettlement, Finish, DebitBack, CreditBack, Revert

LEMMA RepaidStep ==
    ASSUME LifeInv, Kinds, Offers, Repaids, NEW r \in Requests, Arrive(r) \/ Continue(r)
    PROVE  Repaids'
  <1>0. Local(r)
    BY StepIsLocal DEF LifeInv, LockInv
  <1> SUFFICES ASSUME NEW q \in Requests, Clean(q)', Op(q)' = "refund"
               PROVE  Repaid(q)'
    BY DEF Repaids
  <1>1. Clean(q) /\ Op(q) = "refund" /\ Repaid(q) /\ Intent(q)' = Intent(q)
    BY <1>0 DEF Local, Clean, Intent, Op, Repaids
  <1>2. CASE q = r
    BY <1>1, <1>2, RepaidOwn
  <1>3. CASE q # r
    <2>1. /\ pc'[q] = pc[q] /\ seen'[q] = seen[q] /\ part'[q] = part[q] /\ gave'[q] = gave[q]
      BY <1>0, <1>3 DEF Local
    <2>2. CASE pc[q] \in {"readVoid", "void", "takeBack", "giveBack", "creditFee", "done"}
      <3>1. /\ status'[Intent(q)] = status[Intent(q)]
            /\ amount'[Intent(q)] = amount[Intent(q)]
        BY <1>1, <1>3, <2>2, RefundRowStays
      <3> QED
        BY <1>1, <2>1, <3>1 DEF Repaid
    <2>3. CASE pc[q] \notin {"readVoid", "void", "takeBack", "giveBack", "creditFee", "done"}
      BY <1>1, <2>1, <2>3 DEF Repaid
    <2> QED
      BY <2>2, <2>3
  <1> QED
    BY <1>2, <1>3

\* A voided intent has a refund that voided it.
RefundsOf(i) == {r \in Requests : Op(r) = "refund" /\ Intent(r) = i}
Voided == \A i \in Intents \ raced : status[i] = "voided" =>
    \E r \in RefundsOf(i) : pc[r] \in {"creditFee", "done", "504", "lost"}

\* An answered request takes no step, and a refund ends with its fee.
LEMMA StepFrom ==
    ASSUME Typed, NEW r \in Requests, Arrive(r) \/ Continue(r)
    PROVE  /\ pc[r] \notin Terminal
           /\ pc[r] = "creditFee" => pc'[r] = "done"
           /\ pc[r] = "void" => pc'[r] = "creditFee"
           /\ pc'[r] \notin {"504", "lost"}
  <1>0. DOMAIN pc = Requests
    BY DEF Typed, TypeOK
  <1> QED
    BY <1>0 DEF Arrive, Continue, LookupIntent, LookupCapture, ReadRefund, InsertIntent,
             ChargeFee, ReadIntent, Reserve, Withdraw, Deposit, RecordSettlement,
             Finish, DebitBack, CreditBack, Revert, ReadVoid, Void, TakeBack, GiveBack,
             CreditFee, Go, Terminal

LEMMA VoidedStep ==
    ASSUME LifeInv, Offers, Voided, NEW r \in Requests, Arrive(r) \/ Continue(r)
    PROVE  Voided'
  <1>0. Local(r) /\ Placed /\ Typed /\ Intent(r) \in Intents
    BY StepIsLocal, JobTypes DEF LifeInv, LockInv, Typed, TypeOK
  <1> SUFFICES ASSUME NEW i \in Intents \ raced', status'[i] = "voided"
               PROVE  \E q \in RefundsOf(i)' : pc'[q] \in {"creditFee", "done", "504", "lost"}
    BY DEF Voided
  <1>1. RefundsOf(i)' = RefundsOf(i) /\ i \notin raced
    BY <1>0 DEF Local, RefundsOf, Op, Intent
  <1>2. CASE status[i] = "voided"
    <2>1. PICK q \in RefundsOf(i) : pc[q] \in {"creditFee", "done", "504", "lost"}
      BY <1>1, <1>2 DEF Voided
    <2>2. q \in Requests
      BY DEF RefundsOf
    <2>3. pc'[q] \in {"creditFee", "done", "504", "lost"}
      BY <1>0, <2>1, <2>2, StepFrom DEF Local, Terminal
    <2> QED
      BY <1>1, <2>3
  <1>3. CASE status[i] # "voided"
    <2>1. i = Intent(r)
      BY <1>0, <1>3 DEF Local
    <2>2. pc[r] = "void"
      BY <1>1, <1>3, <2>1, StepRewrites DEF Rewrite, Clean
    <2>3. r \in RefundsOf(i) /\ pc'[r] = "creditFee"
      BY <1>0, <2>1, <2>2, StepFrom DEF Placed, RefundsOf
    <2> QED
      BY <1>1, <2>3
  <1> QED
    BY <1>2, <1>3

\* The row says the whole amount until a part of it is settled.
Untouched == \A i \in Intents \ raced : status[i] # "none" =>
    /\ amount[i] <= Terms[i].amount
    /\ amount[i] = Terms[i].amount \/ \E x \in Rows(i) : x[2] < Terms[i].amount

LEMMA UntouchedStep ==
    ASSUME LifeInv, Offers, Trails, Untouched, NEW r \in Requests, Arrive(r) \/ Continue(r)
    PROVE  Untouched'
  <1>0. /\ Local(r) /\ Unborn /\ Intent(r) \in Intents /\ amount \in [Intents -> Nat]
        /\ \A i \in Intents : Terms[i].amount \in Int
        /\ seen[r] \in Nat /\ part[r] \in Nat
    BY StepIsLocal, JobTypes, IntentConstants DEF LifeInv, LockInv, Typed, TypeOK
  <1> SUFFICES ASSUME NEW i \in Intents \ raced', status'[i] # "none"
               PROVE  /\ amount'[i] <= Terms[i].amount
                      /\ \/ amount'[i] = Terms[i].amount
                         \/ \E x \in Rows(i)' : x[2] < Terms[i].amount
    BY DEF Untouched
  <1>1. i \notin raced /\ Rows(i) \subseteq Rows(i)'
    BY <1>0 DEF Local, Rows, Intent
  <1>2. CASE amount'[i] = amount[i] /\ status[i] # "none"
    BY <1>1, <1>2 DEF Untouched
  <1>3. CASE ~(amount'[i] = amount[i] /\ status[i] # "none")
    <2>1. i = Intent(r)
      BY <1>0, <1>3 DEF Local
    <2>2. Rewrite(r)
      BY <1>1, <2>1, StepRewrites DEF Clean
    <2>3. CASE pc[r] = "insert"
      BY <1>0, <1>3, <2>1, <2>2, <2>3 DEF Rewrite
    <2>4. CASE pc[r] # "insert"
      <3>1. /\ pc[r] = "finish" /\ Op(r) = "partial" /\ status[i] = "pending"
            /\ amount'[i] = amount[i] - part[r] /\ part[r] < amount[i]
        BY <1>3, <2>1, <2>2, <2>4 DEF Rewrite
      <3>2. amount[i] <= Terms[i].amount
        BY <1>1, <3>1 DEF Untouched
      <3>3. HasRow(r)
        BY <1>1, <2>1, <3>1 DEF Trails, Trail, Moved, Clean
      <3>4. <<r, part[r]>> \in Rows(i)'
        BY <1>0, <1>1, <2>1, <3>3 DEF HasRow, Rows
      <3> QED
        BY <1>0, <3>1, <3>2, <3>4
    <2> QED
      BY <2>3, <2>4
  <1> QED
    BY <1>2, <1>3

-----------------------------------------------------------------------------
\* The tally.  What was taken for an undisturbed intent is what the row does
\* not offer any more, but for the one transfer that may be under way.

InFlight(i) == {r \in Requests : Intent(r) = i /\ pc[r] \in Flying}
Taken(i) == Sum(gave, Moving(i))
Gone(i) == IF status[i] = "settled" THEN Terms[i].amount ELSE Terms[i].amount - amount[i]
Tally(i) ==
    /\ status[i] = "none" => Taken(i) = 0
    /\ status[i] # "none" =>
           /\ InFlight(i) = {} => Taken(i) = Gone(i)
           /\ \A r \in InFlight(i) : Taken(i) = Gone(i) + part[r]
Tallies == \A i \in Intents \ raced : Tally(i)

\* At most one transfer of an undisturbed intent is under way.
LEMMA OneFlight ==
    ASSUME LifeInv, NEW r \in Requests, Clean(r), pc[r] \in Flying \cup {"withdraw"},
           NEW s \in InFlight(Intent(r))
    PROVE  s = r
  <1> SUFFICES ASSUME s # r PROVE FALSE
    OBVIOUS
  <1>1. s \in Requests /\ Intent(s) = Intent(r) /\ pc[s] \in Flying /\ Intent(r) \in Intents
    BY JobTypes DEF InFlight, LifeInv, LockInv, Typed, TypeOK
  <1>2. Op(r) = "capture" /\ Op(s) = "capture"
    BY <1>1 DEF LifeInv, Alone, Clean, Flying, Working, Running
  <1>3. r \in Holding(Intent(r)) /\ s \in Holding(Intent(r))
    BY <1>1, <1>2 DEF Holding, Reserving, Flying, Reserved
  <1> QED
    BY <1>1, <1>3 DEF LifeInv, LockInv, CaptureExclusive

\* The sum follows the only summand that a step changes.
LEMMA TakenFollows ==
    ASSUME Typed, Typed', NEW r \in Requests, Local(r), NEW i \in Intents
    PROVE  /\ Moving(i)' = Moving(i) /\ Taken(i) \in Int
           /\ r \in Moving(i) => Taken(i)' = Taken(i) + gave'[r] - gave[r]
           /\ r \notin Moving(i) => Taken(i)' = Taken(i)
           /\ gave'[r] = gave[r] => Taken(i)' = Taken(i)
  <1> DEFINE M == Moving(i)
             f == gave
             g == gave'
  <1>1. Moving(i)' = M
    BY DEF Local, Moving, Intent, Op
  <1>2. IsFiniteSet(M) /\ \A x \in M : f[x] \in Int /\ g[x] \in Int
    BY IntentTables, FS_Subset DEF Moving, Typed, TypeOK
  <1>3. \A x \in M \ {r} : g[x] = f[x]
    BY DEF Local, Moving
  <1>4. Taken(i) = Sum(f, M) /\ Taken(i)' = Sum(g, M)
    BY <1>1 DEF Taken
  <1> HIDE DEF M, f, g
  <1>5. Sum(f, M) \in Int
    BY <1>2, SumType
  <1>6. r \in M => Sum(g, M) = Sum(f, M) + g[r] - f[r]
    BY <1>2, <1>3, SumUpdate
  <1>7. ASSUME \A x \in M : g[x] = f[x] PROVE Sum(g, M) = Sum(f, M)
    BY <1>2, <1>7, SumSame
  <1>8. r \notin M => Sum(g, M) = Sum(f, M)
    BY <1>3, <1>7
  <1>9. g[r] = f[r] => Sum(g, M) = Sum(f, M)
    BY <1>3, <1>7
  <1> QED
    BY <1>1, <1>4, <1>5, <1>6, <1>8, <1>9 DEF M, f, g

\* A step that takes nothing for good: same sum, same rest, same flight.
LEMMA TallyKept ==
    ASSUME NEW i, Tally(i), Taken(i)' = Taken(i), Gone(i)' = Gone(i),
           InFlight(i)' = InFlight(i), \A q \in InFlight(i) : part'[q] = part[q],
           status'[i] = "none" <=> status[i] = "none"
    PROVE  Tally(i)'
  BY DEF Tally

LEMMA FlightFollows ==
    ASSUME NEW r \in Requests, Local(r), NEW i,
           pc'[r] \in Flying <=> pc[r] \in Flying
    PROVE  InFlight(i)' = InFlight(i)
  <1>1. \A q \in Requests : pc'[q] \in Flying <=> pc[q] \in Flying
    BY DEF Local
  <1>2. \A q \in Requests : Intent(q)' = Intent(q)
    BY DEF Local, Intent
  <1> QED
    BY <1>1, <1>2 DEF InFlight

LEMMA TallyStep ==
    ASSUME LifeInv, LifeInv', Kinds, Offers, Trails, Tallies,
           NEW r \in Requests, Arrive(r) \/ Continue(r)
    PROVE  Tallies'
  <1> SUFFICES ASSUME NEW i \in Intents \ raced' PROVE Tally(i)'
    BY DEF Tallies
  <1>0. /\ Local(r) /\ Typed /\ Typed' /\ Unborn /\ Placed /\ Kinds
        /\ Intent(r) \in Intents /\ amount[i] \in Nat /\ Terms[i].amount \in Int
        /\ pc = [q \in Requests |-> pc[q]]
        /\ seen[r] \in Nat /\ part[r] \in Nat /\ gave[r] \in Int /\ gave \in [Requests -> Int]
    BY StepIsLocal, JobTypes, IntentConstants DEF LifeInv, LockInv, Typed, TypeOK
  <1>1. i \notin raced /\ Tally(i)
    BY <1>0 DEF Local, Tallies
  <1>2. CASE i # Intent(r)
    <2>1. r \notin Moving(i) /\ r \notin InFlight(i)
      BY <1>2 DEF Moving, InFlight
    <2>2. Taken(i)' = Taken(i)
      BY <1>0, <2>1, TakenFollows
    <2>3. status'[i] = status[i] /\ amount'[i] = amount[i]
      BY <1>0, <1>2 DEF Local
    <2>4. InFlight(i)' = InFlight(i)
      BY <1>0, <1>2 DEF InFlight, Local, Intent
    <2>5. \A q \in InFlight(i) : part'[q] = part[q]
      BY <1>0, <2>1 DEF InFlight, Local
    <2> QED
      BY <1>1, <2>2, <2>3, <2>4, <2>5, TallyKept DEF Gone
  <1> SUFFICES ASSUME i = Intent(r) PROVE Tally(i)'
    BY <1>2
  <1>3. Rewrite(r) /\ Clean(r)
    BY <1>1, StepRewrites DEF Clean
  <1>4. CASE pc[r] \in Flying /\ pc'[r] \in Flying
    <2>1. gave'[r] = gave[r] /\ part'[r] = part[r] /\ pc[r] # "finish"
      BY <1>0, <1>4 DEF Flying, Arrive, Continue, LookupIntent, LookupCapture, ReadRefund,
         InsertIntent, ChargeFee, ReadIntent, Reserve, Withdraw, Deposit, RecordSettlement,
         Finish, DebitBack, CreditBack, Revert, ReadVoid, Void, TakeBack, GiveBack,
         CreditFee, Go, funds, locals
    <2>2. Taken(i)' = Taken(i) /\ InFlight(i)' = InFlight(i)
      BY <1>0, <1>4, <2>1, TakenFollows, FlightFollows
    <2>3. status'[i] = status[i] /\ amount'[i] = amount[i]
      BY <1>3, <1>4, <2>1 DEF Rewrite, Flying
    <2>4. \A q \in InFlight(i) : part'[q] = part[q]
      BY <1>0, <2>1 DEF InFlight, Local
    <2> QED
      BY <1>1, <2>2, <2>3, <2>4, TallyKept DEF Gone
  <1>5. CASE pc[r] \notin Flying /\ pc'[r] \in Flying
    <2>1. Withdraw(r) /\ pc[r] = "withdraw"
      BY <1>0, <1>5 DEF Flying, Arrive, Continue, LookupIntent, LookupCapture, ReadRefund,
         InsertIntent, ChargeFee, ReadIntent, Reserve, Withdraw, Deposit, RecordSettlement,
         Finish, DebitBack, CreditBack, Revert, ReadVoid, Void, TakeBack, GiveBack,
         CreditFee, Go
    <2>2. gave' = [gave EXCEPT ![r] = @ + part[r]] /\ part' = part
      BY <1>0, <1>5, <2>1 DEF Withdraw, Go, Flying, locals
    <2>3. r \in Moving(i)
      BY <1>0, <2>1 DEF Placed, Moving
    <2>4. Taken(i)' = Taken(i) + part[r]
      BY <1>0, <2>2, <2>3, TakenFollows
    <2>5. r \notin InFlight(i) /\ InFlight(i) = {}
      BY <1>3, <2>1, OneFlight DEF InFlight, Flying
    <2>6. \A q \in InFlight(i)' : q = r
      BY <1>0, <2>5 DEF InFlight, Local, Intent
    <2>7. status'[i] = status[i] /\ amount'[i] = amount[i] /\ status[i] # "none"
      BY <1>0, <1>3, <2>1 DEF Rewrite, Unborn, Running
    <2>8. r \in InFlight(i)'
      BY <1>0, <1>5 DEF InFlight, Local, Intent
    <2> QED
      BY <1>1, <2>2, <2>4, <2>5, <2>6, <2>7, <2>8 DEF Tally, Gone
  <1>6. CASE pc[r] \in Flying /\ pc'[r] \notin Flying
    <2>1. r \in InFlight(i) /\ \A q \in InFlight(i) : q = r
      BY <1>3, <1>6, OneFlight DEF InFlight
    <2>2. InFlight(i)' = {}
      BY <1>0, <1>6, <2>1 DEF InFlight, Local, Intent
    <2>3. status[i] # "none" /\ Taken(i) = Gone(i) + part[r] /\ Taken(i) \in Int
      BY <1>0, <1>1, <1>6, <2>1, TakenFollows DEF Tally, Unborn, Flying, Running
    <2>4. (Finish(r) /\ pc[r] = "finish") \/ (CreditBack(r) /\ pc[r] = "creditBack")
      <3>1. CASE \/ Arrive(r) \/ InsertIntent(r) \/ ChargeFee(r) \/ ReadIntent(r)
                 \/ Reserve(r) \/ Withdraw(r) \/ Revert(r) \/ ReadVoid(r) \/ Void(r)
                 \/ TakeBack(r) \/ GiveBack(r) \/ CreditFee(r)
        BY <1>6, <3>1 DEF Flying, Arrive, LookupIntent, LookupCapture, ReadRefund,
           InsertIntent, ChargeFee, ReadIntent, Reserve, Withdraw, Revert, ReadVoid, Void,
           TakeBack, GiveBack, CreditFee
      <3>2. CASE Deposit(r)
        BY <1>0, <1>6, <3>2 DEF Flying, Deposit, Go, Disturb, Clean, Placed, Local, Intent
      <3>3. CASE RecordSettlement(r)
        BY <1>0, <1>6, <3>3 DEF Flying, RecordSettlement, Go, Disturb, Clean, Placed, Local,
                                Intent
      <3>4. CASE DebitBack(r)
        BY <1>0, <1>6, <3>4 DEF Flying, DebitBack, Go
      <3>5. CASE Finish(r) \/ CreditBack(r)
        BY <3>5 DEF Finish, CreditBack
      <3> QED
        BY <1>0, <3>1, <3>2, <3>3, <3>4, <3>5 DEF Continue
    <2>5. CASE Finish(r) /\ pc[r] = "finish"
      <3>1. gave' = gave /\ Taken(i)' = Taken(i)
        BY <1>0, <2>5, TakenFollows DEF Finish, funds
      <3>2. \/ status[i] \in {"captured", "pending"} /\ part[r] = amount[i]
               /\ status'[i] = "settled"
            \/ status[i] = "pending" /\ status'[i] = "pending"
               /\ amount'[i] = amount[i] - part[r]
        BY <1>3, <2>5 DEF Rewrite
      <3> QED
        BY <1>0, <2>2, <2>3, <3>1, <3>2 DEF Tally, Gone
    <2>6. CASE CreditBack(r) /\ pc[r] = "creditBack"
      <3>1. r \in Moving(i) /\ gave'[r] = gave[r] - part[r]
        BY <1>0, <2>6 DEF CreditBack, Moving, Unborn
      <3>2. Taken(i)' = Taken(i) - part[r]
        BY <1>0, <2>3, <3>1, TakenFollows
      <3>3. status'[i] = status[i] /\ amount'[i] = amount[i]
        BY <1>3, <2>6 DEF Rewrite
      <3>4. Gone(i)' = Gone(i) /\ Gone(i) \in Int
        BY <1>0, <3>3 DEF Gone
      <3> QED
        BY <1>0, <2>2, <2>3, <3>2, <3>3, <3>4 DEF Tally
    <2> QED
      BY <2>4, <2>5, <2>6
  <1>7. CASE pc[r] \notin Flying /\ pc'[r] \notin Flying
    <2>1. gave'[r] = gave[r] \/ r \notin Moving(i)
      <3>1. CASE Withdraw(r) \/ CreditBack(r) \/ GiveBack(r)
        BY <1>0, <1>7, <3>1 DEF Withdraw, CreditBack, GiveBack, Go, Flying, Placed, Moving
      <3>2. CASE UNCHANGED gave
        BY <3>2
      <3> QED
        BY <3>1, <3>2 DEF Arrive, Continue, LookupIntent, LookupCapture, ReadRefund,
           InsertIntent, ChargeFee, ReadIntent, Reserve, Deposit, RecordSettlement, Finish,
           DebitBack, Revert, ReadVoid, Void, TakeBack, CreditFee, funds
    <2>2. Taken(i)' = Taken(i) /\ InFlight(i)' = InFlight(i)
      BY <1>0, <1>7, <2>1, TakenFollows, FlightFollows
    <2>3. \A q \in InFlight(i) : part'[q] = part[q]
      BY <1>0, <1>7 DEF InFlight, Local
    <2>4. CASE pc[r] = "insert" /\ status[i] = "none" /\ status'[i] = "pending"
      <3>1. InFlight(i)' = {}
        BY <1>0, <2>2, <2>4 DEF InFlight, Unborn, Flying, Running
      <3>2. Taken(i)' = 0 /\ amount'[i] = Terms[i].amount
        BY <1>1, <1>3, <2>2, <2>4 DEF Tally, Rewrite
      <3> QED
        BY <1>0, <2>4, <3>1, <3>2 DEF Tally, Gone
    <2>5. CASE ~(pc[r] = "insert" /\ status[i] = "none" /\ status'[i] = "pending")
      <3>1. /\ amount'[i] = amount[i] /\ (status'[i] = "none" <=> status[i] = "none")
            /\ status'[i] = "settled" <=> status[i] = "settled"
        BY <1>3, <1>7, <2>5 DEF Rewrite, Flying
      <3> QED
        BY <1>1, <2>2, <2>3, <3>1, TallyKept DEF Gone
    <2> QED
      BY <2>4, <2>5
  <1> QED
    BY <1>4, <1>5, <1>6, <1>7

-----------------------------------------------------------------------------
\* The fee of create_intent.  It is kept until a refund ends; the first one
\* to end credits it, unless it was answered from an intent that another one,
\* still to credit the fee, has voided.

Ended(i) == {r \in RefundsOf(i) : pc[r] \in {"done", "504", "lost"}}
FeeTold(i) ==
    /\ Ended(i) = {} => fee[i] = FeeOf(Terms[i].amount)
    /\ \A r \in RefundsOf(i) : Ended(i) = {r} /\ pc[r] = "done" =>
           \/ /\ fee[i] = FeeOf(Terms[i].amount)
              /\ \E s \in RefundsOf(i) : pc[s] = "creditFee"
           \/ Terms[i].payer \in Freezable
           \/ fee[i] = FeeOf(Terms[i].amount) - FeeOf(amount[i])
Fees == \A i \in Pending0 \ raced : FeeTold(i)

\* A step that ends no refund of the intent.
LEMMA FeeKept ==
    ASSUME LifeInv, Kinds, Offers, Repaids, NEW i \in Pending0 \ raced', FeeTold(i),
           NEW r \in Requests, Arrive(r) \/ Continue(r),
           r \notin RefundsOf(i) \/ pc'[r] # "done"
    PROVE  FeeTold(i)'
  <1>0. /\ Local(r) /\ Typed /\ Placed /\ Kinds /\ i \in Intents /\ i \notin raced
        /\ RefundsOf(i)' = RefundsOf(i)
    BY StepIsLocal, IntentConstants DEF LifeInv, LockInv, Local, RefundsOf, Op, Intent
  <1>1. \A q \in RefundsOf(i) : /\ pc'[q] \in {"done", "504", "lost"} <=> pc[q] \in {"done", "504", "lost"}
                                /\ pc'[q] = "done" => pc[q] = "done"
                                /\ pc[q] = "creditFee" => pc'[q] = "creditFee"
    BY <1>0, StepFrom DEF Local, RefundsOf, Terminal
  <1>2. Ended(i)' = Ended(i)
    BY <1>0, <1>1 DEF Ended
  <1>3. fee'[i] = fee[i]
    <2>1. CASE i # Intent(r)
      BY <1>0, <2>1 DEF Local
    <2>2. CASE i = Intent(r)
      <3>1. ~CreditFee(r)
        BY <1>0, <2>2, StepFrom DEF CreditFee, Kinds, RefundsOf
      <3>2. ~ChargeFee(r)
        BY <1>0, <2>2, FreshJob DEF ChargeFee, Kinds, LifeInv, LockInv, Typed, TypeOK
      <3> QED
        BY <3>1, <3>2 DEF Arrive, Continue, LookupIntent, LookupCapture, ReadRefund,
           InsertIntent, ReadIntent, Reserve, Withdraw, Deposit, RecordSettlement, Finish,
           DebitBack, CreditBack, Revert, ReadVoid, Void, TakeBack, GiveBack, funds
    <2> QED
      BY <2>1, <2>2
  <1>4. ASSUME NEW q \in RefundsOf(i), pc[q] = "done" PROVE amount'[i] = amount[i]
    <2>1. q \in Requests \ {r} /\ Op(q) = "refund" /\ Intent(q) = i
      BY <1>0, <1>4, StepFrom DEF RefundsOf, Terminal
    <2>2. Clean(q)' /\ Clean(q)
      BY <1>0, <2>1 DEF Clean, Local, Intent
    <2>3. Repaid(q)
      BY <2>1, <2>2 DEF Repaids
    <2> QED
      BY <1>4, <2>1, <2>2, <2>3, RefundRowStays
  <1> QED
    BY <1>0, <1>1, <1>2, <1>3, <1>4 DEF FeeTold

\* A step that ends one.
LEMMA FeeEnds ==
    ASSUME LifeInv, Kinds, Repaids, Voided, frozen \subseteq Freezable,
           NEW i \in Pending0 \ raced', FeeTold(i),
           NEW r \in RefundsOf(i), Arrive(r) \/ Continue(r), pc'[r] = "done"
    PROVE  FeeTold(i)'
  <1>0. /\ r \in Requests /\ Op(r) = "refund" /\ Intent(r) = i
        /\ Local(r) /\ Typed /\ Placed /\ Unborn /\ Kinds /\ i \in Intents /\ i \notin raced
        /\ RefundsOf(i)' = RefundsOf(i) /\ Clean(r) /\ Repaid(r)
        /\ fee \in [Intents -> Int] /\ pc = [q \in Requests |-> pc[q]]
    BY StepIsLocal, IntentConstants
    DEF LifeInv, LockInv, Local, RefundsOf, Op, Intent, Clean, Repaids, Typed, TypeOK
  <1>1. r \notin Ended(i) /\ Ended(i)' = Ended(i) \cup {r}
    <2>1. r \notin Ended(i)
      BY <1>0, StepFrom DEF Ended, Terminal
    <2>2. \A q \in RefundsOf(i) \ {r} : pc'[q] = pc[q]
      BY <1>0 DEF Local, RefundsOf
    <2> QED
      BY <1>0, <2>1, <2>2 DEF Ended
  <1>2. CASE Ended(i) # {}
    BY <1>0, <1>1, <1>2 DEF FeeTold
  <1>3. CASE Ended(i) = {}
    <2>1. Ended(i)' = {r} /\ fee[i] = FeeOf(Terms[i].amount)
      BY <1>1, <1>3 DEF FeeTold
    <2>2. pc[r] \in {"new", "creditFee"}
      BY <1>0 DEF Placed, Unborn, Kinds, Arrive, Continue, LookupIntent, LookupCapture,
         ReadRefund, InsertIntent, ChargeFee, ReadIntent, Reserve, Withdraw, Deposit,
         RecordSettlement, Finish, DebitBack, CreditBack, Revert, ReadVoid, Void, TakeBack,
         GiveBack, CreditFee, Go, Running
    <2>3. CASE pc[r] = "new"
      <3>1. ReadRefund(r)
        BY <1>0, <2>3 DEF Arrive, Continue, LookupIntent, LookupCapture,
           ReadRefund, InsertIntent, ChargeFee, ReadIntent, Reserve, Withdraw, Deposit,
           RecordSettlement, Finish, DebitBack, CreditBack, Revert, ReadVoid, Void, TakeBack,
           GiveBack, CreditFee
      <3>2. status[i] = "voided" /\ fee' = fee
        BY <1>0, <3>1 DEF ReadRefund, Go, funds
      <3>3. PICK s \in RefundsOf(i) : pc[s] \in {"creditFee", "done", "504", "lost"}
        BY <1>0, <3>2 DEF Voided
      <3>4. s # r /\ pc'[s] = "creditFee"
        BY <1>0, <1>3, <2>3, <3>3 DEF Ended, Local, RefundsOf
      <3> QED
        BY <1>0, <2>1, <3>2, <3>4 DEF FeeTold
    <2>4. CASE pc[r] = "creditFee"
      <3>1. CreditFee(r)
        BY <1>0, <2>4 DEF Arrive, Continue, LookupIntent, LookupCapture,
           ReadRefund, InsertIntent, ChargeFee, ReadIntent, Reserve, Withdraw, Deposit,
           RecordSettlement, Finish, DebitBack, CreditBack, Revert, ReadVoid, Void, TakeBack,
           GiveBack, CreditFee
      <3>2. seen[r] = amount[i] /\ amount' = amount /\ FeeOf(seen[r]) \in Nat
        BY <1>0, <2>4, <3>1, FeeType DEF Repaid, CreditFee, rows, Typed, TypeOK
      <3>3. Payer(r) = Terms[i].payer /\ Terms[i].payer \in Wallets0
        BY <1>0, IntentConstants DEF Payer
      <3>4. CASE FeeOf(seen[r]) > 0 /\ CanReceive(Payer(r))
        <4>1. fee'[i] = fee[i] - FeeOf(amount[i])
          BY <1>0, <3>1, <3>2, <3>4 DEF CreditFee
        <4> QED
          BY <2>1, <3>2, <4>1 DEF FeeTold
      <3>5. CASE FeeOf(seen[r]) <= 0
        <4>1. fee' = fee /\ FeeOf(amount[i]) = 0
          BY <3>1, <3>2, <3>5 DEF CreditFee
        <4>2. fee'[i] = fee[i] - FeeOf(amount[i])
          BY <1>0, <4>1
        <4> QED
          BY <2>1, <3>2, <4>2 DEF FeeTold
      <3>6. CASE ~CanReceive(Payer(r))
        BY <2>1, <3>3, <3>6 DEF FeeTold, CanReceive
      <3> QED
        BY <3>2, <3>4, <3>5, <3>6
    <2> QED
      BY <2>2, <2>3, <2>4
  <1> QED
    BY <1>2, <1>3

LEMMA FeeStep ==
    ASSUME LifeInv, Kinds, Offers, Repaids, Voided, Fees, frozen \subseteq Freezable,
           NEW r \in Requests, Arrive(r) \/ Continue(r)
    PROVE  Fees'
  <1> SUFFICES ASSUME NEW i \in Pending0 \ raced' PROVE FeeTold(i)'
    BY DEF Fees
  <1>1. FeeTold(i)
    BY StepIsLocal DEF LifeInv, LockInv, Local, Fees
  <1> QED
    BY <1>1, FeeKept, FeeEnds

-----------------------------------------------------------------------------
\* The inductive invariant, over freezes, crashes and timeouts too.
FundsInv == /\ LifeInv /\ Kinds /\ Trails /\ Offers /\ Repaids /\ Voided
            /\ Untouched /\ Tallies /\ Fees /\ frozen \subseteq Freezable

LEMMA FundsInit == Init => FundsInv
  <1> SUFFICES ASSUME Init PROVE FundsInv
    OBVIOUS
  <1>1. LifeInv
    BY LockInit DEF Init, LifeInv, Placed, Alone, AsRead, Working, Running, Reserved
  <1>2. Trails /\ Offers /\ Repaids /\ Kinds
    BY FS_EmptySet DEF Init, Kinds, Trails, Trail, Zero, NoRow, Flying, Offers, Reserved,
           Repaids, Repaid
  <1>3. Voided /\ Untouched /\ frozen \subseteq Freezable
    BY IntentConstants DEF Init, Voided, Untouched
  <1>4. Tallies
    <2> SUFFICES ASSUME NEW i \in Intents PROVE Tally(i)
      BY DEF Tallies
    <2>1. IsFiniteSet(Moving(i)) /\ \A r \in Moving(i) : gave[r] = 0
      BY IntentTables, FS_Subset DEF Moving, Init
    <2>2. Taken(i) = 0
      BY <2>1, SumZero DEF Taken
    <2>3. InFlight(i) = {}
      BY DEF InFlight, Init, Flying
    <2>4. i \in Pending0 => Gone(i) = 0
      BY IntentConstants DEF Init, Gone
    <2>5. i \notin Pending0 => status[i] = "none"
      BY DEF Init
    <2> QED
      BY <2>2, <2>3, <2>4, <2>5 DEF Tally
  <1>5. Fees
    BY IntentConstants DEF Init, Fees, FeeTold, Ended, RefundsOf
  <1> QED
    BY <1>1, <1>2, <1>3, <1>4, <1>5 DEF FundsInv

\* A crash, or a timeout, leaves the funds of an undisturbed intent settled: it
\* ended none of its transfers.
LEMMA FundsCut ==
    ASSUME FundsInv, LifeInv', Fault PROVE FundsInv'
  <1> USE DEF FundsInv
  <1>0. /\ UNCHANGED <<job, frozen, rows, funds, locals, short>> /\ raced \subseteq raced'
        /\ \A r \in Requests :
               pc'[r] = pc[r] \/ (pc[r] \in Running /\ pc'[r] \in {"504", "lost"})
        /\ \A r \in Requests : Clean(r)' =>
              Clean(r) /\ (pc'[r] = pc[r] \/ pc[r] \notin Flying \cup {"giveBack"})
    BY FaultsCut DEF LifeInv, LockInv, Cuts, Clean, Intent, Flying, Midway
  <1> USE DEF rows, funds, locals
  <1>1. \A r \in Requests : Op(r)' = Op(r) /\ Intent(r)' = Intent(r)
    BY <1>0 DEF Op, Intent
  <1>2. Kinds' /\ frozen' \subseteq Freezable
    <2>1. \A x : Op(x)' = Op(x)
      BY <1>0 DEF Op
    <2>2. settlements' = settlements /\ frozen' = frozen
      BY <1>0
    <2>3. \A r \in Requests : pc'[r] \in {"creditFee", "charge"} => pc'[r] = pc[r]
      BY <1>0
    <2> QED
      BY <2>1, <2>2, <2>3 DEF Kinds
  <1>3. Offers'
    BY <1>0, <1>1 DEF Offers, Offer, Reserved, Running
  <1>4. Trails'
    <2> SUFFICES ASSUME NEW r \in Requests, Clean(r)', Op(r)' # "refund" PROVE Trail(r)'
      BY DEF Trails
    <2>1. Trail(r) /\ (pc'[r] = pc[r] \/ pc[r] \notin Flying)
      BY <1>0, <1>1 DEF Trails
    <2> QED
      BY <1>0, <2>1 DEF Trail, Zero, Moved, NoRow, HasRow, Flying, Running
  <1>5. Repaids'
    <2> SUFFICES ASSUME NEW r \in Requests, Clean(r)', Op(r)' = "refund" PROVE Repaid(r)'
      BY DEF Repaids
    <2>1. Repaid(r)
      BY <1>0, <1>1 DEF Repaids
    <2> QED
      BY <1>0, <1>1, <2>1 DEF Repaid, Running
  <1>6. Voided'
    <2> SUFFICES ASSUME NEW i \in Intents \ raced', status'[i] = "voided"
                 PROVE  \E r \in RefundsOf(i)' : pc'[r] \in {"creditFee", "done", "504", "lost"}
      BY DEF Voided
    <2>1. PICK r \in RefundsOf(i) : pc[r] \in {"creditFee", "done", "504", "lost"}
      BY <1>0 DEF Voided
    <2>2. r \in RefundsOf(i)' /\ pc'[r] \in {"creditFee", "done", "504", "lost"}
      BY <1>0, <1>1, <2>1 DEF RefundsOf, Running
    <2> QED
      BY <2>2
  <1>7. Untouched'
    <2>1. \A i : Rows(i)' = Rows(i)
      BY <1>0 DEF Rows, Intent
    <2> QED
      BY <1>0, <2>1 DEF Untouched
  <1>8. Tallies'
    <2> SUFFICES ASSUME NEW i \in Intents \ raced' PROVE Tally(i)'
      BY DEF Tallies
    <2>1. InFlight(i)' = InFlight(i)
      BY <1>0, <1>1 DEF InFlight, Clean, Flying, Running
    <2>2. Taken(i)' = Taken(i) /\ Gone(i)' = Gone(i)
      BY <1>0 DEF Taken, Gone, Moving, Intent, Op
    <2> QED
      BY <1>0, <2>1, <2>2 DEF Tallies, Tally
  <1>9. Fees'
    <2> SUFFICES ASSUME NEW i \in Pending0 \ raced' PROVE FeeTold(i)'
      BY DEF Fees
    <2>1. RefundsOf(i)' = RefundsOf(i) /\ FeeTold(i)
      BY <1>0, <1>1 DEF RefundsOf, Fees
    <2>2. \A r \in RefundsOf(i) : pc[r] \in {"done", "504", "lost"} => pc'[r] = pc[r]
      BY <1>0 DEF RefundsOf, Running
    <2>3. Ended(i) \subseteq Ended(i)'
      BY <2>1, <2>2 DEF Ended
    <2>4. ASSUME NEW r \in RefundsOf(i), Ended(i)' = {r}, pc'[r] = "done"
          PROVE  /\ Ended(i) = {r} /\ pc[r] = "done"
                 /\ \A s \in RefundsOf(i) : pc[s] = "creditFee" => pc'[s] = "creditFee"
      <3>1. pc[r] = "done"
        BY <1>0, <2>4 DEF RefundsOf, Running
      <3>2. ASSUME NEW s \in RefundsOf(i), pc[s] = "creditFee" PROVE pc'[s] = "creditFee"
        <4>1. s \in Requests /\ (pc'[s] = pc[s] \/ pc'[s] \in {"504", "lost"})
          BY <1>0 DEF RefundsOf
        <4>2. CASE pc'[s] \in {"504", "lost"}
          BY <2>1, <2>4, <4>2 DEF Ended
        <4> QED
          BY <3>2, <4>1, <4>2
      <3> QED
        BY <2>3, <2>4, <3>1, <3>2 DEF Ended
    <2> QED
      BY <1>0, <2>1, <2>3, <2>4 DEF FeeTold
  <1> QED
    BY <1>2, <1>4, <1>5, <1>6, <1>7, <1>8, <1>9, <1>3

LEMMA FundsNext == FundsInv /\ [Next]_vars => FundsInv'
  <1> SUFFICES ASSUME FundsInv, [Next]_vars PROVE FundsInv'
    OBVIOUS
  <1>0. LifeInv'
    BY LifeNext DEF FundsInv
  <1>1. CASE \E r \in Requests : Arrive(r) \/ Continue(r)
    <2>1. PICK r \in Requests : Arrive(r) \/ Continue(r)
      BY <1>1
    <2>2. frozen' = frozen
      BY <2>1, StepIsLocal DEF FundsInv, LifeInv, LockInv, Local
    <2> QED
      BY <1>0, <2>1, <2>2, KindsStep, TrailStep, OfferStep, RepaidStep, VoidedStep,
         UntouchedStep, TallyStep, FeeStep DEF FundsInv
  <1>2. CASE Fault
    BY <1>0, <1>2, FundsCut
  <1>3. CASE (\E a \in Freezable : SetFrozen(a)) \/ UNCHANGED vars
    <2>1. /\ UNCHANGED <<job, rows, funds, pc, locals, raced>>
          /\ frozen' \subseteq frozen \cup Freezable
      BY <1>3 DEF SetFrozen, vars, rows, funds, locals
    <2>2. \A r : /\ Op(r)' = Op(r) /\ Intent(r)' = Intent(r) /\ Trail(r)' = Trail(r)
                 /\ Offer(r)' = Offer(r) /\ Repaid(r)' = Repaid(r) /\ Clean(r)' = Clean(r)
      BY <2>1 DEF Op, Intent, Trail, Zero, Moved, NoRow, HasRow, Offer, Repaid, Clean,
                  rows, funds, locals
    <2>3. \A i : Rows(i)' = Rows(i) /\ RefundsOf(i)' = RefundsOf(i) /\ Ended(i)' = Ended(i)
                 /\ Moving(i)' = Moving(i) /\ InFlight(i)' = InFlight(i)
      BY <2>1 DEF Rows, RefundsOf, Ended, Moving, InFlight, Op, Intent, rows
    <2>4. \A i : Taken(i)' = Taken(i) /\ Gone(i)' = Gone(i)
      BY <2>1, <2>3 DEF Taken, Gone, rows, funds
    <2>5. \A i : Tally(i)' = Tally(i) /\ FeeTold(i)' = FeeTold(i)
      BY <2>1, <2>3, <2>4 DEF Tally, FeeTold, rows, funds, locals
    <2> QED
      BY <1>0, <2>1, <2>2, <2>3, <2>5
      DEF FundsInv, Kinds, Trails, Offers, Repaids, Voided, Untouched, Tallies, Fees,
          rows, funds
  <1> QED
    BY <1>1, <1>2, <1>3 DEF Next, Terminating, Fault

\* The settlements of an undisturbed intent are what their captures took.
Owners(i) == {x[1] : x \in Rows(i)}
LEMMA RowsTold ==
    ASSUME FundsInv, NEW i \in Intents \ raced
    PROVE  /\ IsFiniteSet(Moving(i)) /\ Owners(i) \in SUBSET Moving(i)
           /\ \A r \in Moving(i) : gave[r] \in Nat /\ got[r] \in Int
           /\ SettledSum(i) = Sum(gave, Owners(i))
  <1>0. /\ settlements \subseteq Requests \X Nat /\ part \in [Requests -> Nat]
        /\ got \in [Requests -> Int]
    BY DEF FundsInv, LifeInv, LockInv, Typed, TypeOK
  <1>1. \A r \in Moving(i) : r \in Requests /\ Trail(r)
    BY DEF Moving, FundsInv, Trails, Clean
  <1>2. IsFiniteSet(Moving(i))
    BY IntentTables, FS_Subset DEF Moving
  <1>3. \A r \in Moving(i) : gave[r] \in Nat /\ got[r] \in Int
    BY <1>0, <1>1 DEF Trail, Zero, Moved, Flying
  <1>4. ASSUME NEW x \in Rows(i) PROVE x[1] \in Moving(i) /\ x[2] = gave[x[1]]
    <2>1. x \in settlements /\ x[1] \in Moving(i)
      BY <1>0 DEF Rows, Moving, FundsInv, Kinds
    <2>2. ~NoRow(x[1])
      BY <2>1 DEF NoRow
    <2> QED
      BY <1>1, <2>1, <2>2 DEF Trail, Zero, Moved, Flying
  <1>5. IsRows(Rows(i), Requests)
    BY <1>0, FS_Subset DEF FundsInv, Kinds, IsRows, Rows
  <1>6. Amounts(Rows(i)) = Sum(gave, Owners(i))
    BY <1>4, <1>5, AmountsMoved DEF Owners
  <1> QED
    BY <1>2, <1>3, <1>4, <1>6 DEF Owners, SettledSum

LEMMA FundsBound == FundsInv => NeverOvercaptured
  <1> SUFFICES ASSUME FundsInv, NEW i \in Intents \ raced
               PROVE  SettledSum(i) <= Worth(i) /\ Taken(i) <= Worth(i)
    BY DEF NeverOvercaptured, Taken
  <1>0. amount[i] \in Nat /\ Terms[i].amount \in Int /\ part \in [Requests -> Nat]
    BY IntentConstants DEF FundsInv, LifeInv, LockInv, Typed, TypeOK
  <1>1. Taken(i) \in Nat /\ SettledSum(i) \in Nat /\ SettledSum(i) <= Taken(i)
    BY RowsTold, SumPart DEF Taken
  <1>2. Tally(i)
    BY DEF FundsInv, Tallies
  <1>3. CASE status[i] = "none" \/ InFlight(i) = {}
    BY <1>0, <1>1, <1>2, <1>3 DEF Tally, Gone, Worth
  <1>4. ASSUME status[i] # "none", NEW r \in InFlight(i) PROVE Taken(i) <= Worth(i)
    <2>1. /\ r \in Requests /\ Intent(r) = i /\ Clean(r)
          /\ pc[r] \in Reserved /\ pc[r] \in Working
      BY <1>4 DEF InFlight, Clean, Flying, Reserved, Working, Running
    <2>2. Op(r) \in {"capture", "partial"}
      BY <1>4, <2>1 DEF InFlight, FundsInv, LifeInv, LockInv, Placed, Unborn, Flying
    <2>3. status[i] \in {"captured", "pending"}
      BY <2>1, <2>2 DEF FundsInv, LifeInv, AsRead, Clean
    <2>4. part[r] <= amount[i]
      BY <2>1, <2>2 DEF FundsInv, Offers, Offer
    <2> QED
      BY <1>0, <1>2, <1>4, <2>1, <2>3, <2>4 DEF Tally, Gone, Worth
  <1> QED
    BY <1>0, <1>1, <1>3, <1>4 DEF Worth

LEMMA FundsAgree == FundsInv => StatusTellsFunds
  <1> SUFFICES ASSUME FundsInv, NEW i \in Intents \ raced, status[i] # "none", AtWork(i) = {}
               PROVE  /\ Taken(i) = SettledSum(i) /\ Sum(got, Moving(i)) = SettledSum(i)
                      /\ SettledSum(i) = Gone(i)
    BY DEF StatusTellsFunds, Taken, Gone
  <1>0. \A r \in Moving(i) : Trail(r) /\ pc[r] \notin Flying
    BY DEF Moving, FundsInv, Trails, Clean, AtWork, Flying, Running
  <1>1. \A r \in Moving(i) : got[r] = gave[r]
    BY <1>0 DEF Trail, Zero, Moved
  <1>2. \A r \in Moving(i) \ Owners(i) : gave[r] = 0
    <2> SUFFICES ASSUME NEW r \in Moving(i), r \notin Owners(i) PROVE Zero(r)
      BY DEF Zero
    <2>1. ~HasRow(r)
      <3>1. HasRow(r) => <<r, part[r]>> \in Rows(i)
        BY DEF HasRow, Rows, Moving
      <3>2. <<r, part[r]>>[1] = r
        OBVIOUS
      <3> QED
        BY <3>1, <3>2 DEF Owners
    <2> QED
      BY <1>0, <2>1 DEF Trail, Moved
  <1>3. Taken(i) = SettledSum(i)
    BY <1>2, RowsTold, SumOnly DEF Taken
  <1>4. Sum(got, Moving(i)) = Taken(i)
    BY <1>1, RowsTold, SumSame DEF Taken
  <1>5. InFlight(i) = {}
    BY DEF InFlight, AtWork, Flying, Running
  <1>6. Taken(i) = Gone(i)
    BY <1>5 DEF FundsInv, Tallies, Tally
  <1> QED
    BY <1>3, <1>4, <1>6

LEMMA FundsReturn == FundsInv => PayerMadeWhole
  <1> SUFFICES ASSUME FundsInv, NEW i \in Pending0 \ raced,
                      Idle(i), Answered(i), Cardinality(Refunders(i)) = 1,
                      \A s \in Rows(i) : s[2] = Terms[i].amount
               PROVE  Net(i) = 0 /\ (Terms[i].payer \notin Freezable => fee[i] = 0)
    BY DEF PayerMadeWhole
  <1>0. /\ i \in Intents /\ Terms[i].amount \in Nat /\ gave \in [Requests -> Int]
        /\ fee[i] \in Int
    BY IntentConstants DEF FundsInv, LifeInv, LockInv, Typed, TypeOK
  <1>1. PICK r \in Requests : Refunders(i) = {r}
    <2>1. IsFiniteSet(Refunders(i)) /\ Refunders(i) \subseteq Requests
      BY IntentTables, FS_Subset DEF Refunders
    <2>2. \E r : Refunders(i) = {r}
      BY <2>1, FS_Singleton
    <2> QED
      BY <2>1, <2>2
  <1>2. /\ r \in RefundsOf(i) /\ pc[r] = "done" /\ Clean(r) /\ Op(r) = "refund" /\ Intent(r) = i
    BY <1>1 DEF Refunders, RefundsOf, Clean
  <1>3. \/ status[i] = "voided" /\ gave[r] = 0
        \/ status[i] = "settled" /\ gave[r] = -amount[i]
    BY <1>2 DEF FundsInv, Repaids, Repaid
  <1>4. amount[i] = Terms[i].amount
    BY <1>0, <1>3 DEF FundsInv, Untouched
  <1>5. InFlight(i) = {} /\ Taken(i) = Gone(i)
    <2>1. InFlight(i) = {}
      BY DEF InFlight, Idle, Flying, Terminal
    <2> QED
      BY <1>0, <1>3, <2>1 DEF FundsInv, Tallies, Tally
  <1>6. \A q \in RefundsOf(i) \ {r} : pc[q] \in {"new", "rejected", "error"} /\ gave[q] = 0
    <2> SUFFICES ASSUME NEW q \in RefundsOf(i), q # r
                 PROVE  pc[q] \in {"new", "rejected", "error"} /\ gave[q] = 0
      OBVIOUS
    <2>1. q \in Requests /\ Intent(q) = i /\ Op(q) = "refund" /\ Clean(q)
      BY DEF RefundsOf, Clean
    <2>2. pc[q] \in {"new", "rejected", "error"}
      BY <1>1, <2>1 DEF Idle, Answered, Terminal, Refunders
    <2> QED
      BY <2>1, <2>2 DEF FundsInv, Repaids, Repaid
  <1>7. Net(i) = Taken(i) + gave[r]
    <2> DEFINE M == Moving(i)
               F == RefundsOf(i)
    <2>1. /\ IsFiniteSet(M) /\ IsFiniteSet(F) /\ M \cap F = {} /\ r \in F
          /\ {q \in Requests : Intent(q) = i} = M \cup F
          /\ \A x \in M \cup F : gave[x] \in Int
      BY <1>0, <1>2, IntentTables, FS_Subset DEF Moving, RefundsOf
    <2>2. \A q \in F \ {r} : gave[q] = 0
      BY <1>6
    <2> HIDE DEF M, F
    <2>3. Sum(gave, M \cup F) = Sum(gave, M) + Sum(gave, F)
      BY <2>1, SumUnion
    <2>4. Sum(gave, F) = Sum(gave, {r})
      BY <2>1, <2>2, SumOnly
    <2>5. Sum(gave, {r}) = gave[r]
      <3>1. {r} \ {r} = {} /\ r \in {r} /\ IsFiniteSet({r}) /\ Sum(gave, {}) = 0
        BY FS_Singleton, SumEmpty
      <3>2. Sum(gave, {r}) = gave[r] + Sum(gave, {r} \ {r})
        BY <2>1, <3>1, SumRemove
      <3> QED
        BY <1>0, <3>1, <3>2
    <2> QED
      BY <2>1, <2>3, <2>4, <2>5 DEF Net, Taken, M
  <1>8. Net(i) = 0
    BY <1>0, <1>3, <1>4, <1>5, <1>7 DEF Gone
  <1>9. ASSUME Terms[i].payer \notin Freezable PROVE fee[i] = 0
    <2>1. Ended(i) = {r}
      BY <1>2, <1>6 DEF Ended
    <2>2. \A s \in RefundsOf(i) : pc[s] # "creditFee"
      BY <1>2, <1>6
    <2>3. fee[i] = FeeOf(Terms[i].amount) - FeeOf(amount[i])
      BY <1>2, <1>9, <2>1, <2>2 DEF FundsInv, Fees, FeeTold
    <2>4. FeeOf(Terms[i].amount) \in Nat
      BY <1>0, FeeType
    <2> QED
      BY <1>4, <2>3, <2>4
  <1> QED
    BY <1>8, <1>9

\* For any requests, prices, freezes, crashes and timeouts, undisturbed captures and
\* parts never take, or settle, more than the intent is for.
THEOREM IntentsNeverOvercaptured == Spec => []NeverOvercaptured
  <1> QED
    BY FundsInit, FundsNext, FundsBound, PTL DEF Spec

\* When nobody is at work on an undisturbed intent, its row, its settlements
\* and the two wallets tell the same amount, after failures, crashes and timeouts too.
THEOREM IntentStatusTellsFunds == Spec => []StatusTellsFunds
  <1> QED
    BY FundsInit, FundsNext, FundsAgree, PTL DEF Spec

\* One refund of an intent that was voided, or captured at once, returns all
\* that was taken from the payer, with the fee of create_intent.
THEOREM IntentPayerMadeWhole == Spec => []PayerMadeWhole
  <1> QED
    BY FundsInit, FundsNext, FundsReturn, PTL DEF Spec
=============================================================================
