---------------------------- MODULE RefundProofs ----------------------------
(***************************************************************************)
(* Theorems about SettlementRefund for every workload, number of requests  *)
(* of crashes and of timeouts: BEGIN IMMEDIATE keeps two refunds apart as  *)
(* long as nobody else commits, so that the total one of them has read is  *)
(* still right when it inserts its row; what is refunded, in rows and in   *)
(* funds, is then bounded, and both say the same.  A transaction is closed *)
(* by whoever answers last, unless a refused INSERT or a cancelled refund  *)
(* left it open, and what was answered is in the file.                     *)
(***************************************************************************)
EXTENDS SettlementRefund, SumLemmas, TLAPS

\* The shape of the state, which every step keeps.
IsTables(d) == d \in [refunds : {d.refunds}, status : {d.status}, written : {d.written}]
IsConnection(c) == c \in [data : {c.data}, saved : {c.saved}, open : BOOLEAN]
Shape ==
    /\ pc \in [Requests -> {"new"} \cup Running \cup Terminal]
    /\ DOMAIN part = Requests /\ part = [r \in Requests |-> part[r]]
    /\ DOMAIN gave = Requests /\ gave = [r \in Requests |-> gave[r]]
    /\ broken \subseteq Requests
    /\ IsConnection(conn)
    /\ IsTables(conn.data) /\ IsTables(conn.saved)

\* What is in the file is seen, and rows are only added.
Grown == /\ conn.saved.refunds \subseteq conn.data.refunds
         /\ conn.saved.written \subseteq conn.data.written

\* Only refunds stand where refunds stand.
Roles == \A r \in Requests :
    /\ pc[r] \in Running \ {"commitRow"} => job[r].op = "refund"
    /\ pc[r] = "commitRow" => job[r].op = "write"
Places == Shape /\ Grown /\ Roles

\* Nobody has started, and the file is empty.
LEMMA PlacesInit == Init => Places
  <1> SUFFICES ASSUME Init PROVE Places
    OBVIOUS
  <1> QED
    BY DEF Init, Places, Shape, Grown, Roles, IsTables, IsConnection, Connected, Running, Sheltered, Terminal

\* What the operators make of a connection.
Becomes(c, data, saved, open) ==
    c.data = data /\ c.saved = saved /\ c.open = open /\ IsConnection(c)

\* They copy, keep or drop the tables as SQLite does.
LEMMA ConnectionSteps ==
    ASSUME NEW c, NEW d, IsConnection(c)
    PROVE  /\ Becomes(ExecuteImplicit(c, d), d, c.saved, TRUE)
           /\ Becomes(Begin(c), c.data, c.saved, TRUE)
           /\ Becomes(Commit(c), c.data, c.data, FALSE)
           /\ Becomes(Rollback(c), c.saved, c.saved, FALSE)
           /\ Becomes(Crash(c), c.saved, c.saved, FALSE)
  <1>1. Becomes(ExecuteImplicit(c, d), d, c.saved, TRUE)
    BY DEF Becomes, ExecuteImplicit, IsConnection
  <1>2. Becomes(Begin(c), c.data, c.saved, TRUE)
    BY DEF Becomes, Begin, IsConnection
  <1> QED
    BY <1>1, <1>2 DEF Becomes, Commit, Rollback, Crash, Connected, IsConnection

\* What the statements make of the tables.
Holds(d, refunds, written) == d.refunds = refunds /\ d.written = written /\ IsTables(d)

\* An INSERT adds its row and an UPDATE no row.
LEMMA TableSteps ==
    ASSUME NEW d, NEW row, NEW s, NEW status, IsTables(d)
    PROVE  /\ Holds([d EXCEPT !.refunds = @ \cup {row}], d.refunds \cup {row}, d.written)
           /\ Holds([d EXCEPT !.status[s] = status], d.refunds, d.written)
           /\ Holds([d EXCEPT !.written = @ \cup {row}], d.refunds, d.written \cup {row})
  BY DEF Holds, IsTables

-----------------------------------------------------------------------------
\* The shape is kept by every step.
LEMMA PlacesArrive ==
    ASSUME Places, NEW r \in Requests, Arrive(r) PROVE Places'
  <1> USE DEF Places, Shape, Grown, Roles, Go, funds, locals, environment, history,
              Running, Sheltered, Terminal
  <1>1. CASE LookupRefund(r)
    BY <1>1 DEF LookupRefund
  <1>2. CASE WriteRow(r)
    <2> DEFINE d == [conn.data EXCEPT !.written = @ \cup {r}]
    <2>1. Holds(d, conn.data.refunds, conn.data.written \cup {r})
      BY TableSteps
    <2>2. Becomes(conn', d, conn.saved, TRUE)
      BY <1>2, ConnectionSteps DEF WriteRow
    <2> HIDE DEF d
    <2> QED
      BY <1>2, <2>1, <2>2 DEF WriteRow, Holds, Becomes
  <1>3. CASE RefusedRow(r)
    <2>1. Becomes(conn', conn.data, conn.saved, TRUE)
      BY <1>3, ConnectionSteps DEF RefusedRow
    <2> QED
      BY <1>3, <2>1 DEF RefusedRow, Becomes
  <1> QED
    BY <1>1, <1>2, <1>3 DEF Arrive

\* ... and by everything a request does after it.
LEMMA PlacesContinue ==
    ASSUME Places, NEW r \in Requests, Continue(r) PROVE Places'
  <1> USE DEF Places, Shape, Grown, Roles, Go, funds, locals, environment, history,
              Running, Sheltered, Terminal, Break
  <1>1. CASE BeginRefund(r)
    <2>1. CASE CanBegin(conn)
      <3>1. Becomes(conn', conn.data, conn.saved, TRUE)
        BY <1>1, <2>1, ConnectionSteps DEF BeginRefund
      <3> QED
        BY <1>1, <3>1 DEF BeginRefund, Becomes
    <2>2. CASE ~CanBegin(conn)
      BY <1>1, <2>2 DEF BeginRefund
    <2> QED
      BY <2>1, <2>2
  <1>2. CASE ReadTotal(r)
    BY <1>2 DEF ReadTotal
  <1>3. CASE WithdrawRefund(r)
    BY <1>3 DEF WithdrawRefund
  <1>4. CASE DepositRefund(r)
    BY <1>4 DEF DepositRefund
  <1>5. CASE InsertRefund(r)
    <2> DEFINE d == [conn.data EXCEPT !.refunds = @ \cup {<<r, part[r]>>}]
    <2>1. Holds(d, conn.data.refunds \cup {<<r, part[r]>>}, conn.data.written)
      BY TableSteps
    <2>2. Becomes(ExecuteImplicit(conn, conn.data), conn.data, conn.saved, TRUE)
      BY ConnectionSteps
    <2>3. Becomes(ExecuteImplicit(conn, d), d, conn.saved, TRUE)
      BY ConnectionSteps
    <2>4. \/ conn' = ExecuteImplicit(conn, conn.data)
          \/ conn' = ExecuteImplicit(conn, d)
      BY <1>5 DEF InsertRefund
    <2> HIDE DEF d
    <2> QED
      BY <1>5, <2>1, <2>2, <2>3, <2>4 DEF InsertRefund, Holds, Becomes
  <1>6. CASE UpdateStatus(r)
    <2> DEFINE new == IF total[r] + part[r] >= Amount(Settlement(r))
                      THEN "refunded" ELSE "partially_refunded"
               d == [conn.data EXCEPT !.status[Settlement(r)] = new]
    <2>1. Holds(d, conn.data.refunds, conn.data.written)
      BY TableSteps
    <2>2. Becomes(conn', d, conn.saved, TRUE)
      BY <1>6, ConnectionSteps DEF UpdateStatus
    <2> HIDE DEF d
    <2> QED
      BY <1>6, <2>1, <2>2 DEF UpdateStatus, Holds, Becomes
  <1>7. CASE CommitRefund(r) \/ CommitStatus(r) \/ CommitFinal(r) \/ CommitRow(r)
    <2>1. Becomes(conn', conn.data, conn.data, FALSE)
      <3>1. conn' = Commit(conn)
        BY <1>7 DEF CommitRefund, CommitStatus, CommitFinal, CommitRow
      <3> QED
        BY <3>1, ConnectionSteps
    <2> QED
      BY <1>7, <2>1 DEF CommitRefund, CommitStatus, CommitFinal, CommitRow, Becomes, Committing
  <1>8. CASE RollbackRefund(r)
    <2>1. Becomes(conn', conn.saved, conn.saved, FALSE)
      BY <1>8, ConnectionSteps DEF RollbackRefund
    <2> QED
      BY <1>8, <2>1 DEF RollbackRefund, RollingBack, Becomes
  <1> QED
    BY <1>1, <1>2, <1>3, <1>4, <1>5, <1>6, <1>7, <1>8 DEF Continue

\* The shape is an invariant.
LEMMA PlacesStep == Places /\ [Next]_vars => Places'
  <1> SUFFICES ASSUME Places, [Next]_vars PROVE Places'
    OBVIOUS
  <1>1. ASSUME NEW a \in Freezable, SetFrozen(a) PROVE Places'
    BY <1>1 DEF SetFrozen, Places, Shape, Grown, Roles, funds, locals, history
  <1>t. ASSUME NEW r \in Requests, TimeOut(r) PROVE Places'
    BY <1>t DEF TimeOut, Places, Shape, Grown, Roles, Go, funds, locals, Running, Sheltered, Terminal
  <1>2. CASE CrashProcess
    <2>1. Becomes(conn', conn.saved, conn.saved, FALSE)
      BY <1>2, ConnectionSteps DEF CrashProcess, Places, Shape
    <2> QED
      BY <1>2, <2>1 DEF CrashProcess, Places, Shape, Grown, Roles, Becomes, funds, locals, history,
                        Running, Sheltered, Terminal
  <1>3. CASE UNCHANGED vars
    BY <1>3 DEF vars, Places, Shape, Grown, Roles
  <1> QED
    BY <1>t, <1>1, <1>2, <1>3, PlacesArrive, PlacesContinue DEF Next, Terminating

\* What a commit, a rollback and a crash leave, and that they close.
LEMMA Ends ==
    ASSUME Places
    PROVE  /\ ~Commit(conn).open /\ ~Rollback(conn).open /\ ~Crash(conn).open
           /\ Commit(conn).data = conn.data /\ Commit(conn).saved = conn.data
           /\ Rollback(conn).data = conn.saved /\ Rollback(conn).saved = conn.saved
           /\ Crash(conn).data = conn.saved /\ Crash(conn).saved = conn.saved
  BY DEF Commit, Rollback, Crash, Connected

\* What a statement does.
LEMMA Executes ==
    ASSUME Places, NEW d
    PROVE  /\ ExecuteImplicit(conn, d).open /\ ExecuteImplicit(conn, d).data = d
           /\ ExecuteImplicit(conn, d).saved = conn.saved
           /\ Begin(conn).open /\ Begin(conn).data = conn.data /\ Begin(conn).saved = conn.saved
  <1>1. /\ Becomes(ExecuteImplicit(conn, d), d, conn.saved, TRUE)
        /\ Becomes(Begin(conn), conn.data, conn.saved, TRUE)
    BY ConnectionSteps DEF Places, Shape
  <1> QED
    BY <1>1 DEF Becomes

-----------------------------------------------------------------------------
\* A transaction is open because of a request that will commit or roll back,
\* or because of a refused INSERT or of a request that timed out.
Attended == conn.open =>
    \/ \E r \in Requests : pc[r] \in Closing
    \/ \E r \in leftOpen \cap Requests :
           pc[r] = "504" \/ (job[r].op = "refused" /\ pc[r] = "error")

\* Whoever ends the last open statement commits it or rolls it back ...
LEMMA AttendedContinue ==
    ASSUME Places, Attended, NEW r \in Requests, Continue(r) PROVE Attended'
  <1> USE DEF Places, Shape, Go, funds, locals, environment, history, Closing, Sheltered, Attended
  <1>1. CASE BeginRefund(r)
    BY <1>1 DEF BeginRefund
  <1>2. CASE ReadTotal(r)
    BY <1>2 DEF ReadTotal
  <1>3. CASE WithdrawRefund(r)
    BY <1>3 DEF WithdrawRefund
  <1>4. CASE DepositRefund(r)
    BY <1>4 DEF DepositRefund
  <1>5. CASE InsertRefund(r)
    BY <1>5 DEF InsertRefund
  <1>6. CASE UpdateStatus(r)
    BY <1>6 DEF UpdateStatus
  <1>7. CASE CommitRefund(r) \/ CommitStatus(r) \/ CommitFinal(r) \/ CommitRow(r)
    <2>1. conn' = Commit(conn)
      BY <1>7 DEF CommitRefund, CommitStatus, CommitFinal, CommitRow
    <2> QED
      BY <2>1, Ends
  <1>8. CASE RollbackRefund(r)
    BY <1>8, Ends DEF RollbackRefund
  <1> QED
    BY <1>1, <1>2, <1>3, <1>4, <1>5, <1>6, <1>7, <1>8 DEF Continue

\* ... so an open transaction always has somebody to close it.
LEMMA AttendedStep == Places /\ Attended /\ [Next]_vars => Attended'
  <1> SUFFICES ASSUME Places, Attended, [Next]_vars PROVE Attended'
    OBVIOUS
  <1> USE DEF Places, Shape, Go, funds, locals, environment, history, Closing, Sheltered, Attended
  <1>1. ASSUME NEW r \in Requests, Arrive(r) PROVE Attended'
    BY <1>1 DEF Arrive, LookupRefund, WriteRow, RefusedRow
  <1>2. ASSUME NEW a \in Freezable, SetFrozen(a) PROVE Attended'
    BY <1>2 DEF SetFrozen
  <1>t. ASSUME NEW r \in Requests, TimeOut(r) PROVE Attended'
    BY <1>t DEF TimeOut, Running
  <1>3. CASE CrashProcess
    BY <1>3, Ends DEF CrashProcess
  <1>4. CASE UNCHANGED vars
    BY <1>4 DEF vars
  <1> QED
    BY <1>t, <1>1, <1>2, <1>3, <1>4, AttendedContinue DEF Next, Terminating

\* When everybody has been answered, a transaction is open, and BEGIN fails,
\* only where a refused INSERT or a refund cancelled by the request timeout
\* left it, with no commit since (LockReleased in refund_settlement's
\* connection): every other exit of refund_settlement commits or rolls back.
THEOREM RefundLockReleased == Spec => []LockReleased
  <1>1. Init => Attended
    BY DEF Init, Attended, Connected
  <1>2. Places /\ Attended => LockReleased
    BY DEF Places, Shape, Attended, LockReleased, Closing, Sheltered, Terminal
  <1> QED
    BY <1>1, <1>2, PlacesInit, PlacesStep, AttendedStep, PTL DEF Spec

-----------------------------------------------------------------------------
\* Between its BEGIN and the commit of its row, a refund that nobody's commit
\* disturbed holds the transaction, and it alone.
Sheltering(r) == r \notin broken /\ pc[r] \in Sheltered
Apart == \A r \in Requests : Sheltering(r) =>
    conn.open /\ \A q \in Requests : Sheltering(q) => q = r

\* A second BEGIN raises while the transaction is open, and a commit breaks
\* the shelter of those it did not belong to ...
LEMMA ApartContinue ==
    ASSUME Places, Apart, NEW r \in Requests, Continue(r) PROVE Apart'
  <1> USE DEF Places, Shape, Go, funds, locals, environment, history, Sheltered, Sheltering, Apart, Break
  <1>1. CASE BeginRefund(r)
    <2>1. CASE CanBegin(conn)
      <3>1. conn'.open /\ ~conn.open
        BY <1>1, <2>1, Executes DEF BeginRefund, CanBegin
      <3> QED
        BY <1>1, <2>1, <3>1 DEF BeginRefund
    <2> QED
      BY <1>1, <2>1 DEF BeginRefund
  <1>2. CASE ReadTotal(r)
    BY <1>2 DEF ReadTotal
  <1>3. CASE WithdrawRefund(r)
    BY <1>3 DEF WithdrawRefund
  <1>4. CASE DepositRefund(r)
    BY <1>4 DEF DepositRefund
  <1>5. CASE InsertRefund(r)
    <2>1. conn'.open
      BY <1>5, Executes DEF InsertRefund
    <2> QED
      BY <1>5, <2>1 DEF InsertRefund
  <1>6. CASE UpdateStatus(r)
    <2>1. conn'.open
      BY <1>6, Executes DEF UpdateStatus
    <2> QED
      BY <1>6, <2>1 DEF UpdateStatus
  <1>7. CASE CommitRefund(r) \/ CommitStatus(r) \/ CommitFinal(r) \/ CommitRow(r)
    BY <1>7 DEF CommitRefund, CommitStatus, CommitFinal, CommitRow, Committing
  <1>8. CASE RollbackRefund(r)
    BY <1>8 DEF RollbackRefund, RollingBack
  <1> QED
    BY <1>1, <1>2, <1>3, <1>4, <1>5, <1>6, <1>7, <1>8 DEF Continue

\* ... whoever makes the step.
LEMMA ApartStep == Places /\ Apart /\ [Next]_vars => Apart'
  <1> SUFFICES ASSUME Places, Apart, [Next]_vars PROVE Apart'
    OBVIOUS
  <1> USE DEF Places, Shape, Go, funds, locals, environment, history, Sheltered, Sheltering, Apart
  <1>1. ASSUME NEW r \in Requests, Arrive(r) PROVE Apart'
    <2>1. CASE LookupRefund(r)
      BY <2>1 DEF LookupRefund
    <2>2. CASE WriteRow(r) \/ RefusedRow(r)
      <3>1. conn'.open
        BY <2>2, Executes DEF WriteRow, RefusedRow
      <3> QED
        BY <2>2, <3>1 DEF WriteRow, RefusedRow
    <2> QED
      BY <1>1, <2>1, <2>2 DEF Arrive
  <1>2. ASSUME NEW a \in Freezable, SetFrozen(a) PROVE Apart'
    BY <1>2 DEF SetFrozen
  <1>t. ASSUME NEW r \in Requests, TimeOut(r) PROVE Apart'
    BY <1>t DEF TimeOut
  <1>3. CASE CrashProcess
    BY <1>3 DEF CrashProcess, Running, Moving
  <1>4. CASE UNCHANGED vars
    BY <1>4 DEF vars
  <1> QED
    BY <1>t, <1>1, <1>2, <1>3, <1>4, ApartContinue DEF Next, Terminating

\* BEGIN IMMEDIATE in refund_settlement keeps refunds apart, whatever they
\* refund, for as long as no other writer of the connection commits.
THEOREM RefundsApart == Spec => []Apart
  <1>1. Init => Apart
    BY DEF Init, Apart, Sheltering, Sheltered
  <1> QED
    BY <1>1, PlacesInit, PlacesStep, ApartStep, PTL DEF Spec

-----------------------------------------------------------------------------
\* Where the row of a request is that nobody disturbed: nothing has moved before
\* the deposit, the row is seen once it is inserted, and is in the file once
\* its commit is over.
Promised == \A r \in Requests \ broken :
    /\ pc[r] \in {"new", "begin", "read", "withdraw", "deposit"} => gave[r] = 0
    /\ pc[r] = "insert" => gave[r] = part[r]
    /\ pc[r] = "commitRefund" => <<r, gave[r]>> \in conn.data.refunds
    /\ pc[r] \in {"update", "commitStatus", "final"} => <<r, gave[r]>> \in conn.saved.refunds
    /\ pc[r] = "commitRow" => r \in conn.data.written
    /\ pc[r] = "done" =>
          /\ job[r].op = "refund" /\ gave[r] > 0 => <<r, gave[r]>> \in conn.saved.refunds
          /\ job[r].op = "write" => r \in conn.saved.written

\* A refund's statements make good on what the previous ones promised ...
LEMMA PromisedRefund ==
    ASSUME Places, Promised, NEW r \in Requests,
           \/ BeginRefund(r) \/ ReadTotal(r) \/ WithdrawRefund(r) \/ DepositRefund(r)
           \/ InsertRefund(r) \/ UpdateStatus(r)
    PROVE  Promised'
  <1> USE DEF Places, Shape, Grown, Roles, Running, Sheltered, Go, funds, locals, environment, history,
              Promised, Break
  <1>1. CASE BeginRefund(r)
    <2>1. conn'.data = conn.data /\ conn'.saved = conn.saved
      BY <1>1, Executes DEF BeginRefund
    <2> QED
      BY <1>1, <2>1 DEF BeginRefund
  <1>2. CASE ReadTotal(r)
    BY <1>2 DEF ReadTotal
  <1>3. CASE WithdrawRefund(r)
    BY <1>3 DEF WithdrawRefund
  <1>4. CASE DepositRefund(r)
    BY <1>4 DEF DepositRefund
  <1>5. CASE InsertRefund(r)
    <2> DEFINE d == [conn.data EXCEPT !.refunds = @ \cup {<<r, part[r]>>}]
    <2>1. Holds(d, conn.data.refunds \cup {<<r, part[r]>>}, conn.data.written)
      BY TableSteps
    <2>2. /\ conn'.saved = conn.saved
          /\ \/ conn'.data = conn.data /\ r \in broken'
             \/ conn'.data = d
      BY <1>5, Executes DEF InsertRefund
    <2> HIDE DEF d
    <2> QED
      BY <1>5, <2>1, <2>2 DEF InsertRefund, Holds
  <1>6. CASE UpdateStatus(r)
    <2> DEFINE new == IF total[r] + part[r] >= Amount(Settlement(r))
                      THEN "refunded" ELSE "partially_refunded"
               d == [conn.data EXCEPT !.status[Settlement(r)] = new]
    <2>1. Holds(d, conn.data.refunds, conn.data.written)
      BY TableSteps
    <2>2. conn'.saved = conn.saved /\ conn'.data = d
      BY <1>6, Executes DEF UpdateStatus
    <2> HIDE DEF d
    <2> QED
      BY <1>6, <2>1, <2>2 DEF UpdateStatus, Holds
  <1> QED
    BY <1>1, <1>2, <1>3, <1>4, <1>5, <1>6

\* ... its commits put it into the file, and a rollback takes it back only
\* from those it counts as disturbed ...
LEMMA PromisedEnd ==
    ASSUME Places, Promised, NEW r \in Requests,
           \/ CommitRefund(r) \/ CommitStatus(r) \/ CommitFinal(r) \/ CommitRow(r)
           \/ RollbackRefund(r)
    PROVE  Promised'
  <1> USE DEF Places, Shape, Grown, Roles, Running, Sheltered, Go, funds, locals, environment, history,
              Promised
  <1>1. CASE CommitRefund(r) \/ CommitStatus(r) \/ CommitFinal(r) \/ CommitRow(r)
    <2>1. conn'.data = conn.data /\ conn'.saved = conn.data
      BY <1>1, Ends DEF CommitRefund, CommitStatus, CommitFinal, CommitRow
    <2>2. broken \subseteq broken' /\ UNCHANGED <<job, gave, part>>
      BY <1>1 DEF CommitRefund, CommitStatus, CommitFinal, CommitRow, Committing
    <2>3. CASE CommitRefund(r)
      BY <2>1, <2>2, <2>3 DEF CommitRefund
    <2>4. CASE CommitStatus(r)
      BY <2>1, <2>2, <2>4 DEF CommitStatus
    <2>5. CASE CommitFinal(r)
      BY <2>1, <2>2, <2>5 DEF CommitFinal
    <2>6. CASE CommitRow(r)
      BY <2>1, <2>2, <2>6 DEF CommitRow
    <2> QED
      BY <1>1, <2>3, <2>4, <2>5, <2>6
  <1>2. CASE RollbackRefund(r)
    <2>1. conn'.data = conn.saved /\ conn'.saved = conn.saved
      BY <1>2, Ends DEF RollbackRefund
    <2> QED
      BY <1>2, <2>1 DEF RollbackRefund, RollingBack
  <1> QED
    BY <1>1, <1>2

\* ... so what was promised is kept by every step.
LEMMA PromisedStep == Places /\ Promised /\ [Next]_vars => Promised'
  <1> SUFFICES ASSUME Places, Promised, [Next]_vars PROVE Promised'
    OBVIOUS
  <1> USE DEF Places, Shape, Grown, Roles, Running, Sheltered, Go, funds, locals, environment, history,
              Promised
  <1>1. ASSUME NEW r \in Requests, Arrive(r) PROVE Promised'
    <2>1. CASE LookupRefund(r)
      BY <2>1 DEF LookupRefund
    <2>2. CASE WriteRow(r)
      <3> DEFINE d == [conn.data EXCEPT !.written = @ \cup {r}]
      <3>1. Holds(d, conn.data.refunds, conn.data.written \cup {r})
        BY TableSteps
      <3>2. conn'.saved = conn.saved /\ conn'.data = d
        BY <2>2, Executes DEF WriteRow
      <3> HIDE DEF d
      <3> QED
        BY <2>2, <3>1, <3>2 DEF WriteRow, Holds
    <2>3. CASE RefusedRow(r)
      <3>1. conn'.saved = conn.saved /\ conn'.data = conn.data
        BY <2>3, Executes DEF RefusedRow
      <3> QED
        BY <2>3, <3>1 DEF RefusedRow
    <2> QED
      BY <1>1, <2>1, <2>2, <2>3 DEF Arrive
  <1>2. ASSUME NEW a \in Freezable, SetFrozen(a) PROVE Promised'
    BY <1>2 DEF SetFrozen
  <1>t. ASSUME NEW r \in Requests, TimeOut(r) PROVE Promised'
    BY <1>t DEF TimeOut
  <1>3. CASE CrashProcess
    <2>1. conn'.data = conn.saved /\ conn'.saved = conn.saved
      BY <1>3, Ends DEF CrashProcess
    <2> QED
      BY <1>3, <2>1 DEF CrashProcess, Moving
  <1>4. CASE UNCHANGED vars
    BY <1>4 DEF vars
  <1>5. ASSUME NEW r \in Requests, Continue(r) PROVE Promised'
    BY <1>5, PromisedRefund, PromisedEnd DEF Continue
  <1> QED
    BY <1>t, <1>1, <1>2, <1>3, <1>4, <1>5 DEF Next, Terminating

\* Who was told that a refund, or another write, was done finds it in the file,
\* also after a crash (AckDurable): unless another's rollback discarded it.
THEOREM RefundAckDurable == Spec => []AckDurable
  <1>1. Init => Promised
    BY DEF Init, Promised
  <1>2. Promised => AckDurable
    BY DEF Promised, AckDurable
  <1> QED
    BY <1>1, <1>2, PlacesInit, PlacesStep, PromisedStep, PTL DEF Spec

-----------------------------------------------------------------------------
\* The rows, amounts and statuses are what their columns hold, and only a
\* refund inserts a row.
Ledger ==
    /\ job \in [Requests -> Job]
    /\ IsRows(conn.data.refunds, Requests)
    /\ \A x \in conn.data.refunds : job[x[1]].op = "refund"
    /\ conn.data.status \in [Settlements -> Statuses]
    /\ conn.saved.status \in [Settlements -> Statuses]
    /\ part \in [Requests -> Nat] /\ total \in [Requests -> Int]
    /\ took \in [Requests -> Nat] /\ gave \in [Requests -> Nat]

\* Of a refund that nobody disturbed: what the payer was given is in the
\* refund's row, from its INSERT on, and was taken from the payee before.
Inserted == {"commitRefund", "update", "commitStatus", "final", "done", "504", "lost"}
Moved ==
    \A r \in Requests \ broken :
        /\ gave[r] > 0 => \/ <<r, gave[r]>> \in conn.saved.refunds
                          \/ pc[r] = "commitRefund" /\ <<r, gave[r]>> \in conn.data.refunds
                          \/ pc[r] = "insert"
        /\ \A x \in conn.data.refunds : x[1] = r => x[2] = gave[r] /\ pc[r] \in Inserted
        /\ took[r] = IF pc[r] = "deposit" THEN part[r] ELSE gave[r]

\* The total a refund has read is still the total when it inserts its row,
\* and its update of the status counts no row that is not there.
Seen(s) == Refunded(conn.data, s)
Saved(s) == Refunded(conn.saved, s)
Right(s) ==
    /\ Seen(s) <= Amount(s)
    /\ conn.data.status[s] = "refunded" => Seen(s) = Amount(s)
    /\ conn.saved.status[s] = "refunded" => Saved(s) = Amount(s)
    /\ \A r \in Of(s) :
           /\ pc[r] \in {"withdraw", "deposit", "insert"} =>
                  total[r] = Seen(s) /\ total[r] + part[r] <= Amount(s)
           /\ pc[r] = "commitRefund" => total[r] + part[r] <= Seen(s)
           /\ pc[r] = "update" => total[r] + part[r] <= Saved(s)
Counted == \A s \in Settlements : Unbroken(s) => Right(s)

\* What the statements make of the refund rows and the statuses.
SameTables ==
    /\ conn'.data.refunds = conn.data.refunds /\ conn'.data.status = conn.data.status
    /\ conn'.saved.refunds = conn.saved.refunds /\ conn'.saved.status = conn.saved.status
Adds(r) ==
    /\ conn'.data.refunds = conn.data.refunds \cup {<<r, part[r]>>}
    /\ conn'.data.status = conn.data.status
    /\ conn'.saved.refunds = conn.saved.refunds /\ conn'.saved.status = conn.saved.status
Marks(s, new) ==
    /\ conn'.data.refunds = conn.data.refunds
    /\ conn'.data.status = [conn.data.status EXCEPT ![s] = new]
    /\ conn'.saved.refunds = conn.saved.refunds /\ conn'.saved.status = conn.saved.status
Commits ==
    /\ conn'.data.refunds = conn.data.refunds /\ conn'.data.status = conn.data.status
    /\ conn'.saved.refunds = conn.data.refunds /\ conn'.saved.status = conn.data.status
Undoes ==
    /\ conn'.data.refunds = conn.saved.refunds /\ conn'.data.status = conn.saved.status
    /\ conn'.saved.refunds = conn.saved.refunds /\ conn'.saved.status = conn.saved.status

\* What the statements make of the tables' statuses and rows.
LEMMA StatusSteps ==
    ASSUME NEW d, NEW rows, NEW s, NEW status, IsTables(d)
    PROVE  /\ [d EXCEPT !.refunds = rows].status = d.status
           /\ [d EXCEPT !.written = rows].status = d.status
           /\ [d EXCEPT !.written = rows].refunds = d.refunds
           /\ [d EXCEPT !.refunds = rows].refunds = rows
           /\ [d EXCEPT !.status[s] = status].refunds = d.refunds
           /\ [d EXCEPT !.status[s] = status].status = [d.status EXCEPT ![s] = status]
  BY DEF IsTables

\* Which step does which.
LEMMA TablesMove ==
    ASSUME Places, NEW r \in Requests
    PROVE  /\ Arrive(r) => SameTables
           /\ BeginRefund(r) \/ ReadTotal(r) \/ WithdrawRefund(r) \/ DepositRefund(r) => SameTables
           /\ InsertRefund(r) =>
                  \/ SameTables /\ Go(r, "rollback") /\ broken' = broken \cup {r}
                  \/ Adds(r) /\ Go(r, "commitRefund") /\ broken' = broken
           /\ UpdateStatus(r) =>
                  Marks(Settlement(r), IF total[r] + part[r] >= Amount(Settlement(r))
                                       THEN "refunded" ELSE "partially_refunded")
           /\ CommitRefund(r) \/ CommitStatus(r) \/ CommitFinal(r) \/ CommitRow(r) => Commits
           /\ RollbackRefund(r) => Undoes
           /\ CrashProcess => Undoes
  <1>1. IsTables(conn.data)
    BY DEF Places, Shape
  <1>2. ASSUME Arrive(r) PROVE SameTables
    <2>1. CASE LookupRefund(r)
      BY <2>1 DEF LookupRefund, SameTables
    <2>2. CASE WriteRow(r)
      <3> DEFINE d == [conn.data EXCEPT !.written = conn.data.written \cup {r}]
      <3>1. d.refunds = conn.data.refunds /\ d.status = conn.data.status
        BY <1>1, StatusSteps
      <3>2. conn' = ExecuteImplicit(conn, d)
        BY <2>2 DEF WriteRow
      <3> HIDE DEF d
      <3> QED
        BY <3>1, <3>2, Executes DEF SameTables
    <2>3. CASE RefusedRow(r)
      <3>1. conn' = ExecuteImplicit(conn, conn.data)
        BY <2>3 DEF RefusedRow
      <3> QED
        BY <3>1, Executes DEF SameTables
    <2> QED
      BY <1>2, <2>1, <2>2, <2>3 DEF Arrive
  <1>3. ASSUME BeginRefund(r) PROVE SameTables
    <2>1. conn' = Begin(conn) \/ conn' = conn
      BY <1>3 DEF BeginRefund
    <2> QED
      BY <2>1, Executes DEF SameTables
  <1>4. ASSUME ReadTotal(r) \/ WithdrawRefund(r) \/ DepositRefund(r) PROVE SameTables
    BY <1>4 DEF ReadTotal, WithdrawRefund, DepositRefund, SameTables
  <1>5. ASSUME InsertRefund(r)
        PROVE  \/ SameTables /\ Go(r, "rollback") /\ broken' = broken \cup {r}
               \/ Adds(r) /\ Go(r, "commitRefund") /\ broken' = broken
    <2> DEFINE d == [conn.data EXCEPT !.refunds = conn.data.refunds \cup {<<r, part[r]>>}]
    <2>1. d.refunds = conn.data.refunds \cup {<<r, part[r]>>} /\ d.status = conn.data.status
      BY <1>1, StatusSteps
    <2>2. \/ /\ conn' = ExecuteImplicit(conn, conn.data)
             /\ Go(r, "rollback") /\ broken' = broken \cup {r}
          \/ conn' = ExecuteImplicit(conn, d) /\ Go(r, "commitRefund") /\ broken' = broken
      BY <1>5 DEF InsertRefund, Break, history
    <2> HIDE DEF d
    <2> QED
      BY <2>1, <2>2, Executes DEF SameTables, Adds
  <1>6. ASSUME UpdateStatus(r)
        PROVE  Marks(Settlement(r), IF total[r] + part[r] >= Amount(Settlement(r))
                                    THEN "refunded" ELSE "partially_refunded")
    <2> DEFINE new == IF total[r] + part[r] >= Amount(Settlement(r))
                      THEN "refunded" ELSE "partially_refunded"
               d == [conn.data EXCEPT !.status[Settlement(r)] = new]
    <2>1. conn' = ExecuteImplicit(conn, d)
      BY <1>6 DEF UpdateStatus
    <2> HIDE DEF new
    <2>2. /\ d.refunds = conn.data.refunds
          /\ d.status = [conn.data.status EXCEPT ![Settlement(r)] = new]
      BY <1>1, StatusSteps
    <2> HIDE DEF d
    <2>3. Marks(Settlement(r), new)
      BY <2>1, <2>2, Executes DEF Marks
    <2> QED
      BY <2>3 DEF new
  <1>7. ASSUME CommitRefund(r) \/ CommitStatus(r) \/ CommitFinal(r) \/ CommitRow(r)
        PROVE  Commits
    <2>1. conn' = Commit(conn)
      BY <1>7 DEF CommitRefund, CommitStatus, CommitFinal, CommitRow
    <2> QED
      BY <2>1, Ends DEF Commits
  <1>8. ASSUME RollbackRefund(r) PROVE Undoes
    BY <1>8, Ends DEF RollbackRefund, Undoes
  <1>9. ASSUME CrashProcess PROVE Undoes
    BY <1>9, Ends DEF CrashProcess, Undoes
  <1> QED
    BY <1>2, <1>3, <1>4, <1>5, <1>6, <1>7, <1>8, <1>9

\* A settlement's sums are numbers, and the file's is not the larger.
LEMMA SumsAre ==
    ASSUME Places, Ledger, NEW s \in Settlements
    PROVE  /\ Seen(s) \in Nat /\ Saved(s) \in Nat /\ Saved(s) <= Seen(s)
           /\ IsRows(Refunds(conn.data, s), Requests)
           /\ IsRows(Refunds(conn.saved, s), Requests)
           /\ Amount(s) \in Nat
  <1> DEFINE R == conn.data.refunds
             D == Refunds(conn.data, s)
             V == Refunds(conn.saved, s)
  <1>1. IsRows(R, Requests) /\ D \in SUBSET R
    BY DEF Ledger, Refunds
  <1>2. V \in SUBSET D
    BY DEF Places, Grown, Refunds
  <1> HIDE DEF R, D, V
  <1>3. IsRows(D, Requests)
    BY <1>1, AmountsPart
  <1>4. IsRows(V, Requests) /\ Amounts(V) \in Nat /\ Amounts(D) \in Nat /\ Amounts(V) <= Amounts(D)
    BY <1>2, <1>3, AmountsPart
  <1>5. Amount(s) \in Nat
    BY RefundConstants DEF Amount
  <1> QED
    BY <1>3, <1>4, <1>5 DEF Seen, Saved, Refunded, D, V

\* There are no rows at the start.
LEMMA LedgerInit == Init => Ledger
  <1> SUFFICES ASSUME Init PROVE Ledger
    OBVIOUS
  <1>1. IsRows({}, Requests)
    BY FS_EmptySet DEF IsRows
  <1>2. /\ conn.data.refunds = {}
        /\ conn.data.status = [s \in Settlements |-> "settled"]
        /\ conn.saved.status = [s \in Settlements |-> "settled"]
    BY DEF Init, Connected
  <1>3. /\ job \in [Requests -> Job]
        /\ part \in [Requests -> Nat] /\ total \in [Requests -> Int]
        /\ took \in [Requests -> Nat] /\ gave \in [Requests -> Nat]
    BY RefundConstants DEF Init
  <1> QED
    BY <1>1, <1>2, <1>3 DEF Ledger, Statuses

\* Every column keeps its type.
LEMMA LedgerStep == Places /\ Ledger /\ [Next]_vars => Ledger'
  <1> SUFFICES ASSUME Places, Ledger, [Next]_vars PROVE Ledger'
    OBVIOUS
  <1> USE DEF funds, locals, environment, history
  <1>0. /\ Ledger /\ IsRows(conn.saved.refunds, Requests) /\ conn.saved.refunds \subseteq conn.data.refunds
    <2>1. conn.saved.refunds \in SUBSET conn.data.refunds
      BY DEF Places, Grown
    <2> QED
      BY <2>1, AmountsPart DEF Ledger
  <1>1. ASSUME UNCHANGED <<job, part, total, took, gave>>, SameTables \/ Commits \/ Undoes
        PROVE  Ledger'
    BY <1>0, <1>1 DEF Ledger, SameTables, Commits, Undoes
  <1>2. ASSUME NEW r \in Requests, Arrive(r) PROVE Ledger'
    <2>1. UNCHANGED <<job, part, total, took, gave>>
      BY <1>2 DEF Arrive, LookupRefund, WriteRow, RefusedRow
    <2> QED
      BY <1>2, <1>1, <2>1, TablesMove
  <1>3. ASSUME NEW r \in Requests,
               \/ BeginRefund(r) \/ CommitRefund(r) \/ CommitStatus(r) \/ CommitFinal(r)
               \/ CommitRow(r) \/ RollbackRefund(r)
        PROVE  Ledger'
    <2>1. UNCHANGED <<job, part, total, took, gave>>
      BY <1>3 DEF BeginRefund, CommitRefund, CommitStatus, CommitFinal, CommitRow, RollbackRefund
    <2> QED
      BY <1>3, <1>1, <2>1, TablesMove
  <1>4. ASSUME NEW r \in Requests, ReadTotal(r) PROVE Ledger'
    <2> DEFINE s == Settlement(r)
               left == Amount(s) - Seen(s)
               n == IF job[r].amount = 0 THEN left ELSE job[r].amount
    <2>1. s \in Settlements /\ job[r].amount \in Nat
      BY DEF Ledger, Job, Settlement
    <2>2. Seen(s) \in Nat /\ Amount(s) \in Nat
      BY <2>1, SumsAre
    <2>3. \/ UNCHANGED <<total, part>>
          \/ /\ n > 0 /\ total' = [total EXCEPT ![r] = Seen(s)]
             /\ part' = [part EXCEPT ![r] = n]
      BY <1>4 DEF ReadTotal, Seen
    <2>4. n \in Int
      BY <2>1, <2>2
    <2> HIDE DEF s, n
    <2>5. part' \in [Requests -> Nat] /\ total' \in [Requests -> Int]
      BY <1>0, <2>2, <2>3, <2>4 DEF Ledger
    <2>6. UNCHANGED <<job, took, gave>> /\ SameTables
      BY <1>4, TablesMove DEF ReadTotal
    <2> QED
      BY <1>0, <2>5, <2>6 DEF Ledger, SameTables
  <1>5. ASSUME NEW r \in Requests, WithdrawRefund(r) \/ DepositRefund(r) PROVE Ledger'
    <2>1. took' \in [Requests -> Nat] /\ gave' \in [Requests -> Nat]
      BY <1>0, <1>5 DEF WithdrawRefund, DepositRefund, Ledger
    <2>2. UNCHANGED <<job, part, total>> /\ SameTables
      BY <1>5, TablesMove DEF WithdrawRefund, DepositRefund
    <2> QED
      BY <1>0, <2>1, <2>2 DEF Ledger, SameTables
  <1>6. ASSUME NEW r \in Requests, InsertRefund(r) PROVE Ledger'
    <2>1. UNCHANGED <<job, part, total, took, gave>> /\ job[r].op = "refund"
      BY <1>6 DEF InsertRefund, Places, Roles, Running, Sheltered
    <2>2. CASE Adds(r)
      <3> DEFINE R == conn.data.refunds
      <3>1. IsRows(R \cup {<<r, part[r]>>}, Requests)
        <4>1. IsFiniteSet(R) /\ R \subseteq Requests \X Nat /\ part[r] \in Nat
          BY DEF Ledger, IsRows
        <4> HIDE DEF R
        <4>2. IsFiniteSet(R \cup {<<r, part[r]>>})
          BY <4>1, FS_AddElement
        <4> QED
          BY <4>1, <4>2 DEF IsRows
      <3> QED
        BY <1>0, <2>1, <2>2, <3>1 DEF Ledger, Adds
    <2> QED
      BY <1>6, <1>1, <2>1, <2>2, TablesMove
  <1>7. ASSUME NEW r \in Requests, UpdateStatus(r) PROVE Ledger'
    <2>1. UNCHANGED <<job, part, total, took, gave>>
      BY <1>7 DEF UpdateStatus
    <2>2. \E new \in Statuses : Marks(Settlement(r), new)
      BY <1>7, TablesMove DEF Statuses
    <2> QED
      BY <1>0, <2>1, <2>2 DEF Ledger, Marks
  <1>8. ASSUME NEW a \in Freezable, SetFrozen(a) PROVE Ledger'
    BY <1>8, <1>1 DEF SetFrozen, SameTables
  <1>t. ASSUME NEW r \in Requests, TimeOut(r) PROVE Ledger'
    BY <1>t, <1>1 DEF TimeOut, SameTables
  <1>9. CASE CrashProcess
    <2>1. Undoes
      BY <1>9, Ends DEF CrashProcess, Undoes
    <2> QED
      BY <1>9, <1>1, <2>1 DEF CrashProcess
  <1>10. CASE UNCHANGED vars
    BY <1>10, <1>1 DEF vars, SameTables
  <1> QED
    BY <1>t, <1>2, <1>3, <1>4, <1>5, <1>6, <1>7, <1>8, <1>9, <1>10 DEF Next, Terminating, Continue

\* What moved is in the row, or on its way to it.
LEMMA MovedStep == Places /\ Ledger /\ Promised /\ Moved /\ [Next]_vars => Moved'
  <1> SUFFICES ASSUME Places, Ledger, Promised, Moved, [Next]_vars PROVE Moved'
    OBVIOUS
  <1>0. /\ conn.saved.refunds \subseteq conn.data.refunds
        /\ pc \in [Requests -> {"new"} \cup Running \cup Terminal]
        /\ part \in [Requests -> Nat] /\ took \in [Requests -> Nat] /\ gave \in [Requests -> Nat]
    BY DEF Places, Shape, Grown, Ledger
  <1> USE <1>0 DEF Go, funds, locals, environment, history, Moved, Inserted
  <1>1. ASSUME NEW r \in Requests, Arrive(r) PROVE Moved'
    <2>1. SameTables
      BY <1>1, TablesMove
    <2> QED
      BY <1>1, <2>1 DEF Arrive, LookupRefund, WriteRow, RefusedRow, SameTables, Promised
  <1>2. ASSUME NEW r \in Requests, BeginRefund(r) \/ ReadTotal(r) PROVE Moved'
    <2>1. SameTables
      BY <1>2, TablesMove
    <2> QED
      BY <1>2, <2>1 DEF BeginRefund, ReadTotal, SameTables, Promised
  <1>3. ASSUME NEW r \in Requests, WithdrawRefund(r) \/ DepositRefund(r) PROVE Moved'
    <2>1. SameTables
      BY <1>3, TablesMove
    <2>2. CASE WithdrawRefund(r)
      <3>1. gave[r] = 0 \/ r \in broken
        BY <2>2 DEF WithdrawRefund, Promised
      <3> QED
        BY <2>1, <2>2, <3>1 DEF WithdrawRefund, SameTables
    <2>3. CASE DepositRefund(r)
      <3>1. \/ /\ gave' = [gave EXCEPT ![r] = part[r]] /\ broken' = broken
               /\ pc' = [pc EXCEPT ![r] = "insert"]
            \/ gave' = gave /\ broken' = broken \cup {r} /\ pc' = [pc EXCEPT ![r] = "rollback"]
        BY <2>3 DEF DepositRefund, Break
      <3>2. UNCHANGED <<took, part>> /\ pc[r] = "deposit"
        BY <2>3 DEF DepositRefund
      <3>3. r \notin broken => took[r] = part[r] /\ gave[r] = 0
        BY <3>2 DEF Promised
      <3>4. \A q \in Requests \ broken' : q \notin broken
        BY <3>1
      <3>5. /\ \A q \in Requests \ {r} : pc'[q] = pc[q] /\ gave'[q] = gave[q]
            /\ r \notin broken' => pc'[r] = "insert" /\ gave'[r] = took'[r]
        BY <3>1, <3>2, <3>3
      <3>6. \A x \in conn.data.refunds : x[1] = r => r \in broken
        BY <3>2
      <3>7. ASSUME NEW q \in Requests \ broken'
            PROVE  /\ gave'[q] > 0 =>
                          \/ <<q, gave'[q]>> \in conn'.saved.refunds
                          \/ pc'[q] = "commitRefund" /\ <<q, gave'[q]>> \in conn'.data.refunds
                          \/ pc'[q] = "insert"
                   /\ \A x \in conn'.data.refunds :
                          x[1] = q => x[2] = gave'[q] /\ pc'[q] \in Inserted
                   /\ took'[q] = IF pc'[q] = "deposit" THEN part'[q] ELSE gave'[q]
        <4>1. CASE q = r
          BY <2>1, <3>2, <3>4, <3>5, <3>6, <4>1 DEF SameTables
        <4>2. CASE q # r
          BY <2>1, <3>2, <3>4, <3>5, <4>2 DEF SameTables
        <4> QED
          BY <4>1, <4>2
      <3> QED
        BY <3>7
    <2> QED
      BY <1>3, <2>2, <2>3
  <1>4. ASSUME NEW r \in Requests, InsertRefund(r) PROVE Moved'
    <2>1. UNCHANGED <<job, part, took, gave>> /\ pc[r] = "insert"
      BY <1>4 DEF InsertRefund
    <2> QED
      BY <1>4, <2>1, TablesMove DEF SameTables, Adds, Promised
  <1>5. ASSUME NEW r \in Requests, UpdateStatus(r) PROVE Moved'
    <2>1. \E s, new : Marks(s, new)
      BY <1>5, TablesMove
    <2> QED
      BY <1>5, <2>1 DEF UpdateStatus, Marks, Promised
  <1>6. ASSUME NEW r \in Requests,
               CommitRefund(r) \/ CommitStatus(r) \/ CommitFinal(r) \/ CommitRow(r)
        PROVE  Moved'
    <2>1. Commits
      BY <1>6, TablesMove
    <2> QED
      BY <1>6, <2>1 DEF CommitRefund, CommitStatus, CommitFinal, CommitRow, Committing, Commits, Promised
  <1>7. ASSUME NEW r \in Requests, RollbackRefund(r) PROVE Moved'
    <2>1. Undoes
      BY <1>7, TablesMove
    <2> QED
      BY <1>7, <2>1 DEF RollbackRefund, RollingBack, Undoes, Sheltered
  <1>8. ASSUME NEW a \in Freezable, SetFrozen(a) PROVE Moved'
    BY <1>8 DEF SetFrozen
  <1>t. ASSUME NEW r \in Requests, TimeOut(r) PROVE Moved'
    BY <1>t DEF TimeOut, Moving, Running, Sheltered, Promised
  <1>9. CASE CrashProcess
    <2>1. Undoes
      BY <1>9, Ends DEF CrashProcess, Undoes
    <2> QED
      BY <1>9, <2>1 DEF CrashProcess, Moving, Undoes, Running, Sheltered
  <1>10. CASE UNCHANGED vars
    BY <1>10 DEF vars
  <1> QED
    BY <1>t, <1>1, <1>2, <1>3, <1>4, <1>5, <1>6, <1>7, <1>8, <1>9, <1>10 DEF Next, Terminating, Continue

\* What a step makes of a settlement's sums.
LEMMA SumsMove ==
    ASSUME Places, Ledger, job' = job, NEW s \in Settlements
    PROVE  /\ SameTables => Seen(s)' = Seen(s) /\ Saved(s)' = Saved(s)
           /\ \A q, new : Marks(q, new) => Seen(s)' = Seen(s) /\ Saved(s)' = Saved(s)
           /\ Commits => Seen(s)' = Seen(s) /\ Saved(s)' = Seen(s)
           /\ Undoes => Seen(s)' = Saved(s) /\ Saved(s)' = Saved(s)
           /\ \A r \in Requests : Adds(r) /\ <<r, part[r]>> \notin conn.data.refunds =>
                  /\ Saved(s)' = Saved(s)
                  /\ Seen(s)' = IF s = Settlement(r) THEN Seen(s) + part[r] ELSE Seen(s)
  <1> DEFINE D == Refunds(conn.data, s)
             V == Refunds(conn.saved, s)
  <1>1. SameTables => D' = D /\ V' = V
    BY DEF SameTables, Refunds, Settlement
  <1>2. ASSUME NEW q, NEW new, Marks(q, new) PROVE D' = D /\ V' = V
    BY <1>2 DEF Marks, Refunds, Settlement
  <1>3. Commits => D' = D /\ V' = D
    BY DEF Commits, Refunds, Settlement
  <1>4. Undoes => D' = V /\ V' = V
    BY DEF Undoes, Refunds, Settlement
  <1>5. ASSUME NEW r \in Requests, Adds(r), <<r, part[r]>> \notin conn.data.refunds
        PROVE  /\ V' = V
               /\ Amounts(D') = IF s = Settlement(r) THEN Amounts(D) + part[r] ELSE Amounts(D)
    <2>1. V' = V
      BY <1>5 DEF Adds, Refunds, Settlement
    <2>2. CASE s # Settlement(r)
      <3>1. D' = D
        BY <1>5, <2>2 DEF Adds, Refunds, Settlement
      <3> QED
        BY <2>1, <2>2, <3>1
    <2>3. CASE s = Settlement(r)
      <3>1. D' = D \cup {<<r, part[r]>>} /\ <<r, part[r]>> \notin D
        BY <1>5, <2>3 DEF Adds, Refunds, Settlement
      <3>2. IsRows(D, Requests) /\ part[r] \in Nat
        BY SumsAre DEF Ledger
      <3> HIDE DEF D, V
      <3>3. Amounts(D \cup {<<r, part[r]>>}) = Amounts(D) + part[r]
        BY <3>1, <3>2, AmountsAdd
      <3> QED
        BY <2>1, <2>3, <3>1, <3>3
    <2> QED
      BY <2>2, <2>3
  <1>6. Seen(s) = Amounts(D) /\ Saved(s) = Amounts(V)
    BY DEF Seen, Saved, Refunded
  <1>7. Seen(s)' = Amounts(D') /\ Saved(s)' = Amounts(V')
    BY DEF Seen, Saved, Refunded
  <1> HIDE DEF D, V
  <1>8. ASSUME NEW q, NEW new, Marks(q, new) PROVE Seen(s)' = Seen(s) /\ Saved(s)' = Saved(s)
    BY <1>2, <1>6, <1>7, <1>8
  <1>9. ASSUME NEW r \in Requests, Adds(r), <<r, part[r]>> \notin conn.data.refunds
        PROVE  /\ Saved(s)' = Saved(s)
               /\ Seen(s)' = IF s = Settlement(r) THEN Seen(s) + part[r] ELSE Seen(s)
    BY <1>5, <1>6, <1>7, <1>9
  <1> QED
    BY <1>1, <1>3, <1>4, <1>6, <1>7, <1>8, <1>9

\* No refund of an undisturbed settlement comes between another's reading of
\* the total and the row it inserts.
LEMMA CountedStep ==
    Places /\ Ledger /\ Apart /\ Moved /\ Counted /\ [Next]_vars => Counted'
  <1> SUFFICES ASSUME Places, Ledger, Apart, Moved, Counted, [Next]_vars,
                      NEW s \in Settlements, Unbroken(s)'
               PROVE  Right(s)'
    BY DEF Counted
  <1> USE DEF funds, locals, environment, history, Go
  <1>0. /\ pc \in [Requests -> {"new"} \cup Running \cup Terminal]
        /\ part \in [Requests -> Nat] /\ total \in [Requests -> Int]
        /\ Seen(s) \in Nat /\ Saved(s) \in Nat /\ Saved(s) <= Seen(s) /\ Amount(s) \in Nat
        /\ Of(s) \subseteq Requests
        /\ conn.data.status \in [Settlements -> Statuses]
        /\ conn.saved.status \in [Settlements -> Statuses]
    BY SumsAre DEF Places, Shape, Ledger, Of
  <1>1. ASSUME job' = job, broken \subseteq broken'
        PROVE  /\ Of(s)' = Of(s) /\ \A r \in Of(s) : r \notin broken' /\ r \notin broken
               /\ Right(s)
    <2>1. Of(s)' = Of(s)
      BY <1>1 DEF Of, Settlement
    <2>2. Unbroken(s) /\ \A r \in Of(s) : r \notin broken' /\ r \notin broken
      BY <1>1, <2>1 DEF Unbroken
    <2> QED
      BY <2>1, <2>2 DEF Counted
  <1>2. ASSUME NEW r \in Requests, Arrive(r) \/ BeginRefund(r) PROVE Right(s)'
    <2>1. /\ UNCHANGED <<job, broken, part, total>>
          /\ \E next \in {"done", "begin", "commitRow", "error", "read"} :
                 pc' = [pc EXCEPT ![r] = next]
      BY <1>2 DEF Arrive, LookupRefund, WriteRow, RefusedRow, BeginRefund
    <2>2. SameTables /\ Seen(s)' = Seen(s) /\ Saved(s)' = Saved(s)
      BY <1>2, <2>1, TablesMove, SumsMove
    <2> QED
      BY <1>0, <1>1, <2>1, <2>2 DEF SameTables, Right
  <1>3. ASSUME NEW r \in Requests, ReadTotal(r) PROVE Right(s)'
    <2>1. /\ UNCHANGED <<job, broken>> /\ SameTables
          /\ Seen(s)' = Seen(s) /\ Saved(s)' = Saved(s)
      BY <1>3, TablesMove, SumsMove DEF ReadTotal
    <2>2. Settlement(r) = s =>
              \/ pc' = [pc EXCEPT ![r] = "rollback"] /\ UNCHANGED <<total, part>>
              \/ /\ pc' = [pc EXCEPT ![r] = "withdraw"]
                 /\ total' = [total EXCEPT ![r] = Seen(s)]
                 /\ \E n : part' = [part EXCEPT ![r] = n] /\ n <= Amount(s) - Seen(s) /\ n \in Int
      <3>1. job[r].amount \in Int
        BY DEF Ledger, Job
      <3> QED
        BY <1>0, <1>3, <3>1 DEF ReadTotal, Seen
    <2>3. /\ \A q \in Requests \ {r} : pc'[q] = pc[q] /\ total'[q] = total[q] /\ part'[q] = part[q]
          /\ Settlement(r) # s => r \notin Of(s)
      BY <1>0, <1>3 DEF ReadTotal, Of
    <2> QED
      BY <1>0, <1>1, <2>1, <2>2, <2>3 DEF SameTables, Right
  <1>4. ASSUME NEW r \in Requests, WithdrawRefund(r) \/ DepositRefund(r) PROVE Right(s)'
    <2>1. /\ UNCHANGED <<job, part, total>> /\ broken \subseteq broken' /\ SameTables
          /\ Seen(s)' = Seen(s) /\ Saved(s)' = Saved(s)
      BY <1>4, TablesMove, SumsMove DEF WithdrawRefund, DepositRefund, Break
    <2>2. \/ pc' = [pc EXCEPT ![r] = "rollback"]
          \/ pc[r] = "withdraw" /\ pc' = [pc EXCEPT ![r] = "deposit"]
          \/ pc[r] = "deposit" /\ pc' = [pc EXCEPT ![r] = "insert"]
      BY <1>4 DEF WithdrawRefund, DepositRefund
    <2> QED
      BY <1>0, <1>1, <2>1, <2>2 DEF SameTables, Right
  <1>5. ASSUME NEW r \in Requests, InsertRefund(r) PROVE Right(s)'
    <2>1. UNCHANGED <<job, part, total>> /\ broken \subseteq broken' /\ pc[r] = "insert"
      BY <1>5 DEF InsertRefund, Break
    <2>2. CASE SameTables /\ pc' = [pc EXCEPT ![r] = "rollback"]
      <3>1. Seen(s)' = Seen(s) /\ Saved(s)' = Saved(s)
        BY <2>1, <2>2, SumsMove
      <3> QED
        BY <1>0, <1>1, <2>1, <2>2, <3>1 DEF SameTables, Right
    <2>3. CASE Adds(r) /\ pc' = [pc EXCEPT ![r] = "commitRefund"]
      <3>1. CASE Settlement(r) = s
        <4>1. r \in Of(s) /\ r \notin broken /\ r \notin broken'
          BY <1>1, <2>1, <3>1 DEF Of, Places, Roles, Running, Sheltered
        <4>2. <<r, part[r]>> \notin conn.data.refunds
          BY <2>1, <4>1 DEF Moved, Inserted
        <4>3. Seen(s)' = Seen(s) + part[r] /\ Saved(s)' = Saved(s)
          BY <2>1, <2>3, <3>1, <4>2, SumsMove
        <4>4. \A q \in Of(s) : pc[q] \in {"withdraw", "deposit", "insert"} => q = r
          BY <1>0, <1>1, <2>1, <4>1 DEF Apart, Sheltering, Sheltered
        <4> QED
          BY <1>0, <1>1, <2>1, <2>3, <4>1, <4>3, <4>4 DEF Adds, Right
      <3>2. CASE Settlement(r) # s
        <4>1. <<r, part[r]>> \notin conn.data.refunds => Seen(s)' = Seen(s) /\ Saved(s)' = Saved(s)
          BY <2>1, <2>3, <3>2, SumsMove
        <4>2. <<r, part[r]>> \in conn.data.refunds => SameTables
          BY <2>3 DEF Adds, SameTables
        <4>3. Seen(s)' = Seen(s) /\ Saved(s)' = Saved(s)
          BY <2>1, <4>1, <4>2, SumsMove
        <4>4. r \notin Of(s)
          BY <3>2 DEF Of
        <4> QED
          BY <1>0, <1>1, <2>1, <2>3, <4>3, <4>4 DEF Adds, Right
      <3> QED
        BY <3>1, <3>2
    <2> QED
      BY <1>5, <2>2, <2>3, TablesMove
  <1>6. ASSUME NEW r \in Requests, UpdateStatus(r) PROVE Right(s)'
    <2> DEFINE new == IF total[r] + part[r] >= Amount(Settlement(r))
                      THEN "refunded" ELSE "partially_refunded"
    <2>1. /\ UNCHANGED <<job, part, total, broken>> /\ pc[r] = "update"
          /\ pc' = [pc EXCEPT ![r] = "commitStatus"]
      BY <1>6 DEF UpdateStatus
    <2>2. Marks(Settlement(r), new)
      BY <1>6, TablesMove
    <2>3. Seen(s)' = Seen(s) /\ Saved(s)' = Saved(s)
      BY <2>1, <2>2, SumsMove
    <2>4. Settlement(r) = s => r \in Of(s)
      BY <2>1 DEF Of, Places, Roles, Running
    <2>5. conn'.data.status[s] = "refunded" => Seen(s) = Amount(s)
      BY <1>0, <1>1, <2>1, <2>2, <2>4 DEF Marks, Right
    <2> QED
      BY <1>0, <1>1, <2>1, <2>2, <2>3, <2>5 DEF Marks, Right
  <1>7. ASSUME NEW r \in Requests,
               CommitRefund(r) \/ CommitStatus(r) \/ CommitFinal(r) \/ CommitRow(r)
        PROVE  Right(s)'
    <2>1. /\ UNCHANGED <<job, part, total>>
          /\ broken' = broken \cup {q \in Requests \ {r} : pc[q] \in Sheltered}
          /\ \/ pc[r] = "commitRefund" /\ pc' = [pc EXCEPT ![r] = "update"]
             \/ pc' = [pc EXCEPT ![r] = "final"]
             \/ pc' = [pc EXCEPT ![r] = "done"]
      BY <1>7 DEF CommitRefund, CommitStatus, CommitFinal, CommitRow, Committing
    <2>2. Commits /\ Seen(s)' = Seen(s) /\ Saved(s)' = Seen(s)
      BY <1>7, <2>1, TablesMove, SumsMove
    <2> QED
      BY <1>0, <1>1, <2>1, <2>2 DEF Commits, Right
  <1>8. ASSUME NEW r \in Requests, RollbackRefund(r) PROVE Right(s)'
    <2>1. /\ UNCHANGED <<job, part, total>> /\ pc' = [pc EXCEPT ![r] = "error"]
          /\ broken \subseteq broken'
          /\ \A q \in Requests \ {r} :
                 pc[q] \in Sheltered \cup {"commitRefund"} => q \in broken'
      BY <1>8 DEF RollbackRefund, RollingBack
    <2>2. Undoes /\ Seen(s)' = Saved(s) /\ Saved(s)' = Saved(s)
      BY <1>8, <2>1, TablesMove, SumsMove
    <2>3. \A q \in Of(s) : pc'[q] \notin Sheltered \cup {"commitRefund"}
      BY <1>0, <1>1, <2>1 DEF Sheltered
    <2> QED
      BY <1>0, <1>1, <2>1, <2>2, <2>3 DEF Undoes, Right, Sheltered
  <1>9. ASSUME NEW a \in Freezable, SetFrozen(a) PROVE Right(s)'
    <2>1. UNCHANGED <<job, conn, pc, part, total, broken>>
      BY <1>9 DEF SetFrozen
    <2>2. SameTables /\ Seen(s)' = Seen(s) /\ Saved(s)' = Saved(s)
      BY <2>1, SumsMove DEF SameTables
    <2> QED
      BY <1>1, <2>1, <2>2 DEF Right
  <1>t. ASSUME NEW r \in Requests, TimeOut(r) PROVE Right(s)'
    <2>1. /\ UNCHANGED <<job, part, total>> /\ broken \subseteq broken'
          /\ pc' = [pc EXCEPT ![r] = "504"] /\ SameTables
      BY <1>t DEF TimeOut, SameTables
    <2>2. Seen(s)' = Seen(s) /\ Saved(s)' = Saved(s)
      BY <2>1, SumsMove
    <2> QED
      BY <1>0, <1>1, <2>1, <2>2 DEF SameTables, Right
  <1>10. CASE CrashProcess
    <2>1. /\ UNCHANGED <<job, part, total>> /\ broken \subseteq broken'
          /\ \A q \in Requests : pc'[q] \notin Sheltered \cup {"commitRefund", "update"}
      BY <1>0, <1>10 DEF CrashProcess, Running, Sheltered, Terminal
    <2>2. Undoes
      BY <1>10, Ends DEF CrashProcess, Undoes
    <2>3. Seen(s)' = Saved(s) /\ Saved(s)' = Saved(s)
      BY <2>1, <2>2, SumsMove
    <2> QED
      BY <1>0, <1>1, <2>1, <2>2, <2>3 DEF Undoes, Right, Sheltered
  <1>11. CASE UNCHANGED vars
    <2>1. UNCHANGED <<job, conn, pc, part, total, broken>>
      BY <1>11 DEF vars
    <2>2. SameTables /\ Seen(s)' = Seen(s) /\ Saved(s)' = Saved(s)
      BY <2>1, SumsMove DEF SameTables
    <2> QED
      BY <1>1, <2>1, <2>2 DEF Right
  <1> QED
    BY <1>t, <1>2, <1>3, <1>4, <1>5, <1>6, <1>7, <1>8, <1>9, <1>10, <1>11 DEF Next, Terminating, Continue

\* The inductive invariant, of every behaviour.
Kept == Places /\ Ledger /\ Apart /\ Promised /\ Moved /\ Counted
\* It holds of every behaviour.
LEMMA KeptHolds == Spec => []Kept
  <1>1. Init => Kept
    <2> SUFFICES ASSUME Init PROVE Kept
      OBVIOUS
    <2>1. Places /\ Ledger
      BY PlacesInit, LedgerInit
    <2>2. Apart /\ Promised
      BY DEF Init, Apart, Sheltering, Sheltered, Promised
    <2>3. /\ \A r \in Requests : pc[r] = "new" /\ gave[r] = 0 /\ took[r] = 0
          /\ conn.data.refunds = {}
          /\ \A s \in Settlements : conn.data.status[s] = "settled" /\ conn.saved.status[s] = "settled"
      BY DEF Init, Connected
    <2>4. Moved
      BY <2>3 DEF Moved
    <2>5. ASSUME NEW s \in Settlements PROVE Right(s)
      <3>1. Refunds(conn.data, s) = {}
        BY <2>3 DEF Refunds
      <3>2. Seen(s) = 0
        <4>1. \A f : Sum(f, {}) = 0
          BY SumEmpty
        <4> QED
          BY <3>1, <4>1 DEF Seen, Refunded, Amounts
      <3>3. Amount(s) \in Nat
        BY <2>1, SumsAre
      <3> QED
        BY <2>3, <3>2, <3>3 DEF Right, Of
    <2> QED
      BY <2>1, <2>2, <2>4, <2>5 DEF Kept, Counted
  <1>2. Kept /\ [Next]_vars => Kept'
    BY PlacesStep, LedgerStep, ApartStep, PromisedStep, MovedStep, CountedStep DEF Kept
  <1> QED
    BY <1>1, <1>2, PTL DEF Spec

\* The rows of an undisturbed settlement, and the refunds that wrote them.
LEMMA RowsTell ==
    ASSUME Kept, NEW s \in Settlements, Unbroken(s)
    PROVE  LET O == {x[1] : x \in Refunds(conn.data, s)}
               P == {x[1] : x \in Refunds(conn.saved, s)}
           IN  /\ O \subseteq Of(s) /\ Seen(s) = Sum(gave, O)
               /\ P \subseteq O /\ Saved(s) = Sum(gave, P)
               /\ \A r \in Of(s) \ O : gave[r] > 0 => pc[r] = "insert"
               /\ \A r \in Of(s) \ P : gave[r] > 0 => pc[r] \in {"insert", "commitRefund"}
  <1> DEFINE D == Refunds(conn.data, s)
             V == Refunds(conn.saved, s)
             O == {x[1] : x \in D}
             P == {x[1] : x \in V}
  <1>1. Places /\ Ledger /\ Moved /\ conn.saved.refunds \subseteq conn.data.refunds
    BY DEF Kept, Places, Grown
  <1>2. IsRows(D, Requests) /\ IsRows(V, Requests) /\ V \subseteq D
    BY <1>1, SumsAre DEF Refunds
  <1>3. O \subseteq Of(s) /\ P \subseteq O
    BY <1>1, <1>2 DEF Ledger, Of, Refunds, IsRows
  <1>4. \A x \in D : x[2] = gave[x[1]]
    BY <1>1, <1>3 DEF Moved, Unbroken, Refunds, Of
  <1>5. /\ \A r \in Of(s) \ O : gave[r] > 0 => pc[r] = "insert"
        /\ \A r \in Of(s) \ P : gave[r] > 0 => pc[r] \in {"insert", "commitRefund"}
    <2>1. ASSUME NEW r \in Of(s)
          PROVE  /\ r \in Requests \ broken /\ Settlement(r) = s
                 /\ <<r, gave[r]>> \in conn.data.refunds => r \in O
                 /\ <<r, gave[r]>> \in conn.saved.refunds => r \in P
      BY DEF Unbroken, Of, Refunds
    <2> HIDE DEF O, P
    <2> QED
      BY <1>1, <2>1 DEF Moved
  <1> HIDE DEF D, V
  <1>6. Amounts(D) = Sum(gave, O) /\ Amounts(V) = Sum(gave, P)
    BY <1>2, <1>4, AmountsMoved
  <1> QED
    BY <1>3, <1>5, <1>6 DEF Seen, Saved, Refunded, D, V

\* However many refunds of a settlement compete, crash or are retried, the
\* payer is given back no more than was settled, nor do the rows say so, as
\* long as nobody commits into their transactions.
THEOREM RefundNeverExceeds == Spec => []RefundBounded
  <1>1. Kept => RefundBounded
    <2> SUFFICES ASSUME Kept, NEW s \in Settlements, Unbroken(s)
                 PROVE  Refunded(conn.data, s) <= Amount(s) /\ Sum(gave, Of(s)) <= Amount(s)
      BY DEF RefundBounded
    <2> DEFINE O == {x[1] : x \in Refunds(conn.data, s)}
    <2>1. /\ Seen(s) <= Amount(s) /\ Seen(s) \in Nat /\ Amount(s) \in Nat
          /\ \A r \in Of(s) : pc[r] = "insert" =>
                 total[r] = Seen(s) /\ total[r] + part[r] <= Amount(s) /\ gave[r] = part[r]
          /\ \A r, q \in Of(s) : pc[r] = "insert" /\ pc[q] = "insert" => q = r
      BY SumsAre DEF Kept, Counted, Right, Promised, Apart, Sheltering, Sheltered, Unbroken, Of
    <2>2. /\ IsFiniteSet(Of(s)) /\ IsFiniteSet(O)
          /\ (\A r \in Of(s) : gave[r] \in Nat) /\ (\A r \in Of(s) : gave[r] \in Int)
          /\ O \subseteq Of(s) /\ Seen(s) = Sum(gave, O)
          /\ \A r \in Of(s) \ O : gave[r] > 0 => pc[r] = "insert"
      <3>1. Of(s) \in SUBSET Requests /\ O \subseteq Of(s)
        BY RowsTell DEF Of
      <3>2. IsFiniteSet(Of(s)) /\ IsFiniteSet(O)
        BY <3>1, RefundTables, FS_Subset
      <3>3. /\ (\A r \in Of(s) : gave[r] \in Nat) /\ (\A r \in Of(s) : gave[r] \in Int)
        BY <3>1 DEF Kept, Ledger
      <3>4. /\ Seen(s) = Sum(gave, O)
            /\ \A r \in Of(s) \ O : gave[r] > 0 => pc[r] = "insert"
        BY RowsTell
      <3> QED
        BY <3>1, <3>2, <3>3, <3>4
    <2> HIDE DEF O
    <2>3. CASE \A r \in Of(s) : pc[r] # "insert"
      <3>1. \A r \in Of(s) \ O : gave[r] = 0
        BY <2>2, <2>3
      <3>2. Sum(gave, Of(s)) = Sum(gave, O)
        BY <2>2, <3>1, SumOnly
      <3> QED
        BY <2>1, <2>2, <3>2 DEF Seen
    <2>4. ASSUME NEW r \in Of(s), pc[r] = "insert" PROVE Sum(gave, Of(s)) <= Amount(s)
      <3>1. CASE r \in O
        <4>1. \A q \in Of(s) \ O : gave[q] = 0
          BY <2>1, <2>2, <2>4, <3>1
        <4>2. Sum(gave, Of(s)) = Sum(gave, O)
          BY <2>2, <4>1, SumOnly
        <4> QED
          BY <2>1, <2>2, <4>2 DEF Seen
      <3>2. CASE r \notin O
        <4>1. \A q \in Of(s) \ (O \cup {r}) : gave[q] = 0
          BY <2>1, <2>2, <2>4, <3>2
        <4>2. Sum(gave, Of(s)) = Sum(gave, O \cup {r})
          BY <2>2, <4>1, SumOnly
        <4>3. \A x \in O \cup {r} : gave[x] \in Int
          BY <2>2
        <4>4. Sum(gave, O \cup {r}) = Sum(gave, O) + gave[r]
          BY <2>2, <3>2, <4>3, SumAdd
        <4> QED
          BY <2>1, <2>2, <2>4, <4>2, <4>4
      <3> QED
        BY <3>1, <3>2
    <2> QED
      BY <2>1, <2>3, <2>4 DEF Seen
  <1> QED
    BY <1>1, KeptHolds, PTL

\* When nobody is at work on a settlement, its rows in the file are what the
\* payee paid and what the payer received, in the other database: also after
\* refusals, rollbacks and crashes that left its refunds alone.
THEOREM RefundRowsMatchFunds == Spec => []RefundsMatchFunds
  <1>1. Kept => RefundsMatchFunds
    <2> SUFFICES ASSUME Kept, NEW s \in Settlements, Unbroken(s), Idle(s)
                 PROVE  /\ Saved(s) = Sum(gave, Of(s))
                        /\ Sum(took, Of(s)) = Sum(gave, Of(s))
      BY DEF RefundsMatchFunds, Saved
    <2> DEFINE P == {x[1] : x \in Refunds(conn.saved, s)}
    <2>1. Of(s) \in SUBSET Requests /\ P \subseteq Of(s) /\ Saved(s) = Sum(gave, P)
      BY RowsTell DEF Of
    <2>2. /\ IsFiniteSet(Of(s))
          /\ (\A r \in Of(s) : gave[r] \in Int) /\ (\A r \in Of(s) : gave[r] \in Nat)
          /\ \A r \in Of(s) : took[r] = gave[r]
      <3>1. IsFiniteSet(Of(s))
        BY <2>1, RefundTables, FS_Subset
      <3>2. \A r \in Of(s) : gave[r] \in Nat /\ r \in Requests \ broken /\ pc[r] # "deposit"
        BY <2>1 DEF Kept, Ledger, Unbroken, Idle, Terminal
      <3>3. \A r \in Of(s) : took[r] = gave[r]
        BY <3>2 DEF Kept, Moved
      <3> QED
        BY <3>1, <3>2, <3>3
    <2>3. \A r \in Of(s) \ P : gave[r] = 0
      <3>1. \A r \in Of(s) \ P : gave[r] > 0 => pc[r] \in {"insert", "commitRefund"}
        BY RowsTell
      <3> QED
        BY <2>2, <3>1 DEF Idle, Terminal
    <2> HIDE DEF P
    <2>4. Sum(gave, Of(s)) = Sum(gave, P)
      BY <2>1, <2>2, <2>3, SumOnly
    <2>5. Sum(gave, Of(s)) = Sum(took, Of(s))
      BY <2>2, SumSame
    <2> QED
      BY <2>1, <2>4, <2>5
  <1> QED
    BY <1>1, KeptHolds, PTL

\* What the file calls refunded has been refunded in full: the status is
\* computed from a total that was read before, and is nevertheless right.
THEOREM RefundStatusNotAhead == Spec => []StatusNotAhead
  <1>1. Kept => StatusNotAhead
    BY DEF Kept, Counted, Right, Saved, StatusNotAhead
  <1> QED
    BY <1>1, KeptHolds, PTL
=============================================================================
