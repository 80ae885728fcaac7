---------------------------- MODULE WalletProofs ----------------------------
(***************************************************************************)
(* Theorems about Wallet for every workload, every number of requests,     *)
(* crashes and timeouts: types, balances never negative, acknowledged      *)
(* operations are durable.  Then its money: the file implements the        *)
(* abstract ledger, balances and ledger rows agree when nothing is in      *)
(* flight, a keyed operation moves the balance once, auto-reload restores  *)
(* the threshold.                                                          *)
(***************************************************************************)
EXTENDS Wallet, SumLemmas, TLAPS

\* The wallet's steps without stuttering bookkeeping, for the case splits.
Step(r) == Arrive(r) \/ Continue(r)

\* Every statement, commit and rollback keeps a connection well-typed and
\* settled: the shape all the storage methods share.
LEMMA ConnectionSteps ==
    ASSUME NEW D, NEW c \in Connection(D), Settled(c), NEW d \in D
    PROVE  /\ ExecuteAutocommit(c, d) \in Connection(D)
           /\ Settled(ExecuteAutocommit(c, d))
           /\ Begin(c) \in Connection(D) /\ Settled(Begin(c))
           /\ Commit(c) \in Connection(D) /\ Settled(Commit(c))
           /\ Rollback(c) \in Connection(D) /\ Settled(Rollback(c))
           /\ Crash(c) \in Connection(D) /\ Settled(Crash(c))
  BY DEF Connection, Settled, ExecuteAutocommit, Begin, Commit, Rollback,
         Crash, Connected

\* A leg moves one account by an integer.
LEMMA LegTypes ==
    ASSUME job \in [Requests -> Job], NEW r \in Requests, NEW p \in Parts
    PROVE  AccountOf(r, p) \in Accounts /\ AmountOf(r, p) \in Int
  BY WalletConstants DEF AccountOf, AmountOf, Accounts, Job, Parts

LEMMA WithLegTypes ==
    ASSUME job \in [Requests -> Job], NEW r \in Requests, NEW p \in Parts,
           NEW d \in Tables
    PROVE  WithLeg(d, r, p) \in Tables
  <1>1. AccountOf(r, p) \in Accounts /\ AmountOf(r, p) \in Int
    BY LegTypes
  <1>2. <<r, p>> \in Legs
    BY DEF Legs
  <1> DEFINE a == AccountOf(r, p)
             m == AmountOf(r, p)
             b == [d.balance EXCEPT ![a] = @ + m]
             s == d.applied \cup {<<r, p>>}
  <1>3. WithLeg(d, r, p) = [d EXCEPT !.balance = b, !.applied = s]
    BY DEF WithLeg, Tables
  <1>4. b \in [Accounts -> Int]
    <2> HIDE DEF a, m
    <2>1. a \in Accounts /\ m \in Int
      BY <1>1 DEF a, m
    <2>2. d.balance \in [Accounts -> Int]
      BY DEF Tables
    <2> HIDE DEF Accounts
    <2> QED
      BY <2>1, <2>2
  <1>5. s \in SUBSET Legs
    BY <1>2 DEF Tables
  <1> HIDE DEF b, s
  <1> QED
    BY <1>3, <1>4, <1>5 DEF Tables

\* What TypeOK says of the connection.
ConnOK == conn \in Connection(Tables) /\ Settled(conn)

LEMMA WriteOK ==
    ASSUME ConnOK, NEW d \in Tables, Write(d)
    PROVE  ConnOK'
  <1> HIDE DEF Tables
  <1> QED
    BY ConnectionSteps DEF Write, ConnOK

LEMMA TransactionOK ==
    ASSUME ConnOK
    PROVE  /\ conn' = Begin(conn) => ConnOK'
           /\ conn' = Commit(conn) => ConnOK'
           /\ conn' = Rollback(conn) => ConnOK'
           /\ conn' = Crash(conn) => ConnOK'
           /\ conn' = conn => ConnOK'
  <1>1. conn' = conn => ConnOK'
    BY DEF ConnOK, Settled
  <1>2. conn.data \in Tables
    BY DEF ConnOK, Connection
  <1> HIDE DEF Tables
  <1> QED
    BY <1>1, <1>2, ConnectionSteps DEF ConnOK

\* Every action leaves the connection well-typed and settled.
LEMMA ConnStep ==
    ASSUME TypeOK, NEW r \in Requests, Step(r)
    PROVE  ConnOK'
  <1> USE DEF TypeOK
  <1>0. ConnOK /\ job \in [Requests -> Job] /\ db \in Tables
    BY WalletConstants DEF ConnOK, db, Connection
  <1>1. ASSUME UNCHANGED conn PROVE ConnOK'
    BY <1>0, <1>1, TransactionOK
  <1>2. ASSUME conn' = Begin(conn) \/ conn' = Commit(conn) \/ conn' = Rollback(conn)
        PROVE  ConnOK'
    BY <1>0, <1>2, TransactionOK
  <1>3. ASSUME NEW p \in Parts, Write(WithLeg(db, r, p)) PROVE ConnOK'
    BY <1>0, <1>3, WithLegTypes, WriteOK
  <1>4. ASSUME NEW l \in Legs, \/ Write([db EXCEPT !.rows = @ \cup {l}])
                              \/ Write([db EXCEPT !.events = @ \cup {l}])
        PROVE  ConnOK'
    <2>1. /\ [db EXCEPT !.rows = @ \cup {l}] \in Tables
          /\ [db EXCEPT !.events = @ \cup {l}] \in Tables
      BY <1>0 DEF Tables
    <2> QED
      BY <1>0, <1>4, <2>1, WriteOK
  <1>5. \A p \in Parts : <<r, p>> \in Legs
    BY DEF Legs
  <1>6. loc[r].leg \in Parts /\ {"bonus", "main", "to", "reload"} \subseteq Parts
    BY DEF Parts
  <1>7. CASE Lookup(r)
    BY <1>7, <1>1, <1>2 DEF Lookup
  <1>8. CASE Enter(r)
    BY <1>8, <1>1, <1>2 DEF Enter
  <1>9. CASE CheckNoWallet(r)
    BY <1>9, <1>1, <1>2 DEF CheckNoWallet
  <1>10. CASE Check(r)
    BY <1>10, <1>1, <1>2 DEF Check
  <1>11. CASE BeginTxn(r)
    BY <1>11, <1>1, <1>2 DEF BeginTxn
  <1>12. CASE Update(r)
    <2>1. Write(WithLeg(db, r, loc[r].leg)) \/ Write(db)
      BY <1>12 DEF Update
    <2> QED
      BY <2>1, <1>0, <1>3, <1>6, WriteOK
  <1>13. CASE CommitTxn(r)
    BY <1>13, <1>1, <1>2 DEF CommitTxn
  <1>14. CASE InsertRow(r)
    <2>1. UNCHANGED conn \/ Write([db EXCEPT !.rows = @ \cup {<<r, loc[r].leg>>}])
      BY <1>14 DEF InsertRow
    <2> QED
      BY <2>1, <1>1, <1>4, <1>5, <1>6
  <1>15. CASE CommitRow(r)
    BY <1>15, <1>1, <1>2 DEF CommitRow
  <1>16. CASE EmitEvent(r)
    BY <1>16, <1>4, <1>5, <1>6 DEF EmitEvent
  <1>17. CASE CommitEvent(r)
    BY <1>17, <1>1, <1>2 DEF CommitEvent
  <1>18. CASE MaybeReload(r)
    BY <1>18, <1>1, <1>2 DEF MaybeReload
  <1>19. CASE InsertWallet(r)
    <2> DEFINE a == job[r].agent
               d == [db EXCEPT !.wallets = @ \cup {a},
                               !.balance[<<a, CREDITS>>] = @ + (SignupBonus + job[r].amount),
                               !.applied = @ \cup {<<r, "bonus">>, <<r, "main">>}]
    <2>1. UNCHANGED conn \/ Write(d)
      BY <1>19 DEF InsertWallet
    <2>2. d \in Tables
      <3>1. a \in Agents /\ SignupBonus + job[r].amount \in Int /\ <<a, CREDITS>> \in Accounts
        BY <1>0, WalletConstants DEF Job, Accounts
      <3> DEFINE b == [db.balance EXCEPT ![<<a, CREDITS>>] = @ + (SignupBonus + job[r].amount)]
      <3>2. b \in [Accounts -> Int]
        BY <1>0, <3>1 DEF Tables
      <3>3. <<r, "bonus">> \in Legs /\ <<r, "main">> \in Legs
        BY <1>5, <1>6
      <3>4. d = [db EXCEPT !.wallets = @ \cup {a}, !.balance = b,
                          !.applied = @ \cup {<<r, "bonus">>, <<r, "main">>}]
        BY <1>0 DEF Tables
      <3> HIDE DEF b, a
      <3> QED
        BY <1>0, <3>1, <3>2, <3>3, <3>4 DEF Tables
    <2> HIDE DEF d
    <2> QED
      BY <2>1, <2>2, <1>0, <1>1, WriteOK
  <1>20. CASE CommitWallet(r)
    BY <1>20, <1>1, <1>2 DEF CommitWallet
  <1>21. CASE BeginConversion(r)
    BY <1>21, <1>1, <1>2 DEF BeginConversion
  <1>22. CASE DebitSource(r)
    BY <1>22, <1>1, <1>3, <1>6 DEF DebitSource
  <1>23. CASE CreditTarget(r)
    BY <1>23, <1>1, <1>3, <1>6 DEF CreditTarget
  <1>24. CASE RecordConversion(r)
    BY <1>24, <1>4, <1>5, <1>6 DEF RecordConversion
  <1>25. CASE CommitConversion(r)
    BY <1>25, <1>1, <1>2 DEF CommitConversion
  <1>26. CASE UndoConversion(r)
    BY <1>26, <1>1, <1>2 DEF UndoConversion
  <1>27. CASE Configure(r)
    <2> DEFINE a == {job[r].agent}
               d == CASE job[r].op = "freeze" -> [db EXCEPT !.frozen = @ \cup a]
                      [] job[r].op = "unfreeze" -> [db EXCEPT !.frozen = @ \ a]
                      [] job[r].op = "enable_reload" -> [db EXCEPT !.reloading = @ \cup a]
                      [] OTHER -> [db EXCEPT !.reloading = @ \ a]
    <2>1. Write(d)
      BY <1>27 DEF Configure
    <2>2. d \in Tables
      <3>1. a \in SUBSET Agents
        BY <1>0 DEF Job
      <3> QED
        BY <1>0, <3>1 DEF Tables
    <2> HIDE DEF d
    <2> QED
      BY <2>1, <2>2, <1>0, WriteOK
  <1>28. CASE CommitConfig(r)
    BY <1>28, <1>1, <1>2 DEF CommitConfig
  <1> QED
    BY <1>7, <1>8, <1>9, <1>10, <1>11, <1>12, <1>13, <1>14, <1>15, <1>16, <1>17, <1>18, <1>19, <1>20, <1>21, <1>22, <1>23, <1>24, <1>25, <1>26, <1>27, <1>28 DEF Step, Arrive, Continue

-----------------------------------------------------------------------------
\* The coroutine's own bookkeeping keeps its types.
LEMMA LocalStep ==
    ASSUME TypeOK, NEW r \in Requests, Step(r)
    PROVE  /\ job' = job /\ faults' = faults
           /\ holder' \in Requests \cup {NoOne}
           /\ pc' \in [Requests -> {"new"} \cup Running \cup Terminal]
           /\ loc' \in [Requests -> [leg : Parts, ok : BOOLEAN, seen : Int]]
           /\ tainted' \in BOOLEAN
           /\ raced' \subseteq Keys
  <1> USE DEF TypeOK, Keep, History, Go, Running, Terminal
  <1>0. job \in [Requests -> Job] /\ {"bonus", "main", "to", "reload"} \subseteq Parts
    BY WalletConstants DEF Parts
  <1>1. CASE Lookup(r)
    <2>1. raced' \subseteq Keys
      BY <1>1, <1>0 DEF Lookup, Job
    <2> QED
      BY <1>1, <2>1 DEF Lookup
  <1>2. CASE Enter(r)
    BY <1>2, <1>0 DEF Enter
  <1>3. CASE CheckNoWallet(r)
    BY <1>3, <1>0 DEF CheckNoWallet
  <1>4. CASE Check(r)
    BY <1>4, <1>0 DEF Check
  <1>5. CASE BeginTxn(r)
    BY <1>5, <1>0 DEF BeginTxn
  <1>6. CASE Update(r)
    <2> DEFINE p == loc[r].leg
               a == AccountOf(r, p)
               amt == AmountOf(r, p)
               ok == /\ amt < 0 => db.balance[a] >= -amt
                     /\ amt >= 0 /\ a[2] = CREDITS => a[1] \in db.wallets
               d == IF ok THEN WithLeg(db, r, p) ELSE db
    <2>1. ok \in BOOLEAN
      <3> HIDE DEF a, amt
      <3> QED
        OBVIOUS
    <2>2. d.balance[a] \in Int
      <3>1. p \in Parts /\ db \in Tables
        BY DEF db, Connection
      <3>2. a \in Accounts
        BY <1>0, <3>1, LegTypes
      <3>3. d \in Tables
        BY <1>0, <3>1, WithLegTypes
      <3> QED
        BY <3>2, <3>3 DEF Tables
    <2>3. loc' = [loc EXCEPT ![r].ok = ok, ![r].seen = d.balance[a]]
      BY <1>6 DEF Update
    <2> HIDE DEF ok, d
    <2>4. loc' \in [Requests -> [leg : Parts, ok : BOOLEAN, seen : Int]]
      BY <2>1, <2>2, <2>3
    <2> QED
      BY <1>6, <2>4 DEF Update
  <1>7. CASE CommitTxn(r)
    BY <1>7, <1>0 DEF CommitTxn
  <1>8. CASE InsertRow(r)
    BY <1>8, <1>0 DEF InsertRow
  <1>9. CASE CommitRow(r)
    BY <1>9, <1>0 DEF CommitRow
  <1>10. CASE EmitEvent(r)
    BY <1>10, <1>0 DEF EmitEvent
  <1>11. CASE CommitEvent(r)
    BY <1>11, <1>0 DEF CommitEvent
  <1>12. CASE MaybeReload(r)
    BY <1>12, <1>0 DEF MaybeReload
  <1>13. CASE InsertWallet(r)
    BY <1>13, <1>0 DEF InsertWallet
  <1>14. CASE CommitWallet(r)
    BY <1>14, <1>0 DEF CommitWallet
  <1>15. CASE BeginConversion(r)
    BY <1>15, <1>0 DEF BeginConversion
  <1>16. CASE DebitSource(r)
    BY <1>16, <1>0 DEF DebitSource
  <1>17. CASE CreditTarget(r)
    BY <1>17, <1>0 DEF CreditTarget
  <1>18. CASE RecordConversion(r)
    BY <1>18, <1>0 DEF RecordConversion
  <1>19. CASE CommitConversion(r)
    BY <1>19, <1>0 DEF CommitConversion
  <1>20. CASE UndoConversion(r)
    BY <1>20, <1>0 DEF UndoConversion
  <1>21. CASE Configure(r)
    BY <1>21, <1>0 DEF Configure
  <1>22. CASE CommitConfig(r)
    BY <1>22, <1>0 DEF CommitConfig
  <1> QED
    BY <1>1, <1>2, <1>3, <1>4, <1>5, <1>6, <1>7, <1>8, <1>9, <1>10, <1>11, <1>12, <1>13, <1>14, <1>15, <1>16, <1>17, <1>18, <1>19, <1>20, <1>21, <1>22 DEF Step, Arrive, Continue

LEMMA InitType == Init => TypeOK
  <1> SUFFICES ASSUME Init PROVE TypeOK
    OBVIOUS
  <1>1. Tables0 \in Tables
    BY WalletConstants DEF Tables0, Tables
  <1>2. conn \in Connection(Tables) /\ Settled(conn)
    <2> HIDE DEF Tables, Tables0
    <2> QED
      BY <1>1 DEF Init, Connection, Connected, Settled
  <1>3. loc \in [Requests -> [leg : Parts, ok : BOOLEAN, seen : Int]]
    BY DEF Init, Local0, Parts
  <1>4. pc \in [Requests -> {"new"} \cup Running \cup Terminal]
    BY DEF Init
  <1>5. faults \in 0..MaxFaults
    BY WalletConstants DEF Init
  <1>6. /\ job \in Workloads /\ holder \in Requests \cup {NoOne}
        /\ tainted \in BOOLEAN /\ raced \subseteq Keys
    BY DEF Init
  <1> QED
    BY <1>2, <1>3, <1>4, <1>5, <1>6 DEF TypeOK

LEMMA NextType == TypeOK /\ [Next]_vars => TypeOK'
  <1> SUFFICES ASSUME TypeOK, [Next]_vars PROVE TypeOK'
    OBVIOUS
  <1>1. ASSUME NEW r \in Requests, Step(r) PROVE TypeOK'
    BY <1>1, ConnStep, LocalStep DEF TypeOK, ConnOK
  <1>2. CASE CrashProcess
    <2>1. ConnOK'
      BY <1>2, TransactionOK DEF CrashProcess, TypeOK, ConnOK
    <2> QED
      BY <1>2, <2>1, WalletConstants
         DEF CrashProcess, TypeOK, ConnOK, Terminal, Running
  <1>4. ASSUME NEW r \in Requests, TimeOut(r) PROVE TypeOK'
    BY <1>4, WalletConstants DEF TimeOut, TypeOK, Go, Settled, Terminal, Running
  <1>3. CASE UNCHANGED vars
    BY <1>3 DEF vars, TypeOK, Settled
  <1> QED
    BY <1>1, <1>2, <1>3, <1>4 DEF Next, Step, Idle

\* Every reachable state is well-typed and the connection is settled whenever
\* no transaction is open.
THEOREM WalletTypes == Spec => []TypeOK
  BY InitType, NextType, PTL DEF Spec

-----------------------------------------------------------------------------
(***************************************************************************)
(* Which operation may be where: the handlers share steps, so what a step  *)
(* means for a request depends on how it got there.                        *)
(***************************************************************************)
SimpleOps == {"deposit", "withdraw", "charge"}

Shape(r) ==
    /\ job[r].op \in SimpleOps =>
          /\ pc[r] \in {"new", "check", "begin", "update", "commit", "row",
                       "rowCommit", "event", "eventCommit", "reload"} \cup Terminal
          /\ loc[r].leg \in {"main", "reload"}
    /\ job[r].op = "convert" =>
          /\ pc[r] \in {"new", "check", "cBegin", "cDebit", "cCredit", "cRow1",
                       "cRow2", "cCommit", "cUndo", "event", "eventCommit"} \cup Terminal
          /\ loc[r].leg \in {"main", "to"}
    /\ job[r].op = "create" =>
          pc[r] \in {"new", "insertWallet", "insertCommit", "row", "rowCommit",
                    "event", "eventCommit"} \cup Terminal
    /\ job[r].op \in ConfigOps =>
          pc[r] \in {"new", "config", "configCommit"} \cup Terminal
    /\ pc[r] \in {"new", "check"} => loc[r].leg = "main"

ShapeOK == \A r \in Requests : Shape(r)

\* A step of r leaves every other request where it is.
LEMMA OthersStay ==
    ASSUME TypeOK, NEW r \in Requests, Step(r), NEW s \in Requests, s # r
    PROVE  pc'[s] = pc[s] /\ loc'[s] = loc[s] /\ job' = job
  <1> USE DEF TypeOK, Keep, Go
  <1>1. CASE Lookup(r)
    BY <1>1 DEF Lookup
  <1>2. CASE Enter(r)
    BY <1>2 DEF Enter
  <1>3. CASE CheckNoWallet(r)
    BY <1>3 DEF CheckNoWallet
  <1>4. CASE Check(r)
    BY <1>4 DEF Check
  <1>5. CASE BeginTxn(r)
    BY <1>5 DEF BeginTxn
  <1>6. CASE Update(r)
    BY <1>6 DEF Update
  <1>7. CASE CommitTxn(r)
    BY <1>7 DEF CommitTxn
  <1>8. CASE InsertRow(r)
    BY <1>8 DEF InsertRow
  <1>9. CASE CommitRow(r)
    BY <1>9 DEF CommitRow
  <1>10. CASE EmitEvent(r)
    BY <1>10 DEF EmitEvent
  <1>11. CASE CommitEvent(r)
    BY <1>11 DEF CommitEvent
  <1>12. CASE MaybeReload(r)
    BY <1>12 DEF MaybeReload
  <1>13. CASE InsertWallet(r)
    BY <1>13 DEF InsertWallet
  <1>14. CASE CommitWallet(r)
    BY <1>14 DEF CommitWallet
  <1>15. CASE BeginConversion(r)
    BY <1>15 DEF BeginConversion
  <1>16. CASE DebitSource(r)
    BY <1>16 DEF DebitSource
  <1>17. CASE CreditTarget(r)
    BY <1>17 DEF CreditTarget
  <1>18. CASE RecordConversion(r)
    BY <1>18 DEF RecordConversion
  <1>19. CASE CommitConversion(r)
    BY <1>19 DEF CommitConversion
  <1>20. CASE UndoConversion(r)
    BY <1>20 DEF UndoConversion
  <1>21. CASE Configure(r)
    BY <1>21 DEF Configure
  <1>22. CASE CommitConfig(r)
    BY <1>22 DEF CommitConfig
  <1> QED
    BY <1>1, <1>2, <1>3, <1>4, <1>5, <1>6, <1>7, <1>8, <1>9, <1>10, <1>11, <1>12, <1>13, <1>14, <1>15, <1>16, <1>17, <1>18, <1>19, <1>20, <1>21, <1>22 DEF Step, Arrive, Continue

LEMMA ShapeStep ==
    ASSUME TypeOK, ShapeOK, NEW r \in Requests, Step(r)
    PROVE  ShapeOK'
  <1>0. /\ job' = job /\ job[r].op \in MoneyOps \cup ConfigOps
        /\ pc \in [Requests -> {"new"} \cup Running \cup Terminal]
        /\ loc \in [Requests -> [leg : Parts, ok : BOOLEAN, seen : Int]]
    BY LocalStep, WalletConstants DEF TypeOK, Job
  <1>1. ASSUME NEW s \in Requests, s # r PROVE Shape(s)'
    BY <1>1, OthersStay DEF ShapeOK, Shape
  <1>2. Shape(r)'
    <2> USE <1>0 DEF ShapeOK, Shape, Go, SimpleOps, ConfigOps, MoneyOps, Terminal
    <2>1. CASE Lookup(r)
      BY <2>1 DEF Lookup
    <2>2. CASE Enter(r)
      BY <2>2 DEF Enter
    <2>3. CASE CheckNoWallet(r)
      BY <2>3 DEF CheckNoWallet
    <2>4. CASE Check(r)
      BY <2>4 DEF Check
    <2>5. CASE BeginTxn(r)
      BY <2>5 DEF BeginTxn
    <2>6. CASE Update(r)
      BY <2>6 DEF Update
    <2>7. CASE CommitTxn(r)
      BY <2>7 DEF CommitTxn
    <2>8. CASE InsertRow(r)
      BY <2>8 DEF InsertRow
    <2>9. CASE CommitRow(r)
      BY <2>9 DEF CommitRow
    <2>10. CASE EmitEvent(r)
      BY <2>10 DEF EmitEvent
    <2>11. CASE CommitEvent(r)
      BY <2>11 DEF CommitEvent
    <2>12. CASE MaybeReload(r)
      BY <2>12 DEF MaybeReload
    <2>13. CASE InsertWallet(r)
      BY <2>13 DEF InsertWallet
    <2>14. CASE CommitWallet(r)
      BY <2>14 DEF CommitWallet
    <2>15. CASE BeginConversion(r)
      BY <2>15 DEF BeginConversion
    <2>16. CASE DebitSource(r)
      BY <2>16 DEF DebitSource
    <2>17. CASE CreditTarget(r)
      BY <2>17 DEF CreditTarget
    <2>18. CASE RecordConversion(r)
      BY <2>18 DEF RecordConversion
    <2>19. CASE CommitConversion(r)
      BY <2>19 DEF CommitConversion
    <2>20. CASE UndoConversion(r)
      BY <2>20 DEF UndoConversion
    <2>21. CASE Configure(r)
      BY <2>21 DEF Configure
    <2>22. CASE CommitConfig(r)
      BY <2>22 DEF CommitConfig
    <2> QED
      BY <2>1, <2>2, <2>3, <2>4, <2>5, <2>6, <2>7, <2>8, <2>9, <2>10, <2>11, <2>12, <2>13, <2>14, <2>15, <2>16, <2>17, <2>18, <2>19, <2>20, <2>21, <2>22 DEF Step, Arrive, Continue
  <1> QED
    BY <1>1, <1>2 DEF ShapeOK

LEMMA InitShape == Init => ShapeOK
  BY WalletConstants DEF Init, ShapeOK, Shape, Local0, SimpleOps

LEMMA NextShape == TypeOK /\ ShapeOK /\ [Next]_vars => ShapeOK'
  <1> SUFFICES ASSUME TypeOK, ShapeOK, [Next]_vars PROVE ShapeOK'
    OBVIOUS
  <1>1. ASSUME NEW r \in Requests, Step(r) PROVE ShapeOK'
    BY <1>1, ShapeStep
  <1>2. CASE CrashProcess
    BY <1>2 DEF CrashProcess, ShapeOK, Shape, TypeOK, Terminal, Running
  <1>4. ASSUME NEW r \in Requests, TimeOut(r) PROVE ShapeOK'
    BY <1>4 DEF TimeOut, ShapeOK, Shape, TypeOK, Go, Terminal, Running
  <1>3. CASE UNCHANGED vars
    BY <1>3 DEF vars, ShapeOK, Shape
  <1> QED
    BY <1>1, <1>2, <1>3, <1>4 DEF Next, Step, Idle

-----------------------------------------------------------------------------
(***************************************************************************)
(* Balances.  Only three statements lower or set a balance: the guarded    *)
(* UPDATE, the conversion's guarded debit and the INSERT of a wallet.      *)
(***************************************************************************)
NoDebt(d) == \A a \in Accounts : d.balance[a] >= 0

LEMMA WithLegNoDebt ==
    ASSUME job \in [Requests -> Job], NEW r \in Requests, NEW p \in Parts,
           NEW d \in Tables, NoDebt(d),
           d.balance[AccountOf(r, p)] + AmountOf(r, p) >= 0
    PROVE  NoDebt(WithLeg(d, r, p))
  <1>1. AccountOf(r, p) \in Accounts /\ AmountOf(r, p) \in Int
    BY LegTypes
  <1>2. WithLeg(d, r, p).balance =
            [d.balance EXCEPT ![AccountOf(r, p)] = @ + AmountOf(r, p)]
    BY DEF WithLeg, Tables
  <1>3. d.balance \in [Accounts -> Int]
    BY DEF Tables
  <1> HIDE DEF Accounts
  <1> QED
    BY <1>1, <1>2, <1>3 DEF NoDebt

LEMMA NonNegativeStep ==
    ASSUME TypeOK, ShapeOK, NonNegative, NEW r \in Requests, Step(r)
    PROVE  NonNegative'
  <1>0. /\ job \in [Requests -> Job] /\ db \in Tables /\ conn.saved \in Tables
        /\ NoDebt(db) /\ NoDebt(conn.saved)
        /\ loc[r].leg \in Parts /\ {"bonus", "main", "to", "reload"} \subseteq Parts
    BY WalletConstants DEF TypeOK, Connection, NonNegative, NoDebt, db, Parts
  <1>1. ASSUME UNCHANGED conn \/ conn' = Begin(conn) \/ conn' = Commit(conn)
               \/ conn' = Rollback(conn)
        PROVE  NonNegative'
    BY <1>0, <1>1 DEF NonNegative, NoDebt, db, Begin, Commit, Rollback, Connected,
                      TypeOK, Connection
  <1>2. ASSUME NEW d \in Tables, NoDebt(d), Write(d)
        PROVE  NonNegative'
    BY <1>0, <1>2 DEF NonNegative, NoDebt, db, Write, ExecuteAutocommit,
                      TypeOK, Connection
  <1>3. CASE Update(r)
    <2> DEFINE p == loc[r].leg
               a == AccountOf(r, p)
               m == AmountOf(r, p)
    <2>1. a \in Accounts /\ m \in Int /\ db.balance[a] \in Int /\ db.balance[a] >= 0
      BY <1>0, LegTypes DEF Tables, NoDebt
    <2>2. \/ Write(db)
          \/ Write(WithLeg(db, r, p)) /\ (m < 0 => db.balance[a] >= -m)
      BY <1>3 DEF Update
    <2>3. CASE Write(db)
      BY <2>3, <1>0, <1>2
    <2>4. CASE Write(WithLeg(db, r, p)) /\ (m < 0 => db.balance[a] >= -m)
      <3>1. db.balance[a] + m >= 0
        <4> HIDE DEF a, m
        <4> QED
          BY <2>1, <2>4
      <3> QED
        BY <1>0, <1>2, <2>4, <3>1, WithLegNoDebt, WithLegTypes
    <2> QED
      BY <2>2, <2>3, <2>4
  <1>4. CASE DebitSource(r)
    <2>1. CASE UNCHANGED conn
      BY <2>1, <1>1
    <2>2. CASE /\ db.balance[AccountOf(r, "main")] >= job[r].amount
               /\ Write(WithLeg(db, r, "main"))
      <3>1. job[r].amount \in Int /\ AccountOf(r, "main") \in Accounts
        BY <1>0, LegTypes DEF Job
      <3>2. db.balance[AccountOf(r, "main")] \in Int
        BY <1>0, <3>1 DEF Tables
      <3>3. job[r].op = "convert"
        BY <1>0, <1>4, ShapeOK
           DEF DebitSource, ShapeOK, Shape, SimpleOps, Terminal, Job, MoneyOps
      <3>4. AmountOf(r, "main") = -job[r].amount
        BY <3>3 DEF AmountOf
      <3>5. db.balance[AccountOf(r, "main")] + AmountOf(r, "main") >= 0
        BY <2>2, <3>1, <3>2, <3>4
      <3> QED
        BY <1>0, <1>2, <2>2, <3>5, WithLegNoDebt, WithLegTypes
    <2> QED
      BY <2>1, <2>2, <1>4 DEF DebitSource
  <1>5. CASE CreditTarget(r)
    <2>1. AccountOf(r, "to") \in Accounts /\ AmountOf(r, "to") \in Nat
      <3>1. AccountOf(r, "to") \in Accounts
        BY <1>0, LegTypes
      <3>2. job[r].gain \in Nat
        BY <1>0 DEF Job
      <3>3. AmountOf(r, "to") = job[r].gain
        BY DEF AmountOf
      <3> QED
        BY <3>1, <3>2, <3>3
    <2>2. db.balance[AccountOf(r, "to")] \in Int /\ db.balance[AccountOf(r, "to")] >= 0
      BY <1>0, <2>1 DEF Tables, NoDebt
    <2>3. db.balance[AccountOf(r, "to")] + AmountOf(r, "to") >= 0
      BY <2>1, <2>2
    <2> QED
      BY <1>0, <1>2, <1>5, <2>3, WithLegNoDebt, WithLegTypes DEF CreditTarget
  <1>6. CASE InsertWallet(r)
    <2> DEFINE a == job[r].agent
               initial == SignupBonus + job[r].amount
               b == [db.balance EXCEPT ![<<a, CREDITS>>] = @ + initial]
               d == [db EXCEPT !.wallets = @ \cup {a},
                               !.balance[<<a, CREDITS>>] = @ + initial,
                               !.applied = @ \cup {<<r, "bonus">>, <<r, "main">>}]
    <2>1. UNCHANGED conn \/ (Write(d) /\ ~(initial < 0))
      BY <1>6 DEF InsertWallet
    <2>2. d.balance = b
      BY <1>0 DEF Tables
    <2>3. a \in Agents /\ initial \in Int /\ <<a, CREDITS>> \in Accounts
      BY <1>0, WalletConstants DEF Job, Accounts
    <2>4. ~(initial < 0) => \A x \in Accounts : b[x] >= 0
      <3>1. db.balance \in [Accounts -> Int]
        BY <1>0 DEF Tables
      <3> HIDE DEF initial, a, Accounts
      <3> QED
        BY <1>0, <2>3, <3>1 DEF NoDebt
    <2> HIDE DEF d, initial
    <2> QED
      BY <1>0, <1>1, <2>1, <2>2, <2>4
         DEF NonNegative, NoDebt, db, Write, ExecuteAutocommit, TypeOK, Connection
  \* Rows, events and configuration.
  <1>7. ASSUME NEW d, Write(d), d.balance = db.balance
        PROVE  NonNegative'
    BY <1>0, <1>7 DEF NonNegative, NoDebt, db, Write, ExecuteAutocommit,
                      TypeOK, Connection
  <1>8. /\ \A S : [db EXCEPT !.rows = S].balance = db.balance
        /\ \A S : [db EXCEPT !.events = S].balance = db.balance
        /\ \A S : [db EXCEPT !.frozen = S].balance = db.balance
        /\ \A S : [db EXCEPT !.reloading = S].balance = db.balance
    BY <1>0 DEF Tables
  <1>9. CASE Lookup(r)
    BY <1>9, <1>1 DEF Lookup
  <1>10. CASE Enter(r)
    BY <1>10, <1>1 DEF Enter
  <1>11. CASE CheckNoWallet(r)
    BY <1>11, <1>1 DEF CheckNoWallet
  <1>12. CASE Check(r)
    BY <1>12, <1>1 DEF Check
  <1>13. CASE BeginTxn(r)
    BY <1>13, <1>1 DEF BeginTxn
  <1>14. CASE CommitTxn(r)
    BY <1>14, <1>1 DEF CommitTxn
  <1>15. CASE CommitRow(r)
    BY <1>15, <1>1 DEF CommitRow
  <1>16. CASE CommitEvent(r)
    BY <1>16, <1>1 DEF CommitEvent
  <1>17. CASE MaybeReload(r)
    BY <1>17, <1>1 DEF MaybeReload
  <1>18. CASE CommitWallet(r)
    BY <1>18, <1>1 DEF CommitWallet
  <1>19. CASE BeginConversion(r)
    BY <1>19, <1>1 DEF BeginConversion
  <1>20. CASE CommitConversion(r)
    BY <1>20, <1>1 DEF CommitConversion
  <1>21. CASE UndoConversion(r)
    BY <1>21, <1>1 DEF UndoConversion
  <1>22. CASE CommitConfig(r)
    BY <1>22, <1>1 DEF CommitConfig
  <1>23. CASE InsertRow(r)
    BY <1>23, <1>1, <1>7, <1>8 DEF InsertRow
  <1>24. CASE EmitEvent(r)
    BY <1>24, <1>7, <1>8 DEF EmitEvent
  <1>25. CASE RecordConversion(r)
    BY <1>25, <1>7, <1>8 DEF RecordConversion
  <1>26. CASE Configure(r)
    BY <1>26, <1>7, <1>8 DEF Configure
  <1> QED
    BY <1>3, <1>4, <1>5, <1>6, <1>9, <1>10, <1>11, <1>12, <1>13, <1>14, <1>15, <1>16, <1>17, <1>18, <1>19, <1>20, <1>21, <1>22, <1>23, <1>24, <1>25, <1>26 DEF Step, Arrive, Continue

LEMMA NextNonNegative ==
    TypeOK /\ ShapeOK /\ NonNegative /\ [Next]_vars => NonNegative'
  <1> SUFFICES ASSUME TypeOK, ShapeOK, NonNegative, [Next]_vars PROVE NonNegative'
    OBVIOUS
  <1>1. ASSUME NEW r \in Requests, Step(r) PROVE NonNegative'
    BY <1>1, NonNegativeStep
  <1>2. CASE CrashProcess
    BY <1>2 DEF CrashProcess, Crash, Connected, NonNegative
  <1>4. ASSUME NEW r \in Requests, TimeOut(r) PROVE NonNegative'
    BY <1>4 DEF TimeOut, NonNegative
  <1>3. CASE UNCHANGED vars
    BY <1>3 DEF vars, NonNegative
  <1> QED
    BY <1>1, <1>2, <1>3, <1>4 DEF Next, Step, Idle

\* No interleaving, rollback or crash ever shows or leaves an account below
\* zero: the guards of the two debiting UPDATEs are enough, whoever ends the
\* transaction they run in.
THEOREM WalletNonNegative == Spec => []NonNegative
  <1>1. Init => NonNegative
    BY WalletConstants DEF Init, NonNegative, Connected, Tables0
  <1> QED
    BY <1>1, InitType, NextType, InitShape, NextShape, NextNonNegative, PTL DEF Spec

-----------------------------------------------------------------------------
(***************************************************************************)
(* Durability of acknowledged operations.  Ack(r) follows the balance      *)
(* change and the ledger row of r through its handler: first visible on    *)
(* the connection, then in the file.                                       *)
(***************************************************************************)
\* Nothing durable is missing from what the connection shows.
Grows == /\ conn.saved.applied \subseteq conn.data.applied
         /\ conn.saved.rows \subseteq conn.data.rows

Posted(r, p) == <<r, p>> \in conn.saved.applied /\ <<r, p>> \in conn.saved.rows

AckSimple(r) ==
    /\ pc[r] = "commit" /\ loc[r].ok /\ loc[r].leg = "main" =>
          <<r, "main">> \in conn.data.applied
    /\ pc[r] = "row" /\ loc[r].leg = "main" =>
          <<r, "main">> \in conn.saved.applied
    /\ pc[r] = "rowCommit" /\ loc[r].leg = "main" =>
          <<r, "main">> \in conn.saved.applied /\ <<r, "main">> \in conn.data.rows
    /\ \/ pc[r] \in {"event", "eventCommit", "reload", "done"}
       \/ loc[r].leg = "reload" /\ pc[r] \in {"begin", "update", "commit", "row", "rowCommit"}
       => Posted(r, "main")

AckConvert(r) ==
    /\ pc[r] \in {"cCredit", "cRow1", "cRow2", "cCommit"} =>
          <<r, "main">> \in conn.data.applied
    /\ pc[r] \in {"cRow1", "cRow2", "cCommit"} => <<r, "to">> \in conn.data.applied
    /\ pc[r] \in {"cRow2", "cCommit"} => <<r, "main">> \in conn.data.rows
    /\ pc[r] = "cCommit" => <<r, "to">> \in conn.data.rows
    /\ pc[r] \in {"event", "eventCommit", "done"} =>
          Posted(r, "main") /\ Posted(r, "to")

Ack(r) == /\ job[r].op \in SimpleOps => AckSimple(r)
          /\ job[r].op = "convert" => AckConvert(r)

AckInv == Grows /\ (~tainted => \A r \in Requests : Ack(r))

\* As long as no rollback discarded anything, applied legs and rows only grow,
\* on the connection and in the file.
Monotone == /\ conn.data.applied \subseteq conn'.data.applied
            /\ conn.data.rows \subseteq conn'.data.rows
            /\ conn.saved.applied \subseteq conn'.saved.applied
            /\ conn.saved.rows \subseteq conn'.saved.rows

LEMMA MonotoneStep ==
    ASSUME TypeOK, Grows, NEW r \in Requests, Step(r)
    PROVE  /\ Grows'
           /\ ~tainted' => ~tainted /\ Monotone
  <1>0. db \in Tables /\ conn \in Connection(Tables) /\ loc[r].leg \in Parts
    BY DEF TypeOK, Connection, db
  <1>1. ASSUME \/ UNCHANGED conn \/ conn' = Begin(conn) \/ conn' = Commit(conn)
        PROVE  Grows' /\ Monotone
    BY <1>0, <1>1 DEF Grows, Monotone, Begin, Commit, Connected, Connection
  <1>2. ASSUME NEW d, Write(d),
               db.applied \subseteq d.applied, db.rows \subseteq d.rows
        PROVE  Grows' /\ Monotone
    BY <1>0, <1>2 DEF Grows, Monotone, Write, ExecuteAutocommit, Connection, db
  <1>3. ASSUME NEW p PROVE /\ db.applied \subseteq WithLeg(db, r, p).applied
                          /\ db.rows \subseteq WithLeg(db, r, p).rows
    BY <1>0 DEF WithLeg, Tables
  <1>4. ASSUME NEW S
        PROVE  /\ [db EXCEPT !.rows = @ \cup S].applied = db.applied
               /\ [db EXCEPT !.rows = @ \cup S].rows = db.rows \cup S
               /\ [db EXCEPT !.events = @ \cup S].applied = db.applied
               /\ [db EXCEPT !.events = @ \cup S].rows = db.rows
               /\ [db EXCEPT !.frozen = S].applied = db.applied
               /\ [db EXCEPT !.frozen = S].rows = db.rows
               /\ [db EXCEPT !.reloading = S].applied = db.applied
               /\ [db EXCEPT !.reloading = S].rows = db.rows
    BY <1>0 DEF Tables
  <1>5. CASE Lookup(r)
    BY <1>5, <1>1 DEF Lookup, History
  <1>6. CASE Enter(r)
    BY <1>6, <1>1 DEF Enter, History
  <1>7. CASE CheckNoWallet(r)
    BY <1>7, <1>1 DEF CheckNoWallet, History
  <1>8. CASE Check(r)
    BY <1>8, <1>1 DEF Check, History
  <1>9. CASE BeginTxn(r)
    BY <1>9, <1>1 DEF BeginTxn, History
  <1>10. CASE CommitTxn(r)
    BY <1>10, <1>1 DEF CommitTxn, History
  <1>11. CASE CommitRow(r)
    BY <1>11, <1>1 DEF CommitRow, History
  <1>12. CASE CommitEvent(r)
    BY <1>12, <1>1 DEF CommitEvent, History
  <1>13. CASE MaybeReload(r)
    BY <1>13, <1>1 DEF MaybeReload, History
  <1>14. CASE CommitWallet(r)
    BY <1>14, <1>1 DEF CommitWallet, History
  <1>15. CASE BeginConversion(r)
    BY <1>15, <1>1 DEF BeginConversion, History
  <1>16. CASE CommitConversion(r)
    BY <1>16, <1>1 DEF CommitConversion, History
  <1>17. CASE CommitConfig(r)
    BY <1>17, <1>1 DEF CommitConfig, History
  <1>18. CASE Update(r)
    <2>1. (Write(WithLeg(db, r, loc[r].leg)) \/ Write(db)) /\ UNCHANGED tainted
      BY <1>18 DEF Update, History
    <2> QED
      BY <2>1, <1>2, <1>3
  <1>19. CASE DebitSource(r)
    BY <1>19, <1>1, <1>2, <1>3 DEF DebitSource, History
  <1>20. CASE CreditTarget(r)
    BY <1>20, <1>1, <1>2, <1>3 DEF CreditTarget, History
  <1>21. CASE InsertRow(r)
    BY <1>21, <1>1, <1>2, <1>4 DEF InsertRow, History
  <1>22. CASE EmitEvent(r)
    BY <1>22, <1>1, <1>2, <1>4 DEF EmitEvent, History
  <1>23. CASE RecordConversion(r)
    BY <1>23, <1>1, <1>2, <1>4 DEF RecordConversion, History
  <1>24. CASE Configure(r)
    <2>1. PICK S : \/ Write([db EXCEPT !.frozen = S])
                  \/ Write([db EXCEPT !.reloading = S])
      BY <1>24 DEF Configure
    <2> QED
      BY <2>1, <1>24, <1>2, <1>4 DEF Configure, History
  <1>25. CASE InsertWallet(r)
    <2> DEFINE a == job[r].agent
               d == [db EXCEPT !.wallets = @ \cup {a},
                               !.balance[<<a, CREDITS>>] = @ + (SignupBonus + job[r].amount),
                               !.applied = @ \cup {<<r, "bonus">>, <<r, "main">>}]
    <2>1. UNCHANGED conn \/ Write(d)
      BY <1>25 DEF InsertWallet
    <2>2. db.applied \subseteq d.applied /\ db.rows \subseteq d.rows
      BY <1>0 DEF Tables
    <2> HIDE DEF d
    <2> QED
      BY <2>1, <2>2, <1>1, <1>2, <1>25 DEF InsertWallet, History
  <1>26. CASE UndoConversion(r)
    BY <1>26, <1>0 DEF UndoConversion, Rollback, Connected, Grows, Monotone, Connection
  <1> QED
    BY <1>5, <1>6, <1>7, <1>8, <1>9, <1>10, <1>11, <1>12, <1>13, <1>14, <1>15, <1>16, <1>17, <1>18, <1>19, <1>20, <1>21, <1>22, <1>23, <1>24, <1>25, <1>26 DEF Step, Arrive, Continue

\* The request that moves: its balance change and row are where Ack says.
LEMMA AckOwnStep ==
    ASSUME TypeOK, ShapeOK, Grows, NEW r \in Requests, Ack(r), Step(r),
           Monotone
    PROVE  Ack(r)'
  <1>0. /\ job' = job /\ job[r].op \in MoneyOps \cup ConfigOps
        /\ pc \in [Requests -> {"new"} \cup Running \cup Terminal]
        /\ loc \in [Requests -> [leg : Parts, ok : BOOLEAN, seen : Int]]
        /\ db \in Tables /\ conn \in Connection(Tables) /\ db = conn.data
    BY LocalStep, WalletConstants DEF TypeOK, Job, Connection, db
  <1>1. Shape(r)
    BY DEF ShapeOK
  <1>c. ASSUME conn' = Commit(conn)
        PROVE  conn'.saved = conn.data /\ conn'.data = conn.data
    BY <1>c DEF Commit, Connected
  <1>w. ASSUME NEW d, Write(d) PROVE conn'.data = d
    BY <1>w, <1>0 DEF Write, ExecuteAutocommit, Connection
  <1>l. ASSUME NEW p PROVE <<r, p>> \in WithLeg(db, r, p).applied
    BY <1>0 DEF WithLeg, Tables
  <1>s. ASSUME NEW l PROVE l \in [db EXCEPT !.rows = @ \cup {l}].rows
    BY <1>0 DEF Tables
  <1> USE <1>0, <1>1 DEF Shape, Ack, AckSimple, AckConvert, Posted, Go,
          SimpleOps, MoneyOps, ConfigOps, Terminal, Monotone, Grows
  <1>2. CASE Lookup(r)
    BY <1>2 DEF Lookup
  <1>3. CASE Enter(r)
    BY <1>3 DEF Enter
  <1>4. CASE CheckNoWallet(r)
    BY <1>4 DEF CheckNoWallet
  <1>5. CASE Check(r)
    BY <1>5 DEF Check
  <1>6. CASE BeginTxn(r)
    BY <1>6 DEF BeginTxn
  <1>7. CASE Update(r)
    <2>1. /\ pc' = [pc EXCEPT ![r] = "commit"] /\ pc[r] = "update"
          /\ loc'[r].leg = loc[r].leg
          /\ loc'[r].ok => Write(WithLeg(db, r, loc[r].leg))
      BY <1>7 DEF Update
    <2> QED
      BY <2>1, <1>w, <1>l
  <1>8. CASE CommitTxn(r)
    BY <1>8, <1>c DEF CommitTxn
  <1>9. CASE InsertRow(r)
    BY <1>9, <1>w, <1>s DEF InsertRow
  <1>10. CASE CommitRow(r)
    BY <1>10, <1>c DEF CommitRow
  <1>11. CASE EmitEvent(r)
    BY <1>11 DEF EmitEvent
  <1>12. CASE CommitEvent(r)
    BY <1>12, <1>c DEF CommitEvent
  <1>13. CASE MaybeReload(r)
    BY <1>13 DEF MaybeReload
  <1>14. CASE InsertWallet(r)
    BY <1>14 DEF InsertWallet
  <1>15. CASE CommitWallet(r)
    BY <1>15, <1>c DEF CommitWallet
  <1>16. CASE BeginConversion(r)
    BY <1>16 DEF BeginConversion
  <1>17. CASE DebitSource(r)
    BY <1>17, <1>w, <1>l DEF DebitSource
  <1>18. CASE CreditTarget(r)
    BY <1>18, <1>w, <1>l DEF CreditTarget
  <1>19. CASE RecordConversion(r)
    BY <1>19, <1>w, <1>s DEF RecordConversion
  <1>20. CASE CommitConversion(r)
    BY <1>20, <1>c DEF CommitConversion
  <1>21. CASE UndoConversion(r)
    BY <1>21 DEF UndoConversion
  <1>22. CASE Configure(r)
    BY <1>22 DEF Configure
  <1>23. CASE CommitConfig(r)
    BY <1>23, <1>c DEF CommitConfig
  <1> QED
    BY <1>2, <1>3, <1>4, <1>5, <1>6, <1>7, <1>8, <1>9, <1>10, <1>11, <1>12, <1>13, <1>14, <1>15, <1>16, <1>17, <1>18, <1>19, <1>20, <1>21, <1>22, <1>23 DEF Step, Arrive, Continue

LEMMA NextAck ==
    TypeOK /\ ShapeOK /\ AckInv /\ [Next]_vars => AckInv'
  <1> SUFFICES ASSUME TypeOK, ShapeOK, AckInv, [Next]_vars PROVE AckInv'
    OBVIOUS
  <1>1. ASSUME NEW r \in Requests, Step(r) PROVE AckInv'
    <2>1. Grows' /\ (~tainted' => ~tainted /\ Monotone)
      BY <1>1, MonotoneStep DEF AckInv
    <2>2. ASSUME ~tainted', NEW s \in Requests PROVE Ack(s)'
      <3>1. Monotone /\ Ack(s)
        BY <2>1, <2>2 DEF AckInv
      <3>2. CASE s = r
        BY <3>1, <3>2, <1>1, AckOwnStep DEF AckInv
      <3>3. CASE s # r
        <4>1. pc'[s] = pc[s] /\ loc'[s] = loc[s] /\ job' = job
          BY <1>1, <3>3, OthersStay
        <4> QED
          BY <3>1, <4>1 DEF Ack, AckSimple, AckConvert, Posted, Monotone
      <3> QED
        BY <3>2, <3>3
    <2> QED
      BY <2>1, <2>2 DEF AckInv
  <1>2. CASE CrashProcess
    <2>1. /\ conn'.data = conn.saved /\ conn'.saved = conn.saved
          /\ tainted' = tainted /\ job' = job /\ loc' = loc
      BY <1>2 DEF CrashProcess, Crash, Connected
    <2>2. \A s \in Requests : \/ pc'[s] = pc[s] /\ pc[s] \in {"new"} \cup Terminal
                              \/ pc'[s] = "lost"
      BY <1>2 DEF CrashProcess, TypeOK
    <2> QED
      BY <2>1, <2>2 DEF AckInv, Grows, Ack, AckSimple, AckConvert, Posted, Terminal
  <1>4. ASSUME NEW r \in Requests, TimeOut(r) PROVE AckInv'
    <2>1. conn' = conn /\ tainted' = tainted /\ job' = job /\ loc' = loc
      BY <1>4 DEF TimeOut
    <2>2. \A s \in Requests : pc'[s] = pc[s] \/ pc'[s] = "504"
      BY <1>4 DEF TimeOut, Go, TypeOK
    <2> QED
      BY <2>1, <2>2 DEF AckInv, Grows, Ack, AckSimple, AckConvert, Posted
  <1>3. CASE UNCHANGED vars
    BY <1>3 DEF vars, AckInv, Grows, Ack, AckSimple, AckConvert, Posted
  <1> QED
    BY <1>1, <1>2, <1>3, <1>4 DEF Next, Step, Idle

\* An operation that answered keeps its balance change and its ledger row
\* through every later crash, unless a conversion rolled back on top of it.
THEOREM WalletAckDurable == Spec => []AckDurable
  <1>1. Init => AckInv
    BY WalletConstants DEF Init, AckInv, Grows, Ack, AckSimple, AckConvert,
       Local0, Connected, Tables0, SimpleOps
  <1>2. AckInv => AckDurable
    <2> SUFFICES ASSUME AckInv, ~tainted, NEW r \in Requests, pc[r] = "done",
                        job[r].op \in MoneyOps \ {"create"},
                        NEW p \in IF job[r].op = "convert" THEN {"main", "to"}
                                 ELSE {"main"}
                 PROVE  Posted(r, p)
      BY DEF AckDurable, Posted
    <2>1. Ack(r)
      BY DEF AckInv
    <2>2. CASE job[r].op = "convert"
      BY <2>1, <2>2 DEF Ack, AckConvert
    <2>3. CASE job[r].op \in SimpleOps
      BY <2>1, <2>3 DEF Ack, AckSimple, SimpleOps
    <2> QED
      BY <2>2, <2>3 DEF SimpleOps, MoneyOps
  <1> QED
    BY <1>1, <1>2, InitType, NextType, InitShape, NextShape, NextAck, PTL DEF Spec

-----------------------------------------------------------------------------
(***************************************************************************)
(* A leg is applied at most once: before its statement it is nowhere.      *)
(***************************************************************************)
Unapplied(r, p) == <<r, p>> \notin conn.data.applied

Fresh(r) ==
    /\ job[r].op \in SimpleOps /\ loc[r].leg = "main" =>
          /\ Unapplied(r, "reload")
          /\ pc[r] \in {"new", "check", "begin", "update"} => Unapplied(r, "main")
          /\ pc[r] = "commit" /\ ~loc[r].ok => Unapplied(r, "main")
    /\ job[r].op \in SimpleOps /\ loc[r].leg = "reload" =>
          /\ pc[r] \in {"begin", "update"} => Unapplied(r, "reload")
          /\ pc[r] = "commit" /\ ~loc[r].ok => Unapplied(r, "reload")
          /\ pc[r] # "reload"
    /\ job[r].op = "convert" =>
          /\ pc[r] \in {"new", "check", "cBegin", "cDebit"} => Unapplied(r, "main")
          /\ pc[r] \in {"new", "check", "cBegin", "cDebit", "cCredit"} => Unapplied(r, "to")
    /\ job[r].op = "create" /\ pc[r] \in {"new", "insertWallet"} =>
          Unapplied(r, "bonus") /\ Unapplied(r, "main")

AllFresh == \A r \in Requests : Fresh(r)

\* A balance sheet is what was there at the start and the legs applied since:
\* true on the connection and in the file.
Explains(balance, L) ==
    \A a \in Accounts : balance[a] = Start[a] + Sum(LegAmounts, LegsOf(L, a))

Explained(d) == Explains(d.balance, d.applied)

BalanceInv == Grows /\ AllFresh /\ Explained(conn.data) /\ Explained(conn.saved)


LEMMA LegsFinite ==
    /\ IsFiniteSet(Legs)
    /\ \A L \in SUBSET Legs : IsFiniteSet(L)
  <1>1. IsFiniteSet(Parts)
    <2>1. IsFiniteSet({"bonus"} \cup {"main"} \cup {"to"} \cup {"reload"})
      BY FS_Singleton, FS_Union
    <2> QED
      BY <2>1 DEF Parts
  <1>2. IsFiniteSet(Legs)
    BY <1>1, WalletTables, FS_Product DEF Legs
  <1> QED
    BY <1>2, FS_Subset

LEMMA LegAmountsAre ==
    ASSUME job \in [Requests -> Job], NEW l \in Legs
    PROVE  /\ LegAmounts[l] = AmountOf(l[1], l[2]) /\ LegAmounts[l] \in Int
           /\ AccountOf(l[1], l[2]) \in Accounts
  BY LegTypes DEF Legs, LegAmounts

\* A leg explains the change it makes.
LEMMA ExplainLeg ==
    ASSUME job \in [Requests -> Job], NEW balance \in [Accounts -> Int],
           NEW L \in SUBSET Legs, Explains(balance, L),
           NEW r \in Requests, NEW p \in Parts, <<r, p>> \notin L
    PROVE  Explains([balance EXCEPT ![AccountOf(r, p)] = @ + AmountOf(r, p)],
                    L \cup {<<r, p>>})
  <1> DEFINE l == <<r, p>>
             M == L \cup {l}
             x == AccountOf(r, p)
             m == AmountOf(r, p)
             c == [balance EXCEPT ![x] = @ + m]
  <1>1. l \in Legs /\ x \in Accounts /\ m \in Int /\ LegAmounts[l] = m /\ l[1] = r /\ l[2] = p
    BY LegTypes, LegAmountsAre DEF Legs
  <1> SUFFICES ASSUME NEW a \in Accounts
               PROVE  c[a] = Start[a] + Sum(LegAmounts, LegsOf(M, a))
    BY DEF Explains
  <1>2. balance[a] = Start[a] + Sum(LegAmounts, LegsOf(L, a))
    BY DEF Explains
  <1>3. IsFiniteSet(LegsOf(L, a)) /\ LegsOf(L, a) \in SUBSET Legs
    BY LegsFinite DEF LegsOf
  <1>4. \A y \in Legs : LegAmounts[y] \in Int
    BY LegAmountsAre
  <1>5. Sum(LegAmounts, LegsOf(L, a)) \in Int
    BY <1>3, <1>4, SumType
  <1>6. Start[a] \in Int /\ balance[a] \in Int
    BY WalletConstants
  <1>7. CASE a = x
    <2>1. LegsOf(M, a) = LegsOf(L, a) \cup {l}
      BY <1>1, <1>7 DEF LegsOf
    <2>2. l \notin LegsOf(L, a)
      BY DEF LegsOf
    <2>3. \A y \in LegsOf(L, a) \cup {l} : LegAmounts[y] \in Int
      BY <1>1, <1>3, <1>4
    <2>4. Sum(LegAmounts, LegsOf(L, a) \cup {l}) = Sum(LegAmounts, LegsOf(L, a)) + LegAmounts[l]
      <3> HIDE DEF l
      <3> QED
        BY ONLY <1>3, <2>2, <2>3, SumAdd
    <2>5. c[a] = balance[a] + m
      <3> HIDE DEF x, m
      <3> QED
        BY <1>1, <1>7
    <2> HIDE DEF l, x, m, c, M
    <2> QED
      BY <2>1, <2>4, <2>5, <1>1, <1>2, <1>5, <1>6
  <1>8. CASE a # x
    <2>1. LegsOf(M, a) = LegsOf(L, a)
      BY <1>1, <1>8 DEF LegsOf
    <2>2. c[a] = balance[a]
      <3> HIDE DEF x, m
      <3> QED
        BY <1>1, <1>8
    <2> QED
      BY <2>1, <2>2, <1>2
  <1> QED
    BY <1>7, <1>8

\* What a leg changes in the tables.
LEMMA WithLegFields ==
    ASSUME NEW r, NEW p, NEW d \in Tables
    PROVE  /\ WithLeg(d, r, p).applied = d.applied \cup {<<r, p>>}
           /\ WithLeg(d, r, p).rows = d.rows /\ WithLeg(d, r, p).events = d.events
           /\ WithLeg(d, r, p).wallets = d.wallets
           /\ WithLeg(d, r, p).reloading = d.reloading
  BY DEF WithLeg, Tables

LEMMA WithLegBalance ==
    ASSUME NEW r, NEW p, NEW d \in Tables
    PROVE  WithLeg(d, r, p).balance =
               [d.balance EXCEPT ![AccountOf(r, p)] = @ + AmountOf(r, p)]
  BY DEF WithLeg, Tables

\* What the operations of the connection leave in its fields.
LEMMA WriteFields ==
    ASSUME TypeOK, NEW d, Write(d)
    PROVE  /\ conn'.data = d /\ conn'.open = conn.open
           /\ conn'.saved = conn.saved \/ (~conn.open /\ conn'.saved = d)
  BY DEF TypeOK, Connection, Write, ExecuteAutocommit

LEMMA TransactionFields ==
    ASSUME TypeOK
    PROVE  /\ conn' = Begin(conn) =>
                 conn'.data = conn.data /\ conn'.saved = conn.saved /\ conn'.open
           /\ conn' = Commit(conn) =>
                 conn'.data = conn.data /\ conn'.saved = conn.data /\ ~conn'.open
           /\ conn' = Rollback(conn) \/ conn' = Crash(conn) =>
                 conn'.data = conn.saved /\ conn'.saved = conn.saved /\ ~conn'.open
  BY DEF TypeOK, Connection, Begin, Commit, Rollback, Crash, Connected

-----------------------------------------------------------------------------
(***************************************************************************)
(* What one step of a request does to the tables.                          *)
(***************************************************************************)
Ends == conn' = conn \/ conn' = Begin(conn) \/ conn' = Commit(conn) \/ Write(db)

Applies(r, p) ==
    /\ Write(WithLeg(db, r, p))
    /\ \/ pc[r] = "update" /\ p = loc[r].leg
       \/ pc[r] = "cDebit" /\ p = "main"
       \/ pc[r] = "cCredit" /\ p = "to"

Records(r, p) == Write([db EXCEPT !.rows = @ \cup {<<r, p>>}])
Announces(r, p) == Write([db EXCEPT !.events = @ \cup {<<r, p>>}])

Opened(r) ==
    [db EXCEPT !.wallets = @ \cup {job[r].agent},
               !.balance[<<job[r].agent, CREDITS>>] = @ + (SignupBonus + job[r].amount),
               !.applied = @ \cup {<<r, "bonus">>, <<r, "main">>}]
Opens(r) == InsertWallet(r) /\ Write(Opened(r))

Configured(r) ==
    CASE job[r].op = "freeze" -> [db EXCEPT !.frozen = @ \cup {job[r].agent}]
      [] job[r].op = "unfreeze" -> [db EXCEPT !.frozen = @ \ {job[r].agent}]
      [] job[r].op = "enable_reload" -> [db EXCEPT !.reloading = @ \cup {job[r].agent}]
      [] OTHER -> [db EXCEPT !.reloading = @ \ {job[r].agent}]
Configures(r) == pc[r] = "config" /\ Write(Configured(r))

Undoes == conn' = Rollback(conn) /\ tainted' = (tainted \/ conn.data # conn.saved)

LEMMA TableSteps ==
    ASSUME TypeOK, NEW r \in Requests, Step(r)
    PROVE  \/ Ends
           \/ \E p \in Parts : Applies(r, p)
           \/ \E p \in Parts : Records(r, p)
           \/ \E p \in Parts : Announces(r, p)
           \/ Opens(r)
           \/ Configures(r)
           \/ Undoes
  <1>0. loc[r].leg \in Parts /\ {"bonus", "main", "to", "reload"} \subseteq Parts
    BY DEF TypeOK, Parts
  <1> USE DEF Ends
  <1>1. CASE Lookup(r) \/ Enter(r) \/ CheckNoWallet(r) \/ Check(r) \/ BeginTxn(r)
    BY <1>1 DEF Lookup, Enter, CheckNoWallet, Check, BeginTxn
  <1>2. CASE CommitTxn(r) \/ CommitRow(r) \/ CommitWallet(r)
    BY <1>2 DEF CommitTxn, CommitRow, CommitWallet
  <1>3. CASE CommitEvent(r)
    BY <1>3 DEF CommitEvent
  <1>4. CASE MaybeReload(r) \/ BeginConversion(r) \/ CommitConversion(r) \/ CommitConfig(r)
    BY <1>4 DEF MaybeReload, BeginConversion, CommitConversion, CommitConfig
  <1>5. CASE Update(r)
    BY <1>5, <1>0 DEF Update, Applies
  <1>6. CASE DebitSource(r) \/ CreditTarget(r)
    BY <1>6, <1>0 DEF DebitSource, CreditTarget, Applies
  <1>7. CASE InsertRow(r) \/ RecordConversion(r)
    BY <1>7, <1>0 DEF InsertRow, RecordConversion, Records
  <1>8. CASE EmitEvent(r)
    BY <1>8, <1>0 DEF EmitEvent, Announces
  <1>9. CASE InsertWallet(r)
    BY <1>9 DEF InsertWallet, Opens, Opened
  <1>10. CASE Configure(r)
    BY <1>10 DEF Configure, Configures, Configured
  <1>11. CASE UndoConversion(r)
    BY <1>11 DEF UndoConversion, Undoes
  <1> QED
    BY <1>1, <1>2, <1>3, <1>4, <1>5, <1>6, <1>7, <1>8, <1>9, <1>10, <1>11 DEF Step, Arrive, Continue

LEMMA OpenedFields ==
    ASSUME NEW r, db \in Tables
    PROVE  /\ Opened(r).applied = db.applied \cup {<<r, "bonus">>, <<r, "main">>}
           /\ Opened(r).rows = db.rows /\ Opened(r).events = db.events
           /\ Opened(r).wallets = db.wallets \cup {job[r].agent}
           /\ Opened(r).reloading = db.reloading
  BY DEF Opened, Tables

LEMMA OpenedBalance ==
    ASSUME NEW r, db \in Tables
    PROVE  Opened(r).balance = [db.balance EXCEPT ![<<job[r].agent, CREDITS>>] =
                                    @ + (SignupBonus + job[r].amount)]
  BY DEF Opened, Tables

LEMMA OtherFields ==
    ASSUME NEW r, NEW p, db \in Tables
    PROVE  /\ LET e == [db EXCEPT !.rows = @ \cup {<<r, p>>}] IN
              /\ e.balance = db.balance /\ e.applied = db.applied
              /\ e.rows = db.rows \cup {<<r, p>>} /\ e.events = db.events
              /\ e.wallets = db.wallets /\ e.reloading = db.reloading
           /\ LET e == [db EXCEPT !.events = @ \cup {<<r, p>>}] IN
              /\ e.balance = db.balance /\ e.applied = db.applied
              /\ e.rows = db.rows /\ e.events = db.events \cup {<<r, p>>}
              /\ e.wallets = db.wallets /\ e.reloading = db.reloading
  BY DEF Tables

LEMMA RowFields ==
    ASSUME TypeOK, NEW r, NEW p, Records(r, p) \/ Announces(r, p)
    PROVE  /\ conn'.data.balance = db.balance /\ conn'.data.applied = db.applied
           /\ conn'.data.wallets = db.wallets /\ conn'.data.reloading = db.reloading
           /\ Records(r, p) => /\ conn'.data.rows = db.rows \cup {<<r, p>>}
                               /\ conn'.data.events = db.events
           /\ Announces(r, p) => /\ conn'.data.rows = db.rows
                                 /\ conn'.data.events = db.events \cup {<<r, p>>}
  <1>0. db \in Tables
    BY DEF TypeOK, Connection, db
  <1> DEFINE d == [db EXCEPT !.rows = @ \cup {<<r, p>>}]
             e == [db EXCEPT !.events = @ \cup {<<r, p>>}]
  <1>1. /\ d.balance = db.balance /\ d.applied = db.applied
        /\ d.rows = db.rows \cup {<<r, p>>} /\ d.events = db.events
        /\ d.wallets = db.wallets /\ d.reloading = db.reloading
        /\ e.balance = db.balance /\ e.applied = db.applied
        /\ e.rows = db.rows /\ e.events = db.events \cup {<<r, p>>}
        /\ e.wallets = db.wallets /\ e.reloading = db.reloading
    BY <1>0, OtherFields
  <1>2. (Records(r, p) <=> Write(d)) /\ (Announces(r, p) <=> Write(e))
    BY DEF Records, Announces
  <1> HIDE DEF d, e
  <1>3. /\ Records(r, p) => conn'.data = d
        /\ Announces(r, p) => conn'.data = e
    BY <1>2, WriteFields
  <1>4. CASE Records(r, p) /\ Announces(r, p)
    BY <1>1, <1>3, <1>4
  <1>5. CASE Records(r, p) /\ ~Announces(r, p)
    BY <1>1, <1>3, <1>5
  <1>6. CASE ~Records(r, p) /\ Announces(r, p)
    BY <1>1, <1>3, <1>6
  <1> QED
    BY <1>4, <1>5, <1>6

LEMMA ConfiguredFields ==
    ASSUME NEW r, db \in Tables
    PROVE  /\ Configured(r).balance = db.balance /\ Configured(r).applied = db.applied
           /\ Configured(r).rows = db.rows /\ Configured(r).events = db.events
           /\ Configured(r).wallets = db.wallets
           /\ \A a : a # job[r].agent => (a \in Configured(r).reloading <=> a \in db.reloading)
  BY DEF Configured, Tables

-----------------------------------------------------------------------------
\* Tables after a step of r name no new leg of anybody else.
Widens(d, e, r) ==
    \A l \in Legs : l[1] # r =>
        /\ l \in e.applied => l \in d.applied
        /\ l \in e.rows => l \in d.rows

LEMMA TablesWiden ==
    ASSUME TypeOK, Grows, NEW r \in Requests, Step(r)
    PROVE  /\ Widens(conn.data, conn'.data, r)
           /\ conn.saved.applied \subseteq conn'.saved.applied
           /\ Grows'
  <1>0. db \in Tables /\ db = conn.data /\ conn.data.rows \subseteq Legs
    BY DEF TypeOK, Connection, db, Tables
  <1> USE DEF Grows
  <1>l. ASSUME NEW l, l[1] # r PROVE \A p : l # <<r, p>>
    BY <1>l
  <1>s. CASE Ends
    <2>1. conn'.data = conn.data
      BY <1>s, <1>0, WriteFields, TransactionFields DEF Ends
    <2>2. conn'.saved = conn.saved \/ conn'.saved = conn.data
      BY <1>s, <1>0, WriteFields, TransactionFields DEF Ends
    <2> QED
      BY <2>1, <2>2 DEF Widens
  <1>w. ASSUME NEW d, Write(d), Widens(db, d, r),
               db.applied \subseteq d.applied, db.rows \subseteq d.rows
        PROVE  /\ Widens(conn.data, conn'.data, r)
               /\ conn.saved.applied \subseteq conn'.saved.applied
               /\ Grows'
    BY <1>w, <1>0, WriteFields
  <1>1. ASSUME NEW p \in Parts, Applies(r, p)
        PROVE  /\ Widens(conn.data, conn'.data, r)
               /\ conn.saved.applied \subseteq conn'.saved.applied
               /\ Grows'
    <2>1. Write(WithLeg(db, r, p))
      BY <1>1 DEF Applies
    <2>2. /\ WithLeg(db, r, p).applied = db.applied \cup {<<r, p>>}
          /\ WithLeg(db, r, p).rows = db.rows
      BY <1>0, WithLegFields
    <2> DEFINE d == WithLeg(db, r, p)
    <2> HIDE DEF d
    <2>3. Widens(db, d, r) /\ db.applied \subseteq d.applied /\ db.rows \subseteq d.rows
      BY <2>2, <1>l DEF Widens, d
    <2> QED
      BY <2>1, <2>3, <1>w DEF d
  <1>2. ASSUME NEW p \in Parts, Records(r, p) \/ Announces(r, p)
        PROVE  /\ Widens(conn.data, conn'.data, r)
               /\ conn.saved.applied \subseteq conn'.saved.applied
               /\ Grows'
    <2>1. CASE Records(r, p)
      <3> DEFINE d == [db EXCEPT !.rows = @ \cup {<<r, p>>}]
      <3>1. d.applied = db.applied /\ d.rows = db.rows \cup {<<r, p>>}
        BY <1>0, OtherFields
      <3>2. Write(d)
        BY <2>1 DEF Records
      <3> HIDE DEF d
      <3>3. Widens(db, d, r) /\ db.applied \subseteq d.applied /\ db.rows \subseteq d.rows
        BY <3>1, <1>l DEF Widens
      <3> QED
        BY <3>2, <3>3, <1>w
    <2>2. CASE Announces(r, p)
      <3> DEFINE d == [db EXCEPT !.events = @ \cup {<<r, p>>}]
      <3>1. d.applied = db.applied /\ d.rows = db.rows
        BY <1>0, OtherFields
      <3>2. Write(d)
        BY <2>2 DEF Announces
      <3> HIDE DEF d
      <3>3. Widens(db, d, r) /\ db.applied \subseteq d.applied /\ db.rows \subseteq d.rows
        BY <3>1, <1>l DEF Widens
      <3> QED
        BY <3>2, <3>3, <1>w
    <2> QED
      BY <2>1, <2>2, <1>2
  <1>3. CASE Opens(r)
    <2>1. /\ Opened(r).applied = db.applied \cup {<<r, "bonus">>, <<r, "main">>}
          /\ Opened(r).rows = db.rows
      BY <1>0, OpenedFields
    <2>2. Write(Opened(r))
      BY <1>3 DEF Opens
    <2>3. /\ Widens(db, Opened(r), r)
          /\ db.applied \subseteq Opened(r).applied /\ db.rows \subseteq Opened(r).rows
      BY <2>1, <1>l DEF Widens
    <2> QED
      BY <2>2, <2>3, <1>w
  <1>4. CASE Configures(r)
    BY <1>4, <1>0, <1>w, ConfiguredFields DEF Widens, Configures
  <1>5. CASE Undoes
    <2>1. conn'.data = conn.saved /\ conn'.saved = conn.saved
      BY <1>5, TransactionFields DEF Undoes
    <2>2. Widens(conn.data, conn'.data, r)
      <3>1. conn.saved.applied \subseteq conn.data.applied /\ conn.saved.rows \subseteq conn.data.rows
        OBVIOUS
      <3> QED
        BY <2>1, <3>1 DEF Widens
    <2> QED
      BY <2>1, <2>2
  <1> QED
    BY <1>s, <1>1, <1>2, <1>3, <1>4, <1>5, TableSteps

\* Most steps apply no leg.
LEMMA NoLeg ==
    ASSUME TypeOK, Grows, Ends \/ Undoes
    PROVE  conn'.data.applied \subseteq conn.data.applied
  <1>1. CASE Ends
    BY <1>1, WriteFields, TransactionFields DEF Ends, db
  <1>2. CASE Undoes
    BY <1>2, TransactionFields DEF Undoes, Grows
  <1> QED
    BY <1>1, <1>2

\* The request that moves applies a leg only where it had not.
LEMMA FreshOwnStep ==
    ASSUME TypeOK, ShapeOK, Grows, NEW r \in Requests, Fresh(r), Step(r)
    PROVE  Fresh(r)'
  <1>0. /\ job' = job /\ job[r].op \in MoneyOps \cup ConfigOps
        /\ pc \in [Requests -> {"new"} \cup Running \cup Terminal]
        /\ loc \in [Requests -> [leg : Parts, ok : BOOLEAN, seen : Int]]
        /\ db \in Tables /\ db = conn.data
    BY LocalStep, WalletConstants DEF TypeOK, Job, Connection, db
  <1>1. Shape(r)
    BY DEF ShapeOK
  <1> DEFINE Fewer == conn'.data.applied \subseteq conn.data.applied
  <1>e. Ends => Fewer
    BY NoLeg
  <1>r. ASSUME NEW p, Records(r, p) \/ Announces(r, p) PROVE Fewer
    BY <1>r, <1>0, RowFields
  <1>a. ASSUME NEW p, Write(WithLeg(db, r, p))
        PROVE  conn'.data.applied = conn.data.applied \cup {<<r, p>>}
    BY <1>a, <1>0, WriteFields, WithLegFields
  <1> USE <1>0, <1>1 DEF Shape, Fresh, Unapplied, Go, SimpleOps, MoneyOps, ConfigOps, Terminal
  <1>2. CASE Lookup(r)
    BY <1>2, <1>e DEF Lookup, Ends
  <1>3. CASE Enter(r)
    BY <1>3, <1>e DEF Enter, Ends
  <1>4. CASE CheckNoWallet(r)
    BY <1>4, <1>e DEF CheckNoWallet, Ends
  <1>5. CASE Check(r)
    BY <1>5, <1>e DEF Check, Ends
  <1>6. CASE BeginTxn(r)
    BY <1>6, <1>e DEF BeginTxn, Ends
  <1>7. CASE Update(r)
    <2>1. /\ pc' = [pc EXCEPT ![r] = "commit"] /\ pc[r] = "update"
          /\ loc'[r].leg = loc[r].leg
          /\ \/ Write(WithLeg(db, r, loc[r].leg)) /\ loc'[r].ok
             \/ Write(db) /\ ~loc'[r].ok
      BY <1>7 DEF Update
    <2>2. CASE Write(WithLeg(db, r, loc[r].leg)) /\ loc'[r].ok
      BY <2>1, <2>2, <1>a
    <2>3. CASE Write(db) /\ ~loc'[r].ok
      BY <2>1, <2>3, <1>e DEF Ends
    <2> QED
      BY <2>1, <2>2, <2>3
  <1>8. CASE CommitTxn(r)
    BY <1>8, <1>e DEF CommitTxn, Ends
  <1>9. CASE InsertRow(r)
    <2>1. Fewer
      BY <1>9, <1>e, <1>r DEF InsertRow, Ends, Records
    <2> QED
      BY <2>1, <1>9 DEF InsertRow
  <1>10. CASE CommitRow(r)
    BY <1>10, <1>e DEF CommitRow, Ends
  <1>11. CASE EmitEvent(r)
    <2>1. Fewer
      BY <1>11, <1>r DEF EmitEvent, Announces
    <2> QED
      BY <2>1, <1>11 DEF EmitEvent
  <1>12. CASE CommitEvent(r)
    BY <1>12, <1>e DEF CommitEvent, Ends
  <1>13. CASE MaybeReload(r)
    <2>1. Fewer
      BY <1>13, <1>e DEF MaybeReload, Ends
    <2>2. pc[r] = "reload" /\ job[r].op \in SimpleOps
      BY <1>13 DEF MaybeReload
    <2>3. \/ pc' = [pc EXCEPT ![r] = "begin"] /\ loc' = [loc EXCEPT ![r].leg = "reload"]
          \/ pc' = [pc EXCEPT ![r] = "done"] /\ loc' = loc
      BY <1>13 DEF MaybeReload
    <2>4. loc[r].leg = "main" /\ Unapplied(r, "reload")
      BY <2>2
    <2> QED
      BY <2>1, <2>2, <2>3, <2>4
  <1>14. CASE InsertWallet(r)
    <2>1. CASE UNCHANGED conn
      BY <2>1, <1>14, <1>e DEF InsertWallet, Ends
    <2>2. CASE pc' = [pc EXCEPT ![r] = "insertCommit"]
      BY <2>2, <1>14 DEF InsertWallet
    <2> QED
      BY <2>1, <2>2, <1>14 DEF InsertWallet
  <1>15. CASE CommitWallet(r)
    BY <1>15, <1>e DEF CommitWallet, Ends
  <1>16. CASE BeginConversion(r)
    BY <1>16, <1>e DEF BeginConversion, Ends
  <1>17. CASE DebitSource(r)
    <2>1. CASE UNCHANGED conn
      BY <2>1, <1>17, <1>e DEF DebitSource, Ends
    <2>2. CASE Write(WithLeg(db, r, "main")) /\ pc' = [pc EXCEPT ![r] = "cCredit"]
      BY <2>2, <1>17, <1>a DEF DebitSource
    <2> QED
      BY <2>1, <2>2, <1>17 DEF DebitSource
  <1>18. CASE CreditTarget(r)
    BY <1>18 DEF CreditTarget
  <1>19. CASE RecordConversion(r)
    BY <1>19 DEF RecordConversion
  <1>20. CASE CommitConversion(r)
    BY <1>20, <1>e DEF CommitConversion, Ends
  <1>21. CASE UndoConversion(r)
    BY <1>21 DEF UndoConversion
  <1>22. CASE Configure(r)
    BY <1>22 DEF Configure
  <1>23. CASE CommitConfig(r)
    BY <1>23 DEF CommitConfig
  <1> QED
    BY <1>2, <1>3, <1>4, <1>5, <1>6, <1>7, <1>8, <1>9, <1>10, <1>11, <1>12, <1>13, <1>14, <1>15, <1>16, <1>17, <1>18, <1>19, <1>20, <1>21, <1>22, <1>23 DEF Step, Arrive, Continue

LEMMA FreshStep ==
    ASSUME TypeOK, ShapeOK, Grows, AllFresh, NEW r \in Requests, Step(r)
    PROVE  AllFresh'
  <1> SUFFICES ASSUME NEW s \in Requests PROVE Fresh(s)'
    BY DEF AllFresh
  <1>1. Fresh(s)
    BY DEF AllFresh
  <1>2. CASE s = r
    BY <1>1, <1>2, FreshOwnStep
  <1>3. CASE s # r
    <2>1. pc'[s] = pc[s] /\ loc'[s] = loc[s] /\ job' = job
      BY <1>3, OthersStay
    <2>2. \A p \in Parts : <<s, p>> \in conn'.data.applied => <<s, p>> \in conn.data.applied
      BY <1>3, TablesWiden DEF Widens, Legs
    <2>3. \A p \in Parts : Unapplied(s, p) => Unapplied(s, p)'
      BY <2>2 DEF Unapplied
    <2> QED
      BY <1>1, <2>1, <2>3 DEF Fresh, Parts
  <1> QED
    BY <1>2, <1>3

\* The sums speak of the workload, which never changes.
LEMMA SumsStay ==
    ASSUME job' = job
    PROVE  /\ LegAmounts' = LegAmounts
           /\ \A L, a : LegsOf(L, a)' = LegsOf(L, a)
           /\ \A b, L : Explains(b, L)' = Explains(b, L)
  <1>1. LegAmounts' = LegAmounts
    BY DEF LegAmounts, AmountOf
  <1>2. \A L, a : LegsOf(L, a)' = LegsOf(L, a)
    BY DEF LegsOf, AccountOf
  <1> QED
    BY <1>1, <1>2 DEF Explains

\* Every table the connection shows or the file holds explains itself: a leg
\* moves its account when it is applied, and nothing else moves a balance.
LEMMA ExplainedStep ==
    ASSUME TypeOK, ShapeOK, BalanceInv, NEW r \in Requests, Step(r)
    PROVE  (Explained(conn.data) /\ Explained(conn.saved))'
  <1>0. /\ job' = job /\ job \in [Requests -> Job] /\ job[r].op \in MoneyOps \cup ConfigOps
        /\ db \in Tables /\ db = conn.data /\ conn.saved \in Tables
        /\ db.balance \in [Accounts -> Int] /\ db.applied \in SUBSET Legs
        /\ {"bonus", "main", "to", "reload"} \subseteq Parts
    BY LocalStep, WalletConstants DEF TypeOK, Job, Connection, db, Tables, Parts
  <1>1. /\ Explains(conn.data.balance, conn.data.applied)
        /\ Explains(conn.saved.balance, conn.saved.applied)
    BY DEF BalanceInv, Explained
  <1> SUFFICES /\ Explains(conn'.data.balance, conn'.data.applied)
               /\ Explains(conn'.saved.balance, conn'.saved.applied)
    BY <1>0, SumsStay DEF Explained, Explains
  <1>w. ASSUME NEW d, Write(d), Explains(d.balance, d.applied)
        PROVE  /\ Explains(conn'.data.balance, conn'.data.applied)
               /\ Explains(conn'.saved.balance, conn'.saved.applied)
    BY <1>w, <1>1, WriteFields
  <1>2. CASE Ends
    <2>1. conn'.data = conn.data /\ (conn'.saved = conn.saved \/ conn'.saved = conn.data)
      BY <1>2, <1>0, WriteFields, TransactionFields DEF Ends
    <2> QED
      BY <2>1, <1>1
  <1>3. ASSUME NEW p \in Parts, Applies(r, p)
        PROVE  /\ Explains(conn'.data.balance, conn'.data.applied)
               /\ Explains(conn'.saved.balance, conn'.saved.applied)
    <2>1. Write(WithLeg(db, r, p))
      BY <1>3 DEF Applies
    <2>2. <<r, p>> \notin db.applied
      <3>1. Fresh(r) /\ Shape(r)
        BY DEF BalanceInv, AllFresh, ShapeOK
      <3> QED
        BY <1>0, <1>3, <3>1 DEF Applies, Fresh, Shape, Unapplied, SimpleOps, MoneyOps, ConfigOps, Terminal
    <2>3. Explains([db.balance EXCEPT ![AccountOf(r, p)] = @ + AmountOf(r, p)],
                   db.applied \cup {<<r, p>>})
      BY <1>0, <1>1, <2>2, ExplainLeg
    <2>4. /\ WithLeg(db, r, p).balance =
                 [db.balance EXCEPT ![AccountOf(r, p)] = @ + AmountOf(r, p)]
          /\ WithLeg(db, r, p).applied = db.applied \cup {<<r, p>>}
      BY <1>0, WithLegFields, WithLegBalance
    <2> QED
      BY <2>1, <2>3, <2>4, <1>w
  <1>4. ASSUME NEW p \in Parts, Records(r, p) \/ Announces(r, p)
        PROVE  /\ Explains(conn'.data.balance, conn'.data.applied)
               /\ Explains(conn'.saved.balance, conn'.saved.applied)
    <2>1. conn'.data.balance = db.balance /\ conn'.data.applied = db.applied
      BY <1>4, RowFields
    <2>2. conn'.saved = conn.saved \/ conn'.saved = conn'.data
      BY <1>4, WriteFields DEF Records, Announces
    <2> QED
      BY <2>1, <2>2, <1>0, <1>1
  <1>5. CASE Opens(r)
    <2> DEFINE a == <<job[r].agent, CREDITS>>
               b == [db.balance EXCEPT ![a] = @ + SignupBonus]
               c == [b EXCEPT ![a] = @ + job[r].amount]
    <2>1. pc[r] = "insertWallet" /\ job[r].op = "create"
      <3>1. pc[r] = "insertWallet" /\ Shape(r)
        BY <1>5 DEF Opens, InsertWallet, ShapeOK
      <3> QED
        BY <3>1, <1>0 DEF Shape, SimpleOps, MoneyOps, ConfigOps, Terminal
    <2>2. <<r, "bonus">> \notin db.applied /\ <<r, "main">> \notin db.applied
      BY <2>1, <1>0 DEF BalanceInv, AllFresh, Fresh, Unapplied
    <2>3. /\ AccountOf(r, "bonus") = a /\ AccountOf(r, "main") = a
          /\ AmountOf(r, "bonus") = SignupBonus /\ AmountOf(r, "main") = job[r].amount
      BY <2>1 DEF AccountOf, AmountOf
    <2>4. a \in Accounts /\ job[r].amount \in Int /\ SignupBonus \in Int /\ db.balance[a] \in Int
      <3>1. a \in Accounts
        BY <1>0, <2>3, LegTypes
      <3>2. db.balance[a] \in Int
        BY <1>0, <3>1
      <3> QED
        BY <1>0, <3>1, <3>2, WalletConstants DEF Job
    <2>5. Explains(b, db.applied \cup {<<r, "bonus">>})
      BY <1>0, <1>1, <2>2, <2>3, ExplainLeg
    <2>6. b \in [Accounts -> Int] /\ db.applied \cup {<<r, "bonus">>} \in SUBSET Legs
      <3> HIDE DEF a
      <3>1. b \in [Accounts -> Int]
        BY <1>0, <2>4
      <3> QED
        BY <3>1, <1>0 DEF Legs
    <2>7. <<r, "main">> \notin db.applied \cup {<<r, "bonus">>}
      BY <2>2
    <2>8. Explains(c, db.applied \cup {<<r, "bonus">>} \cup {<<r, "main">>})
      <3> DEFINE L == db.applied \cup {<<r, "bonus">>}
      <3>1. Explains([b EXCEPT ![AccountOf(r, "main")] = @ + AmountOf(r, "main")], L \cup {<<r, "main">>})
        <4> HIDE DEF b, L
        <4> QED
          BY <1>0, <2>5, <2>6, <2>7, ExplainLeg DEF L
      <3> QED
        BY <3>1, <2>3
    <2>9. c = [db.balance EXCEPT ![a] = @ + (SignupBonus + job[r].amount)]
      <3> HIDE DEF a
      <3> QED
        BY <1>0, <2>4
    <2>10. db.applied \cup {<<r, "bonus">>} \cup {<<r, "main">>} =
           db.applied \cup {<<r, "bonus">>, <<r, "main">>}
      OBVIOUS
    <2>11. Opened(r).balance = c /\
           Opened(r).applied = db.applied \cup {<<r, "bonus">>, <<r, "main">>}
      BY <2>9, <1>0, OpenedFields, OpenedBalance
    <2> HIDE DEF c
    <2> QED
      BY <2>8, <2>10, <2>11, <1>5, <1>w DEF Opens
  <1>6. CASE Configures(r)
    BY <1>6, <1>0, <1>1, <1>w, ConfiguredFields DEF Configures
  <1>7. CASE Undoes
    BY <1>7, <1>1, TransactionFields DEF Undoes
  <1> QED
    BY <1>2, <1>3, <1>4, <1>5, <1>6, <1>7, TableSteps

LEMMA InitBalance == Init => BalanceInv
  <1> SUFFICES ASSUME Init PROVE BalanceInv
    OBVIOUS
  <1>1. /\ conn.data = Tables0 /\ conn.saved = Tables0
        /\ Tables0.applied = {} /\ Tables0.rows = {} /\ Tables0.balance = Start
    BY DEF Init, Connected, Tables0
  <1>2. Grows /\ AllFresh
    BY <1>1 DEF Grows, AllFresh, Fresh, Unapplied, Init, Local0
  <1>3. ASSUME NEW a \in Accounts PROVE Start[a] = Start[a] + Sum(LegAmounts, LegsOf({}, a))
    <2>1. LegsOf({}, a) = {}
      BY DEF LegsOf
    <2>2. Start[a] \in Int
      BY WalletConstants
    <2> QED
      BY <2>1, <2>2, SumEmpty
  <1> QED
    BY <1>1, <1>2, <1>3 DEF BalanceInv, Explained, Explains

LEMMA NextBalance == TypeOK /\ ShapeOK /\ BalanceInv /\ [Next]_vars => BalanceInv'
  <1> SUFFICES ASSUME TypeOK, ShapeOK, BalanceInv, [Next]_vars PROVE BalanceInv'
    OBVIOUS
  <1>1. ASSUME NEW r \in Requests, Step(r) PROVE BalanceInv'
    BY <1>1, ExplainedStep, FreshStep, TablesWiden DEF BalanceInv
  <1>2. CASE CrashProcess
    <2>1. /\ conn'.data = conn.saved /\ conn'.saved = conn.saved
          /\ job' = job /\ loc' = loc
      BY <1>2, TransactionFields DEF CrashProcess
    <2>2. \A s \in Requests : \/ pc'[s] = pc[s] /\ pc[s] \in {"new"} \cup Terminal
                              \/ pc'[s] = "lost"
      BY <1>2 DEF CrashProcess, TypeOK
    <2>3. Grows'
      BY <2>1 DEF Grows
    <2>4. AllFresh'
      <3> SUFFICES ASSUME NEW s \in Requests PROVE Fresh(s)'
        BY DEF AllFresh
      <3>1. \A p : Unapplied(s, p) => Unapplied(s, p)'
        BY <2>1 DEF Unapplied, BalanceInv, Grows
      <3> QED
        BY <2>1, <2>2, <3>1 DEF BalanceInv, AllFresh, Fresh, Terminal
    <2>5. (Explained(conn.data) /\ Explained(conn.saved))'
      BY <2>1, SumsStay DEF BalanceInv, Explained, Explains
    <2> QED
      BY <2>3, <2>4, <2>5 DEF BalanceInv
  <1>4. ASSUME NEW r \in Requests, TimeOut(r) PROVE BalanceInv'
    <2>1. conn' = conn /\ job' = job /\ loc' = loc
      BY <1>4 DEF TimeOut
    <2>2. \A s \in Requests : pc'[s] = pc[s] \/ pc'[s] = "504"
      BY <1>4 DEF TimeOut, Go, TypeOK
    <2>3. Grows' /\ AllFresh'
      BY <2>1, <2>2 DEF BalanceInv, Grows, AllFresh, Fresh, Unapplied
    <2>4. (Explained(conn.data) /\ Explained(conn.saved))'
      BY <2>1, SumsStay DEF BalanceInv, Explained, Explains
    <2> QED
      BY <2>3, <2>4 DEF BalanceInv
  <1>3. CASE UNCHANGED vars
    <2>1. job' = job /\ conn' = conn /\ pc' = pc /\ loc' = loc
      BY <1>3 DEF vars
    <2>2. Grows' /\ AllFresh'
      BY <2>1 DEF BalanceInv, Grows, AllFresh, Fresh, Unapplied
    <2>3. (Explained(conn.data) /\ Explained(conn.saved))'
      BY <2>1, SumsStay DEF BalanceInv, Explained, Explains
    <2> QED
      BY <2>2, <2>3 DEF BalanceInv
  <1> QED
    BY <1>1, <1>2, <1>3, <1>4 DEF Next, Step, Idle

-----------------------------------------------------------------------------
(***************************************************************************)
(* The refinement: every step of the wallet, a crash included, adds legs   *)
(* to the file whole and at most once, or leaves the file alone.           *)
(***************************************************************************)
LEMMA DurableSum == ASSUME NEW f, NEW S PROVE Durable!Sum(f, S) = Sum(f, S)
  <1>1. Durable!Sum(f, S) = FoldOf(f, S)[S]
    BY Zenon DEF Durable!Sum, Durable!MapThenSumSet, Durable!MapThenFoldSet, FoldOf, Unfold, Pick
  <1> QED
    BY <1>1, SumIsIter

LEMMA EffectIs ==
    ASSUME NEW L, NEW a
    PROVE  Durable!Effect(L, a) = Sum([l \in L |-> l.amount], {l \in L : l.acct = a})
  BY DurableSum DEF Durable!Effect

RecordsOf(L) == {LegRecord(l) : l \in L}

\* What legs do to an account, told as records of the abstract ledger.
LEMMA EffectOfLegs ==
    ASSUME job \in [Requests -> Job], NEW N \in SUBSET Legs, NEW a \in Accounts
    PROVE  Durable!Effect(RecordsOf(N), a) = Sum(LegAmounts, LegsOf(N, a))
  <1> DEFINE S == LegsOf(N, a)
             g == [l \in RecordsOf(N) |-> l.amount]
             h == [l \in Legs |-> LegRecord(l)]
  <1>1. \A l : /\ LegRecord(l).id = l /\ LegRecord(l).acct = AccountOf(l[1], l[2])
               /\ LegRecord(l).amount = AmountOf(l[1], l[2])
    BY DEF LegRecord, AccountOf, AmountOf
  <1>2. S \in SUBSET Legs /\ S \in SUBSET N /\ IsFiniteSet(S)
    BY LegsFinite DEF LegsOf
  <1>3. \A x \in S : LegAmounts[x] \in Int /\ LegAmounts[x] = g[h[x]]
    <2> SUFFICES ASSUME NEW x \in S PROVE LegAmounts[x] \in Int /\ LegAmounts[x] = g[h[x]]
      OBVIOUS
    <2>1. LegAmounts[x] \in Int /\ LegAmounts[x] = AmountOf(x[1], x[2])
      BY <1>2, LegAmountsAre
    <2>2. h[x] = LegRecord(x) /\ LegRecord(x) \in RecordsOf(N)
      BY <1>2 DEF RecordsOf
    <2>3. g[LegRecord(x)] = LegRecord(x).amount
      BY <2>2
    <2> QED
      BY <2>1, <2>2, <2>3, <1>1
  <1>4. \A x, y \in S : h[x] = h[y] => x = y
    <2> SUFFICES ASSUME NEW x \in S, NEW y \in S, h[x] = h[y] PROVE x = y
      OBVIOUS
    <2>1. LegRecord(x) = LegRecord(y)
      BY <1>2
    <2> QED
      BY <2>1, <1>1
  <1>5. {h[x] : x \in S} = {l \in RecordsOf(N) : l.acct = a}
    <2>1. \A x \in S : h[x] = LegRecord(x)
      BY <1>2
    <2>2. \A x \in N : x \in S <=> LegRecord(x).acct = a
      BY <1>1 DEF LegsOf
    <2> HIDE DEF S, h
    <2> QED
      BY <2>1, <2>2, <1>2 DEF RecordsOf
  <1>6. Sum(LegAmounts, S) = Sum(g, {h[x] : x \in S})
    <2> HIDE DEF S, g, h
    <2> QED
      BY ONLY <1>2, <1>3, <1>4, SumRenamed
  <1> QED
    BY <1>5, <1>6, EffectIs

\* Two balance sheets of which one has more legs: the difference is the
\* effect of the new ones.
LEMMA ExplainedDifference ==
    ASSUME job \in [Requests -> Job], NEW A \in SUBSET Legs, NEW B \in SUBSET Legs,
           A \subseteq B, NEW b, NEW c, Explains(b, A), Explains(c, B), NEW a \in Accounts
    PROVE  c[a] = b[a] + Sum(LegAmounts, LegsOf(B \ A, a))
  <1> DEFINE S == LegsOf(A, a)
             T == LegsOf(B \ A, a)
  <1>1. S \in SUBSET Legs /\ T \in SUBSET Legs /\ S \cap T = {} /\ S \cup T = LegsOf(B, a)
    BY DEF LegsOf
  <1>2. IsFiniteSet(S) /\ IsFiniteSet(T)
    BY <1>1, LegsFinite
  <1>3. \A x \in S \cup T : LegAmounts[x] \in Int
    BY <1>1, LegAmountsAre
  <1>4. /\ b[a] = Start[a] + Sum(LegAmounts, S)
        /\ c[a] = Start[a] + Sum(LegAmounts, S \cup T)
    BY <1>1 DEF Explains
  <1> HIDE DEF S, T
  <1>5. Sum(LegAmounts, S \cup T) = Sum(LegAmounts, S) + Sum(LegAmounts, T)
    BY ONLY <1>1, <1>2, <1>3, SumUnion
  <1>6. Sum(LegAmounts, S) \in Int /\ Sum(LegAmounts, T) \in Int
    BY <1>2, <1>3, SumType
  <1>7. Start[a] \in Int
    BY WalletConstants
  <1>8. c[a] = b[a] + Sum(LegAmounts, T)
    BY <1>4, <1>5, <1>6, <1>7
  <1> QED
    BY <1>8 DEF T

LEMMA DurableStep ==
    ASSUME TypeOK, TypeOK', BalanceInv, BalanceInv', NonNegative', job' = job,
           conn.saved.applied \subseteq conn'.saved.applied
    PROVE  [Durable!Next]_(Durable!dvars)
  <1> DEFINE A == conn.saved.applied
             B == conn'.saved.applied
             b == conn.saved.balance
             c == conn'.saved.balance
             N == RecordsOf(B \ A)
  <1>0. /\ job \in [Requests -> Job]
        /\ A \in SUBSET Legs /\ B \in SUBSET Legs /\ A \subseteq B
        /\ b \in [Accounts -> Int] /\ c \in [Accounts -> Int]
    BY WalletConstants DEF TypeOK, Connection, Tables
  <1>1. Explains(b, A) /\ Explains(c, B)
    BY SumsStay DEF BalanceInv, Explained, Explains
  <1>2. \A l : LegRecord(l)' = LegRecord(l) /\ LegRecord(l).id = l
    BY DEF LegRecord, AccountOf, AmountOf
  <1>3. /\ {LegRecord(l) : l \in Legs}' = {LegRecord(l) : l \in Legs}
        /\ {LegRecord(l) : l \in conn.saved.applied} = RecordsOf(A)
        /\ {LegRecord(l) : l \in conn.saved.applied}' = RecordsOf(B)
    BY <1>2 DEF RecordsOf
  <1>4. \A a \in Accounts : c[a] = b[a] + Sum(LegAmounts, LegsOf(B \ A, a))
    BY <1>0, <1>1, ExplainedDifference
  <1>5. CASE B = A
    <2>1. \A a \in Accounts : c[a] = b[a]
      BY <1>1, <1>5 DEF Explains
    <2>2. c = b
      BY <2>1, <1>0
    <2> QED
      BY <2>2, <1>3, <1>5 DEF Durable!dvars
  <1>6. CASE B # A
    <2>1. N # {} /\ N \cap RecordsOf(A) = {} /\ RecordsOf(B) = RecordsOf(A) \cup N
      <3>1. B \ A # {}
        BY <1>0, <1>6
      <3> QED
        BY <3>1, <1>0, <1>2 DEF RecordsOf
    <2>2. RecordsOf(B) \ RecordsOf(A) = N /\ RecordsOf(A) \subseteq RecordsOf(B)
      BY <2>1
    <2>3. \A a \in Accounts : Durable!Effect(N, a) = Sum(LegAmounts, LegsOf(B \ A, a))
      BY <1>0, EffectOfLegs
    <2>4. c = [a \in Accounts |-> b[a] + Durable!Effect(N, a)]
      BY <1>0, <1>4, <2>3
    <2>5. \A a \in Accounts : c[a] >= 0
      BY DEF NonNegative
    <2>6. RecordsOf(B) \subseteq {LegRecord(l) : l \in Legs}
      BY <1>0 DEF RecordsOf
    <2> HIDE DEF A, B, N, b, c
    <2>7. Durable!Apply(N)
      BY <1>3, <2>1, <2>4, <2>5 DEF Durable!Apply, b, c
    <2> QED
      BY <1>3, <2>2, <2>6, <2>7 DEF Durable!Next
  <1> QED
    BY <1>5, <1>6

LEMMA NextDurable ==
    TypeOK /\ ShapeOK /\ BalanceInv /\ NonNegative /\ [Next]_vars
        => [Durable!Next]_(Durable!dvars)
  <1> SUFFICES ASSUME TypeOK, ShapeOK, BalanceInv, NonNegative, [Next]_vars
               PROVE  [Durable!Next]_(Durable!dvars)
    OBVIOUS
  <1>1. TypeOK' /\ BalanceInv' /\ NonNegative'
    BY NextType, NextBalance, NextNonNegative
  <1>2. job' = job /\ conn.saved.applied \subseteq conn'.saved.applied
    <2>1. ASSUME NEW r \in Requests, Step(r)
          PROVE  job' = job /\ conn.saved.applied \subseteq conn'.saved.applied
      BY <2>1, LocalStep, TablesWiden DEF BalanceInv
    <2>2. CASE CrashProcess
      BY <2>2, TransactionFields DEF CrashProcess
    <2>3. CASE UNCHANGED vars
      BY <2>3 DEF vars
    <2>4. ASSUME NEW r \in Requests, TimeOut(r)
          PROVE  job' = job /\ conn.saved.applied \subseteq conn'.saved.applied
      BY <2>4 DEF TimeOut
    <2> QED
      BY <2>1, <2>2, <2>3, <2>4 DEF Next, Step, Idle
  <1> QED
    BY <1>1, <1>2, DurableStep

LEMMA InitDurable == Init => Durable!Init
  <1> SUFFICES ASSUME Init PROVE Durable!Init
    OBVIOUS
  <1>1. conn.saved.applied = {} /\ conn.saved.balance = Start
    BY DEF Init, Connected, Tables0
  <1> QED
    BY <1>1 DEF Durable!Init

\* The database file implements the abstract ledger whatever the coroutines,
\* crashes and rollbacks do: each balance change reaches it whole, at most once
\* and for good, and leaves no account below zero.
THEOREM WalletImplementsLedger == Spec => ImplementsDurableLedger
  <1>1. NonNegative /\ TypeOK /\ ShapeOK /\ BalanceInv /\ [Next]_vars
            => [Durable!Next]_(Durable!dvars)
    BY NextDurable
  <1> QED
    BY <1>1, InitDurable, WalletTypes, WalletNonNegative, InitType, NextType, InitShape, NextShape,
       InitBalance, NextBalance, PTL DEF Spec, ImplementsDurableLedger, Durable!Spec

-----------------------------------------------------------------------------
(***************************************************************************)
(* Keys nobody raced: at most one request is between its lookup and its    *)
(* row, and no row of the key exists while it is.                          *)
(***************************************************************************)
Keyed(k) == {r \in Requests : job[r].key = k}

RowsOnce ==
    \A k \in Keys : \A r, s \in Keyed(k) :
        <<r, "main">> \in conn.data.rows /\ <<s, "main">> \in conn.data.rows => r = s

Solo(k) ==
    /\ \A r, s \in UsingKey(k) : r = s
    /\ UsingKey(k) # {} => ~KeyUsed(conn.data, k)
    /\ \A r \in Keyed(k) :
          <<r, "main">> \in conn.data.applied =>
              r \in UsingKey(k) \/ <<r, "main">> \in conn.data.rows

KeyInv == Undisturbed => RowsOnce /\ \A k \in Keys \ raced : Solo(k)

\* Who is using its key.
Using(r) == loc[r].leg = "main" /\ pc[r] \in {"check", "begin", "update", "commit", "row"}

LEMMA UsingIs == \A k : UsingKey(k) = {r \in Keyed(k) : Using(r)}
  BY DEF UsingKey, Keyed, Using

\* A key is used when a request that has it has its row.
UsedByRow ==
    \A k : KeyUsed(conn.data, k) <=> \E r \in Keyed(k) : <<r, "main">> \in conn.data.rows

LEMMA KeyUsedIs == TypeOK => UsedByRow
  <1> SUFFICES ASSUME TypeOK, NEW k
               PROVE  KeyUsed(conn.data, k) <=>
                          \E r \in Keyed(k) : <<r, "main">> \in conn.data.rows
    BY DEF UsedByRow
  <1>1. \A l \in conn.data.rows : l[1] \in Requests /\ l = <<l[1], l[2]>>
    BY DEF TypeOK, Connection, Tables, Legs
  <1>2. ASSUME NEW l \in conn.data.rows, l[2] = "main", job[l[1]].key = k
        PROVE  \E r \in Keyed(k) : <<r, "main">> \in conn.data.rows
    BY <1>1, <1>2 DEF Keyed
  <1>3. ASSUME NEW r \in Keyed(k), <<r, "main">> \in conn.data.rows
        PROVE  KeyUsed(conn.data, k)
    <2> DEFINE l == <<r, "main">>
    <2>1. l[1] = r /\ l[2] = "main"
      OBVIOUS
    <2> HIDE DEF l
    <2> QED
      BY <2>1, <1>3 DEF KeyUsed, Keyed, l
  <1> QED
    BY <1>2, <1>3 DEF KeyUsed

\* What the request that moves does to its key.
LEMMA KeyOwnStep ==
    ASSUME TypeOK, ShapeOK, BalanceInv, NEW r \in Requests, Step(r),
           job[r].op \in {"deposit", "withdraw"}, NEW k \in Keys, job[r].key = k
    PROVE  /\ Using(r)' /\ ~Using(r) =>
                 ~KeyUsed(db, k) /\ (UsingKey(k) = {} \/ k \in raced')
           /\ <<r, "main">> \in conn'.data.rows =>
                 \/ <<r, "main">> \in conn.data.rows
                 \/ Using(r) /\ ~Using(r)' /\ ~KeyUsed(db, k)
           /\ <<r, "main">> \in conn'.data.applied =>
                 \/ Using(r)' \/ <<r, "main">> \in conn'.data.rows
                 \/ <<r, "main">> \in conn.data.applied /\ (~Using(r) \/ KeyUsed(db, k))
  <1>0. /\ job' = job /\ k # NoKey
        /\ pc \in [Requests -> {"new"} \cup Running \cup Terminal]
        /\ loc \in [Requests -> [leg : Parts, ok : BOOLEAN, seen : Int]]
        /\ db \in Tables /\ db = conn.data
    BY LocalStep, WalletConstants DEF TypeOK, Connection, db
  <1>1. Shape(r) /\ Fresh(r) /\ Grows
    BY DEF ShapeOK, BalanceInv, AllFresh
  <1>e. Ends => conn'.data = conn.data
    BY <1>0, WriteFields, TransactionFields DEF Ends
  <1> USE <1>0, <1>1 DEF Shape, Fresh, Unapplied, Go, SimpleOps, MoneyOps, ConfigOps, Terminal, Using
  <1>2. CASE Lookup(r)
    BY <1>2, <1>e DEF Lookup, Ends
  <1>5. CASE Check(r)
    BY <1>5, <1>e DEF Check, Ends
  <1>6. CASE BeginTxn(r)
    BY <1>6, <1>e DEF BeginTxn, Ends
  <1>7. CASE Update(r)
    <2>1. /\ pc' = [pc EXCEPT ![r] = "commit"] /\ pc[r] = "update"
          /\ loc'[r].leg = loc[r].leg
          /\ Write(WithLeg(db, r, loc[r].leg)) \/ Write(db)
      BY <1>7 DEF Update
    <2>2. /\ WithLeg(db, r, loc[r].leg).applied = db.applied \cup {<<r, loc[r].leg>>}
          /\ WithLeg(db, r, loc[r].leg).rows = db.rows
      BY WithLegFields
    <2>3. /\ conn'.data.rows = db.rows
          /\ conn'.data.applied = db.applied \/ conn'.data.applied = db.applied \cup {<<r, loc[r].leg>>}
      BY <2>1, <2>2, WriteFields
    <2> QED
      BY <2>1, <2>3
  <1>8. CASE CommitTxn(r)
    BY <1>8, <1>e DEF CommitTxn, Ends
  <1>9. CASE InsertRow(r)
    <2> DEFINE p == loc[r].leg
               duplicate == p = "main" /\ job[r].key # NoKey /\ KeyUsed(db, job[r].key)
    <2>0. pc[r] = "row" /\ loc' = loc
      BY <1>9 DEF InsertRow
    <2>1. CASE duplicate
      <3>1. conn' = conn /\ pc' = [pc EXCEPT ![r] = "error"]
        BY <1>9, <2>1 DEF InsertRow
      <3> QED
        BY <3>1, <2>0, <2>1
    <2>2. CASE ~duplicate
      <3>1. Records(r, p) /\ pc' = [pc EXCEPT ![r] = "rowCommit"]
        BY <1>9, <2>2 DEF InsertRow, Records
      <3>2. conn'.data.applied = db.applied /\ conn'.data.rows = db.rows \cup {<<r, p>>}
        BY <3>1, RowFields
      <3> QED
        BY <3>1, <3>2, <2>0, <2>2
    <2> QED
      BY <2>1, <2>2
  <1>10. CASE CommitRow(r)
    BY <1>10, <1>e DEF CommitRow, Ends
  <1>11. CASE EmitEvent(r)
    <2>1. conn'.data.applied = db.applied /\ conn'.data.rows = db.rows
      BY <1>11, RowFields DEF EmitEvent, Announces
    <2> QED
      BY <2>1, <1>11 DEF EmitEvent
  <1>12. CASE CommitEvent(r)
    BY <1>12, <1>e DEF CommitEvent, Ends
  <1>13. CASE MaybeReload(r)
    <2>1. conn' = conn /\ pc[r] = "reload"
      BY <1>13 DEF MaybeReload
    <2>2. \/ pc' = [pc EXCEPT ![r] = "begin"] /\ loc' = [loc EXCEPT ![r].leg = "reload"]
          \/ pc' = [pc EXCEPT ![r] = "done"] /\ loc' = loc
      BY <1>13 DEF MaybeReload
    <2> QED
      BY <2>1, <2>2
  <1>14. CASE \/ Enter(r) \/ CheckNoWallet(r) \/ InsertWallet(r) \/ CommitWallet(r)
              \/ BeginConversion(r) \/ DebitSource(r) \/ CreditTarget(r) \/ RecordConversion(r)
              \/ CommitConversion(r) \/ UndoConversion(r) \/ Configure(r) \/ CommitConfig(r)
    BY <1>14 DEF Enter, CheckNoWallet, InsertWallet, CommitWallet, BeginConversion, DebitSource,
                 CreditTarget, RecordConversion, CommitConversion, UndoConversion, Configure, CommitConfig
  <1> QED
    BY <1>2, <1>5, <1>6, <1>7, <1>8, <1>9, <1>10, <1>11, <1>12, <1>13, <1>14 DEF Step, Arrive, Continue

\* Only a lookup adds a raced key, and no step forgets one.
LEMMA RacedGrows ==
    ASSUME NEW r \in Requests, Step(r)
    PROVE  raced \subseteq raced'
  BY DEF Step, Arrive, Continue, History, Lookup, Enter, CheckNoWallet, Check, BeginTxn, Update,
         CommitTxn, InsertRow, CommitRow, EmitEvent, CommitEvent, MaybeReload, InsertWallet,
         CommitWallet, BeginConversion, DebitSource, CreditTarget, RecordConversion,
         CommitConversion, UndoConversion, Configure, CommitConfig

\* A step that leaves the run undisturbed loses nothing, and what it adds is
\* the mover's.
LEMMA UndisturbedStep ==
    ASSUME TypeOK, BalanceInv, NEW r \in Requests, Step(r), Undisturbed'
    PROVE  /\ Undisturbed /\ Monotone
           /\ \A s \in Requests \ {r}, p \in Parts :
                 /\ <<s, p>> \in conn'.data.applied <=> <<s, p>> \in conn.data.applied
                 /\ <<s, p>> \in conn'.data.rows <=> <<s, p>> \in conn.data.rows
  <1>1. Grows
    BY DEF BalanceInv
  <1>2. Undisturbed /\ Monotone
    BY <1>1, MonotoneStep, LocalStep DEF Undisturbed
  <1>3. Widens(conn.data, conn'.data, r)
    BY <1>1, TablesWiden
  <1>4. \A s \in Requests, p \in Parts : <<s, p>> \in Legs /\ <<s, p>>[1] = s
    BY DEF Legs
  <1> QED
    BY <1>2, <1>3, <1>4 DEF Widens, Monotone

LEMMA KeyStep ==
    ASSUME TypeOK, TypeOK', ShapeOK, BalanceInv, KeyInv, NEW r \in Requests, Step(r)
    PROVE  KeyInv'
  <1> SUFFICES ASSUME Undisturbed' PROVE RowsOnce' /\ \A k \in Keys \ raced' : Solo(k)'
    BY DEF KeyInv
  <1>1. Undisturbed /\ Monotone /\ RowsOnce /\ \A k \in Keys \ raced : Solo(k)
    BY UndisturbedStep DEF KeyInv
  <1>2. /\ job' = job /\ raced \subseteq raced' /\ db = conn.data
        /\ \A k : Keyed(k)' = Keyed(k) /\ Keyed(k) \subseteq Requests
    BY LocalStep, RacedGrows DEF Keyed, db
  <1>3. \A s \in Requests : s # r =>
            /\ Using(s)' <=> Using(s)
            /\ <<s, "main">> \in conn'.data.applied <=> <<s, "main">> \in conn.data.applied
            /\ <<s, "main">> \in conn'.data.rows <=> <<s, "main">> \in conn.data.rows
    BY OthersStay, UndisturbedStep DEF Using, Parts
  <1>4. \A k \in Keys : r \in Keyed(k) => job[r].op \in {"deposit", "withdraw"}
    BY WalletConstants DEF TypeOK, Keyed
  <1>5. ASSUME NEW k \in Keys
        PROVE  /\ KeyUsed(conn.data, k) <=> \E s \in Keyed(k) : <<s, "main">> \in conn.data.rows
               /\ KeyUsed(conn.data, k)' <=> \E s \in Keyed(k) : <<s, "main">> \in conn'.data.rows
               /\ UsingKey(k) = {s \in Keyed(k) : Using(s)}
               /\ UsingKey(k)' = {s \in Keyed(k) : Using(s)'}
    <2>1. KeyUsed(conn.data, k) <=> \E s \in Keyed(k) : <<s, "main">> \in conn.data.rows
      BY KeyUsedIs DEF UsedByRow
    <2>2. KeyUsed(conn.data, k)' <=> \E s \in Keyed(k)' : <<s, "main">> \in conn'.data.rows
      <3>1. UsedByRow'
        BY KeyUsedIs, PTL
      <3> QED
        BY <3>1 DEF UsedByRow
    <2>3. UsingKey(k)' = {s \in Keyed(k)' : Using(s)'}
      BY DEF UsingKey, Keyed, Using
    <2> QED
      BY <2>1, <2>2, <2>3, <1>2, UsingIs
  <1>6. ASSUME NEW k \in Keys, r \in Keyed(k)
        PROVE  /\ Using(r)' /\ ~Using(r) =>
                     ~KeyUsed(conn.data, k) /\ (UsingKey(k) = {} \/ k \in raced')
               /\ <<r, "main">> \in conn'.data.rows =>
                     \/ <<r, "main">> \in conn.data.rows
                     \/ Using(r) /\ ~Using(r)' /\ ~KeyUsed(conn.data, k)
               /\ <<r, "main">> \in conn'.data.applied =>
                     \/ Using(r)' \/ <<r, "main">> \in conn'.data.rows
                     \/ <<r, "main">> \in conn.data.applied /\ (~Using(r) \/ KeyUsed(conn.data, k))
    <2>1. job[r].key = k /\ job[r].op \in {"deposit", "withdraw"}
      BY <1>4, <1>6 DEF Keyed
    <2> QED
      BY <2>1, <1>2, KeyOwnStep
  <1>7. RowsOnce'
    <2> SUFFICES ASSUME NEW k \in Keys, NEW x \in Keyed(k), NEW y \in Keyed(k),
                        <<x, "main">> \in conn'.data.rows, <<y, "main">> \in conn'.data.rows
                 PROVE  x = y
      BY <1>2 DEF RowsOnce
    <2>1. \A s \in Keyed(k) : <<s, "main">> \in conn'.data.rows =>
              \/ <<s, "main">> \in conn.data.rows
              \/ s = r /\ ~KeyUsed(conn.data, k)
      BY <1>2, <1>3, <1>6
    <2> QED
      BY <2>1, <1>1, <1>5 DEF RowsOnce
  <1>8. ASSUME NEW k \in Keys \ raced' PROVE Solo(k)'
    <2>1. Solo(k)
      BY <1>1, <1>2
    <2>2. \A s \in Keyed(k) : s # r =>
              /\ Using(s)' <=> Using(s)
              /\ <<s, "main">> \in conn'.data.applied <=> <<s, "main">> \in conn.data.applied
              /\ <<s, "main">> \in conn'.data.rows <=> <<s, "main">> \in conn.data.rows
      BY <1>2, <1>3
    <2>3. \A x, y \in UsingKey(k)' : x = y
      BY <2>1, <2>2, <1>5, <1>6 DEF Solo
    <2>4. UsingKey(k)' # {} => ~KeyUsed(conn.data, k)'
      <3> SUFFICES ASSUME NEW x \in Keyed(k), Using(x)', NEW y \in Keyed(k),
                          <<y, "main">> \in conn'.data.rows
                   PROVE  FALSE
        BY <1>5
      <3>1. CASE <<y, "main">> \in conn.data.rows
        <4>1. KeyUsed(conn.data, k) /\ UsingKey(k) = {}
          BY <3>1, <2>1, <1>5 DEF Solo
        <4>2. x = r /\ ~Using(x)
          BY <4>1, <2>2, <1>5
        <4> QED
          BY <4>1, <4>2, <1>6
      <3>2. CASE <<y, "main">> \notin conn.data.rows
        <4>1. y = r /\ Using(r) /\ ~Using(r)'
          BY <3>2, <2>2, <1>6
        <4>2. x # r /\ Using(x)
          BY <4>1, <2>2
        <4> QED
          BY <4>1, <4>2, <2>1, <1>5 DEF Solo
      <3> QED
        BY <3>1, <3>2
    <2>5. \A x \in Keyed(k)' : <<x, "main">> \in conn'.data.applied =>
              x \in UsingKey(k)' \/ <<x, "main">> \in conn'.data.rows
      BY <2>1, <2>2, <1>1, <1>2, <1>5, <1>6 DEF Solo, Monotone
    <2> QED
      BY <2>3, <2>4, <2>5 DEF Solo
  <1> QED
    BY <1>7, <1>8

LEMMA NextKey == TypeOK /\ ShapeOK /\ BalanceInv /\ KeyInv /\ [Next]_vars => KeyInv'
  <1> SUFFICES ASSUME TypeOK, ShapeOK, BalanceInv, KeyInv, [Next]_vars PROVE KeyInv'
    OBVIOUS
  <1>1. ASSUME NEW r \in Requests, Step(r) PROVE KeyInv'
    BY <1>1, KeyStep, NextType
  <1>2. CASE CrashProcess
    BY <1>2 DEF CrashProcess, KeyInv, Undisturbed, TypeOK
  <1>4. ASSUME NEW r \in Requests, TimeOut(r) PROVE KeyInv'
    BY <1>4 DEF TimeOut, KeyInv, Undisturbed, TypeOK
  <1>3. CASE UNCHANGED vars
    BY <1>3 DEF vars, KeyInv, Undisturbed, RowsOnce, Solo, Keyed, UsingKey, KeyUsed
  <1> QED
    BY <1>1, <1>2, <1>3, <1>4 DEF Next, Step, Idle

LEMMA InitKey == Init => KeyInv
  <1> SUFFICES ASSUME Init PROVE RowsOnce /\ \A k \in Keys : Solo(k)
    BY DEF KeyInv
  <1>1. conn.data.rows = {} /\ conn.data.applied = {} /\ \A r \in Requests : pc[r] = "new"
    BY DEF Init, Connected, Tables0
  <1> QED
    BY <1>1 DEF RowsOnce, Solo, UsingKey, Keyed

\* Retries of a keyed deposit or withdrawal that do not overlap the first
\* attempt move the balance once.
THEOREM WalletKeyedOnce == Spec => []KeyedOnce
  <1>1. TypeOK /\ KeyInv => KeyedOnce
    <2> SUFFICES ASSUME TypeOK, KeyInv, Undisturbed, NEW k \in Keys \ raced,
                        NEW r \in Keyed(k), NEW s \in Keyed(k),
                        <<r, "main">> \in db.applied, <<s, "main">> \in db.applied
                 PROVE  r = s
      BY DEF KeyedOnce, Keyed
    <2>1. RowsOnce /\ Solo(k)
      BY DEF KeyInv
    <2>2. KeyUsed(conn.data, k) <=> \E x \in Keyed(k) : <<x, "main">> \in conn.data.rows
      BY KeyUsedIs DEF UsedByRow
    <2> QED
      BY <2>1, <2>2 DEF Solo, RowsOnce, db
  <1> QED
    BY <1>1, InitType, NextType, InitShape, NextShape, InitBalance, NextBalance, InitKey, NextKey,
       PTL DEF Spec

-----------------------------------------------------------------------------
(***************************************************************************)
(* The ledger.  Who has an open transaction, which applied legs still owe  *)
(* their row, and which events may stand without one.                      *)
(***************************************************************************)
InTransaction == {"update", "commit", "cDebit", "cCredit", "cRow1", "cRow2",
                  "cCommit", "cUndo"}

OpenFor == faults = 0 /\ conn.open => \E r \in Requests : pc[r] \in InTransaction

Applied(r, p) == <<r, p>> \in conn.data.applied
Booked(r, p) == <<r, p>> \in conn.data.rows
Announced(r, p) == <<r, p>> \in conn.data.events
Owes(r, p) == Applied(r, p) /\ ~Booked(r, p)

BooksSimple(r) ==
    /\ ~Applied(r, "bonus") /\ ~Applied(r, "to")
    /\ \A p \in {"main", "reload"} :
          Owes(r, p) => \/ loc[r].leg = p /\ pc[r] \in {"commit", "row"}
                        \/ pc[r] = "error" /\ p = "main" /\ job[r].key \in raced
    /\ pc[r] = "row" => Applied(r, loc[r].leg)
    /\ pc[r] = "commit" /\ loc[r].ok => Applied(r, loc[r].leg)
    /\ pc[r] \in {"rowCommit", "event", "eventCommit"} => Booked(r, loc[r].leg)

BooksConvert(r) ==
    /\ ~Applied(r, "bonus") /\ ~Applied(r, "reload")
    /\ Owes(r, "main") => pc[r] \in {"cCredit", "cRow1"}
    /\ Owes(r, "to") => pc[r] \in {"cRow1", "cRow2"}
    /\ pc[r] \in {"cCredit", "cRow1"} => Applied(r, "main")
    /\ pc[r] \in {"cRow1", "cRow2"} => Applied(r, "to")
    /\ pc[r] \in {"cRow2", "cCommit", "event", "eventCommit"} => Booked(r, "main")
    /\ pc[r] \in {"cCommit", "event", "eventCommit"} => Booked(r, "to")

\* A creation owes the row of its bonus first, then that of its opening
\* amount, and neither when it is not positive.
BooksCreate(r) ==
    /\ ~Applied(r, "to") /\ ~Applied(r, "reload")
    /\ pc[r] \in {"insertCommit", "row", "rowCommit", "event", "eventCommit"} =>
          Applied(r, "bonus") /\ Applied(r, "main")
    /\ pc[r] \in {"row", "rowCommit", "event", "eventCommit"} => loc[r].leg \in {"bonus", "main"}
    /\ Owes(r, "bonus") => \/ SignupBonus = 0
                           \/ pc[r] = "insertCommit"
                           \/ pc[r] = "row" /\ loc[r].leg = "bonus"
    /\ Owes(r, "main") =>
          \/ job[r].amount <= 0
          \/ pc[r] = "insertCommit"
          \/ pc[r] \in {"row", "rowCommit", "event", "eventCommit"} /\ loc[r].leg = "bonus"
          \/ pc[r] = "row" /\ loc[r].leg = "main"
    /\ pc[r] = "rowCommit" => Booked(r, loc[r].leg)
    /\ pc[r] \in {"event", "eventCommit"} =>
          Booked(r, loc[r].leg) \/ (loc[r].leg = "main" /\ job[r].amount <= 0)

Books(r) ==
    /\ \A p \in Parts : Booked(r, p) => Applied(r, p)
    /\ \A p \in Parts : Announced(r, p) =>
          Booked(r, p) \/ (p = "main" /\ job[r].op = "create" /\ job[r].amount <= 0)
    /\ job[r].op \in SimpleOps => BooksSimple(r)
    /\ job[r].op = "convert" => BooksConvert(r)
    /\ job[r].op = "create" => BooksCreate(r)
    /\ job[r].op \in ConfigOps => \A p \in Parts : ~Applied(r, p)

BookInv == OpenFor /\ (Undisturbed => \A r \in Requests : Books(r))

\* Without a timeout the transaction of the connection has an owner on its way
\* to end it.
LEMMA OpenStep ==
    ASSUME TypeOK, ShapeOK, OpenFor, NEW r \in Requests, Step(r)
    PROVE  OpenFor'
  <1>0. /\ pc \in [Requests -> {"new"} \cup Running \cup Terminal]
        /\ db \in Tables /\ db = conn.data
    BY DEF TypeOK, Connection, db
  <1>1. faults' = faults /\ \A s \in Requests \ {r} : pc'[s] = pc[s]
    BY OthersStay, LocalStep
  <1>2. ASSUME conn'.open = conn.open, pc[r] \in InTransaction => pc'[r] \in InTransaction
        PROVE  OpenFor'
    BY <1>1, <1>2 DEF OpenFor
  <1>3. ASSUME pc'[r] \in InTransaction PROVE OpenFor'
    BY <1>3 DEF OpenFor
  <1>4. ASSUME conn' = Commit(conn) \/ conn' = Rollback(conn) PROVE OpenFor'
    BY <1>4, TransactionFields DEF OpenFor
  <1>w. ASSUME NEW d, Write(d) PROVE conn'.open = conn.open
    BY <1>w, WriteFields
  <1> USE <1>0 DEF Go, InTransaction
  <1>5. CASE Lookup(r) \/ Enter(r) \/ CheckNoWallet(r) \/ Check(r)
    BY <1>5, <1>2 DEF Lookup, Enter, CheckNoWallet, Check
  <1>6. CASE BeginTxn(r) \/ BeginConversion(r)
    BY <1>6, <1>2, <1>3 DEF BeginTxn, BeginConversion
  <1>7. CASE Update(r)
    BY <1>7, <1>3 DEF Update
  <1>8. CASE CommitTxn(r) \/ CommitRow(r) \/ CommitWallet(r) \/ CommitConversion(r)
             \/ CommitConfig(r) \/ UndoConversion(r)
    BY <1>8, <1>4 DEF CommitTxn, CommitRow, CommitWallet, CommitConversion, CommitConfig, UndoConversion
  <1>9. CASE CommitEvent(r)
    BY <1>9, <1>4 DEF CommitEvent
  <1>10. CASE InsertRow(r)
    <2>1. conn' = conn \/ \E p : Records(r, p)
      BY <1>10 DEF InsertRow, Records
    <2>2. conn'.open = conn.open
      BY <2>1, <1>w DEF Records
    <2> QED
      BY <2>2, <1>10, <1>2 DEF InsertRow
  <1>11. CASE EmitEvent(r)
    BY <1>11, <1>2, <1>w DEF EmitEvent
  <1>12. CASE MaybeReload(r)
    BY <1>12, <1>2 DEF MaybeReload
  <1>13. CASE InsertWallet(r)
    <2>1. conn'.open = conn.open
      BY <1>13, <1>w DEF InsertWallet
    <2> QED
      BY <2>1, <1>13, <1>2 DEF InsertWallet
  <1>14. CASE DebitSource(r) \/ CreditTarget(r) \/ RecordConversion(r)
    BY <1>14, <1>3 DEF DebitSource, CreditTarget, RecordConversion
  <1>15. CASE Configure(r)
    BY <1>15, <1>2, <1>w DEF Configure
  <1> QED
    BY <1>5, <1>6, <1>7, <1>8, <1>9, <1>10, <1>11, <1>12, <1>13, <1>14, <1>15 DEF Step, Arrive, Continue

\* Nobody announces a leg of somebody else.
LEMMA EventsStep ==
    ASSUME TypeOK, BalanceInv, NEW r \in Requests, Step(r), Undisturbed'
    PROVE  \A s \in Requests \ {r}, p \in Parts : Announced(s, p)' => Announced(s, p)
  <1>0. db \in Tables /\ db = conn.data
    BY DEF TypeOK, Connection, db
  <1> SUFFICES \A s \in Requests \ {r}, q \in Parts :
                  <<s, q>> \in conn'.data.events => <<s, q>> \in conn.data.events
    BY DEF Announced
  <1>1. CASE Ends
    BY <1>1, <1>0, WriteFields, TransactionFields DEF Ends
  <1>2. ASSUME NEW p \in Parts, Applies(r, p) PROVE conn'.data.events = conn.data.events
    BY <1>2, <1>0, WriteFields, WithLegFields DEF Applies
  <1>3. ASSUME NEW p \in Parts, Records(r, p) \/ Announces(r, p)
        PROVE  conn'.data.events \subseteq conn.data.events \cup {<<r, p>>}
    BY <1>3, <1>0, RowFields
  <1>4. CASE Opens(r)
    <2>1. conn'.data = Opened(r)
      BY <1>4, WriteFields DEF Opens
    <2> QED
      BY <2>1, <1>0, OpenedFields
  <1>5. CASE Configures(r)
    BY <1>5, <1>0, WriteFields, ConfiguredFields DEF Configures
  <1>6. CASE Undoes
    <2>1. conn.data = conn.saved
      BY <1>6 DEF Undoes, Undisturbed
    <2> QED
      BY <2>1, <1>6, TransactionFields DEF Undoes
  <1> QED
    BY <1>1, <1>2, <1>3, <1>4, <1>5, <1>6, TableSteps

\* The request that moves keeps its own books: what it applies it will record,
\* unless its key is taken by a rival it raced.
LEMMA BookOwnStep ==
    ASSUME TypeOK, ShapeOK, BalanceInv, KeyInv, Undisturbed, Undisturbed',
           NEW r \in Requests, Books(r), Step(r)
    PROVE  Books(r)'
  <1>0. /\ job' = job /\ job[r].op \in MoneyOps \cup ConfigOps
        /\ pc \in [Requests -> {"new"} \cup Running \cup Terminal]
        /\ loc \in [Requests -> [leg : Parts, ok : BOOLEAN, seen : Int]]
        /\ db \in Tables /\ db = conn.data /\ raced \subseteq raced'
        /\ job[r].op \notin {"deposit", "withdraw"} => job[r].key = NoKey
        /\ Parts = {"bonus", "main", "to", "reload"}
        /\ SignupBonus \in Nat /\ job[r].amount \in Int
    BY LocalStep, RacedGrows, WalletConstants DEF TypeOK, Job, Connection, db, Parts
  <1>1. Shape(r) /\ Fresh(r)
    BY DEF ShapeOK, BalanceInv, AllFresh
  <1> DEFINE Same == conn'.data = conn.data
  <1>e. Ends => Same
    BY <1>0, WriteFields, TransactionFields DEF Ends
  <1>a. ASSUME NEW p, Write(WithLeg(db, r, p))
        PROVE  \A q \in Parts : /\ Applied(r, q)' <=> Applied(r, q) \/ q = p
                                /\ Booked(r, q)' <=> Booked(r, q)
                                /\ Announced(r, q)' <=> Announced(r, q)
    <2>1. /\ conn'.data.applied = db.applied \cup {<<r, p>>}
          /\ conn'.data.rows = db.rows /\ conn'.data.events = db.events
      BY <1>a, <1>0, WriteFields, WithLegFields
    <2> QED
      BY <2>1, <1>0 DEF Applied, Booked, Announced
  <1>r. ASSUME NEW p, Records(r, p)
        PROVE  \A q \in Parts : /\ Applied(r, q)' <=> Applied(r, q)
                                /\ Booked(r, q)' <=> Booked(r, q) \/ q = p
                                /\ Announced(r, q)' <=> Announced(r, q)
    BY <1>r, <1>0, RowFields DEF Applied, Booked, Announced
  <1>v. ASSUME NEW p, Announces(r, p)
        PROVE  \A q \in Parts : /\ Applied(r, q)' <=> Applied(r, q)
                                /\ Booked(r, q)' <=> Booked(r, q)
                                /\ Announced(r, q)' <=> Announced(r, q) \/ q = p
    BY <1>v, <1>0, RowFields DEF Applied, Booked, Announced
  <1>s. Same => \A q : /\ Applied(r, q)' <=> Applied(r, q)
                       /\ Booked(r, q)' <=> Booked(r, q)
                       /\ Announced(r, q)' <=> Announced(r, q)
    BY DEF Applied, Booked, Announced
  <1>u. \A q : Unapplied(r, q) <=> ~Applied(r, q)
    BY DEF Unapplied, Applied
  <1> HIDE DEF Same
  <1> USE <1>0, <1>1, <1>u DEF Shape, Fresh, Go, SimpleOps, MoneyOps, ConfigOps, Terminal,
          Books, BooksSimple, BooksConvert, BooksCreate, Owes
  <1>2. CASE Lookup(r)
    BY <1>2, <1>e, <1>s DEF Lookup, Ends
  <1>3. CASE Enter(r)
    BY <1>3, <1>e, <1>s DEF Enter, Ends
  <1>4. CASE CheckNoWallet(r)
    BY <1>4, <1>e, <1>s DEF CheckNoWallet, Ends
  <1>5. CASE Check(r)
    BY <1>5, <1>e, <1>s DEF Check, Ends
  <1>6. CASE BeginTxn(r)
    BY <1>6, <1>e, <1>s DEF BeginTxn, Ends
  <1>7. CASE Update(r)
    <2>1. /\ pc' = [pc EXCEPT ![r] = "commit"] /\ pc[r] = "update"
          /\ loc'[r].leg = loc[r].leg
          /\ \/ Write(WithLeg(db, r, loc[r].leg)) /\ loc'[r].ok
             \/ Write(db) /\ ~loc'[r].ok
      BY <1>7 DEF Update
    <2>2. CASE Write(WithLeg(db, r, loc[r].leg)) /\ loc'[r].ok
      BY <2>1, <2>2, <1>a
    <2>3. CASE Write(db) /\ ~loc'[r].ok
      BY <2>1, <2>3, <1>e, <1>s DEF Ends
    <2> QED
      BY <2>1, <2>2, <2>3
  <1>8. CASE CommitTxn(r)
    BY <1>8, <1>e, <1>s DEF CommitTxn, Ends
  <1>9. CASE InsertRow(r)
    <2> DEFINE p == loc[r].leg
               k == job[r].key
               duplicate == p = "main" /\ k # NoKey /\ KeyUsed(db, k)
    <2>0. pc[r] = "row" /\ loc' = loc /\ p \in Parts
      BY <1>9 DEF InsertRow
    <2>1. CASE duplicate
      <3>1. conn' = conn /\ pc' = [pc EXCEPT ![r] = "error"]
        BY <1>9, <2>1 DEF InsertRow
      <3>2. k \in raced
        <4>1. k \in Keys
          BY <2>1, WalletConstants DEF TypeOK, Job
        <4>2. r \in UsingKey(k)
          BY <2>0, <2>1 DEF UsingKey
        <4> QED
          BY <4>1, <4>2, <2>1 DEF KeyInv, Solo
      <3>3. job[r].op \in {"deposit", "withdraw"}
        BY <2>1
      <3>4. Same
        BY <3>1 DEF Same
      <3> QED
        BY <3>1, <3>2, <3>3, <3>4, <1>s, <2>0, <2>1
    <2>2. CASE ~duplicate
      <3>1. Records(r, p) /\ pc' = [pc EXCEPT ![r] = "rowCommit"]
        BY <1>9, <2>2 DEF InsertRow, Records
      <3>2. \A q \in Parts : /\ Applied(r, q)' <=> Applied(r, q)
                             /\ Booked(r, q)' <=> Booked(r, q) \/ q = p
                             /\ Announced(r, q)' <=> Announced(r, q)
        BY <3>1, <1>r
      <3>3. Applied(r, p)
        BY <2>0
      <3>4. \A q \in Parts : Booked(r, q)' => Applied(r, q)'
        BY <3>2, <3>3
      <3> QED
        BY <3>1, <3>2, <3>4, <2>0
    <2> QED
      BY <2>1, <2>2
  <1>10. CASE CommitRow(r)
    BY <1>10, <1>e, <1>s DEF CommitRow, Ends
  <1>11. CASE EmitEvent(r)
    <2>1. Announces(r, loc[r].leg) /\ pc[r] = "event" /\ loc' = loc
          /\ pc' = [pc EXCEPT ![r] = "eventCommit"]
      BY <1>11 DEF EmitEvent, Announces
    <2> QED
      BY <2>1, <1>v
  <1>12. CASE CommitEvent(r)
    BY <1>12, <1>e, <1>s DEF CommitEvent, Ends
  <1>13. CASE MaybeReload(r)
    <2>1. Same /\ pc[r] = "reload" /\ job[r].op \in SimpleOps
      BY <1>13, <1>e DEF MaybeReload, Ends
    <2>2. \/ pc' = [pc EXCEPT ![r] = "begin"] /\ loc' = [loc EXCEPT ![r].leg = "reload"]
          \/ pc' = [pc EXCEPT ![r] = "done"] /\ loc' = loc
      BY <1>13 DEF MaybeReload
    <2> QED
      BY <2>1, <2>2, <1>s
  <1>14. CASE InsertWallet(r)
    <2>1. CASE UNCHANGED conn /\ pc' = [pc EXCEPT ![r] = "error"]
      BY <2>1, <1>14, <1>e, <1>s DEF InsertWallet, Ends
    <2>2. CASE pc' = [pc EXCEPT ![r] = "insertCommit"]
      <3>1. conn'.data = Opened(r) /\ pc[r] = "insertWallet" /\ job[r].op = "create" /\ loc' = loc
        BY <2>2, <1>14, WriteFields DEF InsertWallet, Opened
      <3>2. \A q \in Parts : /\ Applied(r, q)' <=> Applied(r, q) \/ q \in {"bonus", "main"}
                             /\ Booked(r, q)' <=> Booked(r, q)
                             /\ Announced(r, q)' <=> Announced(r, q)
        <4>1. /\ conn'.data.applied = db.applied \cup {<<r, "bonus">>, <<r, "main">>}
              /\ conn'.data.rows = db.rows /\ conn'.data.events = db.events
          BY <3>1, OpenedFields
        <4> QED
          BY <4>1 DEF Applied, Booked, Announced
      <3> QED
        BY <3>1, <3>2, <2>2
    <2> QED
      BY <2>1, <2>2, <1>14 DEF InsertWallet
  <1>15. CASE CommitWallet(r)
    BY <1>15, <1>e, <1>s DEF CommitWallet, Ends
  <1>16. CASE BeginConversion(r)
    BY <1>16, <1>e, <1>s DEF BeginConversion, Ends
  <1>17. CASE DebitSource(r)
    <2>1. CASE UNCHANGED conn /\ pc' = [pc EXCEPT ![r] = "cUndo"]
      BY <2>1, <1>17, <1>e, <1>s DEF DebitSource, Ends
    <2>2. CASE Write(WithLeg(db, r, "main")) /\ pc' = [pc EXCEPT ![r] = "cCredit"]
      BY <2>2, <1>17, <1>a DEF DebitSource
    <2> QED
      BY <2>1, <2>2, <1>17 DEF DebitSource
  <1>18. CASE CreditTarget(r)
    BY <1>18, <1>a DEF CreditTarget
  <1>19. CASE RecordConversion(r)
    <2>1. \/ pc[r] = "cRow1" /\ Records(r, "main") /\ pc' = [pc EXCEPT ![r] = "cRow2"]
          \/ pc[r] = "cRow2" /\ Records(r, "to") /\ pc' = [pc EXCEPT ![r] = "cCommit"]
      BY <1>19 DEF RecordConversion, Records
    <2>2. loc' = loc
      BY <1>19 DEF RecordConversion
    <2> QED
      BY <2>1, <2>2, <1>r
  <1>20. CASE CommitConversion(r)
    BY <1>20, <1>e, <1>s DEF CommitConversion, Ends
  <1>21. CASE UndoConversion(r)
    <2>1. Same
      <3>1. conn.data = conn.saved
        BY <1>21 DEF UndoConversion, Undisturbed
      <3> QED
        BY <3>1, <1>21, TransactionFields DEF UndoConversion, Same
    <2> QED
      BY <2>1, <1>21, <1>s DEF UndoConversion
  <1>22. CASE Configure(r)
    <2>1. /\ conn'.data.applied = db.applied /\ conn'.data.rows = db.rows
          /\ conn'.data.events = db.events
      <3>1. conn'.data = Configured(r)
        BY <1>22, WriteFields DEF Configure, Configured
      <3> QED
        BY <3>1, ConfiguredFields
    <2> QED
      BY <2>1, <1>22 DEF Configure, Applied, Booked, Announced
  <1>23. CASE CommitConfig(r)
    BY <1>23, <1>e, <1>s DEF CommitConfig, Ends
  <1> QED
    BY <1>2, <1>3, <1>4, <1>5, <1>6, <1>7, <1>8, <1>9, <1>10, <1>11, <1>12, <1>13, <1>14, <1>15, <1>16, <1>17, <1>18, <1>19, <1>20, <1>21, <1>22, <1>23 DEF Step, Arrive, Continue

LEMMA BookStep ==
    ASSUME TypeOK, ShapeOK, BalanceInv, KeyInv, BookInv, NEW r \in Requests, Step(r)
    PROVE  BookInv'
  <1>1. OpenFor'
    BY OpenStep DEF BookInv
  <1>2. ASSUME Undisturbed', NEW s \in Requests PROVE Books(s)'
    <2>1. Undisturbed /\ Books(s)
      BY <1>2, UndisturbedStep DEF BookInv
    <2>2. CASE s = r
      BY <1>2, <2>1, <2>2, BookOwnStep
    <2>3. CASE s # r
      <3>1. pc'[s] = pc[s] /\ loc'[s] = loc[s] /\ job' = job /\ raced \subseteq raced'
        BY <2>3, OthersStay, RacedGrows
      <3>2. \A p \in Parts : /\ Applied(s, p)' <=> Applied(s, p)
                             /\ Booked(s, p)' <=> Booked(s, p)
        BY <1>2, <2>3, UndisturbedStep DEF Applied, Booked
      <3>3. \A p \in Parts : Announced(s, p)' => Announced(s, p)
        BY <1>2, <2>3, EventsStep
      <3>4. loc[s].leg \in Parts /\ Parts = {"bonus", "main", "to", "reload"}
        BY DEF TypeOK, Parts
      <3> QED
        BY <2>1, <3>1, <3>2, <3>3, <3>4
           DEF Books, BooksSimple, BooksConvert, BooksCreate, Owes
    <2> QED
      BY <2>2, <2>3
  <1> QED
    BY <1>1, <1>2 DEF BookInv

LEMMA NextBook ==
    TypeOK /\ ShapeOK /\ BalanceInv /\ KeyInv /\ BookInv /\ [Next]_vars => BookInv'
  <1> SUFFICES ASSUME TypeOK, ShapeOK, BalanceInv, KeyInv, BookInv, [Next]_vars
               PROVE  BookInv'
    OBVIOUS
  <1>1. ASSUME NEW r \in Requests, Step(r) PROVE BookInv'
    BY <1>1, BookStep
  <1>2. CASE CrashProcess
    <2>1. OpenFor'
      BY <1>2, TransactionFields DEF CrashProcess, OpenFor
    <2>2. ~Undisturbed'
      BY <1>2 DEF CrashProcess, Undisturbed, TypeOK
    <2> QED
      BY <2>1, <2>2 DEF BookInv
  <1>4. ASSUME NEW r \in Requests, TimeOut(r) PROVE BookInv'
    BY <1>4 DEF TimeOut, BookInv, OpenFor, Undisturbed, TypeOK
  <1>3. CASE UNCHANGED vars
    <2>1. /\ job' = job /\ pc' = pc /\ loc' = loc /\ raced' = raced /\ conn' = conn
          /\ Undisturbed' = Undisturbed /\ faults' = faults
      BY <1>3 DEF vars, Undisturbed
    <2>2. OpenFor'
      BY <2>1 DEF BookInv, OpenFor
    <2>3. ASSUME NEW r \in Requests, Books(r) PROVE Books(r)'
      <3>1. \A p : /\ Applied(r, p)' = Applied(r, p) /\ Booked(r, p)' = Booked(r, p)
                   /\ Announced(r, p)' = Announced(r, p) /\ Owes(r, p)' = Owes(r, p)
        BY <2>1 DEF Applied, Booked, Announced, Owes
      <3>2. BooksSimple(r) => BooksSimple(r)'
        BY <2>1, <3>1 DEF BooksSimple
      <3>3. BooksConvert(r) => BooksConvert(r)'
        BY <2>1, <3>1 DEF BooksConvert
      <3>4. BooksCreate(r) => BooksCreate(r)'
        BY <2>1, <3>1 DEF BooksCreate
      <3> QED
        BY <2>1, <2>3, <3>1, <3>2, <3>3, <3>4 DEF Books
    <2> QED
      BY <2>1, <2>2, <2>3 DEF BookInv
  <1> QED
    BY <1>1, <1>2, <1>3, <1>4 DEF Next, Step, Idle

LEMMA InitBook == Init => BookInv
  <1> SUFFICES ASSUME Init PROVE BookInv
    OBVIOUS
  <1>1. /\ conn.data.rows = {} /\ conn.data.applied = {} /\ conn.data.events = {}
        /\ ~conn.open /\ \A r \in Requests : pc[r] = "new"
    BY DEF Init, Connected, Tables0
  <1> QED
    BY <1>1 DEF BookInv, OpenFor, Books, BooksSimple, BooksConvert, BooksCreate, Owes,
                Applied, Booked, Announced

\* When nothing is in flight an applied leg without a row moved nothing, or is
\* the opening amount of a creation.
LEMMA QuietBooks ==
    ASSUME TypeOK, BookInv, Quiet, Undisturbed, raced = {}, NEW l \in conn.data.applied,
           l \notin conn.data.rows
    PROVE  l \in Unbooked \/ AmountOf(l[1], l[2]) = 0
  <1>0. l \in Legs
    BY DEF TypeOK, Connection, Tables
  <1>1. PICK r \in Requests, p \in Parts : l = <<r, p>> /\ l[1] = r /\ l[2] = p
    BY <1>0 DEF Legs
  <1>2. Owes(r, p) /\ Books(r) /\ pc[r] \in {"new"} \cup Terminal
    BY <1>1 DEF Owes, Applied, Booked, BookInv, Quiet
  <1>3. Parts = {"bonus", "main", "to", "reload"} /\ job[r].op \in MoneyOps \cup ConfigOps
    BY WalletConstants DEF Parts, TypeOK, Job
  <1>4. CASE job[r].op = "create" /\ p = "main"
    <2>1. job[r].amount <= 0
      BY <1>2, <1>4 DEF Books, BooksCreate, Terminal
    <2> QED
      BY <2>1, <1>0, <1>1, <1>4 DEF Unbooked
  <1>5. CASE job[r].op = "create" /\ p = "bonus"
    BY <1>1, <1>2, <1>5 DEF Books, BooksCreate, Terminal, AmountOf
  <1>6. CASE job[r].op = "create" /\ p \in {"to", "reload"}
    BY <1>2, <1>6 DEF Books, BooksCreate, Owes
  <1>7. CASE job[r].op \in SimpleOps
    BY <1>2, <1>3, <1>7 DEF Books, BooksSimple, Owes, Terminal
  <1>8. CASE job[r].op = "convert"
    BY <1>2, <1>3, <1>8 DEF Books, BooksConvert, Owes, Terminal
  <1>9. CASE job[r].op \in ConfigOps
    BY <1>2, <1>9 DEF Books, Owes
  <1> QED
    BY <1>3, <1>4, <1>5, <1>6, <1>7, <1>8, <1>9 DEF SimpleOps, MoneyOps

\* Balances and ledger rows, each committed on its own, agree when nothing is
\* in flight, up to opening amounts that get no row.
THEOREM WalletLedgerReconciles == Spec => []LedgerReconciles
  <1>1. TypeOK /\ BalanceInv /\ BookInv => LedgerReconciles
    <2> SUFFICES ASSUME TypeOK, BalanceInv, BookInv, Quiet, Undisturbed, raced = {}
                 PROVE  /\ conn.data = conn.saved
                        /\ db.events \subseteq db.rows \cup Unbooked
                        /\ \A a \in Accounts :
                              db.balance[a] = Start[a] +
                                  Sum(LegAmounts, LegsOf(db.rows \cup (Unbooked \cap db.applied), a))
      BY DEF LedgerReconciles
    <2>0. /\ db = conn.data /\ db.applied \in SUBSET Legs /\ db.rows \in SUBSET Legs
          /\ db.events \in SUBSET Legs /\ job \in [Requests -> Job]
          /\ \A r \in Requests : Books(r)
      BY WalletConstants DEF TypeOK, Connection, Tables, db, BookInv
    <2>1. conn.data = conn.saved
      <3>1. ~conn.open
        BY DEF BookInv, OpenFor, Quiet, Undisturbed, InTransaction, Terminal
      <3> QED
        BY <3>1 DEF TypeOK, Settled
    <2>2. db.events \subseteq db.rows \cup Unbooked
      <3> SUFFICES ASSUME NEW l \in db.events, l \notin db.rows PROVE l \in Unbooked
        OBVIOUS
      <3>1. PICK r \in Requests, p \in Parts : l = <<r, p>> /\ l[1] = r /\ l[2] = p
        BY <2>0 DEF Legs
      <3>2. p = "main" /\ job[r].op = "create" /\ job[r].amount <= 0
        BY <2>0, <3>1 DEF Books, Announced, Booked
      <3> QED
        BY <2>0, <3>1, <3>2 DEF Unbooked
    <2>3. ASSUME NEW a \in Accounts
          PROVE  db.balance[a] = Start[a] +
                     Sum(LegAmounts, LegsOf(db.rows \cup (Unbooked \cap db.applied), a))
      <3> DEFINE T == LegsOf(db.applied, a)
                 S == LegsOf(db.rows \cup (Unbooked \cap db.applied), a)
      <3>1. db.rows \subseteq db.applied
        <4> SUFFICES ASSUME NEW l \in db.rows PROVE l \in db.applied
          OBVIOUS
        <4>1. PICK r \in Requests, p \in Parts : l = <<r, p>>
          BY <2>0 DEF Legs
        <4> QED
          BY <2>0, <4>1 DEF Books, Booked, Applied
      <3>2. S \in SUBSET T /\ T \in SUBSET Legs /\ S \in SUBSET Legs /\ IsFiniteSet(T)
        BY <2>0, <3>1, LegsFinite DEF LegsOf
      <3>3. \A l \in S : LegAmounts[l] \in Int
        BY <2>0, <3>2, LegAmountsAre
      <3>4. \A l \in T \ S : LegAmounts[l] = 0
        <4> SUFFICES ASSUME NEW l \in T \ S PROVE LegAmounts[l] = 0
          OBVIOUS
        <4>1. l \in db.applied /\ l \notin db.rows /\ l \notin Unbooked /\ l \in Legs
          BY <2>0 DEF LegsOf
        <4> QED
          BY <2>0, <4>1, QuietBooks, LegAmountsAre
      <3>5. db.balance[a] = Start[a] + Sum(LegAmounts, T)
        BY <2>0 DEF BalanceInv, Explained, Explains
      <3> HIDE DEF S, T
      <3>6. Sum(LegAmounts, T) = Sum(LegAmounts, S)
        BY ONLY <3>2, <3>3, <3>4, SumOnly
      <3> QED
        BY <3>5, <3>6 DEF S
    <2> QED
      BY <2>1, <2>2, <2>3
  <1> QED
    BY <1>1, InitType, NextType, InitShape, NextShape, InitBalance, NextBalance,
       InitKey, NextKey, InitBook, NextBook, PTL DEF Spec

-----------------------------------------------------------------------------
(***************************************************************************)
(* Auto-reload.  Whoever saw the wallet below its threshold is on its way  *)
(* to reload it, and once it has, the wallet is above the threshold again  *)
(* until the next debit looks.                                             *)
(***************************************************************************)
Mine(a) == {r \in Requests : job[r].agent = a}

Debits(a) == {r \in Mine(a) : job[r].op \in {"withdraw", "charge"} /\ job[r].cur = CREDITS}

\* What Check made sure of.
Admitted(r) ==
    /\ job[r].op \in SimpleOps /\ pc[r] \notin {"new", "check"} \cup Terminal =>
          /\ job[r].amount > 0
          /\ job[r].op # "deposit" => job[r].agent \in conn.data.wallets
    /\ job[r].op \in {"withdraw", "charge"} /\ Applied(r, "main") =>
          job[r].agent \in conn.data.wallets

WillReload(r) ==
    \/ pc[r] = "error"
    \/ /\ loc[r].leg = "main"
       /\ loc[r].seen < Reload[job[r].agent].threshold
       /\ \/ pc[r] \in {"row", "rowCommit", "reload"}
          \/ pc[r] = "commit" /\ loc[r].ok
          \/ pc[r] \in {"event", "eventCommit"} /\ job[r].op = "withdraw"
    \/ loc[r].leg = "reload" /\ pc[r] \in {"begin", "update"}

\* An agent whose reload nobody reconfigures and is large enough.
Watched(a) ==
    /\ a \in Reloading0
    /\ \A r \in Mine(a) : job[r].op \notin ConfigOps \cup {"convert"}
    /\ Reload[a].amount >= Reload[a].threshold

CreditsOf(a) == conn.data.balance[<<a, CREDITS>>]

LowCovered(a) ==
    /\ \E r \in Debits(a) : Applied(r, "main")
    /\ CreditsOf(a) < Reload[a].threshold
    => \E r \in Debits(a) : Applied(r, "main") /\ WillReload(r)

ReloadInv ==
    Undisturbed =>
        /\ \A r \in Requests : Admitted(r)
        /\ \A a \in Agents : Watched(a) => a \in conn.data.reloading /\ LowCovered(a)

\* An undisturbed step deletes no wallet.
LEMMA WalletsStay ==
    ASSUME TypeOK, NEW r \in Requests, Step(r), Undisturbed'
    PROVE  conn.data.wallets \subseteq conn'.data.wallets
  <1>0. db \in Tables /\ db = conn.data
    BY DEF TypeOK, Connection, db
  <1>1. CASE Ends
    BY <1>1, <1>0, WriteFields, TransactionFields DEF Ends
  <1>2. ASSUME NEW p \in Parts, Applies(r, p) PROVE conn'.data.wallets = conn.data.wallets
    BY <1>2, <1>0, WriteFields, WithLegFields DEF Applies
  <1>3. ASSUME NEW p \in Parts, Records(r, p) \/ Announces(r, p)
        PROVE  conn'.data.wallets = conn.data.wallets
    BY <1>3, <1>0, RowFields
  <1>4. CASE Opens(r)
    <2>1. conn'.data = Opened(r)
      BY <1>4, WriteFields DEF Opens
    <2> QED
      BY <2>1, <1>0, OpenedFields
  <1>5. CASE Configures(r)
    BY <1>5, <1>0, WriteFields, ConfiguredFields DEF Configures
  <1>6. CASE Undoes
    <2>1. conn.data = conn.saved
      BY <1>6 DEF Undoes, Undisturbed
    <2> QED
      BY <2>1, <1>6, TransactionFields DEF Undoes
  <1> QED
    BY <1>1, <1>2, <1>3, <1>4, <1>5, <1>6, TableSteps

\* Only its own configuration call turns an agent's auto-reload off.
LEMMA ReloadingStays ==
    ASSUME TypeOK, ShapeOK, NEW r \in Requests, Step(r), Undisturbed',
           NEW a \in Agents, Watched(a), a \in conn.data.reloading
    PROVE  a \in conn'.data.reloading
  <1>0. db \in Tables /\ db = conn.data /\ job[r].op \in MoneyOps \cup ConfigOps
    BY WalletConstants DEF TypeOK, Connection, db, Job
  <1>1. CASE Ends
    BY <1>1, <1>0, WriteFields, TransactionFields DEF Ends
  <1>2. ASSUME NEW p \in Parts, Applies(r, p) PROVE conn'.data.reloading = conn.data.reloading
    BY <1>2, <1>0, WriteFields, WithLegFields DEF Applies
  <1>3. ASSUME NEW p \in Parts, Records(r, p) \/ Announces(r, p)
        PROVE  conn'.data.reloading = conn.data.reloading
    BY <1>3, <1>0, RowFields
  <1>4. CASE Opens(r)
    <2>1. conn'.data = Opened(r)
      BY <1>4, WriteFields DEF Opens
    <2> QED
      BY <2>1, <1>0, OpenedFields
  <1>5. CASE Configures(r)
    <2>1. pc[r] = "config" /\ Shape(r) /\ conn'.data = Configured(r)
      BY <1>5, WriteFields DEF Configures, ShapeOK
    <2>2. job[r].op \in ConfigOps
      BY <2>1, <1>0 DEF Shape, SimpleOps, MoneyOps, Terminal
    <2>3. job[r].agent # a
      BY <2>2 DEF Watched, Mine
    <2> QED
      BY <2>1, <2>3, <1>0, ConfiguredFields
  <1>6. CASE Undoes
    <2>1. conn.data = conn.saved
      BY <1>6 DEF Undoes, Undisturbed
    <2> QED
      BY <2>1, <1>6, TransactionFields DEF Undoes
  <1> QED
    BY <1>1, <1>2, <1>3, <1>4, <1>5, <1>6, TableSteps

\* Only its debits lower what an agent without conversions has.
LEMMA OthersDoNotDebit ==
    ASSUME TypeOK, ShapeOK, NEW r \in Requests, Step(r), Undisturbed', Admitted(r),
           NEW a \in Agents, Watched(a), r \notin Debits(a)
    PROVE  conn'.data.balance[<<a, CREDITS>>] >= CreditsOf(a)
  <1> DEFINE x == <<a, CREDITS>>
  <1> SUFFICES conn'.data.balance[x] >= CreditsOf(a)
    OBVIOUS
  <1>0. /\ db \in Tables /\ db = conn.data /\ job[r].op \in MoneyOps \cup ConfigOps
        /\ job \in [Requests -> Job] /\ x \in Accounts
        /\ db.balance \in [Accounts -> Int] /\ db.balance[x] \in Int
        /\ CreditsOf(a) = db.balance[x] /\ Shape(r)
    <2>1. x \in Accounts
      BY WalletConstants DEF Accounts
    <2>2. db \in Tables /\ db = conn.data /\ db.balance \in [Accounts -> Int]
      BY DEF TypeOK, Connection, db, Tables
    <2> QED
      BY <2>1, <2>2, WalletConstants DEF TypeOK, Job, CreditsOf, ShapeOK
  <1>1. ASSUME conn'.data.balance = db.balance PROVE conn'.data.balance[x] >= CreditsOf(a)
    BY <1>0, <1>1
  <1>2. CASE Ends
    BY <1>2, <1>0, <1>1, WriteFields, TransactionFields DEF Ends
  <1>3. ASSUME NEW p \in Parts, Applies(r, p) PROVE conn'.data.balance[x] >= CreditsOf(a)
    <2> DEFINE y == AccountOf(r, p)
               m == AmountOf(r, p)
    <2>1. y \in Accounts /\ m \in Int
      BY <1>0, LegTypes
    <2>2. conn'.data.balance = [db.balance EXCEPT ![y] = @ + m]
      <3>1. conn'.data = WithLeg(db, r, p)
        BY <1>3, WriteFields DEF Applies
      <3>2. WithLeg(db, r, p).balance = [db.balance EXCEPT ![y] = @ + m]
        BY <1>0, WithLegBalance
      <3> QED
        BY <3>1, <3>2
    <2>3. x = y => m >= 0
      <3> SUFFICES ASSUME x = y PROVE m >= 0
        OBVIOUS
      <3>1. job[r].agent = a /\ (p = "main" /\ job[r].op # "create" => job[r].cur = CREDITS)
        BY DEF AccountOf
      <3>2. job[r].op \notin ConfigOps \cup {"convert"}
        BY <3>1 DEF Watched, Mine
      <3>3. pc[r] = "update" /\ p = loc[r].leg /\ job[r].op \in SimpleOps
        BY <1>0, <1>3, <3>2 DEF Applies, Shape, SimpleOps, MoneyOps, ConfigOps, Terminal
      <3>4. CASE p = "reload"
        BY <3>4, <3>1, WalletConstants DEF AmountOf
      <3>5. CASE p = "main"
        <4>1. job[r].op = "deposit"
          BY <3>1, <3>3, <3>5 DEF Debits, Mine, SimpleOps
        <4>2. job[r].amount > 0
          BY <3>3 DEF Admitted, Terminal
        <4> QED
          BY <4>1, <4>2, <3>5, <1>0 DEF AmountOf, Job
      <3> QED
        BY <3>3, <3>4, <3>5, <1>0 DEF Shape
    <2> HIDE DEF x, y, m
    <2>4. CASE x = y
      BY <2>1, <2>2, <2>3, <2>4, <1>0
    <2>5. CASE x # y
      BY <2>1, <2>2, <2>5, <1>0
    <2> QED
      BY <2>4, <2>5
  <1>4. ASSUME NEW p \in Parts, Records(r, p) \/ Announces(r, p)
        PROVE  conn'.data.balance[x] >= CreditsOf(a)
    BY <1>4, <1>1, RowFields
  <1>5. CASE Opens(r)
    <2> DEFINE y == <<job[r].agent, CREDITS>>
               m == SignupBonus + job[r].amount
    <2>1. conn'.data = Opened(r)
      BY <1>5, WriteFields DEF Opens
    <2>2. m \in Int /\ y \in Accounts
      BY <1>0, WalletConstants DEF Job, Accounts
    <2>3. conn'.data.balance = [db.balance EXCEPT ![y] = @ + m]
      BY <2>1, <1>0, OpenedBalance
    <2>4. m >= 0 \/ conn' = conn
      BY <1>5, <2>2 DEF Opens, InsertWallet
    <2>5. CASE conn' = conn
      BY <2>5, <1>0, <1>1
    <2>6. CASE m >= 0
      <3> HIDE DEF x, y, m
      <3>1. CASE x = y
        BY <2>2, <2>3, <2>6, <3>1, <1>0
      <3>2. CASE x # y
        BY <2>2, <2>3, <3>2, <1>0
      <3> QED
        BY <3>1, <3>2
    <2> QED
      BY <2>4, <2>5, <2>6
  <1>6. CASE Configures(r)
    BY <1>6, <1>0, <1>1, WriteFields, ConfiguredFields DEF Configures
  <1>7. CASE Undoes
    <2>1. conn.data = conn.saved
      BY <1>7 DEF Undoes, Undisturbed
    <2> QED
      BY <2>1, <1>7, <1>0, <1>1, TransactionFields DEF Undoes
  <1> QED
    BY <1>2, <1>3, <1>4, <1>5, <1>6, <1>7, TableSteps

\* A debit that leaves the wallet low makes its request responsible, and the
\* responsible request stays so until the wallet is above the threshold again.
LEMMA DebitOwnStep ==
    ASSUME TypeOK, ShapeOK, BalanceInv, NonNegative, NEW r \in Requests, Step(r), Undisturbed',
           Admitted(r), NEW a \in Agents, Watched(a), a \in conn.data.reloading, r \in Debits(a)
    PROVE  \/ conn'.data.balance[<<a, CREDITS>>] >= Reload[a].threshold
           \/ Applied(r, "main")' /\ WillReload(r)'
           \/ /\ conn'.data.balance[<<a, CREDITS>>] = CreditsOf(a)
              /\ Applied(r, "main")' <=> Applied(r, "main")
              /\ WillReload(r) => WillReload(r)'
  <1> DEFINE x == <<a, CREDITS>>
  <1>0. /\ job' = job /\ job[r].op \in {"withdraw", "charge"} /\ job[r].agent = a
        /\ job[r].cur = CREDITS /\ job \in [Requests -> Job]
        /\ pc \in [Requests -> {"new"} \cup Running \cup Terminal]
        /\ loc \in [Requests -> [leg : Parts, ok : BOOLEAN, seen : Int]]
        /\ db \in Tables /\ db = conn.data /\ x \in Accounts
        /\ db.balance \in [Accounts -> Int] /\ CreditsOf(a) = db.balance[x]
        /\ db.balance[x] \in Int /\ db.balance[x] >= 0
    <2>1. x \in Accounts
      BY WalletConstants DEF Accounts
    <2>2. db \in Tables /\ db = conn.data /\ db.balance \in [Accounts -> Int]
      BY DEF TypeOK, Connection, db, Tables
    <2>3. db.balance[x] \in Int /\ db.balance[x] >= 0
      BY <2>1, <2>2 DEF NonNegative
    <2> QED
      BY <2>1, <2>2, <2>3, LocalStep, WalletConstants DEF TypeOK, CreditsOf, Debits, Mine
  <1>1. Shape(r) /\ Fresh(r) /\ (pc[r] = "update" => a \in db.wallets)
    BY <1>0 DEF ShapeOK, BalanceInv, AllFresh, Admitted, SimpleOps, Terminal
  <1>t. /\ Reload[a].threshold \in Nat /\ Reload[a].amount \in Nat
        /\ Reload[a].amount >= Reload[a].threshold
    BY WalletConstants DEF Watched
  <1> DEFINE Still == conn'.data.balance[x] = CreditsOf(a) /\ (Applied(r, "main")' <=> Applied(r, "main"))
  <1>e. Ends => Still
    BY <1>0, WriteFields, TransactionFields DEF Ends, Applied
  <1>r. ASSUME NEW p, Records(r, p) \/ Announces(r, p) PROVE Still
    BY <1>r, <1>0, RowFields DEF Applied
  <1> SUFFICES ASSUME ~(Still /\ (WillReload(r) => WillReload(r)'))
               PROVE  \/ conn'.data.balance[x] >= Reload[a].threshold
                      \/ Applied(r, "main")' /\ WillReload(r)'
    OBVIOUS
  <1> HIDE DEF Still
  <1>7. CASE Update(r)
    <2> DEFINE p == loc[r].leg
               m == AmountOf(r, p)
               ok == /\ m < 0 => db.balance[x] >= -m
                     /\ m >= 0 => a \in db.wallets
    <2>0. pc[r] = "update" /\ p \in {"main", "reload"} /\ AccountOf(r, p) = x /\ m \in Int
          /\ p \in Parts
      BY <1>0, <1>1, <1>7, LegTypes DEF Update, Shape, SimpleOps, AccountOf, Parts
    <2>1. /\ pc' = [pc EXCEPT ![r] = "commit"]
          /\ ok => /\ Write(WithLeg(db, r, p)) /\ loc'[r].leg = p /\ loc'[r].ok
                   /\ loc'[r].seen = WithLeg(db, r, p).balance[x]
          /\ ~ok => Write(db)
      <3> DEFINE c == AccountOf(r, p)
                 ok0 == /\ m < 0 => db.balance[c] >= -m
                        /\ m >= 0 /\ c[2] = CREDITS => c[1] \in db.wallets
      <3>1. c = x /\ x[2] = CREDITS /\ x[1] = a
        BY <2>0
      <3>2. /\ pc' = [pc EXCEPT ![r] = "commit"]
            /\ loc' = [loc EXCEPT ![r].ok = ok0,
                                  ![r].seen = (IF ok0 THEN WithLeg(db, r, p) ELSE db).balance[c]]
            /\ Write(IF ok0 THEN WithLeg(db, r, p) ELSE db)
        BY <1>7 DEF Update, Go
      <3> HIDE DEF m
      <3>3. ok0 <=> ok
        <4> HIDE DEF x, c
        <4> QED
          BY <3>1
      <3> HIDE DEF ok, ok0, c, x
      <3>4. CASE ok
        <4>1. ok0
          BY <3>3, <3>4
        <4>2. Write(WithLeg(db, r, p))
          BY <3>2, <4>1
        <4>3. loc' = [loc EXCEPT ![r].ok = ok0, ![r].seen = WithLeg(db, r, p).balance[c]]
          BY <3>2, <4>1
        <4>4. loc'[r].leg = p /\ loc'[r].ok /\ loc'[r].seen = WithLeg(db, r, p).balance[c]
          BY <4>1, <4>3, <1>0
        <4> QED
          BY <3>1, <3>2, <3>4, <4>2, <4>4
      <3>5. CASE ~ok
        <4>1. Write(db)
          BY <3>2, <3>3, <3>5
        <4> QED
          BY <3>2, <3>5, <4>1
      <3> QED
        BY <3>4, <3>5
    <2> HIDE DEF x, ok
    <2>2. CASE ok
      <3>1. conn'.data = WithLeg(db, r, p) /\ loc'[r].seen = WithLeg(db, r, p).balance[x]
            /\ loc'[r].leg = p /\ loc'[r].ok
        BY <2>1, <2>2, <1>0, WriteFields
      <3>2. WithLeg(db, r, p).balance = [db.balance EXCEPT ![x] = @ + m]
        BY <2>0, <1>0, WithLegBalance
      <3>3. WithLeg(db, r, p).applied = db.applied \cup {<<r, p>>}
        BY <1>0, WithLegFields
      <3>4. conn'.data.balance[x] = db.balance[x] + m /\ loc'[r].seen = conn'.data.balance[x]
        <4> HIDE DEF m
        <4> QED
          BY <3>1, <3>2, <1>0
      <3>5. CASE p = "reload"
        <4>1. m = Reload[a].amount
          BY <3>5, <1>0 DEF AmountOf
        <4> HIDE DEF m
        <4> QED
          BY <4>1, <3>4, <1>0, <1>t
      <3>6. CASE p = "main"
        <4>1. Applied(r, "main")'
          BY <3>1, <3>3, <3>6 DEF Applied
        <4>2. pc'[r] = "commit"
          BY <2>1, <1>0
        <4>3. CASE loc'[r].seen < Reload[a].threshold
          BY <4>1, <4>2, <4>3, <3>1, <3>6, <1>0 DEF WillReload
        <4>4. CASE ~(loc'[r].seen < Reload[a].threshold)
          <5>1. conn'.data.balance[x] \in Int
            <6> HIDE DEF m
            <6> QED
              BY <3>4, <2>0, <1>0
          <5> QED
            BY <5>1, <4>4, <3>4, <1>t
        <4> QED
          BY <4>3, <4>4
      <3> QED
        BY <2>0, <3>5, <3>6
    <2>3. CASE ~ok
      <3>1. p = "main"
        <4>1. CASE p = "reload"
          <5>1. m = Reload[a].amount
            BY <4>1, <1>0 DEF AmountOf
          <5> HIDE DEF m
          <5> QED
            BY <5>1, <2>0, <2>3, <1>t, <1>1 DEF ok
        <4> QED
          BY <2>0, <4>1
      <3>2. Still
        BY <2>1, <2>3, <1>e DEF Ends
      <3>3. ~WillReload(r)
        BY <2>0, <3>1 DEF WillReload
      <3> QED
        BY <3>2, <3>3
    <2> QED
      BY <2>2, <2>3
  <1> USE <1>0, <1>1 DEF Shape, Fresh, Go, SimpleOps, MoneyOps, ConfigOps, Terminal, WillReload
  <1>2. CASE Lookup(r)
    BY <1>2, <1>e DEF Lookup, Ends
  <1>3. CASE Enter(r)
    BY <1>3, <1>e DEF Enter, Ends
  <1>5. CASE Check(r)
    BY <1>5, <1>e DEF Check, Ends
  <1>6. CASE BeginTxn(r)
    BY <1>6, <1>e DEF BeginTxn, Ends
  <1>8. CASE CommitTxn(r)
    BY <1>8, <1>e DEF CommitTxn, Ends
  <1>9. CASE InsertRow(r)
    <2>1. \/ UNCHANGED conn /\ pc' = [pc EXCEPT ![r] = "error"]
          \/ Records(r, loc[r].leg) /\ pc' = [pc EXCEPT ![r] = "rowCommit"]
      BY <1>9 DEF InsertRow, Records
    <2>2. Still
      BY <2>1, <1>e, <1>r DEF Ends
    <2>3. pc[r] = "row" /\ loc' = loc
      BY <1>9 DEF InsertRow
    <2> QED
      BY <2>1, <2>2, <2>3
  <1>10. CASE CommitRow(r)
    BY <1>10, <1>e DEF CommitRow, Ends
  <1>11. CASE EmitEvent(r)
    <2>1. Still
      BY <1>11, <1>r DEF EmitEvent, Announces
    <2> QED
      BY <2>1, <1>11 DEF EmitEvent
  <1>12. CASE CommitEvent(r)
    BY <1>12, <1>e DEF CommitEvent, Ends
  <1>13. CASE MaybeReload(r)
    <2>1. Still
      BY <1>13, <1>e DEF MaybeReload, Ends
    <2>2. CASE loc[r].seen < Reload[a].threshold
      BY <1>13, <2>1, <2>2 DEF MaybeReload
    <2>3. CASE ~(loc[r].seen < Reload[a].threshold)
      <3>1. ~WillReload(r)
        BY <1>13, <2>3 DEF MaybeReload
      <3> QED
        BY <2>1, <3>1
    <2> QED
      BY <2>2, <2>3
  <1>14. CASE \/ CheckNoWallet(r) \/ InsertWallet(r) \/ CommitWallet(r)
              \/ BeginConversion(r) \/ DebitSource(r) \/ CreditTarget(r) \/ RecordConversion(r)
              \/ CommitConversion(r) \/ UndoConversion(r) \/ Configure(r) \/ CommitConfig(r)
    BY <1>14 DEF CheckNoWallet, InsertWallet, CommitWallet, BeginConversion, DebitSource,
                 CreditTarget, RecordConversion, CommitConversion, UndoConversion, Configure, CommitConfig
  <1> QED
    BY <1>2, <1>3, <1>5, <1>6, <1>7, <1>8, <1>9, <1>10, <1>11, <1>12, <1>13, <1>14 DEF Step, Arrive, Continue

\* Only an admitted request is under way, and only such a one debits.
LEMMA AdmittedStep ==
    ASSUME TypeOK, ShapeOK, BalanceInv, NEW r \in Requests, Step(r), Undisturbed',
           \A s \in Requests : Admitted(s)
    PROVE  \A s \in Requests : Admitted(s)'
  <1>0. /\ job' = job /\ conn.data.wallets \subseteq conn'.data.wallets /\ Shape(r) /\ Admitted(r)
        /\ pc \in [Requests -> {"new"} \cup Running \cup Terminal] /\ db = conn.data
        /\ db \in Tables /\ job[r].amount \in Int
    BY LocalStep, WalletsStay, WalletConstants DEF ShapeOK, TypeOK, db, Connection, Job
  <1>1. ASSUME NEW s \in Requests, s # r PROVE Admitted(s)'
    <2>1. pc'[s] = pc[s] /\ (Applied(s, "main")' <=> Applied(s, "main")) /\ Admitted(s)
      BY <1>1, OthersStay, UndisturbedStep DEF Applied, Parts
    <2> QED
      BY <2>1, <1>0 DEF Admitted
  <1>2. ASSUME job[r].op \in SimpleOps, pc'[r] \notin {"new", "check"} \cup Terminal
        PROVE  /\ job[r].amount > 0
               /\ job[r].op # "deposit" => job[r].agent \in conn.data.wallets
    <2> USE <1>0, <1>2 DEF Shape, Admitted, Go, SimpleOps, MoneyOps, ConfigOps, Terminal
    <2>1. CASE pc[r] \notin {"new", "check"} \cup Terminal
      BY <2>1
    <2>2. CASE Lookup(r) \/ Enter(r) \/ CheckNoWallet(r)
      BY <2>2 DEF Lookup, Enter, CheckNoWallet
    <2>3. CASE Check(r)
      BY <2>3 DEF Check
    <2>4. CASE BeginTxn(r) \/ Update(r) \/ CommitTxn(r) \/ InsertRow(r) \/ CommitRow(r)
               \/ EmitEvent(r) \/ CommitEvent(r) \/ MaybeReload(r) \/ InsertWallet(r)
               \/ CommitWallet(r)
      BY <2>1, <2>4 DEF BeginTxn, Update, CommitTxn, InsertRow, CommitRow, EmitEvent,
                        CommitEvent, MaybeReload, InsertWallet, CommitWallet
    <2>5. CASE BeginConversion(r) \/ DebitSource(r) \/ CreditTarget(r) \/ RecordConversion(r)
               \/ CommitConversion(r) \/ UndoConversion(r) \/ Configure(r) \/ CommitConfig(r)
      BY <2>1, <2>5 DEF BeginConversion, DebitSource, CreditTarget, RecordConversion,
                        CommitConversion, UndoConversion, Configure, CommitConfig
    <2> QED
      BY <2>2, <2>4, <2>5, <2>3 DEF Step, Arrive, Continue
  <1>3. ASSUME job[r].op \in {"withdraw", "charge"}, Applied(r, "main")'
        PROVE  Applied(r, "main") \/ pc[r] = "update"
    <2>0. Grows
      BY DEF BalanceInv
    <2>1. CASE Ends \/ Undoes
      BY <2>1, <2>0, <1>3, NoLeg DEF Applied
    <2>2. ASSUME NEW p \in Parts, Applies(r, p) PROVE pc[r] = "update"
      BY <2>2, <1>0, <1>3 DEF Applies, Shape, SimpleOps, Terminal
    <2>3. ASSUME NEW p \in Parts, Records(r, p) \/ Announces(r, p) PROVE Applied(r, "main")
      BY <2>3, <1>0, <1>3, RowFields DEF Applied
    <2>4. ~Opens(r)
      BY <1>0, <1>3 DEF Opens, InsertWallet, Shape, SimpleOps, Terminal
    <2>5. CASE Configures(r)
      BY <2>5, <1>0, <1>3 DEF Configures, Shape, SimpleOps, Terminal
    <2> QED
      BY <2>1, <2>2, <2>3, <2>4, <2>5, TableSteps
  <1>4. Admitted(r)'
    <2>1. job[r].op \in {"withdraw", "charge"} /\ Applied(r, "main")' =>
              job[r].agent \in conn.data.wallets
      BY <1>0, <1>3 DEF Admitted, SimpleOps, Terminal
    <2> QED
      BY <2>1, <1>0, <1>2 DEF Admitted
  <1> QED
    BY <1>1, <1>4

LEMMA ReloadStep ==
    ASSUME TypeOK, TypeOK', ShapeOK, BalanceInv, NonNegative, ReloadInv,
           NEW r \in Requests, Step(r)
    PROVE  ReloadInv'
  <1> SUFFICES ASSUME Undisturbed'
               PROVE  /\ \A s \in Requests : Admitted(s)'
                      /\ \A a \in Agents : Watched(a)' => a \in conn'.data.reloading /\ LowCovered(a)'
    BY DEF ReloadInv
  <1>1. /\ Undisturbed /\ \A s \in Requests : Admitted(s)
        /\ \A a \in Agents : Watched(a) => a \in conn.data.reloading /\ LowCovered(a)
    BY UndisturbedStep DEF ReloadInv
  <1>2. \A s \in Requests : Admitted(s)'
    BY <1>1, AdmittedStep
  <1>3. ASSUME NEW a \in Agents, Watched(a)' PROVE a \in conn'.data.reloading /\ LowCovered(a)'
    <2>1. job' = job /\ Watched(a) /\ Debits(a)' = Debits(a) /\ Debits(a) \subseteq Requests
      BY <1>3, LocalStep DEF Watched, Mine, Debits
    <2>2. a \in conn.data.reloading /\ a \in conn'.data.reloading /\ LowCovered(a)
      BY <1>1, <2>1, ReloadingStays
    <2>3. ASSUME NEW s \in Debits(a), s # r
          PROVE  /\ Applied(s, "main")' <=> Applied(s, "main")
                 /\ WillReload(s)' <=> WillReload(s)
      BY <2>1, <2>3, OthersStay, UndisturbedStep DEF Applied, WillReload, Parts
    <2>4. /\ CreditsOf(a) \in Int /\ CreditsOf(a)' \in Int /\ Reload[a].threshold \in Int
          /\ CreditsOf(a)' = conn'.data.balance[<<a, CREDITS>>]
      BY WalletConstants DEF TypeOK, Connection, Tables, CreditsOf, Accounts
    <2> SUFFICES ASSUME NEW t \in Debits(a), Applied(t, "main")', CreditsOf(a)' < Reload[a].threshold
                 PROVE  \E w \in Debits(a) : Applied(w, "main")' /\ WillReload(w)'
      BY <2>1, <2>2 DEF LowCovered
    <2>5. CASE r \notin Debits(a)
      <3>1. CreditsOf(a)' >= CreditsOf(a)
        BY <1>1, <2>1, <2>4, <2>5, OthersDoNotDebit
      <3>2. CreditsOf(a) < Reload[a].threshold
        BY <3>1, <2>4
      <3>3. Applied(t, "main")
        <4>1. t # r
          BY <2>5
        <4> QED
          BY <4>1, <2>3 DEF Applied
      <3> QED
        BY <3>2, <3>3, <2>2, <2>3, <2>5 DEF LowCovered
    <2>6. CASE r \in Debits(a)
      <3>1. \/ Applied(r, "main")' /\ WillReload(r)'
            \/ /\ CreditsOf(a)' = CreditsOf(a)
               /\ Applied(r, "main")' <=> Applied(r, "main")
               /\ WillReload(r) => WillReload(r)'
        <4>1. ~(conn'.data.balance[<<a, CREDITS>>] >= Reload[a].threshold)
          BY <2>4
        <4> QED
          BY <4>1, <1>1, <2>1, <2>2, <2>4, <2>6, DebitOwnStep
      <3>2. CASE Applied(r, "main")' /\ WillReload(r)'
        BY <3>2, <2>6
      <3>3. CASE /\ CreditsOf(a)' = CreditsOf(a)
                 /\ Applied(r, "main")' <=> Applied(r, "main")
                 /\ WillReload(r) => WillReload(r)'
        <4>1. Applied(t, "main")
          <5>1. CASE t = r
            BY <5>1, <3>3
          <5>2. CASE t # r
            BY <5>2, <2>3 DEF Applied
          <5> QED
            BY <5>1, <5>2
        <4>2. PICK w \in Debits(a) : Applied(w, "main") /\ WillReload(w)
          BY <4>1, <3>3, <2>2 DEF LowCovered
        <4> QED
          BY <4>2, <3>3, <2>3
      <3> QED
        BY <3>1, <3>2, <3>3
    <2> QED
      BY <2>5, <2>6
  <1> QED
    BY <1>2, <1>3

LEMMA NextReload ==
    TypeOK /\ ShapeOK /\ BalanceInv /\ NonNegative /\ ReloadInv /\ [Next]_vars => ReloadInv'
  <1> SUFFICES ASSUME TypeOK, ShapeOK, BalanceInv, NonNegative, ReloadInv, [Next]_vars
               PROVE  ReloadInv'
    OBVIOUS
  <1>1. ASSUME NEW r \in Requests, Step(r) PROVE ReloadInv'
    BY <1>1, ReloadStep, NextType
  <1>2. CASE CrashProcess
    BY <1>2 DEF CrashProcess, ReloadInv, Undisturbed, TypeOK
  <1>4. ASSUME NEW r \in Requests, TimeOut(r) PROVE ReloadInv'
    BY <1>4 DEF TimeOut, ReloadInv, Undisturbed, TypeOK
  <1>3. CASE UNCHANGED vars
    <2>1. Undisturbed' <=> Undisturbed
      BY <1>3 DEF vars, Undisturbed
    <2>2. \A r \in Requests : Admitted(r)' <=> Admitted(r)
      BY <1>3 DEF vars, Admitted, Applied
    <2>3. \A a : (Watched(a)' <=> Watched(a)) /\ Debits(a)' = Debits(a)
      BY <1>3 DEF vars, Watched, Mine, Debits
    <2>4. \A r : (Applied(r, "main")' <=> Applied(r, "main")) /\ (WillReload(r)' <=> WillReload(r))
      BY <1>3 DEF vars, Applied, WillReload
    <2>5. \A a : LowCovered(a)' <=> LowCovered(a)
      BY <1>3, <2>3, <2>4 DEF vars, LowCovered, CreditsOf
    <2> QED
      BY <1>3, <2>1, <2>2, <2>3, <2>5 DEF vars, ReloadInv
  <1> QED
    BY <1>1, <1>2, <1>3, <1>4 DEF Next, Step, Idle

LEMMA InitReload == Init => ReloadInv
  <1> SUFFICES ASSUME Init PROVE ReloadInv
    OBVIOUS
  <1>1. /\ conn.data.reloading = Reloading0 /\ conn.data.applied = {}
        /\ \A r \in Requests : pc[r] = "new"
    BY DEF Init, Connected, Tables0
  <1> QED
    BY <1>1 DEF ReloadInv, Admitted, Applied, Watched, LowCovered, Debits, Mine

\* Concurrent debits that each decide on the balance they saw never leave an
\* auto-reloading wallet below its threshold once nothing is in flight.
THEOREM WalletReloadRestores == Spec => []ReloadRestores
  <1>1. TypeOK /\ ReloadInv => ReloadRestores
    <2> SUFFICES ASSUME TypeOK, ReloadInv, Quiet, Undisturbed,
                        \A r \in Requests : pc[r] # "error",
                        NEW a \in Reloading0, NEW t \in Debits(a), Applied(t, "main"),
                        \A r \in Mine(a) : job[r].op \notin ConfigOps \cup {"convert"},
                        Reload[a].amount >= Reload[a].threshold
                 PROVE  CreditsOf(a) >= Reload[a].threshold
      BY DEF ReloadRestores, Debits, Mine, Applied, CreditsOf, db
    <2>1. a \in Agents /\ Watched(a)
      BY WalletConstants DEF Watched
    <2>2. LowCovered(a)
      BY <2>1 DEF ReloadInv
    <2>3. \A w \in Debits(a) : ~WillReload(w)
      <3>1. \A w \in Debits(a) : w \in Requests
        BY DEF Debits, Mine
      <3> QED
        BY <3>1 DEF WillReload, Quiet, Terminal
    <2>4. CreditsOf(a) \in Int /\ Reload[a].threshold \in Int
      BY <2>1, WalletConstants DEF TypeOK, Connection, Tables, CreditsOf, Accounts
    <2> QED
      BY <2>2, <2>3, <2>4 DEF LowCovered
  <1>2. Init => NonNegative
    BY WalletConstants DEF Init, NonNegative, Connected, Tables0
  <1> QED
    BY <1>1, <1>2, InitType, NextType, InitShape, NextShape, InitBalance, NextBalance,
       NextNonNegative, InitReload, NextReload, PTL DEF Spec
=============================================================================
