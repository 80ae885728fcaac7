---------------------------- MODULE HostingProofs ----------------------------
(***************************************************************************)
(* Theorems about what goes on around the process, for every workload: any *)
(* number of connector calls, loops, deliveries, upstream writes, backups  *)
(* and runs of the scripts, one of which may be timed out, and all of      *)
(* which end with the process, at every await.                             *)
(***************************************************************************)
EXTENDS Hosting, FiniteSetTheorems, TLAPS

-----------------------------------------------------------------------------
\* Every request has its place; who was cut off while it ran has ended.
Placed == pc = [q \in Requests |-> pc[q]] /\ cut = [q \in Requests |-> cut[q]]
Frame == job \in Workloads /\ Placed

\* Only r goes on; r is cut off by the timeout; all are.
Only(r) == pc' = [q \in Requests |-> pc'[q]] /\ \A q \in Requests \ {r} : pc'[q] = pc[q]
Cut(r) == /\ Running(r) /\ pc' = [pc EXCEPT ![r] = "504"]
          /\ cut' = [cut EXCEPT ![r] = pc[r]]
Fallen == /\ pc' = [r \in Requests |-> IF Running(r) THEN "lost" ELSE pc[r]]
          /\ cut' = [r \in Requests |-> IF Running(r) THEN pc[r] ELSE cut[r]]

BackupOps == {"deposit", "backup", "restore"}
HostOps == {"book", "deploy", "migrate"}
ShipOps == {"release", "publish", "cleanUp", "pullRequest", "dispatch"}

LEMMA Going == ASSUME Frame, NEW r \in Requests, NEW next, Go(r, next) PROVE Only(r)
  BY DEF Frame, Placed, Only, Go

LEMMA Staying == ASSUME Frame, NEW r \in Requests, UNCHANGED pc PROVE Only(r)
  BY DEF Frame, Placed, Only

\* A step of a part is one of a request that asked for it, and moves no other.
LEMMA ConnectorOnly ==
    ASSUME Frame, NEW r \in Requests, ConnectorStep(r)
    PROVE  Op(r) = "connector" /\ Only(r) /\ pc[r] \notin Terminal
  BY Going, Staying DEF At, Terminal, Waits, ConnectorStep, AcquireLock, EnsureConnection,
       StartConnector, Initialized, SendCall, ReceiveReply, ReplyTimeOut, TakeBack

LEMMA LoopOnly ==
    ASSUME Frame, NEW r \in Requests, LoopStep(r)
    PROVE  Op(r) \in Living /\ Only(r) /\ pc[r] \notin Terminal
  BY Going, Staying DEF At, Terminal, Living, Loop, LoopStep, WorkRound, WakeLoop, StartSend, EndSend

LEMMA UpstreamOnly ==
    ASSUME Frame, NEW r \in Requests, UpstreamStep(r)
    PROVE  Op(r) = "upstream" /\ Only(r) /\ pc[r] \notin Terminal
  <1> USE Going, Staying DEF At, Terminal
  <1>1. CASE SendAttempt(r)
    <2>1. Only(r)
      BY <1>1 DEF SendAttempt, Succeed, Refused, TooMany, NotTold
    <2> QED
      BY <1>1, <2>1 DEF SendAttempt
  <1> QED
    BY <1>1 DEF UpstreamStep, BeginUpstream, AcquireToken

LEMMA BackupOnly ==
    ASSUME Frame, NEW r \in Requests, BackupStep(r)
    PROVE  Op(r) \in BackupOps /\ Only(r) /\ pc[r] \notin Terminal
  BY Going, Staying DEF At, Terminal, Hand, Returned, BackupOps, BackupStep, DepositBalance, RecordDeposit,
       BeginBackup, AfterCopy, EndBackup, BeginRestore, AfterDecryption, EndRestore

LEMMA HostOnly ==
    ASSUME Frame, NEW r \in Requests, HostStep(r)
    PROVE  Op(r) \in HostOps /\ Only(r) /\ pc[r] \notin Terminal
  <1> USE Going, Staying DEF At, Terminal, Scripted, Deploying, HostOps
  <1>1. CASE BookRow(r) \/ NextProduct(r) \/ MigrateShadow(r) \/ StopService(r)
    BY <1>1 DEF BookRow, NextProduct, MigrateShadow, StopService
  <1>2. CASE MoveShadow(r) \/ EndMigration(r) \/ EndPostinst(r) \/ BeginMigration(r)
    BY <1>2 DEF MoveShadow, EndMigration, EndPostinst, BeginMigration
  <1>3. CASE BackUpPackage(r) \/ InstallPackage(r) \/ RollBack(r) \/ VerifyService(r)
    BY <1>3 DEF BackUpPackage, InstallPackage, RollBack, VerifyService, Install
  <1> QED
    BY <1>1, <1>2, <1>3 DEF HostStep

\* The flows that a script waits for.
LEMMA Flows ==
    ASSUME NEW flow \in DOMAIN Waiting
    PROVE  \/ /\ flow = "Release" /\ Finding[flow] = "find Release"
              /\ Awaiting[flow] = "await Release" /\ Waiting[flow] = "deploy"
           \/ /\ flow = "Deploy" /\ Finding[flow] = "find Deploy"
              /\ Awaiting[flow] = "await Deploy" /\ Waiting[flow] = "tag"
           \/ /\ flow = "Publish" /\ Finding[flow] = "find Publish"
              /\ Awaiting[flow] = "await Publish" /\ Waiting[flow] = "done"
  <1>1. flow \in {"Release", "Deploy", "Publish"}
    BY DEF Waiting
  <1>2. CASE flow = "Release"
    <2>1. Finding[flow] = Finding.Release /\ Awaiting[flow] = Awaiting.Release /\ Waiting[flow] = Waiting.Release
      BY <1>2
    <2> QED
      BY <1>2, <2>1 DEF Finding, Awaiting, Waiting
  <1>3. CASE flow = "Deploy"
    <2>1. Finding[flow] = Finding.Deploy /\ Awaiting[flow] = Awaiting.Deploy /\ Waiting[flow] = Waiting.Deploy
      BY <1>3
    <2> QED
      BY <1>3, <2>1 DEF Finding, Awaiting, Waiting
  <1>4. CASE flow = "Publish"
    <2>1. Finding[flow] = Finding.Publish /\ Awaiting[flow] = Awaiting.Publish /\ Waiting[flow] = Waiting.Publish
      BY <1>4
    <2> QED
      BY <1>4, <2>1 DEF Finding, Awaiting, Waiting
  <1> QED
    BY <1>1, <1>2, <1>3, <1>4

LEMMA ShipOnly ==
    ASSUME Frame, NEW r \in Requests, ReleaseStep(r)
    PROVE  Op(r) \in ShipOps /\ Only(r) /\ pc[r] \notin Terminal
  <1> USE Going, Staying DEF At, At2, Terminal, Releasing, Ships, ShipOps
  <1>0. CASE FindRun(r) \/ AwaitRun(r)
    <2>1. PICK flow \in DOMAIN Waiting : pc[r] \in {Finding[flow], Awaiting[flow]}
      BY <1>0 DEF FindRun, AwaitRun
    <2>2. pc[r] \notin Terminal
      BY <2>1, Flows
    <2> QED
      BY <1>0, <2>2 DEF FindRun, AwaitRun
  <1>1. CASE BeginRelease(r) \/ BumpVersions(r) \/ CommitRelease(r) \/ PushBranch(r)
    BY <1>1 DEF BeginRelease, BumpVersions, CommitRelease, PushBranch
  <1>2. CASE TriggerDeploy(r) \/ TagRelease(r) \/ PushTag(r) \/ CheckoutMain(r)
    BY <1>2 DEF TriggerDeploy, Dispatch, TagRelease, PushTag, CheckoutMain
  <1>3. CASE PullMain(r) \/ MergeRelease(r) \/ PushMain(r) \/ DeleteBranch(r) \/ DeleteRemote(r)
    BY <1>3 DEF PullMain, MergeRelease, PushMain, DeleteBranch, DeleteRemote
  <1>4. CASE CleanUp(r) \/ FetchTags(r) \/ LocateRelease(r) \/ MergePullRequest(r) \/ DispatchDeploy(r)
    BY <1>4 DEF CleanUp, FetchTags, LocateRelease, MergePullRequest, DispatchDeploy, Dispatch
  <1> QED
    BY <1>0, <1>1, <1>2, <1>3, <1>4 DEF ReleaseStep

\* The next step of the host is one of a part, and leaves the others alone.
Turn(r) == Only(r) /\ pc[r] \notin Terminal /\ UNCHANGED cut
OtherTurn == \E r \in Requests :
    /\ Op(r) \in BackupOps \cup HostOps \cup ShipOps /\ Only(r) /\ UNCHANGED <<cut, process>>
ConnectorTurn == \E r \in Requests :
    /\ ConnectorStep(r) /\ Turn(r) /\ (pc[r] = "new" => Serves) /\ UNCHANGED <<lifeVars, upstreamVars>>
LoopTurn == \E r \in Requests : LoopStep(r) /\ Turn(r) /\ UNCHANGED <<connectorVars, upstreamVars>>
UpstreamTurn == \E r \in Requests : UpstreamStep(r) /\ Turn(r) /\ UNCHANGED <<connectorVars, lifeVars>>
CutTurn == \E r \in Requests :
    /\ Cut(r) /\ ~job[r].background /\ ConnectorTimeOut(r) /\ UNCHANGED <<lifeVars, upstreamVars>>
ChildTurn == \E n \in Requests : ChildStep(n) /\ UNCHANGED <<pc, cut, lifeVars, upstreamVars>>
LifeTurn == LifeStep /\ UNCHANGED upstreamVars
TickTurn == UpstreamTick /\ UNCHANGED <<pc, cut, connectorVars, lifeVars>>
CrashTurn == life \notin Over /\ Fallen /\ ConnectorCrash /\ LifeCrash /\ UNCHANGED upstreamVars
RestTurn == UNCHANGED <<pc, cut, process>>

ProcessTurn ==
    \/ OtherTurn \/ ConnectorTurn \/ LoopTurn \/ UpstreamTurn \/ CutTurn \/ ChildTurn
    \/ LifeTurn \/ TickTurn \/ CrashTurn \/ RestTurn

LEMMA ProcessTurns == ASSUME Frame, [Next]_vars PROVE UNCHANGED job /\ ProcessTurn
  <1> USE DEF ProcessTurn, tasks, frame
  <1>1. ASSUME NEW r \in Requests, Step(r) PROVE UNCHANGED job /\ ProcessTurn
    <2>1. CASE ConnectorStep(r) /\ (pc[r] = "new" => Serves)
               /\ UNCHANGED <<lifeVars, upstreamVars>>
      BY <1>1, <2>1, ConnectorOnly DEF Step, ConnectorTurn, Turn
    <2>2. CASE LoopStep(r) /\ UNCHANGED <<connectorVars, upstreamVars>>
      BY <1>1, <2>2, LoopOnly DEF Step, LoopTurn, Turn
    <2>3. CASE UpstreamStep(r) /\ UNCHANGED <<connectorVars, lifeVars>>
      BY <1>1, <2>3, UpstreamOnly DEF Step, UpstreamTurn, Turn
    <2>4. CASE (BackupStep(r) \/ HostStep(r) \/ ReleaseStep(r)) /\ UNCHANGED process
      BY <1>1, <2>4, BackupOnly, HostOnly, ShipOnly DEF Step, OtherTurn
    <2> QED
      BY <1>1, <2>1, <2>2, <2>3, <2>4 DEF Step
  <1>2. ASSUME NEW r \in Requests, Cancelled(r) PROVE UNCHANGED job /\ ProcessTurn
    BY <1>2 DEF Cancelled, TimeOut, CutTurn, Cut, Go
  <1>3. ASSUME NEW r \in Requests, Child(r) PROVE UNCHANGED job /\ ProcessTurn
    <2>1. UNCHANGED <<pc, cut>>
      BY <1>3 DEF Child, ChildStep, Serve, ChildEnds, EndOfOutput, Reap
    <2> QED
      BY <1>3, <2>1 DEF Child, ChildTurn
  <1>4. CASE Process
    BY <1>4 DEF Process, LifeTurn
  <1>5. CASE Threads \/ Service \/ Workflows \/ Terminating \/ UNCHANGED vars
    BY <1>5 DEF Threads, Service, Workflows, Terminating, vars, RestTurn
  <1>6. CASE Tick
    BY <1>6 DEF Tick, TickTurn
  <1>7. CASE Died
    BY <1>7 DEF Died, Crashed, CrashTurn, Fallen
  <1> QED
    BY <1>1, <1>2, <1>3, <1>4, <1>5, <1>6, <1>7 DEF Next

-----------------------------------------------------------------------------
(***************************************************************************)
(* The connectors.  The lock: who holds it is in _ensure_connection, and   *)
(* while it starts a child there is no connection, so that a child that    *)
(* runs is the connection's, the starter's, or that of a start that was    *)
(* given up.  An id is pending with the child its caller talks to, as long *)
(* as the caller waits for it, or was cancelled, or could not write.       *)
(***************************************************************************)
Connects(r) == Op(r) = "connector"
Ids == [by : Requests, place : {"handshake", "await"}]
Ensuring == {"ensure", "spawn", "handshake"}
Unanswered == {"none", "cancelled"}

ConnTypes ==
    /\ starter \in Requests \cup {Nobody} /\ current \in Requests \cup {Nobody}
    /\ child \in [Requests -> {"none", "up", "down", "reaped"}]
    /\ reader \in [Requests -> {"none", "reading", "ended", "failed"}]
    /\ via \in [Requests -> Requests \cup {Nobody}]
    /\ pending \in [Requests -> SUBSET Ids] /\ inbox \in [Requests -> SUBSET Ids]
    /\ reply \in [Requests -> {"none", "result", "error", "cancelled", "late"}]
Locked == \A r \in Requests : starter = r <=> Connects(r) /\ pc[r] \in Ensuring
Unconnected == \A r \in Requests : Connects(r) /\ pc[r] \in {"spawn", "handshake"} => current = Nobody
Own == \A r \in Requests :
    /\ child[r] # "none" \/ via[r] # Nobody => Connects(r)
    /\ Connects(r) /\ pc[r] = "handshake" => via[r] = r
    /\ Connects(r) /\ pc[r] \in {"send", "await"} => via[r] \in Requests
Pended == \A n \in Requests : \A id \in pending[n] :
    /\ via[id.by] = n /\ Connects(id.by) /\ reply[id.by] \in Unanswered
    /\ pc[id.by] = id.place \/ Abandoned(id) \/ (id.by \in unwritten /\ pc[id.by] = "error" /\ id.place = "await")
Awaited == \A r \in Requests : Connects(r) =>
    /\ pc[r] \in {"handshake", "await"} => (IdOf(r, pc[r]) \in pending[via[r]] <=> reply[r] \in Unanswered)
    /\ pc[r] \in {"new", "ensure", "spawn", "send"} => reply[r] = "none"
Carried == \A r \in Requests :
    Connects(r) /\ (pc[r] = "done" \/ (pc[r] = "await" /\ reply[r] = "result")) => r \in served
Heard == \A n \in Requests :
    /\ reader[n] = "failed" => Deafened(n)
    /\ child[n] = "up" => reader[n] = "reading" \/ Deafened(n)

ConnInv == /\ ConnTypes /\ Locked /\ Unconnected /\ Own /\ OneChild
           /\ Pended /\ Awaited /\ Carried /\ Heard

LEMMA ConnStart == ASSUME Init, Frame PROVE ConnInv
  <1> USE ConnectorConstants DEF Init, ConnectorInit
  <1>1. \A r \in Requests : pc[r] \in {"new", "done"} /\ (Connects(r) => pc[r] = "new")
    BY DEF TaskInit, Connects
  <1>2. ConnTypes
    BY DEF ConnTypes
  <1>3. Locked /\ Unconnected /\ Own /\ OneChild /\ Awaited /\ Carried /\ Heard
    BY <1>1, <1>2 DEF Locked, Unconnected, Own, OneChild, Awaited, Carried, Heard, Ensuring, Connects, Unanswered
  <1>4. Pended
    BY DEF Pended
  <1> QED
    BY <1>2, <1>3, <1>4 DEF ConnInv

\* Who was deaf stays so.
LEMMA StaysDeafened ==
    ASSUME \A q \in Requests : reply[q] = "late" /\ via[q] \in Requests =>
              reply'[q] = reply[q] /\ via'[q] = via[q],
           NEW n \in Requests, Deafened(n)
    PROVE  Deafened(n)'
  BY DEF Deafened

LEMMA LockMoves ==
    ASSUME Frame, ConnInv, NEW r \in Requests, Turn(r), UNCHANGED job,
           AcquireLock(r) \/ EnsureConnection(r)
    PROVE  ConnInv'
  <1> USE ConnectorConstants DEF Connects, Ensuring, Unanswered
  <1>0. \A q \in Requests : q # r => pc'[q] = pc[q] /\ cut'[q] = cut[q] /\ Op(q)' = Op(q)
    BY DEF Turn, Only, Op
  <1>1. /\ Op(r) = "connector" /\ Op(r)' = Op(r) /\ cut'[r] = cut[r]
        /\ pc[r] \in {"new", "ensure"} /\ pc'[r] \in {"ensure", "send", "spawn"}
        /\ pc'[r] = "ensure" <=> pc[r] = "new"
    BY DEF AcquireLock, EnsureConnection, At, Go, Frame, Placed, Turn, Op
  <1>2. UNCHANGED <<child, reader, pending, inbox, reply, served, unwritten>>
    BY DEF AcquireLock, EnsureConnection
  <1>3. /\ starter' = IF pc'[r] = "send" THEN Nobody ELSE r
        /\ pc[r] = "new" => starter = Nobody
        /\ pc[r] = "ensure" => starter = r
    BY <1>1 DEF AcquireLock, EnsureConnection, ConnInv, Locked, Release, At, Go, Frame, Placed
  <1>4. /\ \A q \in Requests \ {r} : via'[q] = via[q]
        /\ via'[r] = IF pc'[r] = "send" THEN current ELSE via[r]
        /\ pc'[r] = "send" => current' = current /\ current \in Requests
        /\ pc'[r] = "spawn" => current' = Nobody /\ (current = Nobody \/ child[current] = "reaped")
        /\ pc'[r] = "ensure" => current' = current
        /\ via' \in [Requests -> Requests \cup {Nobody}]
    BY <1>1 DEF AcquireLock, EnsureConnection, ConnInv, ConnTypes, At, Go, Frame, Placed
  <1>5. ConnTypes'
    BY <1>1, <1>2, <1>3, <1>4 DEF ConnInv, ConnTypes
  <1>6. Locked' /\ Unconnected'
    BY <1>0, <1>1, <1>3, <1>4 DEF ConnInv, Locked, Unconnected
  <1>7. Own' /\ OneChild'
    BY <1>0, <1>1, <1>2, <1>3, <1>4 DEF ConnInv, Own, OneChild, Locked
  <1>8. Pended'
    BY <1>0, <1>1, <1>2, <1>4 DEF ConnInv, Pended, Ids, ConnTypes, Abandoned
  <1>9. Awaited' /\ Carried'
    BY <1>0, <1>1, <1>2, <1>4 DEF ConnInv, Awaited, Carried, IdOf
  <1>10. Heard'
    BY <1>0, <1>1, <1>2, <1>4, StaysDeafened DEF ConnInv, Heard, Awaited
  <1> QED
    BY <1>5, <1>6, <1>7, <1>8, <1>9, <1>10 DEF ConnInv

LEMMA StartMoves ==
    ASSUME Frame, ConnInv, NEW r \in Requests, Turn(r), UNCHANGED job, StartConnector(r)
    PROVE  ConnInv'
  <1> USE ConnectorConstants DEF Connects, Ensuring, Unanswered
  <1>0. \A q \in Requests : q # r => pc'[q] = pc[q] /\ cut'[q] = cut[q] /\ Op(q)' = Op(q)
    BY DEF Turn, Only, Op
  <1>1. /\ Op(r) = "connector" /\ Op(r)' = Op(r) /\ cut'[r] = cut[r]
        /\ pc[r] = "spawn" /\ pc'[r] \in {"handshake", "error"} /\ starter = r
        /\ UNCHANGED <<current, reply, served, unwritten>> /\ current = Nobody /\ reply[r] = "none"
    BY DEF StartConnector, At, Go, Frame, Placed, Turn, Op, ConnInv, Locked, Unconnected, Awaited
  <1>2. /\ starter' = IF pc'[r] = "handshake" THEN r ELSE Nobody
        /\ \A n \in Requests \ {r} :
              /\ child'[n] = child[n] /\ reader'[n] = reader[n] /\ via'[n] = via[n]
              /\ pending'[n] = pending[n] /\ inbox'[n] = inbox[n]
        /\ pc'[r] = "error" => UNCHANGED <<child, reader, via, pending, inbox>>
        /\ pc'[r] = "handshake" =>
              /\ child'[r] = "up" /\ reader'[r] = "reading" /\ via'[r] = r
              /\ pending'[r] = pending[r] \cup {IdOf(r, "handshake")}
    BY <1>1 DEF StartConnector, Go, Frame, Placed, Release, Write, ConnInv, ConnTypes
  <1>3. ConnTypes'
    BY <1>1, <1>2 DEF ConnInv, ConnTypes, StartConnector, Write, IdOf, Ids
  <1>4. Locked' /\ Unconnected'
    BY <1>0, <1>1, <1>2 DEF ConnInv, Locked, Unconnected
  <1>5. Own' /\ OneChild'
    BY <1>0, <1>1, <1>2 DEF ConnInv, Own, OneChild, Locked
  <1>6. Pended'
    BY <1>0, <1>1, <1>2 DEF ConnInv, Pended, Ids, ConnTypes, Abandoned, IdOf
  <1>7. Awaited' /\ Carried'
    BY <1>0, <1>1, <1>2 DEF ConnInv, Awaited, Carried, IdOf, ConnTypes, Own
  <1>8. Heard'
    BY <1>0, <1>1, <1>2, StaysDeafened DEF ConnInv, Heard
  <1> QED
    BY <1>3, <1>4, <1>5, <1>6, <1>7, <1>8 DEF ConnInv

LEMMA InitMoves ==
    ASSUME Frame, ConnInv, NEW r \in Requests, Turn(r), UNCHANGED job, Initialized(r)
    PROVE  ConnInv'
  <1> USE ConnectorConstants DEF Connects, Ensuring, Unanswered
  <1>0. \A q \in Requests : q # r => pc'[q] = pc[q] /\ cut'[q] = cut[q] /\ Op(q)' = Op(q)
    BY DEF Turn, Only, Op
  <1>1. /\ Op(r) = "connector" /\ Op(r)' = Op(r) /\ cut'[r] = cut[r]
        /\ pc[r] = "handshake" /\ pc'[r] \in {"send", "error"} /\ starter = r /\ via[r] = r
        /\ UNCHANGED <<child, reader, via, pending, inbox, served, unwritten>>
        /\ reply[r] \in {"result", "error"} /\ IdOf(r, "handshake") \notin pending[r]
        /\ current = Nobody
    BY DEF Initialized, At, Go, Frame, Placed, Turn, Op, ConnInv, Locked, Own, Awaited, Unconnected
  <1>2. /\ starter' = Nobody /\ reply'[r] = "none"
        /\ \A q \in Requests \ {r} : reply'[q] = reply[q]
        /\ pc'[r] = "send" => current' = r
        /\ pc'[r] = "error" => current' = Nobody
    BY <1>1 DEF Initialized, Go, Frame, Placed, Release, ConnInv, ConnTypes
  <1>3. ConnTypes'
    BY <1>1, <1>2 DEF ConnInv, ConnTypes, Initialized
  <1>4. Locked' /\ Unconnected'
    BY <1>0, <1>1, <1>2 DEF ConnInv, Locked, Unconnected
  <1>5. Own' /\ OneChild'
    BY <1>0, <1>1, <1>2 DEF ConnInv, Own, OneChild, Locked
  <1>6. Pended'
    <2>1. \A n \in Requests : \A id \in pending[n] : id.by = r => id.place # "handshake"
      BY <1>1 DEF ConnInv, Pended, Ids, ConnTypes, IdOf
    <2> QED
      BY <1>0, <1>1, <1>2, <2>1 DEF ConnInv, Pended, Ids, ConnTypes, Abandoned
  <1>7. Awaited' /\ Carried'
    BY <1>0, <1>1, <1>2 DEF ConnInv, Awaited, Carried, IdOf
  <1>8. Heard'
    BY <1>0, <1>1, <1>2, StaysDeafened DEF ConnInv, Heard
  <1> QED
    BY <1>3, <1>4, <1>5, <1>6, <1>7, <1>8 DEF ConnInv

LEMMA SendMoves ==
    ASSUME Frame, ConnInv, NEW r \in Requests, Turn(r), UNCHANGED job,
           SendCall(r) \/ ReceiveReply(r)
    PROVE  ConnInv'
  <1> USE ConnectorConstants DEF Connects, Ensuring, Unanswered
  <1>0. \A q \in Requests : q # r => pc'[q] = pc[q] /\ cut'[q] = cut[q] /\ Op(q)' = Op(q)
    BY DEF Turn, Only, Op
  <1>1. /\ Op(r) = "connector" /\ Op(r)' = Op(r) /\ cut'[r] = cut[r]
        /\ pc[r] \in {"send", "await"} /\ pc'[r] \in {"await", "error", "done"}
        /\ UNCHANGED <<starter, current, child, reader, via, reply, served>>
        /\ via[r] \in Requests
    BY DEF SendCall, ReceiveReply, At, Go, Frame, Placed, Turn, Op, ConnInv, Own, connectorVars
  <1>2. /\ pc[r] = "send" =>
              /\ \A n \in Requests \ {via[r]} : pending'[n] = pending[n]
              /\ pending'[via[r]] = pending[via[r]] \cup {IdOf(r, "await")}
              /\ \/ pc'[r] = "await" /\ unwritten' = unwritten
                 \/ pc'[r] = "error" /\ unwritten' = unwritten \cup {r}
              /\ reply[r] = "none"
        /\ pc[r] = "await" =>
              /\ pending' = pending /\ unwritten' = unwritten
              /\ reply[r] \in {"result", "error"} /\ IdOf(r, "await") \notin pending[via[r]]
              /\ pc'[r] = IF reply[r] = "result" THEN "done" ELSE "error"
    <2>1. CASE SendCall(r)
      BY <1>1, <2>1 DEF SendCall, At, Go, Frame, Placed, Write, ConnInv, ConnTypes, Awaited
    <2>2. CASE ReceiveReply(r)
      BY <1>1, <2>2 DEF ReceiveReply, At, Go, Frame, Placed, ConnInv, Awaited, connectorVars
    <2> QED
      BY <2>1, <2>2
  <1>3. ConnTypes'
    BY <1>1 DEF ConnInv, ConnTypes, SendCall, ReceiveReply, Write, IdOf, Ids, connectorVars
  <1>4. Locked' /\ Unconnected' /\ Own' /\ OneChild'
    BY <1>0, <1>1 DEF ConnInv, Locked, Unconnected, Own, OneChild
  <1>6. Pended'
    <2>1. pc[r] = "await" => \A n \in Requests : \A id \in pending[n] : id.by # r
      BY <1>1, <1>2 DEF ConnInv, Pended, Ids, ConnTypes, IdOf, Abandoned
    <2> QED
      BY <1>0, <1>1, <1>2, <2>1 DEF ConnInv, Pended, Ids, ConnTypes, Abandoned, IdOf
  <1>7. Awaited' /\ Carried'
    BY <1>0, <1>1, <1>2 DEF ConnInv, Awaited, Carried, IdOf, Own
  <1>8. Heard'
    BY <1>0, <1>1, StaysDeafened DEF ConnInv, Heard
  <1> QED
    BY <1>3, <1>4, <1>6, <1>7, <1>8 DEF ConnInv

\* Whoever stops waiting gives the lock up, and takes the id back, or leaves it.
LEMMA QuitMoves ==
    ASSUME Frame, ConnInv, NEW r \in Requests, Connects(r), UNCHANGED job,
           \/ Turn(r) /\ TakeBack(r)
           \/ Cut(r) /\ ConnectorTimeOut(r)
    PROVE  ConnInv'
  <1> USE ConnectorConstants DEF Connects, Ensuring, Unanswered
  <1>0. \A q \in Requests : q # r => pc'[q] = pc[q] /\ cut'[q] = cut[q] /\ Op(q)' = Op(q)
    BY DEF Turn, Only, Op, Cut, Frame, Placed
  <1>1. /\ Op(r)' = Op(r) /\ pc[r] \notin Terminal \cup {"new"} /\ pc'[r] \in {"504", "error"}
        /\ UNCHANGED <<current, child, reader, via, inbox, reply, served, unwritten>>
        /\ starter' = IF starter = r THEN Nobody ELSE starter
    BY DEF TakeBack, ConnectorTimeOut, Waits, At, Go, Frame, Placed, Turn, Cut, Op, Release, Running, Terminal
  <1>2. \/ /\ pc'[r] = "504" /\ cut'[r] = pc[r] /\ pending' = pending
        \/ /\ pc'[r] = "error" /\ cut'[r] = cut[r] /\ via[r] \in Requests
           /\ \A n \in Requests \ {via[r]} : pending'[n] = pending[n]
           /\ pending'[via[r]] = pending[via[r]] \ {IdOf(r, pc[r])}
    BY <1>1 DEF TakeBack, ConnectorTimeOut, Waits, Go, Frame, Placed, Turn, Cut, ConnInv, ConnTypes, Own
  <1>3. ConnTypes'
    BY <1>1, <1>2 DEF ConnInv, ConnTypes, TakeBack, ConnectorTimeOut
  <1>4. Locked' /\ Unconnected' /\ Own' /\ OneChild'
    BY <1>0, <1>1 DEF ConnInv, Locked, Unconnected, Own, OneChild, Terminal
  <1>6. Pended'
    BY <1>0, <1>1, <1>2 DEF ConnInv, Pended, Ids, ConnTypes, Abandoned, IdOf, Terminal
  <1>7. Awaited' /\ Carried'
    <2>0. ASSUME NEW q \in Requests, q # r PROVE IdOf(q, pc[q]) # IdOf(r, pc[r])
      <3>1. IdOf(q, pc[q]).by = q /\ IdOf(r, pc[r]).by = r
        BY DEF IdOf
      <3> QED
        BY <2>0, <3>1
    <2>1. ASSUME NEW q \in Requests, Connects(q), q # r
          PROVE  /\ pc[q] \in {"handshake", "await"} =>
                        (IdOf(q, pc[q]) \in pending'[via[q]] <=> reply[q] \in Unanswered)
                 /\ pc[q] \in {"new", "ensure", "spawn", "send"} => reply[q] = "none"
      BY <1>2, <2>0, <2>1 DEF ConnInv, Awaited, Own
    <2>2. Awaited'
      BY <1>0, <1>1, <1>2, <2>1 DEF Awaited, IdOf
    <2> QED
      BY <1>0, <1>1, <1>2, <2>2 DEF ConnInv, Carried
  <1>8. Heard'
    BY <1>0, <1>1, StaysDeafened DEF ConnInv, Heard, Terminal
  <1> QED
    BY <1>3, <1>4, <1>6, <1>7, <1>8 DEF ConnInv

\* The future of a request is cancelled.
LEMMA LateMoves ==
    ASSUME Frame, ConnInv, NEW r \in Requests, Turn(r), UNCHANGED job, ReplyTimeOut(r)
    PROVE  ConnInv'
  <1> USE ConnectorConstants DEF Connects, Ensuring, Unanswered
  <1>0. \A q \in Requests : Op(q)' = Op(q)
    BY DEF Op
  <1>1. /\ UNCHANGED <<pc, cut, starter, current, child, reader, via, pending, inbox, served, unwritten>>
        /\ reply[r] = "none" /\ reply'[r] = "cancelled"
        /\ \A q \in Requests \ {r} : reply'[q] = reply[q]
        /\ Op(r) = "connector" /\ pc[r] \in {"handshake", "await"}
    BY DEF ReplyTimeOut, Waits, Turn, ConnInv, ConnTypes
  <1>2. ConnTypes'
    BY <1>1 DEF ConnInv, ConnTypes, ReplyTimeOut
  <1>3. Locked' /\ Unconnected' /\ Own' /\ OneChild'
    BY <1>0, <1>1 DEF ConnInv, Locked, Unconnected, Own, OneChild
  <1>4. Pended' /\ Awaited' /\ Carried'
    BY <1>0, <1>1 DEF ConnInv, Pended, Awaited, Carried, Abandoned, IdOf, ConnTypes, Ids
  <1>5. Heard'
    BY <1>1, StaysDeafened DEF ConnInv, Heard
  <1> QED
    BY <1>2, <1>3, <1>4, <1>5 DEF ConnInv

\* A child serves what was written to it: the reply wakes who waits, or, if he
\* was cancelled, ends the reader.
LEMMA ServeMoves ==
    ASSUME Frame, ConnInv, NEW n \in Requests, Serve(n), UNCHANGED <<job, pc, cut>>
    PROVE  ConnInv'
  <1> USE ConnectorConstants DEF Connects, Ensuring, Unanswered
  <1>0. \A q \in Requests : pc'[q] = pc[q] /\ cut'[q] = cut[q] /\ Op(q)' = Op(q)
    BY DEF Op
  <1>1. UNCHANGED <<starter, current, child, via, unwritten>>
    BY DEF Serve
  <1>2. PICK id \in inbox[n], result \in {"result", "error"} :
          /\ inbox' = [inbox EXCEPT ![n] = @ \ {id}]
          /\ served' = IF id.place = "await" THEN served \cup {id.by} ELSE served
          /\ IF reader[n] # "reading" \/ id \notin pending[n]
             THEN UNCHANGED <<pending, reply, reader>>
             ELSE /\ pending' = [pending EXCEPT ![n] = @ \ {id}]
                  /\ IF Abandoned(id) \/ reply[id.by] = "cancelled"
                     THEN /\ reader' = [reader EXCEPT ![n] = "failed"]
                          /\ reply' = [reply EXCEPT ![id.by] = "late"]
                     ELSE reply' = [reply EXCEPT ![id.by] = result] /\ UNCHANGED reader
    BY DEF Serve
  <1>3. id \in Ids /\ id.by \in Requests /\ id.place \in {"handshake", "await"}
        /\ IdOf(id.by, id.place) = id
    BY DEF ConnInv, ConnTypes, Ids, IdOf
  <1>4. /\ inbox' \in [Requests -> SUBSET Ids]
        /\ \A q \in served : q \in served'
    BY <1>2 DEF ConnInv, ConnTypes
  <1>5. Locked' /\ Unconnected' /\ Own' /\ OneChild'
    BY <1>0, <1>1 DEF ConnInv, Locked, Unconnected, Own, OneChild
  <1>6. CASE UNCHANGED <<pending, reply, reader>>
    <2>1. ConnTypes'
      BY <1>1, <1>4, <1>6 DEF ConnInv, ConnTypes
    <2>2. Pended' /\ Awaited' /\ Carried'
      BY <1>0, <1>1, <1>4, <1>6 DEF ConnInv, Pended, Awaited, Carried, Abandoned, IdOf, ConnTypes, Ids
    <2>3. Heard'
      BY <1>0, <1>1, <1>6, StaysDeafened DEF ConnInv, Heard
    <2> QED
      BY <1>5, <2>1, <2>2, <2>3 DEF ConnInv
  <1>7. CASE /\ id \in pending[n] /\ pending' = [pending EXCEPT ![n] = @ \ {id}]
             /\ IF Abandoned(id) \/ reply[id.by] = "cancelled"
                THEN /\ reader' = [reader EXCEPT ![n] = "failed"]
                     /\ reply' = [reply EXCEPT ![id.by] = "late"]
                ELSE reply' = [reply EXCEPT ![id.by] = result] /\ UNCHANGED reader
    <2>0. /\ \A m \in Requests \ {n} : pending'[m] = pending[m]
          /\ pending'[n] = pending[n] \ {id}
          /\ via[id.by] = n /\ Connects(id.by) /\ reply[id.by] \in Unanswered
          /\ pc[id.by] = id.place \/ Abandoned(id) \/ pc[id.by] = "error"
      BY <1>7 DEF ConnInv, ConnTypes, Pended
    <2>1. ConnTypes'
      BY <1>1, <1>3, <1>4, <1>7 DEF ConnInv, ConnTypes
    <2>2. \A q \in Requests \ {id.by} : reply'[q] = reply[q]
      BY <1>3, <1>7 DEF ConnInv, ConnTypes
    <2>3. \/ /\ Abandoned(id) \/ reply[id.by] = "cancelled"
             /\ reply'[id.by] = "late" /\ reader' = [reader EXCEPT ![n] = "failed"]
          \/ /\ ~Abandoned(id) /\ reply[id.by] # "cancelled"
             /\ reply'[id.by] = result /\ UNCHANGED reader
      BY <1>3, <1>7 DEF ConnInv, ConnTypes
    <2>4. \A m \in Requests : \A other \in pending'[m] : other.by = id.by => other = id
      <3>1. ASSUME NEW m \in Requests, NEW other \in pending[m], other.by = id.by
            PROVE  other.place = id.place
        BY <1>7, <3>1, <2>0 DEF ConnInv, Pended, Abandoned, Ids, ConnTypes
      <3>2. ASSUME NEW m \in Requests, NEW other \in pending[m], other.by = id.by
            PROVE  other = id
        BY <3>1, <3>2, <1>3 DEF ConnInv, ConnTypes, Ids
      <3> QED
        BY <3>2, <2>0
    <2>5. Pended'
      BY <1>0, <1>1, <2>0, <2>2, <2>4 DEF ConnInv, Pended, Abandoned, ConnTypes, Ids
    <2>6. Heard'
      <3>1. \A m \in Requests : Deafened(m) => Deafened(m)'
        BY <1>1, <2>0, <2>2, StaysDeafened
      <3>2. reply'[id.by] = "late" => Deafened(n)'
        BY <1>1, <1>3, <2>0 DEF Deafened
      <3> QED
        BY <1>1, <1>3, <2>3, <3>1, <3>2 DEF ConnInv, Heard, ConnTypes
    <2>7. ASSUME NEW q \in Requests, q # id.by
          PROVE  IdOf(q, pc[q]) \in pending'[via[q]] <=> IdOf(q, pc[q]) \in pending[via[q]]
      <3>1. IdOf(q, pc[q]).by = q
        BY DEF IdOf
      <3> QED
        BY <2>0, <2>7, <3>1, <1>7 DEF ConnInv, ConnTypes
    <2>8. \A q \in Requests : (IdOf(q, pc[q]) \in pending[via[q]])' <=> IdOf(q, pc[q]) \in pending'[via[q]]
      BY <1>0, <1>1 DEF IdOf
    <2>9. pc[id.by] = id.place => IdOf(id.by, pc[id.by]) \notin pending'[via[id.by]]
      BY <1>3, <2>0 DEF IdOf
    <2>10. Awaited'
      BY <1>0, <1>1, <1>3, <2>0, <2>2, <2>3, <2>7, <2>8, <2>9 DEF ConnInv, Awaited, Abandoned
    <2>11. Carried'
      BY <1>0, <1>1, <1>2, <1>3, <1>4, <2>0, <2>2, <2>3 DEF ConnInv, Carried, Abandoned
    <2> QED
      BY <1>5, <2>1, <2>5, <2>6, <2>10, <2>11 DEF ConnInv
  <1> QED
    BY <1>2, <1>6, <1>7

LEMMA ChildMoves ==
    ASSUME Frame, ConnInv, NEW n \in Requests, ChildStep(n), UNCHANGED <<job, pc, cut>>
    PROVE  ConnInv'
  <1> USE DEF Connects, Ensuring, Unanswered
  <1>0. \A q \in Requests : pc'[q] = pc[q] /\ cut'[q] = cut[q] /\ Op(q)' = Op(q)
    BY DEF Op
  <1>1. CASE ChildEnds(n) \/ EndOfOutput(n) \/ Reap(n)
    <2>1. UNCHANGED <<starter, current, via, pending, inbox, reply, served, unwritten>>
      BY <1>1 DEF ChildEnds, EndOfOutput, Reap
    <2>2. /\ \A m \in Requests \ {n} : child'[m] = child[m] /\ reader'[m] = reader[m]
          /\ child[n] = "none" => child'[n] = "none"
          /\ child'[n] = "up" => child[n] = "up" /\ reader'[n] = reader[n]
          /\ reader'[n] = "failed" => reader[n] = "failed"
      BY <1>1 DEF ConnInv, ConnTypes, ChildEnds, EndOfOutput, Reap
    <2>3. ConnTypes'
      BY <1>1, <2>1 DEF ConnInv, ConnTypes, ChildEnds, EndOfOutput, Reap
    <2>4. Locked' /\ Unconnected' /\ OneChild'
      BY <1>0, <2>1, <2>2 DEF ConnInv, Locked, Unconnected, OneChild
    <2>5. Own'
      BY <1>0, <1>1, <2>1, <2>2 DEF ConnInv, Own, ConnTypes, ChildEnds, EndOfOutput, Reap
    <2>6. Pended' /\ Awaited' /\ Carried'
      BY <1>0, <2>1 DEF ConnInv, Pended, Awaited, Carried, Abandoned, IdOf, ConnTypes, Ids
    <2>7. Heard'
      BY <1>0, <2>1, <2>2, StaysDeafened DEF ConnInv, Heard
    <2> QED
      BY <2>3, <2>4, <2>5, <2>6, <2>7 DEF ConnInv
  <1> QED
    BY <1>1, ServeMoves DEF ChildStep

\* What leaves the connectors alone, but for callers who are turned away.
Undisturbed ==
    /\ UNCHANGED connectorVars
    /\ \A r \in Requests : Connects(r) =>
          cut'[r] = cut[r] /\ (pc'[r] = pc[r] \/ (pc[r] = "new" /\ pc'[r] = "rejected"))

LEMMA ConnQuiet == ASSUME Frame, ConnInv, UNCHANGED job, Undisturbed PROVE ConnInv'
  <1> USE DEF Connects, Ensuring, Unanswered
  <1>0. \A q \in Requests : Op(q)' = Op(q)
    BY DEF Op
  <1>1. UNCHANGED connectorVars
    BY DEF Undisturbed
  <1> USE <1>1 DEF connectorVars
  <1>2. ConnTypes'
    BY DEF ConnInv, ConnTypes
  <1>3. Locked' /\ Unconnected' /\ Own' /\ OneChild'
    BY <1>0 DEF ConnInv, Locked, Unconnected, Own, OneChild, Undisturbed, ConnTypes
  <1>4. Pended' /\ Awaited' /\ Carried'
    BY <1>0 DEF ConnInv, Pended, Awaited, Carried, Abandoned, IdOf, ConnTypes, Ids, Undisturbed
  <1>5. Heard'
    BY <1>0, StaysDeafened, ConnectorConstants DEF ConnInv, Heard, Undisturbed, Own
  <1> QED
    BY <1>2, <1>3, <1>4, <1>5 DEF ConnInv

\* The end of the process.
LEMMA ConnFalls == ASSUME Frame, ConnInv, UNCHANGED job, Fallen, ConnectorCrash PROVE ConnInv'
  <1> USE ConnectorConstants DEF Connects, Ensuring, ConnectorCrash
  <1>0. \A q \in Requests : Op(q)' = Op(q)
    BY DEF Op
  <1>1. \A q \in Requests :
           /\ pc'[q] \in Terminal \cup {"new"}
           /\ pc[q] \in Terminal \cup {"new"} => pc'[q] = pc[q] /\ cut'[q] = cut[q]
           /\ pc[q] \notin Terminal \cup {"new"} => pc'[q] = "lost"
    BY DEF Fallen, Running, Terminal
  <1>2. ConnTypes'
    BY DEF ConnInv, ConnTypes
  <1>3. Locked' /\ Unconnected' /\ Own' /\ OneChild'
    BY <1>0, <1>1 DEF ConnInv, Locked, Unconnected, Own, OneChild, Terminal, ConnTypes
  <1>4. Pended' /\ Awaited' /\ Carried'
    BY <1>0, <1>1 DEF ConnInv, Pended, Awaited, Carried, Terminal
  <1>5. Heard'
    BY <1>0, <1>1, StaysDeafened DEF ConnInv, Heard, Terminal
  <1> QED
    BY <1>2, <1>3, <1>4, <1>5 DEF ConnInv

LEMMA ConnCloses ==
    ASSUME Frame, ConnInv, UNCHANGED job, CloseConnectors, life' # "aborted"
    PROVE  ConnInv'
  <1> USE DEF Connects, Ensuring, Unanswered
  <1>0. \A q \in Requests : Op(q)' = Op(q)
    BY DEF Op
  <1>1. /\ UNCHANGED <<pc, cut, starter, via, pending, inbox, reply, served, unwritten>>
        /\ current' = Nobody
        /\ child' = IF current = Nobody \/ child[current] # "up" THEN child
                    ELSE [child EXCEPT ![current] = "reaped"]
        /\ reader' = IF current = Nobody THEN reader ELSE [reader EXCEPT ![current] = "ended"]
    BY DEF CloseConnectors, Exit
  <1>2. /\ \A n \in Requests \ {current} : child'[n] = child[n] /\ reader'[n] = reader[n]
        /\ current \in Requests => /\ child'[current] # "up" /\ reader'[current] # "failed"
                                   /\ child'[current] # "none" => child[current] # "none"
    BY <1>1, ConnectorConstants DEF ConnInv, ConnTypes
  <1>3. ConnTypes'
    BY <1>1 DEF ConnInv, ConnTypes
  <1>4. Locked' /\ Unconnected' /\ Own' /\ OneChild'
    BY <1>0, <1>1, <1>2 DEF ConnInv, Locked, Unconnected, Own, OneChild
  <1>5. Pended' /\ Awaited' /\ Carried'
    BY <1>0, <1>1 DEF ConnInv, Pended, Awaited, Carried, Abandoned, IdOf, ConnTypes, Ids
  <1>6. Heard'
    BY <1>0, <1>1, <1>2, StaysDeafened DEF ConnInv, Heard
  <1> QED
    BY <1>3, <1>4, <1>5, <1>6 DEF ConnInv

-----------------------------------------------------------------------------
LEMMA FrameStart == ASSUME Init PROVE Frame
  BY DEF Init, TaskInit, Frame, Placed

LEMMA LifeFrames ==
    ASSUME Frame, LifeStep, UNCHANGED job
    PROVE  Frame'
  <1> USE DEF Frame, Placed
  <1>1. CASE ConnectStorage
    BY <1>1 DEF ConnectStorage, Exit
  <1>2. CASE StartLoop \/ Terminate \/ Drain
    BY <1>2 DEF StartLoop, Terminate, Drain
  <1>3. CASE CloseConnectors
    BY <1>3 DEF CloseConnectors, Exit
  <1>4. CASE CancelLoop
    BY <1>4 DEF CancelLoop
  <1>5. CASE CloseStorage \/ Kill
    BY <1>5 DEF CloseStorage, Kill, Exit
  <1> QED
    BY <1>1, <1>2, <1>3, <1>4, <1>5 DEF LifeStep

LEMMA FrameKept == ASSUME Frame, UNCHANGED job, ProcessTurn PROVE Frame'
  <1>1. CASE OtherTurn \/ ConnectorTurn \/ LoopTurn \/ UpstreamTurn
    BY <1>1 DEF OtherTurn, ConnectorTurn, LoopTurn, UpstreamTurn, Turn, Only, Frame, Placed
  <1>2. CASE CutTurn \/ CrashTurn
    BY <1>2 DEF CutTurn, Cut, CrashTurn, Fallen, Frame, Placed
  <1>3. CASE ChildTurn \/ TickTurn \/ RestTurn
    BY <1>3 DEF ChildTurn, TickTurn, RestTurn, Frame, Placed
  <1>4. CASE LifeTurn
    BY <1>4, LifeFrames DEF LifeTurn
  <1> QED
    BY <1>1, <1>2, <1>3, <1>4 DEF ProcessTurn

LEMMA ConnLives ==
    ASSUME Frame, ConnInv, UNCHANGED job, LifeStep
    PROVE  ConnInv'
  <1> USE DEF Connects
  <1>1. CASE ConnectStorage \/ CloseStorage \/ Kill
    <2>1. CASE Fallen /\ ConnectorCrash
      BY <2>1, ConnFalls
    <2>2. CASE UNCHANGED <<pc, cut, connectorVars>>
      BY <2>2, ConnQuiet DEF Undisturbed
    <2> QED
      BY <1>1, <2>1, <2>2 DEF ConnectStorage, CloseStorage, Kill, Exit, Fallen
  <1>2. CASE StartLoop
    <2>1. \A q \in Requests : Connects(q) => pc'[q] = pc[q] /\ cut'[q] = cut[q]
      BY <1>2 DEF StartLoop, Loops, Loop
    <2> QED
      BY <1>2, <2>1, ConnQuiet DEF StartLoop, Undisturbed
  <1>3. CASE Terminate \/ Drain
    <2>1. \A q \in Requests : /\ cut'[q] = cut[q]
                              /\ pc'[q] = pc[q] \/ (pc[q] = "new" /\ pc'[q] = "rejected")
      BY <1>3 DEF Terminate, Drain
    <2> QED
      BY <1>3, <2>1, ConnQuiet DEF Terminate, Drain, Undisturbed
  <1>4. CASE CloseConnectors
    <2>1. CASE life' = "aborted"
      <3>1. Fallen /\ ConnectorCrash
        BY <1>4, <2>1 DEF CloseConnectors, Exit, Enter, Fallen
      <3> QED
        BY <3>1, ConnFalls
    <2> QED
      BY <1>4, <2>1, ConnCloses
  <1>5. CASE CancelLoop
    <2>1. \A q \in Requests : Connects(q) => pc'[q] = pc[q] /\ cut'[q] = cut[q]
      BY <1>5 DEF CancelLoop, Loops, Loop
    <2> QED
      BY <1>5, <2>1, ConnQuiet DEF CancelLoop, Undisturbed
  <1> QED
    BY <1>1, <1>2, <1>3, <1>4, <1>5 DEF LifeStep

LEMMA ConnKept == ASSUME Frame, ConnInv, UNCHANGED job, ProcessTurn PROVE ConnInv'
  <1> USE DEF Connects
  <1>1. CASE ConnectorTurn
    BY <1>1, LockMoves, StartMoves, InitMoves, SendMoves, QuitMoves, LateMoves, ConnectorOnly
       DEF ConnectorTurn, ConnectorStep
  <1>2. CASE OtherTurn \/ LoopTurn \/ UpstreamTurn
    <2>1. PICK r \in Requests : /\ Op(r) # "connector" /\ Only(r) /\ UNCHANGED cut
                                /\ UNCHANGED connectorVars
      BY <1>2, LoopOnly, UpstreamOnly DEF OtherTurn, LoopTurn, UpstreamTurn, Turn, BackupOps,
         HostOps, ShipOps, Living, process
    <2> QED
      BY <2>1, ConnQuiet DEF Undisturbed, Only
  <1>3. CASE CutTurn
    <2>1. PICK r \in Requests : Cut(r) /\ ConnectorTimeOut(r)
      BY <1>3 DEF CutTurn
    <2>2. CASE ~Connects(r)
      <3>1. UNCHANGED connectorVars
        BY <2>1, <2>2, ConnectorConstants DEF ConnectorTimeOut, Release, ConnInv, Locked, connectorVars
      <3>2. \A q \in Requests \ {r} : pc'[q] = pc[q] /\ cut'[q] = cut[q]
        BY <2>1 DEF Cut, Frame, Placed
      <3> QED
        BY <2>2, <3>1, <3>2, ConnQuiet DEF Undisturbed
    <2> QED
      BY <2>1, <2>2, QuitMoves
  <1>4. CASE ChildTurn
    BY <1>4, ChildMoves DEF ChildTurn
  <1>5. CASE LifeTurn
    BY <1>5, ConnLives DEF LifeTurn
  <1>6. CASE CrashTurn
    BY <1>6, ConnFalls DEF CrashTurn
  <1>7. CASE TickTurn \/ RestTurn
    BY <1>7, ConnQuiet DEF TickTurn, RestTurn, Undisturbed, process
  <1> QED
    BY <1>1, <1>2, <1>3, <1>4, <1>5, <1>6, <1>7 DEF ProcessTurn

LEMMA ConnSafe == ASSUME ConnInv PROVE ConnectorsAnswer
  <1>1. PendingMatches
    BY DEF ConnInv, Pended, Awaited, Carried, PendingMatches, Waits, Connects, ConnTypes, Ids, Unanswered
  <1>2. Listened
    BY DEF ConnInv, Heard, Listened
  <1> QED
    BY <1>1, <1>2 DEF ConnectorsAnswer, ConnInv

-----------------------------------------------------------------------------
(***************************************************************************)
(* The life of the process.  Its storages are open and its loops run while *)
(* it serves; what is still to be connected, started, cancelled or closed  *)
(* is what is left of the list it goes through.                            *)
(***************************************************************************)
Left == {todo[i] : i \in DOMAIN todo}
Listable == Storages \cup DOMAIN Uses
Serving == {"serving", "draining", "connectors"}
Lives == {"connecting", "starting", "loops", "storages"} \cup Serving \cup Over

Sends(r) == Op(r) = "send"

LifeTypes == life \in Lives /\ todo \in Seq(Listable)
Unlived == ~Lived => life = "serving" /\ open = Storages
Connecting == Lived /\ life = "connecting" =>
    open \cup Left = Storages /\ \A r \in Requests : Loop(r) => pc[r] = "new"
Starting == Lived /\ life = "starting" =>
    /\ open = Storages
    /\ \A r \in Requests : Loop(r) => Running(r) \/ (pc[r] = "new" /\ job[r].name \in Left)
InService == Lived /\ life \in Serving =>
    open = Storages /\ \A r \in Requests : Loop(r) => Running(r)
Stopping == Lived /\ life = "loops" =>
    open = Storages /\ \A r \in Requests : Loop(r) /\ Running(r) => job[r].name \in Left
Closing == Lived /\ life = "storages" =>
    open \subseteq Left /\ \A r \in Requests : Loop(r) => ~Running(r)
Ended == /\ Lived /\ life \in Over => \A r \in Requests : ~Running(r)
         /\ life = "down" => open = {}
         /\ life = "aborted" => \E n \in Requests : Deafened(n)
Delivered == \A r \in Requests : Sends(r) =>
    /\ Running(r) => life \notin {"connecting", "starting"}
    /\ pc[r] = "error" => life \in {"storages"} \cup Over
NoLoopClosed == \A r \in Requests : Loop(r) => r \notin closed

LifeInv == /\ LifeTypes /\ Unlived /\ Connecting /\ Starting /\ InService /\ Stopping
           /\ Closing /\ Ended /\ Delivered /\ NoLoopClosed

LEMMA Lists ==
    /\ ConnectOrder \in Seq(Listable) /\ LoopOrder \in Seq(Listable)
    /\ CancelOrder \in Seq(Listable) /\ CloseOrder \in Seq(Listable)
    /\ {ConnectOrder[i] : i \in DOMAIN ConnectOrder} = Storages
    /\ {CloseOrder[i] : i \in DOMAIN CloseOrder} = Storages
    /\ {LoopOrder[i] : i \in DOMAIN LoopOrder} = DOMAIN Uses
    /\ {CancelOrder[i] : i \in DOMAIN CancelOrder} = DOMAIN Uses
  <1> DEFINE Names == {"billing", "paywall", "payments", "trust", "identity", "marketplace",
                       "events", "messaging", "gatekeeper", "disputes", "webhooks"}
             Rounds == {"scheduler", "health", "rates", "eventCleanup", "nonces", "aggregates",
                        "lifecycle", "sessions"}
  <1>1. DOMAIN Uses = Rounds
    BY DEF Uses
  <1>2. ConnectOrder \in Seq(Names) /\ CloseOrder \in Seq(Names)
    BY DEF ConnectOrder, CloseOrder
  <1>3. LoopOrder \in Seq(Rounds) /\ CancelOrder \in Seq(Rounds)
    BY DEF LoopOrder, CancelOrder
  <1>4. {ConnectOrder[i] : i \in DOMAIN ConnectOrder} = Names
    BY DEF ConnectOrder
  <1>5. {CloseOrder[i] : i \in DOMAIN CloseOrder} = Names
    BY DEF CloseOrder
  <1>6. {LoopOrder[i] : i \in DOMAIN LoopOrder} = Rounds
    BY DEF LoopOrder
  <1>7. {CancelOrder[i] : i \in DOMAIN CancelOrder} = Rounds
    BY DEF CancelOrder
  <1>8. Storages = Names
    BY <1>4 DEF Storages
  <1>9. ASSUME NEW S, NEW T, S \subseteq T, NEW s \in Seq(S) PROVE s \in Seq(T)
    <2>1. Len(s) \in Nat /\ s \in [1 .. Len(s) -> S]
      OBVIOUS
    <2>2. s \in [1 .. Len(s) -> T]
      BY <2>1, <1>9
    <2> QED
      BY <2>1, <2>2
  <1>10. Names \subseteq Listable /\ Rounds \subseteq Listable
    BY <1>1, <1>8 DEF Listable
  <1> HIDE DEF Names, Rounds
  <1>11. ConnectOrder \in Seq(Listable) /\ CloseOrder \in Seq(Listable)
    BY <1>2, <1>9, <1>10
  <1>12. LoopOrder \in Seq(Listable) /\ CancelOrder \in Seq(Listable)
    BY <1>3, <1>9, <1>10
  <1> QED
    BY <1>1, <1>4, <1>5, <1>6, <1>7, <1>8, <1>11, <1>12

LEMMA UsesStorages == \A name \in DOMAIN Uses : Uses[name] \subseteq Storages
  <1>1. Storages = {"billing", "paywall", "payments", "trust", "identity", "marketplace",
                    "events", "messaging", "gatekeeper", "disputes", "webhooks"}
    BY DEF Storages, ConnectOrder
  <1> QED
    BY <1>1 DEF Uses

LEMMA NextOfList ==
    ASSUME todo \in Seq(Listable)
    PROVE  /\ todo = <<>> => Left = {}
           /\ todo # <<>> /\ todo' = Tail(todo) =>
                 todo' \in Seq(Listable) /\ Left = Left' \cup {Head(todo)}
  <1>1. ASSUME todo # <<>>, todo' = Tail(todo)
        PROVE  todo' \in Seq(Listable) /\ Left = Left' \cup {Head(todo)}
    <2>1. /\ DOMAIN todo = 1 .. Len(todo) /\ Len(todo) \in Nat \ {0}
          /\ DOMAIN todo' = 1 .. Len(todo) - 1
          /\ \A i \in DOMAIN todo' : todo'[i] = todo[i + 1]
          /\ Head(todo) = todo[1] /\ todo' \in Seq(Listable)
      BY <1>1
    <2>2. ASSUME NEW i \in DOMAIN todo PROVE todo[i] \in Left' \cup {Head(todo)}
      <3>1. CASE i = 1
        BY <2>1, <3>1
      <3>2. CASE i # 1
        <4>1. i - 1 \in DOMAIN todo' /\ todo'[i - 1] = todo[i]
          BY <2>1, <2>2, <3>2
        <4> QED
          BY <4>1 DEF Left
      <3> QED
        BY <3>1, <3>2
    <2>3. ASSUME NEW i \in DOMAIN todo' PROVE todo'[i] \in Left
      BY <2>1, <2>3 DEF Left
    <2> QED
      BY <2>1, <2>2, <2>3 DEF Left
  <1>2. todo = <<>> => Left = {}
    BY DEF Left
  <1> QED
    BY <1>1, <1>2

\* The workloads that follow the life of the process.
LEMMA LivedJobs ==
    ASSUME job \in Workloads, Lived, NEW r \in Requests
    PROVE  /\ Op(r) \in Living \cup {"connector", "idle"}
           /\ Op(r) \in Living => job[r].background
           /\ Loop(r) => job[r].name \in DOMAIN Uses
  BY LifeConstants DEF Lived, Op, Loop

LEMMA LifeStart == ASSUME Init PROVE LifeInv
  <1> USE DEF Init, LifeInit
  <1>1. \A r \in Requests : pc[r] \in {"new", "done"} /\ (Loop(r) => pc[r] = "new")
    BY DEF TaskInit, Loop
  <1>2. todo \in Seq(Listable) /\ (Lived => Left = Storages)
    BY Lists DEF Left
  <1>3. Ended /\ Delivered
    BY <1>1 DEF Ended, Delivered, Running, Terminal, Over
  <1> QED
    BY <1>1, <1>2, <1>3 DEF LifeInv, LifeTypes, Unlived, Connecting, Starting, InService, Stopping,
       Closing, NoLoopClosed, Lives, Over, Serving

\* Whose answer came late does not call again.
LEMMA DeafKept ==
    ASSUME Frame, ConnInv, UNCHANGED job, ProcessTurn, NEW n \in Requests, Deafened(n)
    PROVE  Deafened(n)'
  <1> SUFFICES ASSUME NEW q \in Requests, reply[q] = "late", via[q] \in Requests
               PROVE  reply'[q] = reply[q] /\ via'[q] = via[q]
    BY StaysDeafened
  <1>0. Op(q) = "connector" /\ pc[q] \notin {"new", "ensure", "spawn", "send"}
    BY ConnectorConstants DEF ConnInv, Own, Connects, Awaited
  <1>1. CASE ConnectorTurn
    <2>1. PICK r \in Requests : ConnectorStep(r) /\ Turn(r)
      BY <1>1 DEF ConnectorTurn
    <2>2. via'[q] = via[q]
      BY <1>0, <2>1 DEF ConnInv, ConnTypes, ConnectorStep, AcquireLock, EnsureConnection, At,
         StartConnector, Initialized, SendCall, ReceiveReply, ReplyTimeOut, TakeBack, connectorVars
    <2>3. reply'[q] = reply[q]
      BY <1>0, <2>1 DEF ConnInv, ConnTypes, ConnectorStep, AcquireLock, EnsureConnection, At,
         StartConnector, Initialized, SendCall, ReceiveReply, ReplyTimeOut, TakeBack, connectorVars
    <2> QED
      BY <2>2, <2>3
  <1>2. CASE OtherTurn \/ LoopTurn \/ UpstreamTurn
    <2>1. PICK r \in Requests : /\ Op(r) # "connector" /\ Only(r) /\ UNCHANGED cut
                                /\ UNCHANGED connectorVars
      BY <1>2, LoopOnly, UpstreamOnly DEF OtherTurn, LoopTurn, UpstreamTurn, Turn, BackupOps,
         HostOps, ShipOps, Living, process
    <2> QED
      BY <1>0, <2>1 DEF Only, connectorVars
  <1>3. CASE CutTurn
    <2>1. PICK r \in Requests : Cut(r) /\ ConnectorTimeOut(r)
      BY <1>3 DEF CutTurn
    <2> QED
      BY <1>0, <2>1 DEF Cut, ConnectorTimeOut, Frame, Placed
  <1>4. CASE ChildTurn
    <2>1. PICK m \in Requests : ChildStep(m)
      BY <1>4 DEF ChildTurn
    <2>2. CASE Serve(m)
      <3>1. \A id \in pending[m] : id.by # q /\ id.by \in Requests
        BY DEF ConnInv, ConnTypes, Pended, Unanswered, Ids
      <3> QED
        BY <2>2, <3>1 DEF Serve, ConnInv, ConnTypes
    <2> QED
      BY <2>1, <2>2 DEF ChildStep, ChildEnds, EndOfOutput, Reap
  <1>5. CASE LifeTurn
    <2>1. CASE ConnectStorage \/ CloseStorage \/ Kill \/ CloseConnectors
      BY <1>0, <2>1 DEF ConnectStorage, CloseStorage, Kill, CloseConnectors, Exit, ConnectorCrash,
         connectorVars
    <2>2. CASE StartLoop \/ CancelLoop
      BY <1>0, <2>2 DEF StartLoop, CancelLoop, Loops, Loop, connectorVars
    <2>3. CASE Terminate \/ Drain
      BY <1>0, <2>3 DEF Terminate, Drain, connectorVars, Terminal
    <2> QED
      BY <1>5, <2>1, <2>2, <2>3 DEF LifeTurn, LifeStep
  <1>6. CASE CrashTurn
    BY <1>0, <1>6 DEF CrashTurn, Fallen, ConnectorCrash
  <1>7. CASE TickTurn \/ RestTurn
    BY <1>7 DEF TickTurn, RestTurn, process, connectorVars
  <1> QED
    BY <1>1, <1>2, <1>3, <1>4, <1>5, <1>6, <1>7 DEF ProcessTurn

\* What leaves the life of the process, its loops and its deliveries alone.
LEMMA LifeQuiet ==
    ASSUME Frame, LifeInv, UNCHANGED <<job, lifeVars>>,
           \A r \in Requests : Op(r) \in Living => pc'[r] = pc[r],
           Lived /\ life \in Over => \A r \in Requests : Running(r)' => Running(r),
           \A n \in Requests : Deafened(n) => Deafened(n)'
    PROVE  LifeInv'
  <1> USE DEF lifeVars
  <1>0. /\ \A r \in Requests : Op(r)' = Op(r) /\ Loop(r)' = Loop(r) /\ Sends(r)' = Sends(r)
        /\ \A r \in Requests : Loop(r) \/ Sends(r) <=> Op(r) \in Living
        /\ Lived' = Lived /\ Left' = Left
    BY DEF Op, Loop, Sends, Lived, Living, Left
  <1>1. \A r \in Requests : Loop(r) \/ Sends(r) => pc'[r] = pc[r] /\ (Running(r)' <=> Running(r))
    BY <1>0 DEF Running
  <1>2. LifeTypes' /\ Unlived' /\ NoLoopClosed'
    BY <1>0 DEF LifeInv, LifeTypes, Unlived, NoLoopClosed
  <1>3. Connecting' /\ Starting' /\ InService'
    BY <1>0, <1>1 DEF LifeInv, Connecting, Starting, InService
  <1>4. Stopping' /\ Closing' /\ Delivered'
    BY <1>0, <1>1 DEF LifeInv, Stopping, Closing, Delivered
  <1>5. Ended'
    BY <1>0 DEF LifeInv, Ended
  <1> QED
    BY <1>2, <1>3, <1>4, <1>5 DEF LifeInv

LEMMA LoopMoves ==
    ASSUME Frame, ConnInv, LifeInv, UNCHANGED job, ProcessTurn, NEW r \in Requests, LoopStep(r), Turn(r)
    PROVE  LifeInv'
  <1> USE DEF Lives, Over, Serving
  <1>0. /\ \A q \in Requests : Op(q)' = Op(q) /\ Loop(q)' = Loop(q) /\ Sends(q)' = Sends(q)
        /\ Lived /\ Lived' /\ Op(r) \in Living
        /\ \A q \in Requests \ {r} : pc'[q] = pc[q] /\ (Running(q)' <=> Running(q))
    BY LoopOnly DEF Op, Loop, Sends, Lived, Turn, Only, Running
  <1>1. UNCHANGED <<life, todo, open>> /\ Left' = Left
    BY DEF LoopStep, WorkRound, WakeLoop, StartSend, EndSend, lifeVars, Left
  <1>2. CASE WorkRound(r) \/ WakeLoop(r)
    <2>1. /\ Loop(r) /\ Running(r) /\ Running(r)' /\ ~Sends(r)
      BY <1>2, <1>0 DEF WorkRound, WakeLoop, Loop, Sends, Go, Frame, Placed, Running, Terminal
    <2>2. life \in {"starting", "loops"} \cup Serving /\ open = Storages
      BY <1>0, <2>1 DEF LifeInv, LifeTypes, Connecting, Starting, InService, Stopping, Closing, Ended,
         Running, Terminal
    <2>3. UNCHANGED closed
      BY <1>0, <1>2, <2>1, <2>2, UsesStorages, LivedJobs DEF WorkRound, WakeLoop, Finds, lifeVars, Frame
    <2>4. LifeTypes' /\ Unlived' /\ NoLoopClosed' /\ Ended' /\ Connecting' /\ Closing'
      BY <1>0, <1>1, <2>2, <2>3 DEF LifeInv, LifeTypes, Unlived, NoLoopClosed, Ended, Connecting, Closing
    <2>5. Starting' /\ InService' /\ Stopping' /\ Delivered'
      BY <1>0, <1>1, <2>1, <2>2 DEF LifeInv, Starting, InService, Stopping, Delivered
    <2> QED
      BY <2>4, <2>5 DEF LifeInv
  <1>3. CASE StartSend(r) \/ EndSend(r)
    <2>1. /\ Sends(r) /\ ~Loop(r)
          /\ StartSend(r) => life = "serving" /\ pc'[r] = "post" /\ closed' = closed
          /\ EndSend(r) => Running(r) /\ closed' \subseteq closed \cup {r}
          /\ EndSend(r) => ~Running(r)' /\ pc'[r] = IF "webhooks" \in open THEN "done" ELSE "error"
      BY <1>3 DEF StartSend, EndSend, At, Sends, Loop, Serves, Go, Frame, Placed, Running, Terminal,
         Finds, lifeVars
    <2>2. "webhooks" \in Storages
      BY DEF Storages, ConnectOrder
    <2>3. life \in {"loops", "storages"} \cup Serving /\ (life # "storages" => open = Storages)
      BY <1>0, <1>3, <2>1 DEF LifeInv, LifeTypes, InService, Stopping, Ended, Delivered
    <2>4. LifeTypes' /\ Unlived' /\ NoLoopClosed' /\ Ended' /\ Connecting' /\ Starting'
      BY <1>0, <1>1, <1>3, <2>1, <2>3 DEF LifeInv, LifeTypes, Unlived, NoLoopClosed, Ended, Connecting,
         Starting
    <2>5. InService' /\ Stopping' /\ Closing'
      BY <1>0, <1>1, <2>1 DEF LifeInv, InService, Stopping, Closing
    <2>6. Delivered'
      BY <1>0, <1>1, <1>3, <2>1, <2>2, <2>3 DEF LifeInv, Delivered, Running, Terminal
    <2> QED
      BY <2>4, <2>5, <2>6 DEF LifeInv
  <1> QED
    BY <1>2, <1>3 DEF LoopStep

\* A process that ends, at the end of its list or before it.
LEMMA LifeExits ==
    ASSUME LifeInv, UNCHANGED <<job, todo, closed>>, Lived, Fallen, life' \in Over,
           open' = open, life' = "down" => open = {},
           life' = "aborted" => \E n \in Requests : Deafened(n)'
    PROVE  LifeInv'
  <1> USE DEF Over
  <1>0. /\ \A r \in Requests : Op(r)' = Op(r) /\ Loop(r)' = Loop(r) /\ Sends(r)' = Sends(r)
        /\ Lived' /\ Left' = Left
        /\ \A r \in Requests : ~Running(r)' /\ (pc'[r] = pc[r] \/ pc'[r] = "lost")
    BY DEF Op, Loop, Sends, Lived, Left, Fallen, Running, Terminal
  <1>1. LifeTypes' /\ Unlived' /\ NoLoopClosed'
    BY <1>0 DEF LifeInv, LifeTypes, Unlived, NoLoopClosed, Lives
  <1>2. Connecting' /\ Starting' /\ InService' /\ Stopping' /\ Closing'
    BY <1>0 DEF Connecting, Starting, InService, Stopping, Closing, Serving
  <1>3. Ended' /\ Delivered'
    BY <1>0 DEF Ended, Delivered
  <1> QED
    BY <1>1, <1>2, <1>3 DEF LifeInv

\* A step through a list, or to the next part of the life.
LEMMA LifeGoes ==
    ASSUME Frame, ConnInv, LifeInv, UNCHANGED job, ProcessTurn,
           ConnectStorage \/ StartLoop \/ Terminate \/ Drain, Lived, life' # "failed"
    PROVE  LifeInv'
  <1> USE DEF Lives, Over, Serving
  <1>0. /\ \A r \in Requests : Op(r)' = Op(r) /\ Loop(r)' = Loop(r) /\ Sends(r)' = Sends(r)
        /\ \A r \in Requests : Loop(r) => ~Sends(r) /\ job'[r] = job[r] /\ job[r].name \in DOMAIN Uses
        /\ Lived' /\ UNCHANGED closed /\ todo \in Seq(Listable)
    BY LivedJobs DEF Op, Loop, Sends, Lived, ConnectStorage, StartLoop, Terminate, Drain, LifeInv,
       LifeTypes, Frame
  <1>1. CASE ConnectStorage
    <2>1. /\ life = "connecting" /\ UNCHANGED pc /\ open \cup Left = Storages
          /\ \/ /\ todo = <<>> /\ life' = "starting" /\ todo' = LoopOrder /\ open' = open /\ Left = {}
             \/ /\ todo # <<>> /\ todo' = Tail(todo) /\ life' = life /\ open' = open \cup {Head(todo)}
                /\ Left = Left' \cup {Head(todo)} /\ todo' \in Seq(Listable)
      BY <1>0, <1>1, NextOfList DEF ConnectStorage, Enter, Pass, Exit, LifeInv, Connecting
    <2>2. todo = <<>> => Left' = DOMAIN Uses /\ todo' \in Seq(Listable)
      BY <2>1, Lists DEF Left
    <2>3. LifeTypes' /\ Connecting' /\ Starting'
      BY <1>0, <2>1, <2>2 DEF LifeInv, LifeTypes, Connecting, Starting
    <2>4. Unlived' /\ InService' /\ Stopping' /\ Closing'
      BY <1>0, <2>1 DEF Unlived, InService, Stopping, Closing
    <2>5. Ended' /\ Delivered' /\ NoLoopClosed'
      BY <1>0, <2>1 DEF LifeInv, Ended, Delivered, NoLoopClosed, Running
    <2> QED
      BY <2>3, <2>4, <2>5 DEF LifeInv
  <1>2. CASE StartLoop
    <2>1. /\ life = "starting" /\ open' = open /\ open = Storages
          /\ \/ /\ todo = <<>> /\ life' = "serving" /\ todo' = <<>> /\ pc' = pc /\ Left = {}
             \/ /\ todo # <<>> /\ todo' = Tail(todo) /\ life' = life
                /\ Left = Left' \cup {Head(todo)} /\ todo' \in Seq(Listable)
                /\ pc' = [r \in Requests |-> IF r \in Loops(Head(todo)) THEN "working" ELSE pc[r]]
      BY <1>0, <1>2, NextOfList DEF StartLoop, Enter, Pass, LifeInv, Starting
    <2>2. /\ \A r \in Requests : Loop(r) =>
                \/ Running(r) /\ Running(r)'
                \/ pc[r] = "new" /\ job[r].name \in Left /\ (todo # <<>> =>
                      (job[r].name = Head(todo) /\ Running(r)') \/ (pc'[r] = "new" /\ job[r].name \in Left'))
          /\ \A r \in Requests : ~Loop(r) => pc'[r] = pc[r]
      BY <1>0, <2>1 DEF LifeInv, Starting, Loops, Running, Terminal
    <2>3. LifeTypes' /\ Connecting' /\ Unlived'
      BY <1>0, <2>1 DEF LifeInv, LifeTypes, Connecting, Unlived
    <2>4. Starting' /\ InService'
      BY <1>0, <2>1, <2>2 DEF LifeInv, Starting, InService
    <2>5. Stopping' /\ Closing' /\ Ended' /\ NoLoopClosed'
      BY <1>0, <2>1 DEF LifeInv, Stopping, Closing, Ended, NoLoopClosed
    <2>6. Delivered'
      BY <1>0, <2>1, <2>2 DEF LifeInv, Delivered, Running
    <2> QED
      BY <2>3, <2>4, <2>5, <2>6 DEF LifeInv
  <1>3. CASE Terminate \/ Drain
    <2>0. /\ life \in {"serving", "draining"} /\ life' \in {"draining", "connectors"}
          /\ UNCHANGED open /\ todo' = <<>>
          /\ \A r \in Requests : pc'[r] = pc[r] \/ (pc[r] = "new" /\ pc'[r] = "rejected")
      BY <1>3 DEF Terminate, Drain, Enter, Serves
    <2>1. /\ open = Storages /\ todo' \in Seq(Listable)
          /\ \A r \in Requests : Running(r)' <=> Running(r)
      BY <1>0, <2>0 DEF LifeInv, InService, Running, Terminal
    <2>2. LifeTypes' /\ InService' /\ Unlived'
      BY <1>0, <2>0, <2>1 DEF LifeInv, LifeTypes, InService, Unlived
    <2>3. Connecting' /\ Starting' /\ Stopping' /\ Closing'
      BY <2>0, <2>1 DEF Connecting, Starting, Stopping, Closing
    <2>4. Ended' /\ Delivered' /\ NoLoopClosed'
      BY <1>0, <2>0, <2>1 DEF LifeInv, Ended, Delivered, NoLoopClosed
    <2> QED
      BY <2>2, <2>3, <2>4 DEF LifeInv
  <1> QED
    BY <1>1, <1>2, <1>3

LEMMA LifeStops ==
    ASSUME Frame, ConnInv, LifeInv, UNCHANGED job, ProcessTurn,
           CloseConnectors \/ CancelLoop \/ CloseStorage, Lived, life' \notin {"aborted", "down"}
    PROVE  LifeInv'
  <1> USE DEF Lives, Over, Serving
  <1>0. /\ \A r \in Requests : Op(r)' = Op(r) /\ Loop(r)' = Loop(r) /\ Sends(r)' = Sends(r)
        /\ \A r \in Requests : Loop(r) => ~Sends(r) /\ job'[r] = job[r] /\ job[r].name \in DOMAIN Uses
        /\ Lived' /\ UNCHANGED closed /\ todo \in Seq(Listable)
    BY LivedJobs DEF Op, Loop, Sends, Lived, CloseConnectors, CancelLoop, CloseStorage, LifeInv,
       LifeTypes, Frame
  <1>1. CASE CloseConnectors
    <2>1. /\ life = "connectors" /\ life' = "loops" /\ todo' = CancelOrder /\ UNCHANGED <<pc, open>>
          /\ open = Storages
      BY <1>0, <1>1 DEF CloseConnectors, Enter, Exit, LifeInv, InService
    <2>2. Left' = DOMAIN Uses /\ todo' \in Seq(Listable)
      BY <2>1, Lists DEF Left
    <2>3. LifeTypes' /\ Unlived' /\ Stopping'
      BY <1>0, <2>1, <2>2 DEF LifeTypes, Unlived, Stopping
    <2>4. Connecting' /\ Starting' /\ InService' /\ Closing'
      BY <2>1 DEF Connecting, Starting, InService, Closing
    <2>5. Ended' /\ Delivered' /\ NoLoopClosed'
      BY <1>0, <2>1 DEF LifeInv, Ended, Delivered, NoLoopClosed, Running
    <2> QED
      BY <2>3, <2>4, <2>5 DEF LifeInv
  <1>2. CASE CancelLoop
    <2>1. /\ life = "loops" /\ open' = open /\ open = Storages
          /\ \/ /\ todo = <<>> /\ life' = "storages" /\ todo' = CloseOrder /\ pc' = pc /\ Left = {}
             \/ /\ todo # <<>> /\ todo' = Tail(todo) /\ life' = life
                /\ Left = Left' \cup {Head(todo)} /\ todo' \in Seq(Listable)
                /\ pc' = [r \in Requests |->
                             IF r \in {q \in Loops(Head(todo)) : Running(q)} THEN "done" ELSE pc[r]]
      BY <1>0, <1>2, NextOfList DEF CancelLoop, Enter, Pass, LifeInv, Stopping
    <2>2. /\ \A r \in Requests : Loop(r) /\ Running(r)' =>
                Running(r) /\ job[r].name \in Left /\ (todo # <<>> => job[r].name \in Left')
          /\ \A r \in Requests : ~Loop(r) => pc'[r] = pc[r]
      BY <1>0, <2>1 DEF LifeInv, Stopping, Loops, Running, Terminal
    <2>3. life' = "storages" => Left' = Storages /\ todo' \in Seq(Listable)
      BY <2>1, Lists DEF Left
    <2>4. LifeTypes' /\ Unlived' /\ Stopping' /\ Closing'
      BY <1>0, <2>1, <2>2, <2>3 DEF LifeTypes, Unlived, Stopping, Closing
    <2>5. Connecting' /\ Starting' /\ InService' /\ Ended' /\ NoLoopClosed'
      BY <1>0, <2>1 DEF LifeInv, Connecting, Starting, InService, Ended, NoLoopClosed
    <2>6. Delivered'
      BY <1>0, <2>1, <2>2 DEF LifeInv, Delivered, Running
    <2> QED
      BY <2>4, <2>5, <2>6 DEF LifeInv
  <1>3. CASE CloseStorage
    <2>1. /\ life = "storages" /\ life' = life /\ UNCHANGED pc
          /\ todo' \in Seq(Listable) /\ Left = Left' \cup {Head(todo)} /\ open' = open \ {Head(todo)}
      BY <1>0, <1>3, NextOfList DEF CloseStorage, Pass, Exit
    <2>2. LifeTypes' /\ Unlived' /\ Closing'
      BY <1>0, <2>1 DEF LifeInv, LifeTypes, Unlived, Closing, Running
    <2>3. Connecting' /\ Starting' /\ InService' /\ Stopping'
      BY <2>1 DEF Connecting, Starting, InService, Stopping
    <2>4. Ended' /\ Delivered' /\ NoLoopClosed'
      BY <1>0, <2>1 DEF LifeInv, Ended, Delivered, NoLoopClosed
    <2> QED
      BY <2>2, <2>3, <2>4 DEF LifeInv
  <1> QED
    BY <1>1, <1>2, <1>3

LEMMA LifeMoves ==
    ASSUME Frame, ConnInv, LifeInv, UNCHANGED job, ProcessTurn, LifeStep
    PROVE  LifeInv'
  <1> USE DEF Over
  <1>1. CASE life' \in {"failed", "aborted", "down", "killed"} /\ life' # life
    <2>1. Lived /\ Fallen /\ UNCHANGED <<todo, closed, open>>
      BY <1>1 DEF LifeStep, ConnectStorage, StartLoop, Terminate, Drain, CloseConnectors, CancelLoop,
         CloseStorage, Kill, Exit, Enter, Pass, Fallen
    <2>2. CASE life' = "down"
      <3>1. life = "storages" /\ todo = <<>>
        BY <2>2, <1>1 DEF LifeStep, ConnectStorage, StartLoop, Terminate, Drain, CloseConnectors, CancelLoop,
           CloseStorage, Kill, Exit, Enter, Pass
      <3>2. open = {}
        BY <2>1, <3>1, NextOfList DEF LifeInv, LifeTypes, Closing
      <3> QED
        BY <2>1, <2>2, <3>2, LifeExits
    <2>3. CASE life' = "aborted"
      <3>1. current # Nobody /\ reader[current] = "failed"
        BY <2>3, <1>1 DEF LifeStep, ConnectStorage, StartLoop, Terminate, Drain, CloseConnectors, CancelLoop,
           CloseStorage, Kill, Exit, Enter, Pass
      <3>2. current \in Requests /\ Deafened(current)
        BY <3>1 DEF ConnInv, ConnTypes, Heard
      <3>3. \E n \in Requests : Deafened(n)'
        BY <3>2, DeafKept
      <3> QED
        BY <2>1, <2>3, <3>3, LifeExits
    <2> QED
      BY <1>1, <2>1, <2>2, <2>3, LifeExits
  <1>2. CASE life' \notin {"failed", "aborted", "down", "killed"} \/ life' = life
    <2>1. /\ Lived /\ life' \notin {"failed", "aborted", "down", "killed"} /\ ~Kill
      BY <1>2 DEF LifeStep, ConnectStorage, StartLoop, Terminate, Drain, CloseConnectors, CancelLoop,
         CloseStorage, Kill, Exit, Enter, Pass, Serves
    <2> QED
      BY <2>1, LifeGoes, LifeStops DEF LifeStep
  <1> QED
    BY <1>1, <1>2

LEMMA LifeKept ==
    ASSUME Frame, ConnInv, LifeInv, UNCHANGED job, ProcessTurn
    PROVE  LifeInv'
  <1>0. \A n \in Requests : Deafened(n) => Deafened(n)'
    BY DeafKept
  <1>1. CASE ConnectorTurn \/ OtherTurn \/ UpstreamTurn
    <2>1. PICK r \in Requests : /\ Op(r) \notin Living \cup {"idle"} /\ Only(r) /\ UNCHANGED lifeVars
                                /\ Op(r) = "connector" => pc[r] \notin Terminal /\ (pc[r] = "new" => Serves)
      BY <1>1, ConnectorOnly, UpstreamOnly DEF ConnectorTurn, OtherTurn, UpstreamTurn, Turn, Living,
         BackupOps, HostOps, ShipOps, process
    <2>2. Lived => Op(r) \in {"connector", "idle"}
      BY <2>1, LivedJobs DEF Frame
    <2>3. ASSUME Lived, life \in Over, NEW q \in Requests, Running(q)' PROVE Running(q)
      <3>1. CASE q = r
        <4>1. Op(r) = "connector" => Running(r) \/ Serves
          BY <2>1 DEF Running
        <4>2. Op(r) = "connector"
          BY <2>1, <2>2, <2>3
        <4> QED
          BY <2>3, <3>1, <4>1, <4>2 DEF Serves, Over
      <3>2. CASE q # r
        BY <2>1, <2>3, <3>2 DEF Only, Running
      <3> QED
        BY <3>1, <3>2
    <2> QED
      BY <1>0, <2>1, <2>3, LifeQuiet DEF Only
  <1>2. CASE LoopTurn
    BY <1>2, LoopMoves DEF LoopTurn
  <1>3. CASE CutTurn
    <2>1. PICK r \in Requests : Cut(r) /\ ~job[r].background /\ UNCHANGED lifeVars
      BY <1>3 DEF CutTurn
    <2>2. Op(r) \notin Living
      BY <2>1, LivedJobs DEF Frame, Lived
    <2>3. \A q \in Requests : (q # r => pc'[q] = pc[q]) /\ (Running(q)' => Running(q))
      BY <2>1 DEF Cut, Frame, Placed, Running, Terminal
    <2> QED
      BY <1>0, <2>1, <2>2, <2>3, LifeQuiet
  <1>4. CASE ChildTurn \/ TickTurn \/ RestTurn
    <2>1. UNCHANGED <<pc, lifeVars>>
      BY <1>4 DEF ChildTurn, TickTurn, RestTurn, process
    <2> QED
      BY <1>0, <2>1, LifeQuiet DEF Running
  <1>5. CASE LifeTurn
    BY <1>5, LifeMoves DEF LifeTurn
  <1>6. CASE CrashTurn
    <2>1. CASE Lived
      BY <1>6, <2>1, LifeExits DEF CrashTurn, LifeCrash, Over
    <2>2. CASE ~Lived
      <3>1. \A r \in Requests : Op(r) \notin Living
        BY <2>2 DEF Lived
      <3> QED
        BY <1>0, <1>6, <2>2, <3>1, LifeQuiet DEF CrashTurn, LifeCrash, lifeVars
    <2> QED
      BY <2>1, <2>2
  <1> QED
    BY <1>1, <1>2, <1>3, <1>4, <1>5, <1>6 DEF ProcessTurn

LEMMA LifeSafe == ASSUME LifeInv PROVE LifeOrderly
  <1>1. LoopsFindStorages
    BY DEF LifeInv, NoLoopClosed, Unlived, InService, Serving, Serves, LoopsFindStorages, Lived, Loop,
       Living
  <1>2. EndsOrderly
    <2>1. life = "down" => Lived
      BY DEF LifeInv, Unlived
    <2> QED
      BY <2>1 DEF LifeInv, Ended, Delivered, Sends, EndsOrderly, Over
  <1> QED
    BY <1>1, <1>2 DEF LifeOrderly

-----------------------------------------------------------------------------
(***************************************************************************)
(* The upstreams.  What was granted and what is in a bucket came with the  *)
(* time; a call has tries left while it goes on; whatever was written with *)
(* a key is recorded, and was written once.                                *)
(***************************************************************************)
Writes(r) == Op(r) = "upstream"
UpTypes ==
    /\ clock \in Nat /\ bucket \in [Apis -> [tokens : Nat, last : Nat]]
    /\ granted \in [Apis -> Nat] /\ tries \in [Requests -> Nat]
    /\ effects \in [Requests -> Nat] /\ doubtful \in [Requests -> Nat]
Paced == \A a \in Apis :
    bucket[a].last <= clock /\ granted[a] + bucket[a].tokens <= Burst + bucket[a].last
Tried == \A r \in Requests :
    /\ tries[r] <= MaxTries
    /\ Writes(r) /\ pc[r] \notin Terminal => tries[r] < MaxTries
Told == \A r \in Requests :
    /\ effects[r] <= doubtful[r] + (IF pc[r] = "done" THEN 1 ELSE 0)
    /\ ~Writes(r) => effects[r] = 0
Keyed == \A r \in Requests : Writes(r) /\ WithKey(r) =>
    /\ effects[r] <= 1
    /\ effects[r] > 0 => Key(r) \in recorded
    /\ \A q \in Requests \ {r} : Writes(q) /\ WithKey(q) /\ Key(q) = Key(r) =>
          effects[r] = 0 \/ effects[q] = 0
Written == \A r \in Requests : Writes(r) /\ pc[r] = "done" =>
    effects[r] > 0 \/ (WithKey(r) /\ Key(r) \in recorded)

UpInv == UpTypes /\ Paced /\ Tried /\ Told /\ Keyed /\ Written

LEMMA UpStart == ASSUME Init, Frame PROVE UpInv
  <1> USE UpstreamConstants DEF Init, UpstreamInit
  <1>1. \A r \in Requests : pc[r] \in {"new", "done"} /\ (Writes(r) => pc[r] = "new")
    BY DEF TaskInit, Writes
  <1>2. UpTypes /\ Paced
    BY DEF UpTypes, Paced
  <1>3. Tried /\ Told /\ Keyed /\ Written
    BY <1>1 DEF Tried, Told, Keyed, Written
  <1> QED
    BY <1>2, <1>3 DEF UpInv

\* What leaves the upstreams alone, or brings them a token.
LEMMA UpQuiet ==
    ASSUME UpInv, UNCHANGED <<job, bucket, tries, recorded, effects, doubtful, granted>>,
           clock' \in {clock, clock + 1},
           \A r \in Requests : Writes(r) =>
              pc'[r] = pc[r] \/ (pc[r] \notin Terminal /\ pc'[r] \in Terminal \ {"done"})
    PROVE  UpInv'
  <1>0. \A r \in Requests : /\ Writes(r)' = Writes(r) /\ WithKey(r)' = WithKey(r)
                            /\ Key(r)' = Key(r)
    BY DEF Writes, Op, WithKey, Api, Key
  <1>1. UpTypes' /\ Paced'
    BY DEF UpInv, UpTypes, Paced
  <1>2. Tried' /\ Told' /\ Written'
    BY <1>0 DEF UpInv, UpTypes, Tried, Told, Written, Terminal
  <1>3. Keyed'
    BY <1>0 DEF UpInv, Keyed
  <1> QED
    BY <1>1, <1>2, <1>3 DEF UpInv

LEMMA TokenMoves ==
    ASSUME Frame, UpInv, NEW r \in Requests, Turn(r), UNCHANGED job, AcquireToken(r)
    PROVE  UpInv'
  <1>0. \A q \in Requests : /\ Writes(q)' = Writes(q) /\ WithKey(q)' = WithKey(q)
                            /\ Key(q)' = Key(q) /\ (q # r => pc'[q] = pc[q])
    BY DEF Writes, Op, WithKey, Api, Key, Turn, Only
  <1>1. /\ Writes(r) /\ pc[r] = "acquire" /\ pc'[r] = "attempt" /\ Api(r) \in Apis
        /\ UNCHANGED <<clock, tries, recorded, effects, doubtful>>
    BY UpstreamConstants DEF AcquireToken, At, Writes, Op, Api, Go, Frame, Placed
  <1> DEFINE b == bucket[Api(r)]
  <1>2. /\ b.tokens \in Nat /\ b.last \in Nat /\ b.last <= clock /\ clock \in Nat /\ Burst \in Nat
        /\ granted[Api(r)] \in Nat /\ granted[Api(r)] + b.tokens <= Burst + b.last
    BY <1>1, UpstreamConstants DEF UpInv, UpTypes, Paced
  <1>3. Tokens(b) \in Nat \ {0} /\ Tokens(b) <= b.tokens + (clock - b.last)
    BY <1>2 DEF AcquireToken, Tokens
  <1>4. /\ bucket' = [bucket EXCEPT ![Api(r)] = [tokens |-> Tokens(b) - 1, last |-> clock]]
        /\ granted' = [granted EXCEPT ![Api(r)] = @ + 1]
    BY DEF AcquireToken
  <1> HIDE DEF b
  <1>5. /\ [tokens |-> Tokens(b) - 1, last |-> clock] \in [tokens : Nat, last : Nat]
    BY <1>2, <1>3
  <1>6. UpTypes'
    BY <1>1, <1>4, <1>5 DEF UpInv, UpTypes
  <1>7. /\ \A a \in Apis \ {Api(r)} : bucket'[a] = bucket[a] /\ granted'[a] = granted[a]
        /\ bucket'[Api(r)].tokens = Tokens(b) - 1 /\ bucket'[Api(r)].last = clock
        /\ granted'[Api(r)] = granted[Api(r)] + 1
    BY <1>1, <1>4 DEF UpInv, UpTypes
  <1>8. granted'[Api(r)] + bucket'[Api(r)].tokens <= Burst + clock
    BY <1>2, <1>3, <1>7
  <1>9. Paced'
    BY <1>1, <1>2, <1>7, <1>8 DEF UpInv, Paced
  <1>10. Tried' /\ Told' /\ Written'
    BY <1>0, <1>1 DEF UpInv, Tried, Told, Written, Terminal
  <1>11. Keyed'
    BY <1>0, <1>1 DEF UpInv, Keyed
  <1> QED
    BY <1>6, <1>9, <1>10, <1>11 DEF UpInv

LEMMA AttemptMoves ==
    ASSUME Frame, UpInv, NEW r \in Requests, Turn(r), UNCHANGED job, SendAttempt(r)
    PROVE  UpInv'
  <1>0. \A q \in Requests : /\ Writes(q)' = Writes(q) /\ WithKey(q)' = WithKey(q)
                            /\ Key(q)' = Key(q) /\ (q # r => pc'[q] = pc[q])
    BY DEF Writes, Op, WithKey, Api, Key, Turn, Only
  <1>1. /\ Writes(r) /\ pc[r] = "attempt" /\ Api(r) \in Apis
        /\ UNCHANGED <<clock, granted>>
    BY UpstreamConstants DEF SendAttempt, At, Writes, Op, Api, Frame
  <1>2. /\ tries \in [Requests -> Nat] /\ effects \in [Requests -> Nat] /\ doubtful \in [Requests -> Nat]
        /\ tries[r] < MaxTries /\ MaxTries \in Nat
    BY <1>1, UpstreamConstants DEF UpInv, UpTypes, Tried, Terminal
  <1>3. /\ tries' = [tries EXCEPT ![r] = @ + 1] /\ tries'[r] = tries[r] + 1
        /\ \A q \in Requests \ {r} : tries'[q] = tries[q]
    BY <1>2 DEF SendAttempt, Once
  <1>4. CarryOut(r) \/ UNCHANGED <<recorded, effects>>
    BY DEF SendAttempt, Succeed, Refused, TooMany, NotTold
  <1>5. UNCHANGED bucket \/ EmptyBucket
    BY DEF SendAttempt, Succeed, Refused, TooMany, NotTold
  <1>6. /\ pc'[r] \in {"done", "error"} \/ (pc'[r] = Retry(r) /\ Retry(r) \in {"error", "acquire", "attempt"})
    BY DEF SendAttempt, Succeed, Refused, TooMany, NotTold, Go, Frame, Placed, Retry
  <1>7. pc'[r] \notin Terminal => tries'[r] < MaxTries
    BY <1>2, <1>3, <1>6 DEF Retry, Terminal
  <1>8. pc'[r] = "done" => CarryOut(r) /\ UNCHANGED doubtful
    BY DEF SendAttempt, Succeed, Refused, TooMany, NotTold, Go, Frame, Placed, Retry
  <1>9. /\ doubtful' \in [Requests -> Nat]
        /\ \A q \in Requests \ {r} : doubtful'[q] = doubtful[q]
        /\ \/ UNCHANGED doubtful
           \/ doubtful'[r] = doubtful[r] + 1 /\ pc'[r] # "done"
        /\ ~UNCHANGED <<recorded, effects>> => pc'[r] = "done" \/ doubtful'[r] = doubtful[r] + 1
    BY <1>2 DEF SendAttempt, Succeed, Refused, TooMany, NotTold, Go, Frame, Placed, Retry
  <1>10. /\ effects' \in [Requests -> Nat] /\ recorded \subseteq recorded'
         /\ \A q \in Requests \ {r} : effects'[q] = effects[q]
         /\ \/ UNCHANGED <<recorded, effects>>
            \/ /\ effects'[r] = effects[r] + 1
               /\ WithKey(r) => Key(r) \notin recorded /\ Key(r) \in recorded'
    BY <1>2, <1>4 DEF CarryOut
  <1>11. CarryOut(r) => effects'[r] > 0 \/ (WithKey(r) /\ Key(r) \in recorded')
    BY <1>2 DEF CarryOut
  <1>12. /\ bucket' \in [Apis -> [tokens : Nat, last : Nat]]
         /\ \A a \in Apis : bucket'[a].last = bucket[a].last /\ bucket'[a].tokens <= bucket[a].tokens
    <2>1. bucket \in [Apis -> [tokens : Nat, last : Nat]]
      BY DEF UpInv, UpTypes
    <2>2. CASE EmptyBucket
      <3>1. bucket' = [bucket EXCEPT !["github"] = [bucket["github"] EXCEPT !.tokens = 0]]
        BY <2>2 DEF EmptyBucket
      <3>2. [bucket["github"] EXCEPT !.tokens = 0] \in [tokens : Nat, last : Nat]
        BY <2>1 DEF Apis
      <3> QED
        BY <2>1, <3>1, <3>2 DEF Apis
    <2> QED
      BY <1>5, <2>1, <2>2
  <1>13. UpTypes'
    <2>1. tries' \in [Requests -> Nat]
      BY <1>2, <1>3
    <2>2. clock' \in Nat /\ granted' \in [Apis -> Nat]
      BY <1>1 DEF UpInv, UpTypes
    <2> QED
      BY <1>9, <1>10, <1>12, <2>1, <2>2 DEF UpTypes
  <1>14. Paced'
    <2>1. Burst \in Nat
      BY UpstreamConstants
    <2> QED
      BY <1>1, <1>12, <2>1 DEF UpInv, Paced, UpTypes
  <1>15. Tried'
    BY <1>0, <1>2, <1>3, <1>7 DEF UpInv, Tried
  <1>16. Told'
    <2>1. effects[r] <= doubtful[r]
      BY <1>1, <1>2 DEF UpInv, Told
    <2>2. effects'[r] <= doubtful'[r] + (IF pc'[r] = "done" THEN 1 ELSE 0)
      BY <1>2, <1>9, <1>10, <2>1
    <2> QED
      BY <1>0, <1>1, <1>9, <1>10, <2>2 DEF UpInv, Told
  <1>17. Keyed'
    <2>1. WithKey(r) /\ ~UNCHANGED <<recorded, effects>> =>
             /\ effects[r] = 0
             /\ \A q \in Requests : Writes(q) /\ WithKey(q) /\ Key(q) = Key(r) => effects[q] = 0
      BY <1>1, <1>2, <1>10 DEF UpInv, Keyed
    <2>2. ASSUME NEW q \in Requests, Writes(q), WithKey(q)
          PROVE  effects'[q] <= 1 /\ (effects'[q] > 0 => Key(q) \in recorded')
      BY <1>1, <1>2, <1>10, <2>1, <2>2 DEF UpInv, Keyed
    <2>3. ASSUME NEW q \in Requests, Writes(q), WithKey(q), NEW p \in Requests \ {q},
                 Writes(p), WithKey(p), Key(p) = Key(q)
          PROVE  effects'[q] = 0 \/ effects'[p] = 0
      BY <1>1, <1>10, <2>1, <2>3 DEF UpInv, Keyed
    <2> QED
      BY <1>0, <2>2, <2>3 DEF Keyed
  <1>18. Written'
    BY <1>0, <1>1, <1>8, <1>10, <1>11 DEF UpInv, Written
  <1> QED
    BY <1>13, <1>14, <1>15, <1>16, <1>17, <1>18 DEF UpInv

LEMMA UpKept == ASSUME Frame, UpInv, UNCHANGED job, ProcessTurn PROVE UpInv'
  <1>1. CASE UpstreamTurn
    <2>1. PICK r \in Requests : UpstreamStep(r) /\ Turn(r)
      BY <1>1 DEF UpstreamTurn
    <2>2. CASE BeginUpstream(r)
      <3>1. /\ Writes(r) /\ pc[r] = "new" /\ pc'[r] = "acquire" /\ UNCHANGED upstreamVars
            /\ \A q \in Requests \ {r} : pc'[q] = pc[q]
        BY <2>2 DEF BeginUpstream, At, Writes, Go, Frame, Placed
      <3>2. \A q \in Requests : /\ Writes(q)' = Writes(q) /\ WithKey(q)' = WithKey(q)
                                /\ Key(q)' = Key(q)
        BY DEF Writes, Op, WithKey, Api, Key
      <3>3. UpTypes' /\ Paced'
        BY <3>1 DEF UpInv, UpTypes, Paced, upstreamVars
      <3>4. Tried' /\ Told' /\ Keyed' /\ Written'
        BY <3>1, <3>2 DEF UpInv, Tried, Told, Keyed, Written, upstreamVars, Terminal
      <3> QED
        BY <3>3, <3>4 DEF UpInv
    <2> QED
      BY <2>1, <2>2, TokenMoves, AttemptMoves DEF UpstreamStep
  <1>2. CASE OtherTurn \/ ConnectorTurn \/ LoopTurn
    <2>1. PICK r \in Requests : Op(r) # "upstream" /\ Only(r) /\ UNCHANGED upstreamVars
      BY <1>2, ConnectorOnly, LoopOnly DEF OtherTurn, ConnectorTurn, LoopTurn, Turn, BackupOps,
         HostOps, ShipOps, Living, process
    <2> QED
      BY <2>1, UpQuiet DEF Only, Writes, upstreamVars
  <1>3. CASE CutTurn \/ CrashTurn
    <2>1. UNCHANGED upstreamVars
      BY <1>3 DEF CutTurn, CrashTurn
    <2>2. ASSUME NEW q \in Requests
          PROVE  pc'[q] = pc[q] \/ (pc[q] \notin Terminal /\ pc'[q] \in Terminal \ {"done"})
      BY <1>3 DEF CutTurn, Cut, CrashTurn, Fallen, Running, Terminal, Frame, Placed
    <2> QED
      BY <2>1, <2>2, UpQuiet DEF upstreamVars
  <1>4. CASE ChildTurn \/ TickTurn \/ RestTurn
    BY <1>4, UpQuiet DEF ChildTurn, TickTurn, UpstreamTick, RestTurn, process, upstreamVars
  <1>5. CASE LifeTurn
    <2>1. UNCHANGED upstreamVars /\ Lived
      BY <1>5 DEF LifeTurn, LifeStep
    <2>2. \A q \in Requests : ~Writes(q)
      BY <2>1, LivedJobs DEF Writes, Frame, Living
    <2> QED
      BY <2>1, <2>2, UpQuiet DEF upstreamVars
  <1> QED
    BY <1>1, <1>2, <1>3, <1>4, <1>5 DEF ProcessTurn

LEMMA UpSafe == ASSUME UpInv PROVE UpstreamSafe
  <1>1. WrittenOnce
    <2>1. ASSUME NEW r \in Requests, NEW q \in Requests, Writes(r), Writes(q), WithKey(r), WithKey(q),
                 Key(r) = Key(q)
          PROVE  effects[r] + (IF q = r THEN 0 ELSE effects[q]) <= 1
      BY <2>1 DEF UpInv, UpTypes, Keyed
    <2> QED
      BY <2>1 DEF UpInv, Told, WrittenOnce, Writes
  <1>2. UpstreamPaced
    <2>1. \A a \in Apis : granted[a] <= Burst + clock
      BY UpstreamConstants DEF UpInv, UpTypes, Paced
    <2> QED
      BY <2>1 DEF UpInv, Tried, Written, UpstreamPaced, Writes
  <1> QED
    BY <1>1, <1>2 DEF UpstreamSafe

-----------------------------------------------------------------------------
\* A connector answers whoever it may, its upstream is asked once, and the
\* process around it starts and ends in order, whatever is cancelled and
\* whenever the process or a child dies (_ensure_connection and _read_loop of
\* gateway/src/mcp_proxy.py, the retries of products/shared/src/retry.py, and
\* gateway/src/lifespan.py).
THEOREM ProcessAlwaysSafe == Spec => []ProcessSafe
  <1> DEFINE Inv == Frame /\ ConnInv /\ LifeInv /\ UpInv
  <1>1. Init => Inv
    BY FrameStart, ConnStart, LifeStart, UpStart
  <1>2. Inv /\ [Next]_vars => Inv'
    BY ProcessTurns, FrameKept, ConnKept, LifeKept, UpKept
  <1>3. Inv => ProcessSafe
    BY ConnSafe, LifeSafe, UpSafe DEF ProcessSafe
  <1> QED
    BY <1>1, <1>2, <1>3, PTL DEF Spec

-----------------------------------------------------------------------------
(***************************************************************************)
(* What is done to the host, and to what it holds.  Its parts share nothing*)
(* but the end of the process and the host.                                *)
(***************************************************************************)
house == <<backupVars, hostVars, releaseVars>>
HouseOps == BackupOps \cup HostOps \cup ShipOps
Unmoved(q) == pc'[q] = pc[q] /\ cut'[q] = cut[q]

HouseTurn ==
    \/ \E r \in Requests : BackupStep(r) /\ Turn(r) /\ UNCHANGED <<hostVars, releaseVars>>
    \/ \E r \in Requests : HostStep(r) /\ Turn(r) /\ UNCHANGED <<backupVars, releaseVars>>
    \/ \E r \in Requests : ReleaseStep(r) /\ Turn(r) /\ UNCHANGED <<backupVars, hostVars>>
    \/ ThreadStep /\ UNCHANGED <<pc, cut, hostVars, releaseVars>>
    \/ ServiceStep /\ UNCHANGED <<pc, cut, backupVars, releaseVars>>
    \/ WorkflowStep /\ UNCHANGED <<pc, cut, backupVars, hostVars>>
    \/ \E r \in Requests : Cut(r) /\ UNCHANGED house
    \/ Fallen /\ BackupCrash /\ HostCrash /\ UNCHANGED releaseVars
    \/ UNCHANGED house /\ \A q \in Requests : Op(q) \in HouseOps => Unmoved(q)

LEMMA HouseTurns == ASSUME Frame, [Next]_vars PROVE UNCHANGED job /\ HouseTurn
  <1> USE DEF HouseTurn, tasks, frame
  <1>0. \A r \in Requests : Only(r) => \A q \in Requests \ {r} : pc'[q] = pc[q]
    BY DEF Only
  <1>1. ASSUME NEW r \in Requests, Step(r) PROVE UNCHANGED job /\ HouseTurn
    <2>1. CASE (ConnectorStep(r) \/ LoopStep(r) \/ UpstreamStep(r)) /\ UNCHANGED house
      <3>1. Op(r) \notin HouseOps /\ Only(r)
        BY <2>1, ConnectorOnly, LoopOnly, UpstreamOnly DEF HouseOps, BackupOps, HostOps, ShipOps, Living
      <3> QED
        BY <1>0, <1>1, <2>1, <3>1 DEF Step, Unmoved
    <2>2. CASE BackupStep(r) /\ UNCHANGED <<hostVars, releaseVars>>
      BY <1>1, <2>2, BackupOnly DEF Step, Turn
    <2>3. CASE HostStep(r) /\ UNCHANGED <<backupVars, releaseVars>>
      BY <1>1, <2>3, HostOnly DEF Step, Turn
    <2>4. CASE ReleaseStep(r) /\ UNCHANGED <<backupVars, hostVars>>
      BY <1>1, <2>4, ShipOnly DEF Step, Turn
    <2> QED
      BY <1>1, <2>1, <2>2, <2>3, <2>4 DEF Step, house
  <1>2. ASSUME NEW r \in Requests, Cancelled(r) PROVE UNCHANGED job /\ HouseTurn
    BY <1>2 DEF Cancelled, TimeOut, Cut, Go, house
  <1>3. ASSUME NEW r \in Requests, Child(r) PROVE UNCHANGED job /\ HouseTurn
    <2>1. UNCHANGED <<pc, cut>>
      BY <1>3 DEF Child, ChildStep, Serve, ChildEnds, EndOfOutput, Reap
    <2> QED
      BY <1>3, <2>1 DEF Child, house, Unmoved
  <1>4. CASE Process
    <2>1. UNCHANGED <<job, house>> /\ Lived
      BY <1>4 DEF Process, LifeStep, house
    <2>2. \A q \in Requests : Op(q) \notin HouseOps
      BY <2>1, LivedJobs DEF Frame, HouseOps, BackupOps, HostOps, ShipOps, Living
    <2> QED
      BY <2>1, <2>2
  <1>5. CASE Threads
    BY <1>5 DEF Threads
  <1>6. CASE Service
    BY <1>6 DEF Service
  <1>7. CASE Workflows
    BY <1>7 DEF Workflows
  <1>8. CASE Tick \/ Terminating \/ UNCHANGED vars
    BY <1>8 DEF Tick, Terminating, vars, house, Unmoved
  <1>9. CASE Died
    BY <1>9 DEF Died, Crashed, Fallen
  <1> QED
    BY <1>1, <1>2, <1>3, <1>4, <1>5, <1>6, <1>7, <1>8, <1>9 DEF Next

-----------------------------------------------------------------------------
(***************************************************************************)
(* Backups.  A thread works for a request that waits for it, or that was   *)
(* timed out.  The files of a second that one backup has are written by    *)
(* its threads, up to what its restores decrypt; and one restore of it is  *)
(* at work, or all that overlap have met.                                  *)
(***************************************************************************)
Backing(r) == Op(r) = "backup"
Restoring(r) == Op(r) = "restore"
Begun(r) == pc[r] # "new"
Source(r) == job[r].of
Working == {"copy", "encrypt", "decrypt", "load"}
Kinds == {"db", "enc", "dec"}
Deposits == {d \in Requests : Op(d) = "deposit"} \cup {Opening}
Datas == [bal : SUBSET Deposits, row : SUBSET Deposits]
Files == [there : BOOLEAN, data : Datas, key : Requests \cup {Opening}]

BackTypes ==
    /\ live \in Datas /\ second \in 0..MaxSecond
    /\ files \in [0..MaxSecond -> [Kinds -> Files]]
    /\ path \in [Requests -> 0..(MaxSecond + 1)]
    /\ thread \in [Requests -> Working \cup {"idle", "failed"}]
    /\ copied \in [Requests -> Datas] /\ loaded \in [Requests -> Datas]

BackPlaces == \A r \in Requests :
    /\ Op(r) = "deposit" => pc[r] \in {"new", "record"} \cup Terminal
    /\ Backing(r) => pc[r] \in {"new", "copy", "encrypt"} \cup Terminal
    /\ Restoring(r) => pc[r] \in {"new", "decrypt", "load"} \cup Terminal
    /\ Op(r) \in BackupOps /\ cut[r] # "never" => pc[r] \in {"504", "lost"}
    /\ Backing(r) => IF Begun(r) THEN path[r] <= second ELSE path[r] = MaxSecond + 1
    /\ Restoring(r) /\ Begun(r) => pc[Source(r)] = "done" /\ path[r] = path[Source(r)]

\* A thread works for who waits for it, or has been timed out.
Worked == \A r \in Requests : thread[r] \in Working =>
    /\ pc[r] \in {thread[r], "504"}
    /\ thread[r] \in {"copy", "encrypt"} => Backing(r)
    /\ thread[r] \in {"decrypt", "load"} => Restoring(r)

Copied(b) == \/ pc[b] \in {"encrypt", "done"}
             \/ pc[b] = "copy" /\ thread[b] # "copy"
Stored == \A b \in Requests : Backing(b) /\ ~Twin(b) =>
    /\ pc[b] = "copy" /\ thread[b] # "copy" => FileOf(b, "db") = File(copied[b], Opening)
    /\ pc[b] = "encrypt" =>
          /\ job[b].encrypt /\ FileOf(b, "db") = File(copied[b], Opening)
          /\ thread[b] # "encrypt" => FileOf(b, "enc") = File(copied[b], b)
    /\ pc[b] = "done" =>
          IF job[b].encrypt THEN FileOf(b, "enc") = File(copied[b], b) /\ b \in keys
                            ELSE FileOf(b, "db") = File(copied[b], Opening)

Alone == \A r, q \in Requests :
    Restoring(r) /\ Restoring(q) /\ r # q /\ Source(r) = Source(q) /\ Busy(r) /\ Busy(q) =>
        {r, q} \subseteq met
Restored == \A r \in Requests \ met : Restoring(r) /\ Begun(r) /\ ~Twin(Source(r)) =>
    /\ job[Source(r)].encrypt =>
          \/ ~(pc[r] = "decrypt" /\ thread[r] = "idle") /\ thread[r] # "load"
          \/ FileOf(r, "dec") = File(copied[Source(r)], Opening)
    /\ pc[r] = "done" \/ (pc[r] = "load" /\ thread[r] # "load") => loaded[r] = copied[Source(r)]

\* As long as nothing was mixed up the first deposit is in every copy; a deposit
\* is half in one only if it was cut.
Unmixed == met = {} /\ \A r \in Requests : Restoring(r) /\ Begun(r) => ~Twin(Source(r))
Has(data) == Opening \in data.bal \cap data.row
Kept == Unmixed => Has(live) /\ \A b \in Requests : Backing(b) /\ Copied(b) => Has(copied[b])

Halved(d, data) == (d \in data.bal) # (d \in data.row)
Wholly(data) == \A d \in Requests \ torn : Halved(d, data) => cut[d] = "record"
Whole ==
    /\ \A b \in Requests : Wholly(copied[b])
    /\ \A s \in 0..MaxSecond : \A kind \in Kinds : Wholly(files[s][kind].data)
    /\ \A d \in Requests \ torn :
          /\ Halved(d, live) => d \in Between \/ cut[d] = "record"
          /\ d \in Between => d \in live.bal

Follows(d) == Op(d) = "deposit" /\ "after" \in DOMAIN job[d]
Excused(d) == \/ pc[job[d].after] = "504"
              \/ \E q \in Requests \ {job[d].after} : Restoring(q)
Later == \A d \in Requests : Follows(d) =>
    /\ Begun(d) => pc[job[d].after] \in Terminal
    /\ pc[d] \in {"record", "done"} => d \in live.bal \/ Excused(d)
    /\ pc[d] = "done" => d \in live.row \/ Excused(d)

BackInv == BackTypes /\ BackPlaces /\ Worked /\ Stored /\ Alone /\ Restored /\ Kept /\ Whole /\ Later

\* Restores name backups.
LEMMA Sources ==
    ASSUME Frame, NEW r \in Requests
    PROVE  /\ Restoring(r) => Source(r) \in Requests /\ Backing(Source(r)) /\ Source(r) # r
           /\ Follows(r) => job[r].after \in Requests /\ Restoring(job[r].after)
           /\ ~(Backing(r) /\ Restoring(r)) /\ ~(Op(r) = "deposit" /\ (Backing(r) \/ Restoring(r)))
  BY BackupConstants DEF Frame, Restoring, Backing, Source, Op, Follows

LEMMA BackStart == ASSUME Init, Frame PROVE BackInv
  <1> USE BackupConstants DEF Init, BackupInit, Empty, NoFile, Backing, Restoring
  <1>1. \A r \in Requests : /\ pc[r] \in {"new", "done"} /\ cut[r] = "never"
                            /\ Op(r) # "idle" => pc[r] = "new"
    BY DEF TaskInit
  <1>2. BackTypes
    BY DEF BackTypes, Datas, Deposits, Files, Kinds
  <1>3. BackPlaces /\ Worked
    BY <1>1 DEF BackPlaces, Worked, Begun, Working, BackupOps
  <1>4. Stored /\ Alone /\ Restored /\ Later
    BY <1>1 DEF Stored, Alone, Restored, Later, Busy, Running, Begun, Follows
  <1>5. Kept
    BY <1>1 DEF Kept, Has, Copied
  <1>6. Whole
    BY <1>1 DEF Whole, Wholly, Halved, Between, At, Kinds
  <1> QED
    BY <1>2, <1>3, <1>4, <1>5, <1>6 DEF BackInv

\* What the files and the threads have to do with does not move.
LEMMA FilesRest ==
    ASSUME Frame, BackInv, UNCHANGED <<job, files, keys, path, thread, copied, loaded, met>>,
           \A q \in Requests : Backing(q) \/ Restoring(q) => Unmoved(q)
    PROVE  /\ Worked' /\ Stored' /\ Alone' /\ Restored'
           /\ Unmixed' <=> Unmixed
           /\ \A b \in Requests : Backing(b) => (Copied(b)' <=> Copied(b))
  <1>0. \A q \in Requests : /\ Op(q)' = Op(q) /\ (Backing(q)' <=> Backing(q))
                            /\ (Restoring(q)' <=> Restoring(q)) /\ Source(q)' = Source(q)
    BY DEF Op, Backing, Restoring, Source
  <1>1. \A q \in Requests : Twin(q)' <=> Twin(q)
    BY <1>0 DEF Twin, Backing
  <1>2. \A q \in Requests, kind \in Kinds : FileOf(q, kind)' = FileOf(q, kind)
    BY DEF FileOf
  <1>3. Worked'
    BY <1>0 DEF BackInv, Worked, Unmoved, Working
  <1>4. Stored'
    BY <1>0, <1>1, <1>2 DEF BackInv, Stored, Unmoved, Kinds, File
  <1>5. \A q \in Requests : Restoring(q) => (Busy(q)' <=> Busy(q))
    BY <1>0 DEF Busy, Running, Unmoved
  <1>6. Alone'
    BY <1>0, <1>5 DEF BackInv, Alone
  <1>7. Restored'
    BY <1>0, <1>1, <1>2, Sources DEF BackInv, Restored, Unmoved, Kinds, File, Begun
  <1>8. Unmixed' <=> Unmixed
    BY <1>0, <1>1, Sources DEF Unmixed, Begun, Unmoved
  <1> QED
    BY <1>3, <1>4, <1>6, <1>7, <1>8 DEF Copied, Unmoved

LEMMA DepositMoves ==
    ASSUME Frame, BackInv, NEW r \in Requests, Turn(r), UNCHANGED job,
           DepositBalance(r) \/ RecordDeposit(r)
    PROVE  BackInv'
  <1>0. \A q \in Requests : /\ q # r => pc'[q] = pc[q]
                            /\ cut'[q] = cut[q] /\ Op(q)' = Op(q)
    BY DEF Turn, Only, Op
  <1>1. /\ Op(r) = "deposit" /\ UNCHANGED <<second, files, keys, path, thread, copied, loaded, met, torn>>
        /\ \/ /\ pc[r] = "new" /\ pc'[r] = "record" /\ Answered(r)
              /\ live' = [live EXCEPT !.bal = @ \cup {r}]
           \/ pc[r] = "record" /\ pc'[r] = "done" /\ live' = [live EXCEPT !.row = @ \cup {r}]
    BY DEF DepositBalance, RecordDeposit, At, Go, Frame, Placed
  <1>2. \A q \in Requests : Backing(q) \/ Restoring(q) => Unmoved(q) /\ q # r
    BY <1>0, <1>1, Sources DEF Unmoved
  <1>3. /\ live.bal \subseteq live'.bal /\ live.row \subseteq live'.row
        /\ live'.bal \subseteq live.bal \cup {r} /\ live'.row \subseteq live.row \cup {r}
        /\ pc[r] = "new" => r \in live'.bal /\ live'.row = live.row
        /\ pc[r] = "record" => r \in live'.row /\ live'.bal = live.bal
        /\ live' \in [bal : SUBSET (Deposits \cup {r}), row : SUBSET (Deposits \cup {r})]
    BY <1>1 DEF BackInv, BackTypes, Datas
  <1>4. Deposits' = Deposits /\ r \in Deposits
    BY <1>0, <1>1 DEF Deposits
  <1>5. BackTypes'
    BY <1>1, <1>3, <1>4 DEF BackInv, BackTypes, Datas, Files
  <1>6. BackPlaces'
    BY <1>0, <1>1, <1>2, Sources DEF BackInv, BackPlaces, Terminal, Backing, Restoring, Begun, BackupOps, Source, Unmoved
  <1>7. Worked' /\ Stored' /\ Alone' /\ Restored'
    BY <1>1, <1>2, FilesRest
  <1>8. Kept'
    BY <1>0, <1>1, <1>2, <1>3, FilesRest DEF BackInv, Kept, Has, Backing
  <1>9. Whole'
    <2>1. \A d \in Requests : d # r => (d \in Between' <=> d \in Between)
      BY <1>0 DEF Between, At
    <2>2. (r \in Between' <=> pc'[r] = "record") /\ (r \in Between <=> pc[r] = "record")
      BY <1>0, <1>1 DEF Between, At
    <2>3. \A d \in Requests \ torn : /\ Halved(d, live)' => d \in Between' \/ cut[d] = "record"
                                     /\ d \in Between' => d \in live'.bal
      BY <1>1, <1>3, <2>1, <2>2 DEF BackInv, Whole, Halved
    <2> QED
      BY <1>0, <1>1, <2>3 DEF BackInv, Whole, Wholly, Halved
  <1>10. Later'
    <2>1. ASSUME NEW d \in Requests, Follows(d)
          PROVE  /\ job[d].after \in Requests /\ pc'[job[d].after] = pc[job[d].after]
                 /\ Follows(d)' /\ (Excused(d)' <=> Excused(d)) /\ job[d].after # r
      BY <1>0, <1>1, <1>2, <2>1, Sources DEF Follows, Excused, Restoring, Unmoved
    <2>2. \A d \in Requests : Follows(d)' <=> Follows(d)
      BY <1>0 DEF Follows
    <2>3. Follows(r) /\ pc[r] = "new" => pc[job[r].after] \in Terminal
      BY <1>1 DEF Answered, Follows
    <2> QED
      BY <1>0, <1>1, <1>3, <2>1, <2>2, <2>3 DEF BackInv, Later, Begun
  <1> QED
    BY <1>5, <1>6, <1>7, <1>8, <1>9, <1>10 DEF BackInv

\* The end of an operation lets what follows it begin; it excuses nothing.
LEMMA AfterwardsStays ==
    ASSUME Frame, BackInv, NEW r \in Requests, UNCHANGED <<job, live>>, Op(r) # "deposit",
           \A q \in Requests \ {r} : pc'[q] = pc[q], pc[r] \notin Terminal
    PROVE  Later'
  <1>1. \A q \in Requests : (Restoring(q)' <=> Restoring(q)) /\ (Follows(q)' <=> Follows(q))
    BY DEF Op, Restoring, Follows
  <1>2. \A d \in Requests : Follows(d) => d # r /\ job[d].after \in Requests
    BY Sources DEF Follows
  <1>3. \A d \in Requests : Follows(d) /\ Begun(d) => job[d].after # r
    BY DEF BackInv, Later
  <1>4. \A d \in Requests : Follows(d) /\ Begun(d) => (Excused(d)' <=> Excused(d)) /\ pc'[job[d].after] = pc[job[d].after]
    BY <1>1, <1>2, <1>3 DEF Excused
  <1> QED
    BY <1>1, <1>2, <1>4 DEF BackInv, Later, Begun

\* Who is not there yet has no files; a path, once taken, is kept.
LEMMA TwinsStay ==
    ASSUME Frame, BackInv, UNCHANGED job, NEW r \in Requests,
           \A q \in Requests \ {r} : path'[q] = path[q], Backing(r) /\ Begun(r) => path'[r] = path[r]
    PROVE  \A b \in Requests : Backing(b) /\ Begun(b) /\ ~Twin(b)' => ~Twin(b)
  <1> SUFFICES ASSUME NEW b \in Requests, Backing(b), Begun(b), Twin(b) PROVE Twin(b)'
    OBVIOUS
  <1>1. PICK q \in Requests \ {b} : Op(q) = "backup" /\ path[q] = path[b]
    BY DEF Twin
  <1>2. path[b] <= second /\ second \in 0..MaxSecond /\ path[b] \in 0..(MaxSecond + 1) /\ MaxSecond \in Nat
    BY BackupConstants DEF BackInv, BackPlaces, BackTypes
  <1>3. Begun(q)
    BY <1>1, <1>2 DEF BackInv, BackPlaces, Backing
  <1>4. path'[q] = path[q] /\ path'[b] = path[b] /\ Op(q)' = Op(q)
    BY <1>1, <1>3 DEF Backing, Op
  <1> QED
    BY <1>1, <1>4 DEF Twin

\* A backup begins, or has its copy.
LEMMA BeginMoves ==
    ASSUME Frame, BackInv, NEW r \in Requests, Turn(r), UNCHANGED job, BeginBackup(r)
    PROVE  BackInv'
  <1>0. \A q \in Requests : /\ q # r => pc'[q] = pc[q]
                            /\ cut'[q] = cut[q] /\ Op(q)' = Op(q) /\ Source(q)' = Source(q)
                            /\ (Backing(q)' <=> Backing(q)) /\ (Restoring(q)' <=> Restoring(q))
    BY DEF Turn, Only, Op, Backing, Restoring, Source
  <1>1. /\ Backing(r) /\ pc[r] = "new" /\ pc'[r] = "copy" /\ Op(r) = "backup"
        /\ UNCHANGED <<live, second, files, keys, copied, loaded, met, torn>>
        /\ path'[r] = second /\ thread'[r] = "copy"
        /\ \A q \in Requests \ {r} : path'[q] = path[q] /\ thread'[q] = thread[q]
    BY DEF BeginBackup, Hand, At, Go, Frame, Placed, Backing, BackInv, BackTypes
  <1>2. Deposits' = Deposits
    BY <1>0 DEF Deposits
  <1>3. second \in 0..(MaxSecond + 1) /\ second <= second
    BY BackupConstants DEF BackInv, BackTypes
  <1>4. BackTypes'
    BY <1>1, <1>2, <1>3 DEF BackInv, BackTypes, Datas, Files, BeginBackup, Hand, Working
  <1>5. \A q \in Requests : Restoring(q) /\ Begun(q) => q # r /\ Source(q) # r
    BY <1>1, Sources DEF BackInv, BackPlaces
  <1>6. BackPlaces'
    BY <1>0, <1>1, <1>3, <1>5, Sources DEF BackInv, BackPlaces, Begun, BackupOps, Terminal
  <1>7. Worked'
    BY <1>0, <1>1 DEF BackInv, Worked, Working
  <1>8. \A b \in Requests : Backing(b) /\ Begun(b) /\ ~Twin(b)' => ~Twin(b)
    BY <1>1, TwinsStay DEF Begun
  <1>9. \A q \in Requests \ {r}, kind \in Kinds : FileOf(q, kind)' = FileOf(q, kind)
    BY <1>1 DEF FileOf
  <1>10. Stored'
    <2>1. ASSUME NEW b \in Requests, Backing(b), ~Twin(b)', b # r
          PROVE  /\ pc[b] = "copy" /\ thread[b] # "copy" => FileOf(b, "db") = File(copied[b], Opening)
                 /\ pc[b] = "encrypt" =>
                      /\ job[b].encrypt /\ FileOf(b, "db") = File(copied[b], Opening)
                      /\ thread[b] # "encrypt" => FileOf(b, "enc") = File(copied[b], b)
                 /\ pc[b] = "done" =>
                      IF job[b].encrypt THEN FileOf(b, "enc") = File(copied[b], b) /\ b \in keys
                                        ELSE FileOf(b, "db") = File(copied[b], Opening)
      BY <1>8, <2>1 DEF BackInv, Stored, Begun
    <2> QED
      BY <1>0, <1>1, <1>9, <2>1 DEF Stored, File, Kinds
  <1>11. \A q \in Requests : Restoring(q) => (Busy(q)' <=> Busy(q))
    BY <1>0, <1>1, Sources DEF Busy, Running
  <1>12. Alone'
    BY <1>0, <1>1, <1>11 DEF BackInv, Alone
  <1>13. Restored'
    BY <1>0, <1>1, <1>5, <1>8, <1>9, Sources DEF BackInv, BackPlaces, Restored, Begun, File, Kinds
  <1>14. Kept'
    <2>1. Unmixed' => Unmixed
      BY <1>0, <1>1, <1>5, <1>8, Sources DEF Unmixed, Begun, BackInv, BackPlaces
    <2>2. \A b \in Requests : Backing(b) /\ Copied(b)' => Copied(b) /\ b # r
      BY <1>0, <1>1 DEF Copied
    <2> QED
      BY <1>0, <1>1, <2>1, <2>2 DEF BackInv, Kept, Has
  <1>15. Between' = Between
    BY <1>0, <1>1 DEF Between, At
  <1>16. Whole'
    BY <1>0, <1>1, <1>15 DEF BackInv, Whole, Wholly, Halved
  <1>17. Later'
    BY <1>0, <1>1, AfterwardsStays DEF Terminal
  <1> QED
    BY <1>4, <1>6, <1>7, <1>10, <1>12, <1>13, <1>14, <1>16, <1>17 DEF BackInv

\* One file of a second is written.
LEMMA PutFile ==
    ASSUME BackInv, NEW r \in Requests, path[r] \in 0..MaxSecond, NEW kind \in Kinds, NEW file,
           Put(r, kind, file)
    PROVE  /\ \A s \in 0..MaxSecond, k \in Kinds :
                 files'[s][k] = IF s = path[r] /\ k = kind THEN file ELSE files[s][k]
           /\ file \in Files => files' \in [0..MaxSecond -> [Kinds -> Files]]
  <1>1. files \in [0..MaxSecond -> [Kinds -> Files]]
    BY DEF BackInv, BackTypes
  <1> DEFINE row == [files[path[r]] EXCEPT ![kind] = file]
  <1>2. files' = [files EXCEPT ![path[r]] = row]
    BY DEF Put
  <1>3. \A k \in Kinds : row[k] = IF k = kind THEN file ELSE files[path[r]][k]
    BY <1>1
  <1>4. file \in Files => row \in [Kinds -> Files]
    BY <1>1
  <1> HIDE DEF row
  <1>5. \A s \in 0..MaxSecond : files'[s] = IF s = path[r] THEN row ELSE files[s]
    BY <1>1, <1>2
  <1> QED
    BY <1>1, <1>2, <1>3, <1>4, <1>5

LEMMA Paths ==
    ASSUME BackInv, Frame, NEW q \in Requests, Begun(q), Backing(q) \/ Restoring(q)
    PROVE  path[q] \in 0..MaxSecond
  <1>1. ASSUME NEW b \in Requests, Begun(b), Backing(b) PROVE path[b] \in 0..MaxSecond
    BY <1>1, BackupConstants DEF BackInv, BackPlaces, BackTypes
  <1> QED
    BY <1>1, Sources DEF BackInv, BackPlaces, Begun

LEMMA NoFiles == NoFile \in Files /\ (UNCHANGED job => Files' = Files)
  BY DEF NoFile, Empty, Files, Datas, Deposits, Op

LEMMA BackupMoves ==
    ASSUME Frame, BackInv, NEW r \in Requests, Turn(r), UNCHANGED job, AfterCopy(r) \/ EndBackup(r)
    PROVE  BackInv'
  <1>0. \A q \in Requests : /\ q # r => pc'[q] = pc[q]
                            /\ cut'[q] = cut[q] /\ Op(q)' = Op(q) /\ Source(q)' = Source(q)
                            /\ (Backing(q)' <=> Backing(q)) /\ (Restoring(q)' <=> Restoring(q))
    BY DEF Turn, Only, Op, Backing, Restoring, Source
  <1>1. /\ Backing(r) /\ Op(r) = "backup" /\ thread[r] \notin Working
        /\ UNCHANGED <<live, second, path, copied, loaded, met, torn>>
        /\ \A q \in Requests \ {r} : thread'[q] = thread[q]
        /\ thread' \in [Requests -> Working \cup {"idle", "failed"}]
        /\ \/ /\ pc[r] = "copy" /\ UNCHANGED <<files, keys>>
              /\ \/ pc'[r] = "encrypt" /\ thread'[r] = "encrypt" /\ job[r].encrypt
                 \/ /\ pc'[r] \in {"done", "error"} /\ thread' = thread
                    /\ pc'[r] = "done" => FileOf(r, "db").there /\ ~job[r].encrypt
           \/ /\ pc[r] = "encrypt" /\ thread' = thread
              /\ \/ pc'[r] = "error" /\ UNCHANGED <<files, keys>>
                 \/ /\ pc'[r] = "done" /\ Put(r, "db", NoFile) /\ keys' = keys \cup {r}
                    /\ thread[r] # "failed"
    BY DEF AfterCopy, EndBackup, Returned, Hand, At, Go, Frame, Placed, Backing, BackInv, BackTypes, Working
  <1>2. Deposits' = Deposits
    BY <1>0 DEF Deposits
  <1>3. path[r] \in 0..MaxSecond
    BY <1>1, BackupConstants DEF BackInv, BackPlaces, BackTypes, Begun
  <1>4. BackTypes'
    <2>1. files' \in [0..MaxSecond -> [Kinds -> Files]]
      BY <1>1, <1>3, PutFile, NoFiles DEF BackInv, BackTypes, Kinds
    <2>2. Files' = Files /\ Datas' = Datas
      BY <1>2, NoFiles DEF Datas
    <2> QED
      BY <1>1, <2>1, <2>2 DEF BackInv, BackTypes, Working, Kinds
  <1>5. BackPlaces'
    BY <1>0, <1>1, Sources DEF BackInv, BackPlaces, Begun, BackupOps, Terminal, Backing
  <1>6. Worked'
    BY <1>0, <1>1 DEF BackInv, Worked, Working
  <1>7. \A b \in Requests : Twin(b)' <=> Twin(b)
    BY <1>0, <1>1 DEF Twin
  <1>8. \A q \in Requests, kind \in Kinds :
           path[q] \in 0..MaxSecond /\ (kind # "db" \/ path[q] # path[r]) => FileOf(q, kind)' = FileOf(q, kind)
    <2>1. ASSUME NEW q \in Requests, NEW kind \in Kinds, kind # "db" \/ path[q] # path[r],
                 path[q] \in 0..MaxSecond
          PROVE  FileOf(q, kind)' = FileOf(q, kind)
      BY <1>1, <1>3, <2>1, PutFile DEF FileOf, Kinds
    <2> QED
      BY <1>1, <2>1
  <1>9. Stored'
    <2>1. ASSUME NEW b \in Requests, Backing(b), ~Twin(b), b # r PROVE path[b] # path[r]
      BY <1>1, <2>1 DEF Twin
    <2>2. \A b \in Requests : Backing(b) /\ ~Twin(b) /\ b # r /\ Begun(b) =>
             \A kind \in Kinds : FileOf(b, kind)' = FileOf(b, kind)
      BY <1>8, <2>1, Paths
    <2>3. ~Twin(r) =>
             /\ pc'[r] = "encrypt" => job[r].encrypt /\ FileOf(r, "db")' = File(copied[r], Opening)
             /\ pc'[r] = "done" =>
                   IF job[r].encrypt THEN FileOf(r, "enc")' = File(copied[r], r) /\ r \in keys'
                                     ELSE FileOf(r, "db")' = File(copied[r], Opening)
      <3>1. UNCHANGED files => \A kind \in Kinds : FileOf(r, kind)' = FileOf(r, kind)
        BY <1>1 DEF FileOf
      <3> QED
        BY <1>1, <1>3, <1>8, <3>1 DEF BackInv, Stored, Working, Kinds
    <2>4. \A b \in keys : b \in keys'
      BY <1>1
    <2> QED
      BY <1>0, <1>1, <1>7, <2>2, <2>3, <2>4 DEF BackInv, Stored, File, Kinds, Begun
  <1>10. \A q \in Requests : Restoring(q) => (Busy(q)' <=> Busy(q)) /\ q # r
    BY <1>0, <1>1, Sources DEF Busy, Running
  <1>11. Alone'
    BY <1>0, <1>1, <1>10 DEF BackInv, Alone
  <1>12. Restored'
    <2>1. \A q \in Requests : Restoring(q) /\ Begun(q) => FileOf(q, "dec")' = FileOf(q, "dec")
      BY <1>8, Paths DEF Kinds
    <2> QED
      BY <1>0, <1>1, <1>7, <1>10, <2>1, Sources DEF BackInv, Restored, Begun, File
  <1>13. Kept'
    <2>1. Unmixed' => Unmixed
      BY <1>0, <1>1, <1>7, <1>10, Sources DEF Unmixed, Begun
    <2>2. \A b \in Requests : Backing(b) /\ Copied(b)' => Copied(b)
      BY <1>0, <1>1 DEF Copied, Working
    <2> QED
      BY <1>0, <1>1, <2>1, <2>2 DEF BackInv, Kept, Has
  <1>14. Between' = Between
    BY <1>0, <1>1 DEF Between, At
  <1>15. Whole'
    <2>1. ASSUME NEW s \in 0..MaxSecond, NEW kind \in Kinds PROVE files'[s][kind] \in {files[s][kind], NoFile}
      BY <1>1, <1>3, <2>1, PutFile DEF Kinds
    <2>2. Wholly(NoFile.data)
      BY DEF NoFile, Empty, Wholly, Halved
    <2>3. \A s \in 0..MaxSecond : \A kind \in Kinds : Wholly(files'[s][kind].data)
      BY <2>1, <2>2 DEF BackInv, Whole
    <2> QED
      BY <1>0, <1>1, <1>14, <2>3 DEF BackInv, Whole, Wholly, Halved
  <1>16. Later'
    BY <1>0, <1>1, AfterwardsStays DEF Terminal
  <1> QED
    BY <1>4, <1>5, <1>6, <1>9, <1>11, <1>12, <1>13, <1>15, <1>16 DEF BackInv

\* A restore begins: whoever else restores the file meets it.
LEMMA RestoreBegins ==
    ASSUME Frame, BackInv, NEW r \in Requests, Turn(r), UNCHANGED job, BeginRestore(r)
    PROVE  BackInv'
  <1>0. \A q \in Requests : /\ q # r => pc'[q] = pc[q]
                            /\ cut'[q] = cut[q] /\ Op(q)' = Op(q) /\ Source(q)' = Source(q)
                            /\ (Backing(q)' <=> Backing(q)) /\ (Restoring(q)' <=> Restoring(q))
    BY DEF Turn, Only, Op, Backing, Restoring, Source
  <1>1. /\ Restoring(r) /\ Op(r) = "restore" /\ pc[r] = "new" /\ pc[Source(r)] = "done" /\ path'[r] = path[Source(r)]
        /\ UNCHANGED <<live, second, files, keys, copied, loaded, torn>>
        /\ \A q \in Requests \ {r} : path'[q] = path[q] /\ thread'[q] = thread[q]
        /\ thread' \in [Requests -> Working \cup {"idle", "failed"}]
        /\ \/ pc'[r] = "decrypt" /\ thread'[r] = "decrypt"
           \/ pc'[r] = "load" /\ thread'[r] = "load" /\ ~job[Source(r)].encrypt
           \/ pc'[r] = "error" /\ thread' = thread
    BY DEF BeginRestore, Hand, At, Go, Frame, Placed, Restoring, Source, BackInv, BackTypes, Working
  <1>2. \A q \in Requests \ {r} : Restoring(q) /\ Source(q) = Source(r) /\ Busy(q) => {q, r} \subseteq met'
    BY <1>1 DEF BeginRestore, Restoring, Source
  <1>3. met \subseteq met'
    BY DEF BeginRestore
  <1>4. Source(r) \in Requests /\ Backing(Source(r)) /\ path[Source(r)] \in 0..MaxSecond
    BY <1>1, Sources, Paths DEF Begun
  <1>5. Deposits' = Deposits
    BY <1>0 DEF Deposits
  <1>6. BackTypes'
    <2>1. path' = [path EXCEPT ![r] = path[Source(r)]] /\ path[Source(r)] \in 0..(MaxSecond + 1)
      BY <1>4, BackupConstants DEF BeginRestore, Source
    <2>2. path' \in [Requests -> 0..(MaxSecond + 1)]
      BY <2>1 DEF BackInv, BackTypes
    <2> QED
      BY <1>1, <1>5, <2>2 DEF BackInv, BackTypes, Datas, Files
  <1>7. BackPlaces'
    BY <1>0, <1>1, <1>4, Sources DEF BackInv, BackPlaces, Begun, BackupOps, Terminal
  <1>8. thread[r] \notin Working
    BY <1>1 DEF BackInv, Worked, Working
  <1>9. Worked'
    BY <1>0, <1>1, <1>8 DEF BackInv, Worked, Working
  <1>10. \A b \in Requests : /\ Backing(b) => b # r
                             /\ Backing(b) => (Twin(b)' <=> Twin(b))
    BY <1>0, <1>1, Sources DEF Twin, Backing
  <1>11. \A q \in Requests \ {r}, kind \in Kinds : FileOf(q, kind)' = FileOf(q, kind)
    BY <1>1 DEF FileOf
  <1>12. Stored'
    BY <1>0, <1>1, <1>10, <1>11 DEF BackInv, Stored, File, Kinds
  <1>13. \A q \in Requests \ {r} : Busy(q)' <=> Busy(q)
    BY <1>0, <1>1 DEF Busy, Running
  <1>14. Alone'
    BY <1>0, <1>1, <1>2, <1>3, <1>13 DEF BackInv, Alone
  <1>15. Restored'
    BY <1>0, <1>1, <1>3, <1>8, <1>10, <1>11, Sources DEF BackInv, Restored, Begun, File, Kinds, Working
  <1>16. Kept'
    <2>1. Unmixed' => Unmixed
      BY <1>0, <1>1, <1>3, <1>10, Sources DEF Unmixed, Begun
    <2> QED
      BY <1>0, <1>1, <1>10, <2>1 DEF BackInv, Kept, Has, Copied
  <1>17. Between' = Between
    BY <1>0, <1>1 DEF Between, At
  <1>18. Whole'
    BY <1>0, <1>1, <1>17 DEF BackInv, Whole, Wholly, Halved
  <1>19. Later'
    BY <1>0, <1>1, AfterwardsStays DEF Terminal
  <1> QED
    BY <1>6, <1>7, <1>9, <1>12, <1>14, <1>15, <1>16, <1>18, <1>19 DEF BackInv

LEMMA RestoreMoves ==
    ASSUME Frame, BackInv, NEW r \in Requests, Turn(r), UNCHANGED job, AfterDecryption(r) \/ EndRestore(r)
    PROVE  BackInv'
  <1>0. \A q \in Requests : /\ q # r => pc'[q] = pc[q]
                            /\ cut'[q] = cut[q] /\ Op(q)' = Op(q) /\ Source(q)' = Source(q)
                            /\ (Backing(q)' <=> Backing(q)) /\ (Restoring(q)' <=> Restoring(q))
    BY DEF Turn, Only, Op, Backing, Restoring, Source
  <1>1. /\ Restoring(r) /\ Op(r) = "restore" /\ thread[r] \notin Working
        /\ UNCHANGED <<live, second, keys, path, copied, loaded, met, torn>>
        /\ \A q \in Requests \ {r} : thread'[q] = thread[q]
        /\ thread' \in [Requests -> Working \cup {"idle", "failed"}]
        /\ \/ /\ pc[r] = "decrypt" /\ UNCHANGED files
              /\ \/ thread[r] = "idle" /\ pc'[r] = "load" /\ thread'[r] = "load"
                 \/ pc'[r] = "error" /\ thread' = thread
           \/ /\ pc[r] = "load" /\ pc'[r] = "done" /\ thread' = thread
              /\ UNCHANGED files \/ Put(r, "dec", NoFile)
    BY DEF AfterDecryption, EndRestore, Returned, Hand, At, Go, Frame, Placed, Restoring, BackInv, BackTypes, Working
  <1>2. /\ Source(r) \in Requests /\ Backing(Source(r)) /\ path[r] \in 0..MaxSecond
        /\ path[r] = path[Source(r)]
    BY <1>1, Sources, Paths DEF Begun, BackInv, BackPlaces
  <1>3. \A s \in 0..MaxSecond, kind \in Kinds : files'[s][kind] # files[s][kind] =>
           s = path[r] /\ kind = "dec" /\ files'[s][kind] = NoFile /\ pc[r] = "load"
    BY <1>1, <1>2, PutFile DEF Kinds
  <1>4. \A q \in Requests, kind \in Kinds : Begun(q) /\ (Backing(q) \/ Restoring(q)) =>
           \/ FileOf(q, kind)' = FileOf(q, kind)
           \/ kind = "dec" /\ path[q] = path[r] /\ pc[r] = "load"
    BY <1>1, <1>3, Paths DEF FileOf
  <1>5. BackTypes'
    <2>1. files' \in [0..MaxSecond -> [Kinds -> Files]]
      BY <1>1, <1>2, PutFile, NoFiles DEF BackInv, BackTypes, Kinds
    <2>2. Files' = Files /\ Datas' = Datas
      BY <1>0, NoFiles DEF Datas, Deposits
    <2> QED
      BY <1>1, <2>1, <2>2 DEF BackInv, BackTypes, Working, Kinds
  <1>6. BackPlaces'
    BY <1>0, <1>1, Sources DEF BackInv, BackPlaces, Begun, BackupOps, Terminal
  <1>7. Worked'
    BY <1>0, <1>1 DEF BackInv, Worked, Working
  <1>8. \A b \in Requests : Backing(b) => b # r /\ (Twin(b)' <=> Twin(b))
    BY <1>0, <1>1, Sources DEF Twin, Backing
  <1>9. Stored'
    <2>1. \A b \in Requests, kind \in Kinds : Backing(b) /\ Begun(b) /\ kind # "dec" => FileOf(b, kind)' = FileOf(b, kind)
      BY <1>4
    <2> QED
      BY <1>0, <1>1, <1>8, <2>1 DEF BackInv, Stored, File, Kinds, Begun
  <1>10. \A q \in Requests : Restoring(q) /\ Busy(q)' => Busy(q)
    BY <1>0, <1>1 DEF Busy, Running, Terminal
  <1>11. Alone'
    BY <1>0, <1>1, <1>10 DEF BackInv, Alone
  <1>12. Restored'
    <2>1. ASSUME NEW q \in Requests \ met, Restoring(q), Begun(q), q # r, ~Twin(Source(q)), Busy(q), pc[r] = "load"
          PROVE  path[q] # path[r]
      <3>1. Source(q) \in Requests /\ path[q] = path[Source(q)] /\ Busy(r)
        BY <1>1, <2>1, Sources DEF BackInv, BackPlaces, Busy, Running, Terminal
      <3>2. CASE Source(q) = Source(r)
        BY <1>1, <2>1, <3>1, <3>2 DEF BackInv, Alone
      <3>3. CASE Source(q) # Source(r)
        BY <1>2, <2>1, <3>1, <3>3 DEF Twin, Backing
      <3> QED
        BY <3>2, <3>3
    <2>2. ASSUME NEW q \in Requests \ met, Restoring(q), Begun(q), q # r, ~Twin(Source(q)),
                 (pc[q] = "decrypt" /\ thread[q] = "idle") \/ thread[q] = "load"
          PROVE  FileOf(q, "dec")' = FileOf(q, "dec")
      BY <1>4, <2>1, <2>2 DEF Kinds, Busy, Running, Terminal
    <2>3. UNCHANGED files => FileOf(r, "dec")' = FileOf(r, "dec")
      BY <1>1 DEF FileOf
    <2>4. \A q \in Requests : Restoring(q) => Source(q) \in Requests /\ (Twin(Source(q))' <=> Twin(Source(q)))
      BY <1>0, <1>8, Sources
    <2>5. ASSUME NEW q \in Requests \ met, Restoring(q), Begun(q), ~Twin(Source(q)), q # r
          PROVE  /\ job[Source(q)].encrypt =>
                       \/ ~(pc[q] = "decrypt" /\ thread[q] = "idle") /\ thread[q] # "load"
                       \/ FileOf(q, "dec")' = File(copied[Source(q)], Opening)
                 /\ pc[q] = "done" \/ (pc[q] = "load" /\ thread[q] # "load") => loaded[q] = copied[Source(q)]
      BY <2>2, <2>5 DEF BackInv, Restored
    <2>6. r \notin met /\ ~Twin(Source(r)) =>
                 /\ job[Source(r)].encrypt =>
                       \/ ~(pc'[r] = "decrypt" /\ thread'[r] = "idle") /\ thread'[r] # "load"
                       \/ FileOf(r, "dec")' = File(copied[Source(r)], Opening)
                 /\ pc'[r] = "done" \/ (pc'[r] = "load" /\ thread'[r] # "load") => loaded[r] = copied[Source(r)]
      BY <1>1, <2>3 DEF BackInv, Restored, Begun, Working
    <2> QED
      BY <1>0, <1>1, <2>4, <2>5, <2>6 DEF Restored, File, Begun
  <1>13. Kept'
    <2>1. Unmixed' => Unmixed
      BY <1>0, <1>1, <1>8, Sources DEF Unmixed, Begun
    <2> QED
      BY <1>0, <1>1, <1>8, <2>1 DEF BackInv, Kept, Has, Copied
  <1>14. Between' = Between
    BY <1>0, <1>1 DEF Between, At
  <1>15. Whole'
    <2>1. Wholly(NoFile.data)
      BY DEF NoFile, Empty, Wholly, Halved
    <2>2. \A s \in 0..MaxSecond : \A kind \in Kinds : Wholly(files'[s][kind].data)
      BY <1>3, <2>1 DEF BackInv, Whole
    <2> QED
      BY <1>0, <1>1, <1>14, <2>2 DEF BackInv, Whole, Wholly, Halved
  <1>16. Later'
    BY <1>0, <1>1, AfterwardsStays DEF Terminal
  <1> QED
    BY <1>5, <1>6, <1>7, <1>9, <1>11, <1>12, <1>13, <1>15, <1>16 DEF BackInv

\* The work of a thread ends.
LEMMA ThreadEnds ==
    ASSUME Frame, BackInv, NEW r \in Requests, UNCHANGED <<job, pc, cut, second, path, met>>,
           Ends(r, "idle") \/ Ends(r, "failed")
    PROVE  /\ \A q \in Requests : /\ Op(q)' = Op(q) /\ Source(q)' = Source(q) /\ (Begun(q)' <=> Begun(q))
                                  /\ (Backing(q)' <=> Backing(q)) /\ (Restoring(q)' <=> Restoring(q))
                                  /\ (Twin(q)' <=> Twin(q)) /\ (q # r => thread'[q] = thread[q])
           /\ thread' \in [Requests -> Working \cup {"idle", "failed"}] /\ thread'[r] \in {"idle", "failed"}
           /\ Deposits' = Deposits /\ Datas' = Datas /\ Files' = Files /\ Between' = Between
           /\ Unmixed' <=> Unmixed
           /\ BackPlaces' /\ Worked' /\ Alone'
  <1>1. \A q \in Requests : /\ Op(q)' = Op(q) /\ Source(q)' = Source(q) /\ (Begun(q)' <=> Begun(q))
                            /\ (Backing(q)' <=> Backing(q)) /\ (Restoring(q)' <=> Restoring(q))
    BY DEF Op, Source, Begun, Backing, Restoring
  <1>2. \A q \in Requests : Twin(q)' <=> Twin(q)
    BY <1>1 DEF Twin
  <1>3. /\ thread' \in [Requests -> Working \cup {"idle", "failed"}] /\ thread'[r] \in {"idle", "failed"}
        /\ \A q \in Requests : q # r => thread'[q] = thread[q]
    BY DEF Ends, BackInv, BackTypes
  <1>4. Deposits' = Deposits /\ Datas' = Datas /\ Files' = Files /\ Between' = Between
    <2>1. Deposits' = Deposits
      BY <1>1 DEF Deposits
    <2> QED
      BY <1>1, <2>1 DEF Datas, Files, Between, At
  <1>5. BackPlaces' /\ Worked'
    BY <1>1, <1>3, Sources DEF BackInv, BackPlaces, Worked, Working
  <1>6. \A q \in Requests : Busy(q)' => Busy(q)
    BY <1>3 DEF Busy, Running
  <1>7. Alone'
    BY <1>1, <1>6 DEF BackInv, Alone
  <1>8. Unmixed' <=> Unmixed
    BY <1>1, <1>2, Sources DEF Unmixed
  <1> QED
    BY <1>1, <1>2, <1>3, <1>4, <1>5, <1>7, <1>8

LEMMA CopyMoves ==
    ASSUME Frame, BackInv, NEW r \in Requests, UNCHANGED <<job, pc, cut, second, path, met>>, CopyLive(r)
    PROVE  BackInv'
  <1>1. Ends(r, "idle") /\ UNCHANGED <<live, keys, loaded>> /\ torn' = torn \cup Between
    BY DEF CopyLive
  <1>2. Backing(r) /\ pc[r] \in {"copy", "504"} /\ path[r] \in 0..MaxSecond
    BY Paths DEF BackInv, Worked, CopyLive, Working, Begun
  <1>3. /\ copied' \in [Requests -> Datas] /\ copied'[r] = live
        /\ \A q \in Requests \ {r} : copied'[q] = copied[q]
    BY DEF BackInv, BackTypes, CopyLive
  <1>4. /\ \A s \in 0..MaxSecond, k \in Kinds : files'[s][k] = IF s = path[r] /\ k = "db" THEN File(live, Opening)
                                                                                        ELSE files[s][k]
        /\ files' \in [0..MaxSecond -> [Kinds -> Files]]
    <2>1. File(live, Opening) \in Files
      BY DEF File, Files, BackInv, BackTypes
    <2> QED
      BY <1>2, <2>1, PutFile DEF CopyLive, Kinds
  <1>5. BackTypes'
    BY <1>1, <1>3, <1>4, ThreadEnds DEF BackInv, BackTypes, Kinds, Working
  <1>6. Stored'
    <2>1. ASSUME NEW b \in Requests, Backing(b), ~Twin(b), b # r, Begun(b)
          PROVE  \A kind \in Kinds : FileOf(b, kind)' = FileOf(b, kind)
      BY <1>2, <1>4, <2>1, Paths DEF FileOf, Twin, Backing
    <2>2. FileOf(r, "db")' = File(copied'[r], Opening)
      BY <1>2, <1>3, <1>4 DEF FileOf, Kinds
    <2> QED
      BY <1>1, <1>2, <1>3, <2>1, <2>2, ThreadEnds DEF BackInv, Stored, Begun, File, Kinds
  <1>7. Restored'
    <2>1. ASSUME NEW q \in Requests, Restoring(q), Begun(q)
          PROVE  FileOf(q, "dec")' = FileOf(q, "dec") /\ copied'[Source(q)] = copied[Source(q)] /\ q # r
      BY <1>2, <1>3, <1>4, <2>1, Paths, Sources DEF FileOf, BackInv, BackPlaces, Kinds
    <2> QED
      BY <1>1, <2>1, Sources, ThreadEnds DEF BackInv, Restored, File
  <1>8. Kept'
    <2>1. ASSUME NEW b \in Requests, b # r, Copied(b)' PROVE Copied(b)
      <3>1. thread'[b] = thread[b] /\ pc'[b] = pc[b]
        BY <1>1, <2>1, ThreadEnds
      <3> QED
        BY <2>1, <3>1 DEF Copied
    <2> QED
      BY <1>1, <1>3, <2>1, ThreadEnds DEF BackInv, Kept, Has
  <1>9. Whole'
    <2>1. \A d \in Requests \ torn' : Halved(d, live) => cut[d] = "record"
      BY <1>1 DEF BackInv, Whole
    <2>2. \A d \in Requests \ torn' : d \notin torn
      BY <1>1
    <2>3. \A b \in Requests : Wholly(copied[b])'
      BY <1>3, <2>1, <2>2 DEF BackInv, Whole, Wholly, Halved
    <2>4. ASSUME NEW s \in 0..MaxSecond, NEW kind \in Kinds PROVE Wholly(files[s][kind].data)'
      BY <1>4, <2>1, <2>2 DEF BackInv, Whole, Wholly, Halved, File
    <2>5. \A d \in Requests \ torn' : /\ Halved(d, live)' => d \in Between' \/ cut'[d] = "record"
                                      /\ d \in Between' => d \in live'.bal
      BY <1>1, <2>1, <2>2, ThreadEnds DEF BackInv, Whole, Halved
    <2> QED
      BY <2>3, <2>4, <2>5 DEF Whole
  <1>10. Later'
    BY <1>1, ThreadEnds DEF BackInv, Later, Follows, Excused
  <1> QED
    BY <1>1, <1>5, <1>6, <1>7, <1>8, <1>9, <1>10, ThreadEnds DEF BackInv

LEMMA EncryptMoves ==
    ASSUME Frame, BackInv, NEW r \in Requests, UNCHANGED <<job, pc, cut, second, path, met>>, EncryptFile(r)
    PROVE  BackInv'
  <1> DEFINE made == File(FileOf(r, "db").data, r)
  <1>1. UNCHANGED <<live, keys, copied, loaded, torn>> /\ (Ends(r, "idle") \/ Ends(r, "failed"))
    BY DEF EncryptFile
  <1>2. /\ Backing(r) /\ pc[r] \in {"encrypt", "504"} /\ thread[r] = "encrypt"
        /\ path[r] \in 0..MaxSecond
    BY Paths DEF BackInv, Worked, EncryptFile, Working, Begun
  <1>3. /\ made \in Files
        /\ made.data = FileOf(r, "db").data
    BY <1>2 DEF File, Files, FileOf, Kinds, BackInv, BackTypes
  <1>4. /\ \A s \in 0..MaxSecond, k \in Kinds :
              \/ files'[s][k] = files[s][k]
              \/ s = path[r] /\ k = "enc" /\ files'[s][k] = made
        /\ files' \in [0..MaxSecond -> [Kinds -> Files]]
        /\ FileOf(r, "db").there => files'[path[r]]["enc"] = made
    <2>1. CASE FileOf(r, "db").there
      BY <1>2, <1>3, <2>1, PutFile DEF EncryptFile, Kinds
    <2>2. CASE ~FileOf(r, "db").there
      BY <2>2 DEF EncryptFile, BackInv, BackTypes
    <2> QED
      BY <2>1, <2>2
  <1>5. BackTypes'
    BY <1>1, <1>4, ThreadEnds DEF BackInv, BackTypes, Kinds, Working
  <1>6. Stored'
    <2>1. ASSUME NEW b \in Requests, Backing(b), ~Twin(b), b # r, Begun(b)
          PROVE  \A kind \in Kinds : FileOf(b, kind)' = FileOf(b, kind)
      BY <1>2, <1>4, <2>1, Paths DEF FileOf, Twin, Backing
    <2>2. FileOf(r, "db")' = FileOf(r, "db")
      BY <1>2, <1>4 DEF FileOf, Kinds
    <2>3. ~Twin(r) /\ pc[r] = "encrypt" =>
             /\ job[r].encrypt /\ FileOf(r, "db") = File(copied[r], Opening)
             /\ FileOf(r, "enc")' = File(copied[r], r)
      <3>1. ~Twin(r) /\ pc[r] = "encrypt" => job[r].encrypt /\ FileOf(r, "db") = File(copied[r], Opening)
        BY <1>2 DEF BackInv, Stored
      <3>2. ~Twin(r) /\ pc[r] = "encrypt" => FileOf(r, "db").there /\ FileOf(r, "db").data = copied[r]
        BY <3>1 DEF File
      <3>3. FileOf(r, "enc")' = files'[path[r]]["enc"]
        BY <1>2 DEF FileOf
      <3> QED
        BY <1>4, <3>1, <3>2, <3>3
    <2> QED
      BY <1>1, <1>2, <2>1, <2>2, <2>3, ThreadEnds DEF BackInv, Stored, Begun, File, Kinds
  <1>7. Restored'
    <2>1. ASSUME NEW q \in Requests, Restoring(q), Begun(q)
          PROVE  FileOf(q, "dec")' = FileOf(q, "dec") /\ q # r
      BY <1>2, <1>4, <2>1, Paths, Sources DEF FileOf, Kinds
    <2> QED
      BY <1>1, <2>1, Sources, ThreadEnds DEF BackInv, Restored, File
  <1>8. Kept'
    <2>1. ASSUME NEW b \in Requests, Copied(b)' PROVE Copied(b)
      BY <1>1, <1>2, <2>1, ThreadEnds DEF Copied
    <2> QED
      BY <1>1, <2>1, ThreadEnds DEF BackInv, Kept, Has
  <1>9. Whole'
    <2>1. ASSUME NEW s \in 0..MaxSecond, NEW kind \in Kinds PROVE Wholly(files'[s][kind].data)
      <3>1. Wholly(files[s][kind].data) /\ Wholly(FileOf(r, "db").data)
        BY <1>2, <2>1 DEF BackInv, Whole, FileOf, Kinds
      <3> QED
        BY <1>3, <1>4, <2>1, <3>1
    <2> QED
      BY <1>1, <2>1, ThreadEnds DEF BackInv, Whole, Wholly, Halved
  <1>10. Later'
    BY <1>1, ThreadEnds DEF BackInv, Later, Follows, Excused
  <1> QED
    BY <1>1, <1>5, <1>6, <1>7, <1>8, <1>9, <1>10, ThreadEnds DEF BackInv

LEMMA DecryptMoves ==
    ASSUME Frame, BackInv, NEW r \in Requests, UNCHANGED <<job, pc, cut, second, path, met>>, DecryptFile(r)
    PROVE  BackInv'
  <1> DEFINE made == File(FileOf(r, "enc").data, Opening)
  <1>1. UNCHANGED <<live, keys, copied, loaded, torn>> /\ (Ends(r, "idle") \/ Ends(r, "failed"))
    BY DEF DecryptFile
  <1>2. /\ Restoring(r) /\ pc[r] \in {"decrypt", "504"} /\ thread[r] = "decrypt"
        /\ path[r] \in 0..MaxSecond /\ path[r] = path[Source(r)]
        /\ Source(r) \in Requests /\ Backing(Source(r)) /\ pc[Source(r)] = "done"
    BY Paths, Sources DEF BackInv, BackPlaces, Worked, DecryptFile, Working, Begun
  <1>3. /\ made \in Files
        /\ made.data = FileOf(r, "enc").data
    BY <1>2 DEF File, Files, FileOf, Kinds, BackInv, BackTypes
  <1>4. /\ \A s \in 0..MaxSecond, k \in Kinds :
              \/ files'[s][k] = files[s][k]
              \/ s = path[r] /\ k = "dec" /\ files'[s][k] = made
        /\ files' \in [0..MaxSecond -> [Kinds -> Files]]
        /\ \/ Ends(r, "failed")
           \/ files'[path[r]]["dec"] = made
    <2>1. CASE Put(r, "dec", made)
      BY <1>2, <1>3, <2>1, PutFile DEF Kinds
    <2>2. CASE Ends(r, "failed") /\ UNCHANGED files
      BY <2>2 DEF BackInv, BackTypes
    <2> QED
      BY <2>1, <2>2 DEF DecryptFile
  <1>5. BackTypes'
    BY <1>1, <1>4, ThreadEnds DEF BackInv, BackTypes, Kinds, Working
  <1>6. \A b \in Requests : ~Twin(b) /\ Backing(b) /\ path[b] = path[r] => b = Source(r)
    BY <1>2 DEF Twin, Backing
  <1>7. Stored'
    <2>1. \A b \in Requests, kind \in Kinds : Backing(b) /\ Begun(b) /\ kind # "dec" => FileOf(b, kind)' = FileOf(b, kind)
      BY <1>4, Paths DEF FileOf
    <2> QED
      BY <1>1, <1>2, <2>1, Sources, ThreadEnds DEF BackInv, Stored, Begun, File, Kinds
  <1>8. Restored'
    <2>1. job[Source(r)].encrypt /\ ~Twin(Source(r)) => made = File(copied[Source(r)], Opening)
      <3>1. job[Source(r)].encrypt /\ ~Twin(Source(r)) => FileOf(Source(r), "enc") = File(copied[Source(r)], Source(r))
        BY <1>2 DEF BackInv, Stored
      <3>2. FileOf(r, "enc") = FileOf(Source(r), "enc")
        BY <1>2 DEF FileOf
      <3>3. job[Source(r)].encrypt /\ ~Twin(Source(r)) => FileOf(r, "enc").data = copied[Source(r)]
        BY <3>1, <3>2 DEF File
      <3> QED
        BY <3>3
    <2>2. ASSUME NEW q \in Requests, Restoring(q), Begun(q), ~Twin(Source(q))
          PROVE  \/ FileOf(q, "dec")' = FileOf(q, "dec")
                 \/ path[q] = path[r] /\ Source(q) = Source(r) /\ FileOf(q, "dec")' = made
      <3>1. path[q] \in 0..MaxSecond /\ path[q] = path[Source(q)] /\ Source(q) \in Requests /\ Backing(Source(q))
        BY <2>2, Paths, Sources DEF BackInv, BackPlaces
      <3> QED
        BY <1>4, <1>6, <2>2, <3>1 DEF FileOf, Kinds
    <2>3. ASSUME NEW q \in Requests \ met, Restoring(q), Begun(q), ~Twin(Source(q))
          PROVE  /\ job[Source(q)].encrypt =>
                       \/ ~(pc[q] = "decrypt" /\ thread'[q] = "idle") /\ thread'[q] # "load"
                       \/ FileOf(q, "dec")' = File(copied[Source(q)], Opening)
                 /\ pc[q] = "done" \/ (pc[q] = "load" /\ thread'[q] # "load") => loaded[q] = copied[Source(q)]
      <3>1. CASE q = r
        BY <1>1, <1>2, <1>4, <2>1, <2>3, <3>1, ThreadEnds DEF BackInv, Restored, BackTypes, FileOf, Ends
      <3>2. CASE q # r
        BY <1>1, <2>1, <2>2, <2>3, <3>2, ThreadEnds DEF BackInv, Restored
      <3> QED
        BY <3>1, <3>2
    <2> QED
      BY <1>1, <2>3, Sources, ThreadEnds DEF Restored, File
  <1>9. Kept'
    <2>1. ASSUME NEW b \in Requests, Copied(b)', Backing(b) PROVE Copied(b)
      BY <1>1, <1>2, <2>1, Sources, ThreadEnds DEF Copied
    <2> QED
      BY <1>1, <2>1, ThreadEnds DEF BackInv, Kept, Has
  <1>10. Whole'
    <2>1. ASSUME NEW s \in 0..MaxSecond, NEW kind \in Kinds PROVE Wholly(files'[s][kind].data)
      <3>1. Wholly(files[s][kind].data) /\ Wholly(FileOf(r, "enc").data)
        BY <1>2, <2>1 DEF BackInv, Whole, FileOf, Kinds
      <3> QED
        BY <1>3, <1>4, <2>1, <3>1
    <2> QED
      BY <1>1, <2>1, ThreadEnds DEF BackInv, Whole, Wholly, Halved
  <1>11. Later'
    BY <1>1, ThreadEnds DEF BackInv, Later, Follows, Excused
  <1> QED
    BY <1>1, <1>5, <1>7, <1>8, <1>9, <1>10, <1>11, ThreadEnds DEF BackInv

LEMMA LoadMoves ==
    ASSUME Frame, BackInv, NEW r \in Requests, UNCHANGED <<job, pc, cut, second, path, met>>, LoadFile(r)
    PROVE  BackInv'
  <1> DEFINE data == FileOf(r, IF job[Source(r)].encrypt THEN "dec" ELSE "db").data
  <1>1. /\ UNCHANGED <<files, keys, copied>> /\ Ends(r, "idle")
        /\ live' = data /\ loaded' = [loaded EXCEPT ![r] = data] /\ torn' = torn \cup Between
    BY DEF LoadFile, Source
  <1>2. /\ Restoring(r) /\ pc[r] \in {"load", "504"} /\ thread[r] = "load"
        /\ path[r] \in 0..MaxSecond /\ path[r] = path[Source(r)]
        /\ Source(r) \in Requests /\ Backing(Source(r)) /\ pc[Source(r)] = "done"
    BY Paths, Sources DEF BackInv, BackPlaces, Worked, LoadFile, Working, Begun
  <1>3. data \in Datas /\ Wholly(data)
    <2>1. \A kind \in Kinds : FileOf(r, kind).data \in Datas /\ Wholly(FileOf(r, kind).data)
      BY <1>2 DEF FileOf, BackInv, BackTypes, Files, Whole
    <2> QED
      BY <2>1 DEF Kinds
  <1>4. r \notin met /\ ~Twin(Source(r)) => data = copied[Source(r)]
    <2>1. CASE job[Source(r)].encrypt
      <3>1. r \notin met /\ ~Twin(Source(r)) => FileOf(r, "dec") = File(copied[Source(r)], Opening)
        BY <1>2, <2>1 DEF BackInv, Restored, Begun
      <3> QED
        BY <2>1, <3>1 DEF File
    <2>2. CASE ~job[Source(r)].encrypt
      <3>1. ~Twin(Source(r)) => FileOf(Source(r), "db") = File(copied[Source(r)], Opening)
        BY <1>2, <2>2 DEF BackInv, Stored
      <3>2. FileOf(r, "db") = FileOf(Source(r), "db")
        BY <1>2 DEF FileOf
      <3> QED
        BY <2>2, <3>1, <3>2 DEF File
    <2> QED
      BY <2>1, <2>2
  <1> HIDE DEF data
  <1>5. \A q \in Requests, kind \in Kinds : FileOf(q, kind)' = FileOf(q, kind)
    BY <1>1 DEF FileOf
  <1>6. loaded'[r] = data /\ \A q \in Requests \ {r} : loaded'[q] = loaded[q]
    BY <1>1 DEF BackInv, BackTypes
  <1>7. BackTypes'
    BY <1>1, <1>3, ThreadEnds DEF BackInv, BackTypes, Kinds, Working
  <1>8. Stored'
    BY <1>1, <1>2, <1>5, Sources, ThreadEnds DEF BackInv, Stored, File, Kinds
  <1>9. Restored'
    BY <1>1, <1>2, <1>4, <1>5, <1>6, Sources, ThreadEnds DEF BackInv, Restored, File, Kinds
  <1>10. Kept'
    <2>1. ASSUME NEW b \in Requests, Copied(b)', Backing(b) PROVE Copied(b)
      BY <1>1, <1>2, <2>1, Sources, ThreadEnds DEF Copied
    <2>2. Unmixed => Has(data)
      BY <1>2, <1>4 DEF BackInv, Kept, Unmixed, Begun, Copied
    <2> QED
      BY <1>1, <2>1, <2>2, ThreadEnds DEF BackInv, Kept, Has
  <1>11. Whole'
    BY <1>1, <1>3, ThreadEnds DEF BackInv, Whole, Wholly, Halved
  <1>12. Later'
    <2>1. ASSUME NEW d \in Requests, Follows(d), Begun(d) PROVE Excused(d)
      BY <1>2, <2>1, Sources DEF BackInv, Later, Terminal, Excused
    <2>2. \A d \in Requests : (Follows(d)' <=> Follows(d)) /\ (Excused(d) => Excused(d)')
      BY <1>1, ThreadEnds DEF Follows, Excused
    <2> QED
      BY <2>1, <2>2, ThreadEnds DEF BackInv, Later, Begun
  <1> QED
    BY <1>1, <1>7, <1>8, <1>9, <1>10, <1>11, <1>12, ThreadEnds DEF BackInv

\* Time goes on, or who works here is cut off, at most.
LEMMA BackRests ==
    ASSUME Frame, BackInv, UNCHANGED <<job, live, files, keys, path, copied, loaded, met, torn>>,
           second' \in 0..MaxSecond, second <= second',
           \A q \in Requests : Op(q) \in BackupOps =>
              \/ Unmoved(q)
              \/ Running(q) /\ pc'[q] \in {"504", "lost"} /\ cut'[q] = pc[q],
           \/ thread' = thread /\ \A q \in Requests : Op(q) \in BackupOps /\ pc'[q] = "lost" => pc[q] = "lost"
           \/ /\ thread' = [q \in Requests |-> "idle"]
              /\ \A q \in Requests : Op(q) \in BackupOps => ~Running(q)'
    PROVE  BackInv'
  <1>0. \A q \in Requests : /\ Op(q)' = Op(q) /\ Source(q)' = Source(q)
                            /\ (Backing(q)' <=> Backing(q)) /\ (Restoring(q)' <=> Restoring(q))
                            /\ (Op(q) = "deposit" \/ Backing(q) \/ Restoring(q) => Op(q) \in BackupOps)
    BY DEF Op, Backing, Restoring, Source, BackupOps
  <1>1. ASSUME NEW q \in Requests, Op(q) \in BackupOps
        PROVE  /\ Unmoved(q) \/ (Running(q) /\ pc'[q] \in {"504", "lost"} /\ cut'[q] = pc[q])
               /\ Begun(q)' <=> Begun(q)
               /\ pc[q] \in Terminal => pc'[q] = pc[q] /\ cut'[q] = cut[q]
               /\ pc'[q] \notin {"504", "lost"} => pc'[q] = pc[q] /\ cut'[q] = cut[q]
    BY <1>1 DEF Begun, Unmoved, Running, Terminal
  <1>2. \A q \in Requests : Twin(q)' <=> Twin(q)
    BY <1>0 DEF Twin
  <1>3. \A q \in Requests, kind \in Kinds : FileOf(q, kind)' = FileOf(q, kind)
    BY DEF FileOf
  <1>4. \A q \in Requests : thread'[q] \in Working => thread'[q] = thread[q]
    BY DEF Working
  <1>5. Deposits' = Deposits
    BY <1>0 DEF Deposits
  <1>6. BackTypes'
    BY <1>5 DEF BackInv, BackTypes, Datas, Files
  <1>7. BackPlaces'
    <2>1. ASSUME NEW r \in Requests
          PROVE  /\ Op(r) = "deposit" => pc'[r] \in {"new", "record"} \cup Terminal
                 /\ Backing(r) => pc'[r] \in {"new", "copy", "encrypt"} \cup Terminal
                 /\ Restoring(r) => pc'[r] \in {"new", "decrypt", "load"} \cup Terminal
                 /\ Op(r) \in BackupOps /\ cut'[r] # "never" => pc'[r] \in {"504", "lost"}
      BY <1>0, <1>1 DEF BackInv, BackPlaces, Unmoved, Terminal
    <2>2. ASSUME NEW r \in Requests, Backing(r)
          PROVE  IF Begun(r)' THEN path'[r] <= second' ELSE path'[r] = MaxSecond + 1
      BY <1>0, <1>1, <2>2, BackupConstants DEF BackInv, BackPlaces, BackTypes
    <2>3. ASSUME NEW r \in Requests, Restoring(r), Begun(r)'
          PROVE  pc'[Source(r)] = "done" /\ path'[r] = path'[Source(r)]
      BY <1>0, <1>1, <2>3, Sources DEF BackInv, BackPlaces, Terminal
    <2> QED
      BY <1>0, <2>1, <2>2, <2>3 DEF BackPlaces
  <1>8. Worked'
    BY <1>0, <1>1, <1>4 DEF BackInv, Worked, Working, Unmoved, Running
  <1>9. Stored'
    <2>1. ASSUME NEW b \in Requests, Backing(b), ~Twin(b)
          PROVE  /\ pc'[b] = "copy" /\ thread'[b] # "copy" => FileOf(b, "db") = File(copied[b], Opening)
                 /\ pc'[b] = "encrypt" =>
                      /\ job[b].encrypt /\ FileOf(b, "db") = File(copied[b], Opening)
                      /\ thread'[b] # "encrypt" => FileOf(b, "enc") = File(copied[b], b)
                 /\ pc'[b] = "done" =>
                      IF job[b].encrypt THEN FileOf(b, "enc") = File(copied[b], b) /\ b \in keys
                                        ELSE FileOf(b, "db") = File(copied[b], Opening)
      <3>1. pc'[b] \in {"copy", "encrypt"} => thread'[b] = thread[b]
        BY <1>0, <2>1 DEF Running, Terminal
      <3> QED
        BY <1>0, <1>1, <2>1, <3>1 DEF BackInv, Stored
    <2> QED
      BY <1>0, <1>2, <1>3, <2>1 DEF Stored, File, Kinds
  <1>10. \A q \in Requests : Restoring(q) /\ Busy(q)' => Busy(q)
    BY <1>0, <1>1, <1>4 DEF Busy, Running, Terminal, Working
  <1>11. Alone'
    BY <1>0, <1>10 DEF BackInv, Alone
  <1>12. Restored'
    <2>1. ASSUME NEW q \in Requests \ met, Restoring(q), Begun(q), ~Twin(Source(q))
          PROVE  /\ job[Source(q)].encrypt =>
                       \/ ~(pc'[q] = "decrypt" /\ thread'[q] = "idle") /\ thread'[q] # "load"
                       \/ FileOf(q, "dec") = File(copied[Source(q)], Opening)
                 /\ pc'[q] = "done" \/ (pc'[q] = "load" /\ thread'[q] # "load") => loaded[q] = copied[Source(q)]
      <3>1. pc'[q] \in {"decrypt", "load"} => thread'[q] = thread[q]
        BY <1>0, <2>1 DEF Running, Terminal
      <3>2. thread'[q] = "load" => thread[q] = "load"
        BY <1>4 DEF Working
      <3> QED
        BY <1>0, <1>1, <2>1, <3>1, <3>2 DEF BackInv, Restored
    <2> QED
      BY <1>0, <1>1, <1>2, <1>3, <2>1, Sources DEF Restored, File, Kinds
  <1>13. Kept'
    <2>1. Unmixed' => Unmixed
      BY <1>0, <1>1, <1>2, Sources DEF Unmixed
    <2>2. ASSUME NEW b \in Requests, Backing(b), Copied(b)' PROVE Copied(b)
      <3>1. pc'[b] = "copy" => thread'[b] = thread[b]
        BY <1>0, <2>2 DEF Running, Terminal
      <3> QED
        BY <1>0, <1>1, <2>2, <3>1 DEF Copied
    <2> QED
      BY <1>0, <2>1, <2>2 DEF BackInv, Kept, Has
  <1>14. Whole'
    <2>1. ASSUME NEW d \in Requests, Op(d) = "deposit"
          PROVE  /\ cut[d] = "record" => cut'[d] = "record"
                 /\ d \in Between => d \in Between' \/ cut'[d] = "record"
                 /\ d \in Between' => d \in Between
      BY <1>0, <1>1, <2>1 DEF BackInv, BackPlaces, Between, At, Terminal, Unmoved
    <2>2. ASSUME NEW data \in Datas, Wholly(data), NEW d \in Requests \ torn, Halved(d, data)
          PROVE  cut'[d] = "record"
      <3>1. Op(d) = "deposit"
        BY <2>2, BackupConstants DEF Datas, Deposits, Halved
      <3> QED
        BY <2>1, <2>2, <3>1 DEF Wholly
    <2>3. \A b \in Requests : Wholly(copied[b])'
      BY <2>2 DEF BackInv, Whole, BackTypes, Wholly, Halved
    <2>4. ASSUME NEW s \in 0..MaxSecond, NEW kind \in Kinds PROVE Wholly(files[s][kind].data)'
      <3>1. files[s][kind].data \in Datas /\ Wholly(files[s][kind].data)
        BY <2>4 DEF BackInv, Whole, BackTypes, Files
      <3> QED
        BY <2>2, <3>1 DEF Wholly, Halved
    <2>5. ASSUME NEW d \in Requests \ torn
          PROVE  /\ Halved(d, live)' => d \in Between' \/ cut'[d] = "record"
                 /\ d \in Between' => d \in live'.bal
      <3>1. Halved(d, live) \/ d \in Between' => Op(d) = "deposit"
        BY <1>0, BackupConstants DEF BackInv, BackTypes, Datas, Deposits, Halved, Between, At
      <3> QED
        BY <2>1, <3>1 DEF BackInv, Whole, Halved
    <2> QED
      BY <2>3, <2>4, <2>5 DEF Whole
  <1>15. Later'
    <2>1. ASSUME NEW d \in Requests, Follows(d)
          PROVE  /\ job[d].after \in Requests
                 /\ Excused(d) => Excused(d)'
                 /\ pc[job[d].after] \in Terminal => pc'[job[d].after] \in Terminal
                 /\ Op(d) \in BackupOps
      BY <1>0, <1>1, <2>1, Sources DEF Excused, Terminal, Follows
    <2> QED
      BY <1>0, <1>1, <2>1 DEF BackInv, Later, Follows
  <1> QED
    BY <1>6, <1>7, <1>8, <1>9, <1>11, <1>12, <1>13, <1>14, <1>15 DEF BackInv

LEMMA BackKept == ASSUME Frame, BackInv, UNCHANGED job, HouseTurn PROVE BackInv'
  <1>0. second \in 0..MaxSecond /\ second <= second
    BY BackupConstants DEF BackInv, BackTypes
  <1>1. CASE \E r \in Requests : BackupStep(r) /\ Turn(r) /\ UNCHANGED <<hostVars, releaseVars>>
    BY <1>1, DepositMoves, BeginMoves, BackupMoves, RestoreBegins, RestoreMoves DEF BackupStep
  <1>2. CASE \E r \in Requests : (HostStep(r) \/ ReleaseStep(r)) /\ Turn(r) /\ UNCHANGED backupVars
    <2>1. PICK r \in Requests : Op(r) \in HostOps \cup ShipOps /\ Turn(r) /\ UNCHANGED backupVars
      BY <1>2, HostOnly, ShipOnly
    <2>2. \A q \in Requests : Op(q) \in BackupOps => Unmoved(q)
      BY <2>1 DEF Turn, Only, Unmoved, BackupOps, HostOps, ShipOps
    <2> QED
      BY <1>0, <2>1, <2>2, BackRests DEF backupVars, Unmoved
  <1>3. CASE ThreadStep /\ UNCHANGED <<pc, cut, hostVars, releaseVars>>
    <2>1. CASE \E r \in Requests : /\ CopyLive(r) \/ EncryptFile(r) \/ DecryptFile(r) \/ LoadFile(r)
                                   /\ UNCHANGED <<second, path, met>>
      BY <1>3, <2>1, CopyMoves, EncryptMoves, DecryptMoves, LoadMoves
    <2>2. CASE second < MaxSecond /\ second' = second + 1
               /\ UNCHANGED <<live, files, keys, path, thread, copied, loaded, met, torn>>
      <3>1. second' \in 0..MaxSecond /\ second <= second'
        BY <1>0, <2>2, BackupConstants
      <3> QED
        BY <1>3, <2>2, <3>1, BackRests DEF Unmoved
    <2> QED
      BY <1>3, <2>1, <2>2 DEF ThreadStep
  <1>4. CASE (ServiceStep \/ WorkflowStep) /\ UNCHANGED <<pc, cut, backupVars>>
    BY <1>0, <1>4, BackRests DEF backupVars, Unmoved
  <1>5. CASE \E r \in Requests : Cut(r) /\ UNCHANGED house
    <2>1. PICK r \in Requests : Cut(r) /\ UNCHANGED backupVars
      BY <1>5 DEF house
    <2>2. \A q \in Requests : \/ Unmoved(q)
                              \/ Running(q) /\ pc'[q] = "504" /\ cut'[q] = pc[q]
      BY <2>1 DEF Cut, Unmoved, Frame, Placed
    <2> QED
      BY <1>0, <2>1, <2>2, BackRests DEF backupVars, Unmoved
  <1>6. CASE Fallen /\ BackupCrash
    <2>1. \A q \in Requests : \/ Unmoved(q)
                              \/ Running(q) /\ pc'[q] = "lost" /\ cut'[q] = pc[q]
      BY <1>6 DEF Fallen, Unmoved
    <2>2. \A q \in Requests : pc'[q] = IF Running(q) THEN "lost" ELSE pc[q]
      BY <1>6 DEF Fallen
    <2>3. \A q \in Requests : ~Running(q)'
      BY <2>2 DEF Running, Terminal
    <2> QED
      BY <1>0, <1>6, <2>1, <2>3, BackRests DEF BackupCrash
  <1>7. CASE UNCHANGED house /\ \A q \in Requests : Op(q) \in HouseOps => Unmoved(q)
    BY <1>0, <1>7, BackRests DEF house, backupVars, HouseOps, Unmoved
  <1> QED
    BY <1>1, <1>2, <1>3, <1>4, <1>5, <1>6, <1>7 DEF HouseTurn

LEMMA BackMeans == ASSUME Frame, BackInv PROVE BackupsRight
  <1>1. BackupsRestore
    <2>1. \A r \in Requests : Op(r) = "restore" => Source(r) = job[r].of
      BY DEF Source
    <2> QED
      BY <2>1, Sources DEF BackInv, Stored, Restored, BackupsRestore, Backing, Restoring, Begun
  <1>2. LiveWhole
    BY DEF BackInv, Kept, Unmixed, Has, Restoring, Source, Whole, Halved, LiveWhole
  <1>3. LaterDepositsStay
    BY DEF BackInv, Later, Follows, Excused, Restoring, LaterDepositsStay
  <1> QED
    BY <1>1, <1>2, <1>3 DEF BackupsRight

\* What a backup answered for is what its restore loads, the database under it
\* stays whole, and a later deposit stays in it, whatever else is sent, at every
\* pace of the threads and whenever the process dies (_backup_database and
\* _restore_database of gateway/src/tools/infrastructure.py).
THEOREM BackupsAlwaysRight == Spec => []BackupsRight
  <1> DEFINE Inv == Frame /\ BackInv
  <1>1. Init => Inv
    BY FrameStart, BackStart
  <1>2. Inv /\ [Next]_vars => Inv'
    BY ProcessTurns, HouseTurns, FrameKept, BackKept
  <1>3. Inv => BackupsRight
    BY BackMeans
  <1> QED
    BY <1>1, <1>2, <1>3, PTL DEF Spec

-----------------------------------------------------------------------------
(***************************************************************************)
(* Upgrades.  A database and its shadow copy have the rows that were booked*)
(* in time, and in the unit of their version; a script that no other one   *)
(* overlaps works on the release that is installed, and moves no copy of   *)
(* the checked database under a service that runs; and the service comes   *)
(* back from what is left to be done.                                      *)
(***************************************************************************)
Known == DOMAIN Expects
Bookings == [by : Requests, small : BOOLEAN, real : BOOLEAN, off : BOOLEAN]
Stores == [there : BOOLEAN, version : Nat, rows : SUBSET Bookings]
Todos == {Managed, <<"paywall">>, <<>>}
Scripts == [listed : Known \cup {NoRelease}, todo : Todos, failed : BOOLEAN, stopped : BOOLEAN,
            rolling : BOOLEAN, backup : Known \cup {NoRelease}]
HostTypes ==
    /\ installed \in Known \cup {NoRelease} /\ enabled \in BOOLEAN
    /\ service \in {"stopped", "starting", "stamping", "active"}
    /\ dbs \in [Databases -> Stores] /\ shadow \in [Databases -> Stores]
    /\ unlinked \in [Databases -> Stores]
    /\ script \in [Requests -> Scripts]

HostPlaces == \A r \in Requests :
    /\ Op(r) = "book" => pc[r] \in {"new"} \cup Terminal
    /\ Op(r) = "migrate" => pc[r] \in {"new", "next", "shadow", "swap", "move"} \cup Terminal
    /\ Deploying(r) => pc[r] \in {"new", "install", "next", "shadow", "swap", "move", "rollback", "verify"} \cup Terminal
    /\ Scripted(r) /\ pc[r] \in {"new", "install"} => ~script[r].stopped
    /\ InScript(r) => script[r].listed \in Known /\ installed \in Known
    /\ InScript(r) /\ pc[r] # "next" => script[r].todo # <<>>
    /\ Deploying(r) /\ pc[r] = "rollback" => script[r].backup \in Known /\ ~script[r].rolling

\* Without a release there is no service, and no database.
HostBare ==
    /\ service \in {"starting", "stamping", "active"} \/ enabled => installed \in Known
    /\ service \in {"stamping", "active"} => \A p \in Databases : dbs[p].there
    /\ \A p \in Databases : (~dbs[p].there => dbs[p].rows = {}) /\ (~shadow[p].there => shadow[p].rows = {})

\* A row is in the database, and in a copy that is to replace it.
Midway(r) == InScript(r) /\ pc[r] # "next"
Holding(rows, q) == \E row \in rows : row.by = q
RowsThere ==
    /\ \A q \in Requests : Op(q) = "book" /\ pc[q] = "done" =>
          q \in late \/ Holding(dbs[job[q].product].rows, q)
    /\ \A r \in Requests : Midway(r) /\ shadow[Product(r)].there =>
          \A q \in Requests \ late : Holding(dbs[Product(r)].rows, q) => Holding(shadow[Product(r)].rows, q)

\* What is not converted yet is a REAL, unless its release was ahead.
Sound(db) == \A row \in db.rows :
    /\ db.version < Conversion => row.real \/ row.by \in behind
    /\ row.off => row.by \in behind
RowsSound == \A p \in Databases : Sound(dbs[p]) /\ Sound(shadow[p])

\* Of the checked database, when no scripts overlap.
Alike(db) == \A row \in db.rows : row.real <=> db.version < Conversion
\* While its copy is made the service does not start on it, or was about to
\* stamp it; it is down when the copy takes its place.
Copying == \A r \in Requests : Midway(r) /\ Product(r) = "billing" =>
    /\ dbs["billing"].there
    /\ IsRunning \/ service = "stopped" \/ dbs["billing"].version < Expected("billing")
    /\ pc[r] = "move" => ~IsRunning
OneScript == collided = {} =>
    /\ \A r, q \in Requests : InScript(r) /\ InScript(q) => r = q
    /\ \A r \in Requests : InScript(r) =>
          /\ script[r].listed = installed
          /\ script[r].stopped => service = "stopped"
    /\ Copying /\ ~unlinked["billing"].there
    /\ Alike(dbs["billing"]) /\ Alike(shadow["billing"])
    /\ service = "active" => dbs["billing"].version = Expected("billing")
    /\ service = "stamping" => dbs["billing"].rows = {}

\* The service returns, when nothing has been cut off either.
Untouched == /\ collided = {} /\ broken = {} /\ unstamped \cap Checked = {}
             /\ \A r \in Requests : Scripted(r) => cut[r] = "never"
Ready == ~dbs["billing"].there \/ dbs["billing"].version >= Expected("billing")
Deployed == \E r \in Requests : Deploying(r) /\ (InScript(r) \/ pc[r] = "rollback")
Returning == Untouched =>
    /\ \A r \in Requests : InScript(r) =>
          /\ pc[r] \in {"shadow", "swap", "move"} => shadow[Product(r)].there
          /\ pc[r] \in {"swap", "move"} => shadow[Product(r)].version >= Expected(Product(r))
          /\ Deploying(r) => /\ service = "stopped"
                             /\ script[r].todo # Managed /\ ~script[r].failed => Ready
    /\ installed \in Known /\ ~Deployed =>
          /\ enabled /\ (service = "stamping" \/ Ready)
          /\ \/ service # "stopped"
             \/ \E r \in Requests : Op(r) = "migrate" /\ InScript(r) /\ script[r].stopped

HostInv == HostTypes /\ HostPlaces /\ HostBare /\ RowsThere /\ RowsSound /\ OneScript /\ Returning

\* The products that are left.
LEMMA ProductsLeft ==
    /\ Managed \in Todos /\ <<>> \in Todos /\ Managed # <<>>
    /\ \A left \in Todos \ {<<>>} :
          /\ Head(left) \in Databases /\ Tail(left) \in Todos /\ Tail(left) # Managed
          /\ left # Managed => Head(left) # "billing"
  <1>1. Managed = <<"billing", "paywall">> /\ Head(Managed) = "billing" /\ Tail(Managed) = <<"paywall">>
    BY DEF Managed
  <1>2. Head(<<"paywall">>) = "paywall" /\ Tail(<<"paywall">>) = <<>>
    OBVIOUS
  <1>3. Managed # <<>> /\ Managed # <<"paywall">>
    BY DEF Managed
  <1> QED
    BY <1>1, <1>2, <1>3 DEF Todos, Databases

LEMMA HostStart == ASSUME Init, Frame PROVE HostInv
  <1> USE HostConstants DEF Init, HostInit, NoDb, NoScript, Known
  <1>0. /\ \A r \in Requests : /\ pc[r] \in {"new", "done"} /\ (Op(r) # "idle" => pc[r] = "new")
                               /\ ~InScript(r)
        /\ FreshHost \in BOOLEAN
    BY DEF TaskInit, InScript, FreshHost
  <1>1. HostTypes
    <2>1. /\ dbs \in [Databases -> Stores] /\ shadow \in [Databases -> Stores]
          /\ unlinked \in [Databases -> Stores]
      BY DEF Stores, Bookings, Databases
    <2>2. script \in [Requests -> Scripts]
      BY ProductsLeft DEF Scripts
    <2> QED
      BY <1>0, <2>1, <2>2 DEF HostTypes
  <1>2. HostPlaces
    BY <1>0 DEF HostPlaces, Deploying, Scripted, Terminal
  <1>3. HostBare
    BY DEF HostBare
  <1>4. RowsThere /\ RowsSound
    BY <1>0 DEF RowsThere, Midway, RowsSound, Sound
  <1>5. OneScript
    BY <1>0 DEF OneScript, Copying, Midway, Alike, Databases, Expected
  <1>6. Returning
    <2>1. ~FreshHost => Ready
      BY DEF Ready, Databases, Expected
    <2> QED
      BY <1>0, <2>1 DEF Returning
  <1> QED
    BY <1>1, <1>2, <1>3, <1>4, <1>5, <1>6 DEF HostInv

\* Who works here is cut off, at most: a script that is leaves it untidy.
LEMMA HostRests ==
    ASSUME Frame, HostInv, UNCHANGED <<job, hostVars>>,
           \A q \in Requests : Op(q) \in HostOps =>
              \/ Unmoved(q)
              \/ Running(q) /\ pc'[q] \in {"504", "lost"} /\ cut'[q] = pc[q]
    PROVE  HostInv'
  <1> USE DEF hostVars
  <1>0. \A q \in Requests : /\ Op(q)' = Op(q) /\ (Deploying(q)' <=> Deploying(q))
                            /\ (Scripted(q)' <=> Scripted(q))
                            /\ (Op(q) = "book" \/ Deploying(q) \/ Scripted(q) => Op(q) \in HostOps)
    BY DEF Op, Deploying, Scripted, HostOps
  <1>1. \A q \in Requests : Op(q) \in HostOps =>
           /\ pc'[q] \notin {"504", "lost"} => pc'[q] = pc[q]
           /\ pc'[q] = pc[q] \/ pc'[q] \in {"504", "lost"}
    BY DEF Unmoved
  <1>2. \A q \in Requests : /\ InScript(q)' => InScript(q) /\ pc'[q] = pc[q]
                            /\ Product(q)' = Product(q)
    BY <1>0, <1>1 DEF InScript, Product
  <1>3. HostTypes'
    BY DEF HostInv, HostTypes, Known, Stores, Bookings, Scripts
  <1>4. HostPlaces'
    <2>1. ASSUME NEW r \in Requests
          PROVE  /\ Op(r) = "book" => pc'[r] \in {"new"} \cup Terminal
                 /\ Op(r) = "migrate" => pc'[r] \in {"new", "next", "shadow", "swap", "move"} \cup Terminal
                 /\ Deploying(r) => pc'[r] \in {"new", "install", "next", "shadow", "swap", "move", "rollback",
                                                "verify"} \cup Terminal
      BY <1>0, <1>1 DEF HostInv, HostPlaces, Terminal, HostOps
    <2>2. ASSUME NEW r \in Requests
          PROVE  /\ Scripted(r) /\ pc'[r] \in {"new", "install"} => ~script[r].stopped
                 /\ Deploying(r) /\ pc'[r] = "rollback" => script[r].backup \in Known /\ ~script[r].rolling
      BY <1>0, <1>1 DEF HostInv, HostPlaces
    <2>3. ASSUME NEW r \in Requests, InScript(r)'
          PROVE  script[r].listed \in Known /\ installed \in Known /\ (pc'[r] # "next" => script[r].todo # <<>>)
      BY <1>2, <2>3 DEF HostInv, HostPlaces
    <2> QED
      BY <1>0, <2>1, <2>2, <2>3 DEF HostPlaces, Known
  <1>5. HostBare'
    BY DEF HostInv, HostBare, Known
  <1>6. RowsThere'
    BY <1>0, <1>1, <1>2 DEF HostInv, RowsThere, Midway, Holding
  <1>7. RowsSound'
    BY DEF HostInv, RowsSound, Sound
  <1>8. OneScript'
    <2>1. Copying => Copying'
      BY <1>2 DEF Copying, Midway, IsRunning, Expected
    <2> QED
      BY <1>2, <2>1 DEF HostInv, OneScript, Alike, Expected
  <1>9. Untouched' => Untouched /\ \A q \in Requests : Scripted(q) => pc'[q] = pc[q]
    <2>1. ASSUME NEW q \in Requests, Scripted(q), cut'[q] = "never" PROVE Unmoved(q)
      BY <1>0, <2>1 DEF HostInv, HostPlaces, Deploying, Scripted, Running, Terminal
    <2> QED
      BY <1>0, <2>1 DEF Untouched, Unmoved
  <1>10. Returning'
    <2>1. ASSUME Untouched', NEW q \in Requests PROVE /\ InScript(q)' <=> InScript(q)
                                                      /\ Scripted(q) => pc'[q] = pc[q]
      BY <1>0, <1>9, <2>1 DEF InScript
    <2>2. Untouched' => (Deployed' <=> Deployed)
      BY <1>0, <2>1 DEF Deployed, Scripted, Deploying
    <2>3. Ready' <=> Ready
      BY DEF Ready, Expected
    <2> QED
      BY <1>0, <1>2, <1>9, <2>1, <2>2, <2>3 DEF HostInv, Returning, Known, Expected
  <1> QED
    BY <1>3, <1>4, <1>5, <1>6, <1>7, <1>8, <1>10 DEF HostInv

\* The service starts, or a fresh database gets a version.
LEMMA ServiceMoves ==
    ASSUME Frame, HostInv, UNCHANGED <<job, pc, cut>>, ServiceStep
    PROVE  HostInv'
  <1> USE HostConstants
  <1>0. /\ UNCHANGED <<installed, enabled, shadow, script, late, behind, unstamped, broken, collided>>
        /\ \A q \in Requests : /\ Op(q)' = Op(q) /\ (Deploying(q)' <=> Deploying(q)) /\ (Scripted(q)' <=> Scripted(q))
                               /\ (InScript(q)' <=> InScript(q)) /\ Product(q)' = Product(q)
    BY DEF ServiceStep, ServiceStarts, StampVersion, Op, Deploying, Scripted, InScript, Product
  <1>1. /\ service \in {"starting", "stamping"} /\ service' \in {"stamping", "active"} /\ installed \in Known
        /\ service = "stamping" => \A p \in Databases : dbs[p].there
    BY DEF ServiceStep, ServiceStarts, StampVersion, HostInv, HostBare
  <1>2. Expected("billing") \in Nat /\ Expected("billing") > 0 /\ Expected("billing")' = Expected("billing")
    BY <1>0, <1>1 DEF Expected, Known, Databases
  <1>3. /\ dbs' \in [Databases -> Stores] /\ unlinked' \in [Databases -> Stores]
        /\ \A p \in Databases : unlinked'[p].there = unlinked[p].there
        /\ \A p \in Databases : /\ dbs'[p].there
                                /\ dbs[p].there \/ service = "stamping" => dbs'[p].rows = dbs[p].rows /\ dbs'[p].version >= dbs[p].version
                                /\ ~dbs[p].there => dbs'[p].rows = {}
    <2>1. CASE ServiceStarts
      <3>1. [NoDb EXCEPT !.there = TRUE] \in Stores /\ [NoDb EXCEPT !.there = TRUE].rows = {} /\ [NoDb EXCEPT !.there = TRUE].there
        BY DEF NoDb, Stores
      <3>2. \A p \in Databases : dbs[p].version >= dbs[p].version
        BY DEF HostInv, HostTypes, Stores
      <3> QED
        BY <2>1, <3>1, <3>2 DEF ServiceStarts, HostInv, HostTypes
    <2>2. CASE StampVersion
      <3>0. PICK p \in Checked : Store(p, [OpenFile(p) EXCEPT !.version = @ + 1])
        BY <2>2 DEF StampVersion
      <3>1. p \in Databases /\ dbs \in [Databases -> Stores] /\ unlinked \in [Databases -> Stores]
        BY DEF Checked, Databases, HostInv, HostTypes
      <3> DEFINE old == OpenFile(p)
                 new == [old EXCEPT !.version = @ + 1]
      <3>2. old \in Stores
        BY <3>1 DEF OpenFile
      <3>3. /\ new \in Stores /\ new.there = old.there /\ new.rows = old.rows
            /\ new.version = old.version + 1 /\ new.version >= old.version
        BY <3>2 DEF Stores
      <3>4. /\ unlinked[p].there => unlinked' = [unlinked EXCEPT ![p] = new] /\ dbs' = dbs /\ old = unlinked[p]
            /\ ~unlinked[p].there => dbs' = [dbs EXCEPT ![p] = new] /\ unlinked' = unlinked /\ old = dbs[p]
        BY <3>0 DEF Store, OpenFile
      <3> HIDE DEF old, new
      <3>5. \A d \in Databases : dbs[d].version \in Nat /\ dbs[d].version >= dbs[d].version
        BY <3>1 DEF Stores
      <3>6. CASE unlinked[p].there
        BY <1>1, <2>2, <3>1, <3>3, <3>4, <3>5, <3>6 DEF StampVersion
      <3>7. CASE ~unlinked[p].there
        BY <1>1, <2>2, <3>1, <3>3, <3>4, <3>5, <3>7 DEF StampVersion
      <3> QED
        BY <3>6, <3>7
    <2> QED
      BY <2>1, <2>2 DEF ServiceStep
  <1>4. /\ service' = "active" /\ ~unlinked["billing"].there => dbs'["billing"].version = Expected("billing")
        /\ service' = "stamping" => service = "stamping" \/ ~dbs["billing"].there
    <2>1. ASSUME ServiceStarts PROVE /\ service' = "active" => dbs'["billing"] = dbs["billing"] /\ Agrees("billing")
                                                               /\ dbs["billing"].there
                                     /\ service' = "stamping" => ~dbs["billing"].there
      BY <2>1 DEF ServiceStarts, Checked, Databases
    <2>2. ASSUME StampVersion PROVE /\ service = "stamping"
                                    /\ service' = "active" => OpenFile("billing")'.version = Expected("billing")'
      BY <1>2, <2>2 DEF StampVersion, Checked, OpenFile
    <2>3. ~unlinked["billing"].there => OpenFile("billing")' = dbs'["billing"]
      BY <1>3 DEF OpenFile, Databases
    <2> QED
      BY <1>2, <2>1, <2>2, <2>3 DEF ServiceStep, Agrees
  <1>5. \A p \in Databases : dbs[p].rows = {} \/ (dbs'[p].rows = dbs[p].rows /\ dbs'[p].version >= dbs[p].version)
    BY <1>3 DEF HostInv, HostBare
  <1>6. HostTypes'
    BY <1>0, <1>1, <1>3 DEF HostInv, HostTypes, Known, Stores, Bookings, Scripts
  <1>7. HostPlaces'
    BY <1>0 DEF HostInv, HostPlaces, Known
  <1>8. HostBare'
    BY <1>0, <1>1, <1>3 DEF HostInv, HostBare, Known
  <1>9. \A p \in Databases : dbs'[p].rows = dbs[p].rows
    BY <1>3, <1>5 DEF HostInv, HostBare
  <1>10. RowsThere'
    <2>1. \A q \in Requests : Op(q) = "book" => job[q].product \in Databases
      BY DEF Frame, Op
    <2>2. \A q \in Requests : Midway(q) => Product(q) \in Databases
      BY ProductsLeft DEF Midway, HostInv, HostPlaces, HostTypes, Scripts, Product
    <2> QED
      BY <1>0, <1>9, <2>1, <2>2 DEF HostInv, RowsThere, Midway, Holding
  <1>11. RowsSound'
    <2>1. ASSUME NEW p \in Databases PROVE Sound(dbs[p])' /\ Sound(shadow[p])'
      <3>1. Sound(shadow[p])'
        BY <1>0 DEF HostInv, RowsSound, Sound
      <3>2. dbs[p].version \in Nat /\ dbs'[p].version \in Nat
        BY <1>3 DEF HostInv, HostTypes, Stores
      <3> QED
        BY <1>0, <1>5, <1>9, <3>1, <3>2 DEF HostInv, RowsSound, Sound, Conversion
    <2> QED
      BY <2>1 DEF RowsSound
  <1>12. OneScript'
    <2>1. Alike(shadow["billing"])' <=> Alike(shadow["billing"])
      BY <1>0 DEF Alike
    <2>2. collided = {} => Alike(dbs["billing"])'
      <3>1. dbs["billing"].rows = {} => Alike(dbs["billing"])'
        BY <1>9 DEF Alike, Databases
      <3>2. service = "stamping" /\ collided = {} => dbs["billing"].rows = {}
        BY DEF HostInv, OneScript
      <3>3. ServiceStarts /\ dbs["billing"].there => dbs'["billing"] = dbs["billing"]
        BY DEF ServiceStarts, Databases
      <3>4. ~dbs["billing"].there => dbs["billing"].rows = {}
        BY DEF HostInv, HostBare, Databases
      <3> QED
        BY <3>1, <3>2, <3>3, <3>4 DEF HostInv, OneScript, Alike, ServiceStep, StampVersion
    <2>3. collided = {} /\ service' = "stamping" => dbs'["billing"].rows = {}
      BY <1>4, <1>9 DEF HostInv, OneScript, HostBare, Databases
    <2>4. collided = {} => \A q \in Requests : InScript(q) => ~script[q].stopped
      BY <1>1 DEF HostInv, OneScript
    <2>5. collided = {} => Copying'
      <3> SUFFICES ASSUME collided = {}, NEW q \in Requests, Midway(q), Product(q) = "billing"
                   PROVE  dbs'["billing"].there /\ IsRunning' /\ pc[q] # "move"
        BY <1>0, <1>1 DEF Copying, Midway, IsRunning
      <3>1. Copying
        BY DEF HostInv, OneScript
      <3>2. ~ServiceStarts
        <4>1. ServiceStarts => service = "starting" /\ Agrees("billing")
          BY DEF ServiceStarts, Checked
        <4>2. service = "starting" => dbs["billing"].there /\ dbs["billing"].version < Expected("billing")
          BY <3>1 DEF Copying, IsRunning
        <4>3. dbs["billing"].version \in Nat
          BY DEF HostInv, HostTypes, Stores, Databases
        <4> QED
          BY <1>2, <4>1, <4>2, <4>3 DEF Agrees
      <3>3. service = "stamping"
        BY <3>2 DEF ServiceStep, StampVersion
      <3> QED
        BY <1>1, <1>3, <3>1, <3>3 DEF Copying, IsRunning, Databases
    <2>6. unlinked'["billing"].there = unlinked["billing"].there
      BY <1>3 DEF Databases
    <2> QED
      BY <1>0, <1>2, <1>4, <2>1, <2>2, <2>3, <2>4, <2>5, <2>6 DEF HostInv, OneScript
  <1>13. Returning'
    <2>1. Untouched' <=> Untouched
      BY <1>0 DEF Untouched
    <2>2. Deployed' <=> Deployed
      BY <1>0 DEF Deployed
    <2>3. Untouched => \A r \in Requests : InScript(r) => ~script[r].stopped /\ ~Deploying(r)
      BY <1>1 DEF HostInv, OneScript, Returning, Untouched
    <2>4. Untouched => service' = "stamping" \/ Ready'
      BY <1>0, <1>1, <1>2, <1>4 DEF Ready, HostInv, OneScript, Untouched
    <2> QED
      BY <1>0, <1>1, <2>1, <2>2, <2>3, <2>4 DEF HostInv, Returning, Known, Expected
  <1> QED
    BY <1>6, <1>7, <1>8, <1>10, <1>11, <1>12, <1>13 DEF HostInv

\* Who does not move stays in its script; and who is in one has a product.
LEMMA HostAround ==
    ASSUME Frame, HostInv, NEW r \in Requests, Turn(r), UNCHANGED job
    PROVE  /\ \A q \in Requests : /\ Op(q)' = Op(q) /\ (Deploying(q)' <=> Deploying(q))
                                  /\ (Scripted(q)' <=> Scripted(q)) /\ cut'[q] = cut[q]
                                  /\ ~(Deploying(q) /\ Op(q) = "migrate")
                                  /\ (Scripted(q) <=> Deploying(q) \/ Op(q) = "migrate")
                                  /\ (Op(q) = "book" => ~Scripted(q) /\ job[q].product \in Databases /\ job[q].small \in BOOLEAN)
           /\ \A q \in Requests \ {r} : pc'[q] = pc[q] /\ (InScript(q)' <=> InScript(q))
           /\ \A q \in Requests : /\ InScript(q) => Scripted(q)
                                  /\ Midway(q) => InScript(q) /\ Product(q) \in Databases
  <1>1. \A q \in Requests : /\ Op(q)' = Op(q) /\ (Deploying(q)' <=> Deploying(q)) /\ (Scripted(q)' <=> Scripted(q))
                            /\ cut'[q] = cut[q]
    BY DEF Op, Deploying, Scripted, Turn
  <1>2. \A q \in Requests \ {r} : pc'[q] = pc[q]
    BY DEF Turn, Only
  <1>3. \A q \in Requests : Midway(q) => Product(q) \in Databases
    BY ProductsLeft DEF Midway, HostInv, HostPlaces, HostTypes, Scripts, Product
  <1> QED
    BY <1>1, <1>2, <1>3, HostConstants DEF Frame, Op, InScript, Midway, Scripted, Deploying

LEMMA BookMoves ==
    ASSUME Frame, HostInv, NEW r \in Requests, Turn(r), UNCHANGED job, BookRow(r)
    PROVE  HostInv'
  <1> DEFINE p == job[r].product
             row == [by |-> r, small |-> job[r].small, real |-> Expected(p) < Conversion, off |-> FALSE]
  <1>0. /\ \A q \in Requests : /\ Op(q)' = Op(q) /\ (Deploying(q)' <=> Deploying(q)) /\ (Scripted(q)' <=> Scripted(q))
                               /\ (InScript(q)' <=> InScript(q)) /\ cut'[q] = cut[q] /\ (Scripted(q) => pc'[q] = pc[q])
                               /\ (Deploying(q) => Scripted(q)) /\ (InScript(q) => Scripted(q))
                               /\ (q # r => pc'[q] = pc[q]) /\ (Midway(q) => InScript(q) /\ Product(q) \in Databases)
        /\ Op(r) = "book" /\ ~Scripted(r) /\ p \in Databases /\ job[r].small \in BOOLEAN
    BY HostAround DEF BookRow, At, InScript
  <1> DEFINE old == OpenFile(p)
             new == [old EXCEPT !.rows = @ \cup {row}]
  <1>1. /\ UNCHANGED <<installed, enabled, service, shadow, script, unstamped, broken, collided>>
        /\ pc[r] = "new" /\ pc'[r] \in {"done", "error"}
        /\ \/ pc'[r] = "error" /\ UNCHANGED <<dbs, unlinked, late, behind>>
           \/ /\ pc'[r] = "done" /\ service = "active"
              /\ Store(p, new)
              /\ late \subseteq late' /\ late' \subseteq late \cup {r}
              /\ unlinked[p].there \/ (\E q \in Requests : Midway(q) /\ Product(q) = p) => r \in late'
              /\ behind \subseteq behind' /\ (old.version < Expected(p) => r \in behind')
    BY DEF BookRow, At, Go, Frame, Placed, Midway
  <1>2. service = "active" => /\ installed \in Known /\ Expected(p) \in Nat /\ row \in Bookings
                              /\ \A d \in Databases : dbs[d].there
    BY <1>0, HostConstants DEF HostInv, HostBare, Expected, Known, Bookings
  <1> HIDE DEF row
  <1>3. /\ dbs' \in [Databases -> Stores] /\ unlinked' \in [Databases -> Stores]
        /\ \A d \in Databases : /\ dbs'[d].there = dbs[d].there /\ dbs'[d].version = dbs[d].version
                                /\ unlinked'[d].there = unlinked[d].there
                                /\ d # p \/ pc'[r] = "error" => dbs'[d].rows = dbs[d].rows
        /\ pc'[r] = "done" => \/ dbs'[p].rows = dbs[p].rows \cup {row} /\ old = dbs[p]
                              \/ dbs' = dbs /\ r \in late'
    <2>0. dbs \in [Databases -> Stores] /\ unlinked \in [Databases -> Stores] /\ old \in Stores
      BY <1>0 DEF HostInv, HostTypes, OpenFile
    <2>1. CASE pc'[r] = "error"
      BY <1>1, <2>0, <2>1
    <2>2. CASE pc'[r] = "done"
      <3>1. new \in Stores /\ new.there = old.there /\ new.version = old.version /\ new.rows = old.rows \cup {row}
        BY <1>1, <1>2, <2>0, <2>2 DEF Stores
      <3>2. /\ unlinked[p].there => unlinked' = [unlinked EXCEPT ![p] = new] /\ dbs' = dbs /\ old = unlinked[p]
            /\ ~unlinked[p].there => dbs' = [dbs EXCEPT ![p] = new] /\ unlinked' = unlinked /\ old = dbs[p]
        BY <1>1, <2>2 DEF Store, OpenFile
      <3> HIDE DEF old, new
      <3>3. CASE unlinked[p].there
        BY <1>0, <1>1, <2>0, <2>2, <3>1, <3>2, <3>3
      <3>4. CASE ~unlinked[p].there
        BY <1>0, <1>1, <2>0, <2>2, <3>1, <3>2, <3>4
      <3> QED
        BY <3>3, <3>4
    <2> QED
      BY <1>1, <2>1, <2>2
  <1> HIDE DEF old, new
  <1>4. row.by = r /\ row.real = (Expected(p) < Conversion) /\ row.off = FALSE
    BY DEF row
  <1>5. HostTypes'
    BY <1>1, <1>3 DEF HostInv, HostTypes, Known, Stores, Bookings, Scripts
  <1>6. HostPlaces'
    BY <1>0, <1>1 DEF HostInv, HostPlaces, Known, Terminal, Deploying
  <1>7. HostBare'
    BY <1>0, <1>1, <1>2, <1>3 DEF HostInv, HostBare, Known
  <1>8. \A d \in Databases, q \in Requests : Holding(dbs[d].rows, q) => Holding(dbs'[d].rows, q)
    BY <1>1, <1>3 DEF Holding
  <1>9. \A d \in Databases, q \in Requests :
           Holding(dbs'[d].rows, q) => Holding(dbs[d].rows, q) \/ (q = r /\ d = p /\ pc'[r] = "done")
    BY <1>1, <1>3, <1>4 DEF Holding
  <1>10. RowsThere'
    <2>1. ASSUME NEW q \in Requests, Op(q) = "book", pc'[q] = "done"
          PROVE  q \in late' \/ Holding(dbs'[job[q].product].rows, q)
      <3>1. job[q].product \in Databases
        BY <2>1, HostAround
      <3> QED
        BY <1>0, <1>1, <1>3, <1>4, <1>8, <2>1, <3>1 DEF HostInv, RowsThere, Holding
    <2>2. ASSUME NEW s \in Requests, Midway(s), shadow[Product(s)].there,
                 NEW q \in Requests \ late', Holding(dbs'[Product(s)].rows, q)
          PROVE  Holding(shadow[Product(s)].rows, q)
      <3>1. Product(s) \in Databases
        BY <1>0, <2>2
      <3>2. q \notin late
        BY <1>1, <2>2
      <3>3. ~(q = r /\ Product(s) = p /\ pc'[r] = "done")
        BY <1>1, <2>2
      <3> QED
        BY <1>9, <2>2, <3>1, <3>2, <3>3 DEF HostInv, RowsThere
    <2>3. \A s \in Requests : Midway(s)' => Midway(s) /\ Product(s)' = Product(s)
      BY <1>0, <1>1 DEF Midway, Product
    <2> QED
      BY <1>0, <1>1, <2>1, <2>2, <2>3 DEF RowsThere, Holding
  <1>11. RowsSound'
    <2>1. \A d \in Databases : Sound(shadow[d])'
      BY <1>1 DEF HostInv, RowsSound, Sound
    <2>2. \A d \in Databases : dbs[d].version \in Nat /\ Sound(dbs[d])
      BY DEF HostInv, RowsSound, HostTypes, Stores
    <2>3. ASSUME NEW d \in Databases, NEW x \in dbs'[d].rows
          PROVE  (dbs'[d].version < Conversion => x.real \/ x.by \in behind') /\ (x.off => x.by \in behind')
      <3>1. CASE x \in dbs[d].rows
        BY <1>1, <1>3, <2>2, <3>1 DEF Sound
      <3>2. CASE x = row /\ d = p /\ pc'[r] = "done" /\ old = dbs[p]
        <4>1. ~x.off /\ x.by = r /\ (Expected(p) < Conversion => x.real)
          BY <1>4, <3>2
        <4>2. dbs[p].version \in Nat /\ Expected(p) \in Nat /\ dbs'[p].version = dbs[p].version
          BY <1>0, <1>1, <1>2, <1>3, <2>2, <3>2
        <4>3. dbs[p].version < Expected(p) => r \in behind'
          BY <1>1, <3>2
        <4> QED
          BY <3>2, <4>1, <4>2, <4>3 DEF Conversion
      <3> QED
        BY <1>1, <1>3, <2>3, <3>1, <3>2
    <2> QED
      BY <2>1, <2>3 DEF RowsSound, Sound
  <1>12. OneScript'
    <2>1. Alike(shadow["billing"])' <=> Alike(shadow["billing"])
      BY <1>1 DEF Alike
    <2>2. collided = {} => Alike(dbs["billing"])'
      <3>1. collided = {} /\ service = "active" => dbs["billing"].version = Expected("billing")
        BY DEF HostInv, OneScript
      <3> QED
        BY <1>1, <1>3, <1>4, <3>1 DEF HostInv, OneScript, Alike, Databases
    <2>3. service = "stamping" => dbs'["billing"].rows = dbs["billing"].rows
      BY <1>1, <1>3 DEF Databases
    <2>4. \A q \in Requests : Product(q)' = Product(q) /\ (Midway(q)' => Midway(q) /\ pc'[q] = pc[q])
      BY <1>0, <1>1 DEF Midway, Product
    <2>5. Copying => Copying'
      BY <1>1, <1>3, <2>4 DEF Copying, IsRunning, Expected, Databases
    <2> QED
      BY <1>0, <1>1, <1>3, <2>1, <2>2, <2>3, <2>5 DEF HostInv, OneScript, Expected, Databases
  <1>13. Returning'
    <2>1. Untouched' <=> Untouched
      BY <1>0, <1>1 DEF Untouched
    <2>2. Deployed' <=> Deployed
      BY <1>0, <1>1 DEF Deployed
    <2>3. Ready' <=> Ready
      BY <1>1, <1>3 DEF Ready, Expected, Databases
    <2>4. \A q \in Requests : Product(q)' = Product(q)
      BY <1>1 DEF Product
    <2> QED
      BY <1>0, <1>1, <2>1, <2>2, <2>3, <2>4 DEF HostInv, Returning, Known, Expected
  <1> QED
    BY <1>5, <1>6, <1>7, <1>10, <1>11, <1>12, <1>13 DEF HostInv

\* A conversion loses no row, and spoils none that is a REAL.
LEMMA Migrates ==
    ASSUME NEW db \in Stores, NEW version \in Nat
    PROVE  /\ Migrated(db, version) \in Stores /\ Migrated(db, version).there = db.there
           /\ Migrated(db, version).version >= version
           /\ \A q \in Requests : Holding(db.rows, q) => Holding(Migrated(db, version).rows, q)
           /\ Sound(db) => Sound(Migrated(db, version))
           /\ Alike(db) => Alike(Migrated(db, version))
           /\ db.rows = {} => Migrated(db, version).rows = {}
  <1> DEFINE m == Migrated(db, version)
             turns == db.version < Conversion /\ Conversion <= version
  <1>1. db.version \in Nat /\ db.rows \subseteq Bookings /\ db.there \in BOOLEAN
    BY DEF Stores
  <1>2. /\ m.there = db.there
        /\ m.version = IF db.version < version THEN version ELSE db.version
        /\ m.rows = IF turns THEN {Converted(row) : row \in db.rows} ELSE db.rows
    BY DEF Migrated, Stores
  <1>3. \A row \in Bookings :
           /\ Converted(row) \in Bookings /\ Converted(row).by = row.by 
           /\ row.real => Converted(row).off = row.off
    BY DEF Converted, Bookings
  <1>4. \A row \in Bookings : Converted(row) \in Bookings /\ Converted(row).by = row.by /\ ~Converted(row).real
    BY DEF Converted, Bookings
  <1>5. m.rows \subseteq Bookings /\ m.version \in Nat /\ m.version >= version /\ m.version >= db.version
    BY <1>1, <1>2, <1>4
  <1>6. m \in Stores
    <2>1. m = [db EXCEPT !.version = m.version, !.rows = m.rows]
      BY <1>2 DEF Migrated, Stores
    <2> QED
      BY <1>5, <2>1 DEF Stores
  <1>7. m.version < Conversion => ~turns
    BY <1>1, <1>2 DEF Conversion
  <1>8. ~turns => (m.version < Conversion <=> db.version < Conversion)
    BY <1>1, <1>2 DEF Conversion
  <1>9. turns => db.version < Conversion /\ ~(m.version < Conversion)
    BY <1>1, <1>2 DEF Conversion
  <1> HIDE DEF m, turns
  <1>10. \A q \in Requests : Holding(db.rows, q) => Holding(m.rows, q)
    BY <1>1, <1>2, <1>4 DEF Holding
  <1>11. Sound(db) => Sound(m)
    <2>1. CASE turns
      BY <1>1, <1>2, <1>3, <1>4, <1>9, <2>1 DEF Sound
    <2>2. CASE ~turns
      BY <1>2, <1>8, <2>2 DEF Sound
    <2> QED
      BY <2>1, <2>2
  <1>12. Alike(db) => Alike(m)
    <2>1. CASE turns
      BY <1>1, <1>2, <1>4, <1>9, <2>1 DEF Alike
    <2>2. CASE ~turns
      BY <1>2, <1>8, <2>2 DEF Alike
    <2> QED
      BY <2>1, <2>2
  <1>13. db.rows = {} => m.rows = {}
    BY <1>2
  <1> QED
    BY <1>2, <1>5, <1>6, <1>10, <1>11, <1>12, <1>13 DEF m

LEMMA NoStore == NoDb \in Stores /\ ~NoDb.there /\ NoDb.rows = {}
  BY DEF NoDb, Stores

\* A product that fails: what a script knows then.
LEMMA Fails ==
    ASSUME HostInv, NEW r \in Requests, script[r].todo # <<>>, Fail(r)
    PROVE  /\ script' \in [Requests -> Scripts] /\ \A q \in Requests \ {r} : script'[q] = script[q]
           /\ script'[r].failed /\ script'[r].todo = Tail(script[r].todo)
           /\ script'[r].listed = script[r].listed
           /\ script'[r].stopped = script[r].stopped /\ script'[r].rolling = script[r].rolling
           /\ script'[r].backup = script[r].backup
  <1> DEFINE knows == [script[r] EXCEPT !.failed = TRUE, !.todo = Tail(@)]
  <1>1. script \in [Requests -> Scripts] /\ script[r] \in Scripts /\ Tail(script[r].todo) \in Todos
    BY ProductsLeft DEF HostInv, HostTypes, Scripts
  <1>2. script' = [script EXCEPT ![r] = knows]
    BY <1>1 DEF Fail
  <1>3. /\ knows \in Scripts /\ knows.failed /\ knows.todo = Tail(script[r].todo)
        /\ knows.listed = script[r].listed /\ knows.stopped = script[r].stopped
        /\ knows.rolling = script[r].rolling /\ knows.backup = script[r].backup
    BY <1>1 DEF Scripts
  <1> HIDE DEF knows
  <1> QED
    BY <1>1, <1>2, <1>3

\* A shadow copy is made, migrated, or given up.
LEMMA ShadowMoves ==
    ASSUME Frame, HostInv, NEW r \in Requests, Turn(r), UNCHANGED job, NextProduct(r) \/ MigrateShadow(r)
    PROVE  HostInv'
  <1> DEFINE p == Product(r)
  <1>0. /\ \A q \in Requests : /\ Op(q)' = Op(q) /\ (Deploying(q)' <=> Deploying(q)) /\ (Scripted(q)' <=> Scripted(q))
                               /\ cut'[q] = cut[q] /\ (Op(q) = "book" => ~Scripted(q))
                               /\ (Scripted(q) <=> Deploying(q) \/ Op(q) = "migrate") /\ (InScript(q) => Scripted(q))
                               /\ (Midway(q) => InScript(q) /\ Product(q) \in Databases)
        /\ \A q \in Requests \ {r} : pc'[q] = pc[q] /\ (InScript(q)' <=> InScript(q))
    BY HostAround
  <1>1. Scripted(r) /\ pc[r] \in {"next", "shadow"} /\ InScript(r) /\ script[r].todo # <<>>
    BY DEF NextProduct, MigrateShadow, InScript, HostInv, HostPlaces
  <1>2. /\ p \in Databases /\ installed \in Known /\ script[r].listed \in Known /\ Expected(p) \in Nat
        /\ script[r].todo \in Todos /\ (script[r].todo # Managed => p # "billing")
        /\ Tail(script[r].todo) # Managed
    BY <1>1, ProductsLeft, HostConstants DEF HostInv, HostTypes, HostPlaces, Scripts, Product, Expected, Known
  <1>3. UNCHANGED <<installed, enabled, service, dbs, unlinked, late, behind, unstamped, broken, collided>>
    BY DEF NextProduct, MigrateShadow
  <1>4. /\ script' \in [Requests -> Scripts] /\ \A q \in Requests \ {r} : script'[q] = script[q]
        /\ script'[r].listed = script[r].listed /\ script'[r].stopped = script[r].stopped
        /\ script'[r].rolling = script[r].rolling /\ script'[r].backup = script[r].backup
        /\ \/ /\ pc'[r] \in {"shadow", "swap"} /\ script' = script
           \/ /\ pc'[r] = "next" /\ script'[r].todo = Tail(script[r].todo) /\ script'[r].failed
           \/ /\ pc'[r] = "next" /\ script'[r].todo = Tail(script[r].todo) /\ shadow' = shadow
              /\ pc[r] = "next" /\ (~dbs[p].there \/ dbs[p].version >= Expects[script[r].listed][p])
    <2>1. CASE Fail(r) /\ pc'[r] = "next"
      BY <1>1, <2>1, Fails
    <2>2. CASE UNCHANGED script /\ pc'[r] \in {"shadow", "swap"}
      BY <2>2 DEF HostInv, HostTypes
    <2>3. CASE /\ script' = [script EXCEPT ![r].todo = Tail(@)] /\ pc'[r] = "next" /\ pc[r] = "next" /\ shadow' = shadow
               /\ (~dbs[p].there \/ dbs[p].version >= Expects[script[r].listed][p])
      <3>1. script \in [Requests -> Scripts] /\ script[r] \in Scripts /\ Tail(script[r].todo) \in Todos
        BY <1>1, ProductsLeft DEF HostInv, HostTypes, Scripts
      <3>2. [script[r] EXCEPT !.todo = Tail(@)] \in Scripts
        BY <3>1 DEF Scripts
      <3> QED
        BY <2>3, <3>1, <3>2 DEF Scripts
    <2> QED
      BY <2>1, <2>2, <2>3 DEF NextProduct, MigrateShadow, Go, Frame, Placed
  <1>5. /\ shadow \in [Databases -> Stores] /\ dbs \in [Databases -> Stores]
        /\ \A d \in Databases \ {p} : shadow'[d] = shadow[d]
        /\ \/ pc'[r] = "shadow" /\ shadow' = [shadow EXCEPT ![p] = dbs[p]] /\ dbs[p].there
           \/ /\ pc'[r] = "swap" /\ shadow' = [shadow EXCEPT ![p] = Migrated(@, Expected(p))]
              /\ shadow[p].there
           \/ pc'[r] = "next" /\ shadow' \in {shadow, [shadow EXCEPT ![p] = NoDb]}
    BY <1>2 DEF NextProduct, MigrateShadow, Go, Frame, Placed, HostInv, HostTypes
  <1>6. /\ shadow' \in [Databases -> Stores]
        /\ shadow'[p] \in {shadow[p], dbs[p], NoDb, Migrated(shadow[p], Expected(p))}
        /\ pc'[r] = "shadow" => shadow'[p] = dbs[p] /\ shadow'[p].there
        /\ pc'[r] = "swap" => shadow'[p] = Migrated(shadow[p], Expected(p)) /\ shadow[p].there
        /\ pc'[r] = "next" => shadow'[p] \in {shadow[p], NoDb}
    <2>1. /\ dbs[p] \in Stores /\ shadow[p] \in Stores /\ NoDb \in Stores
          /\ Migrated(shadow[p], Expected(p)) \in Stores
      BY <1>2, <1>5, Migrates, NoStore
    <2>2. CASE pc'[r] = "shadow"
      BY <1>2, <1>5, <2>1, <2>2
    <2>3. CASE pc'[r] = "swap"
      BY <1>2, <1>5, <2>1, <2>3
    <2>4. CASE pc'[r] = "next"
      BY <1>2, <1>5, <2>1, <2>4
    <2> QED
      BY <1>5, <2>2, <2>3, <2>4
  <1>7. /\ Migrated(shadow[p], Expected(p)).there = shadow[p].there
        /\ Migrated(shadow[p], Expected(p)).version >= Expected(p)
        /\ \A q \in Requests : Holding(shadow[p].rows, q) => Holding(Migrated(shadow[p], Expected(p)).rows, q)
        /\ Sound(shadow[p]) => Sound(Migrated(shadow[p], Expected(p)))
        /\ Alike(shadow[p]) => Alike(Migrated(shadow[p], Expected(p)))
        /\ shadow[p].rows = {} => Migrated(shadow[p], Expected(p)).rows = {}
    BY <1>2, <1>5, Migrates
  <1>8. HostTypes'
    BY <1>3, <1>4, <1>6 DEF HostInv, HostTypes, Known, Stores, Bookings, Scripts
  <1>9. InScript(r)' /\ pc'[r] \in {"next", "shadow", "swap"}
    BY <1>0, <1>1, <1>4 DEF InScript
  <1>10. HostPlaces'
    BY <1>0, <1>1, <1>3, <1>4, <1>9 DEF HostInv, HostPlaces, Known
  <1>11. HostBare'
    BY <1>3, <1>5, <1>6, <1>7, NoStore DEF HostInv, HostBare, Known
  <1>12. \A q \in Requests : Op(q) = "book" => q # r
    BY <1>0, <1>1
  <1>13. RowsThere'
    <2>1. ASSUME NEW s \in Requests, Midway(s)', shadow'[Product(s)'].there,
                 NEW q \in Requests \ late, Holding(dbs[Product(s)'].rows, q)
          PROVE  Holding(shadow'[Product(s)'].rows, q)
      <3>1. CASE s # r
        <4>1. Midway(s) /\ Product(s)' = Product(s) /\ Product(s) \in Databases
          BY <1>0, <1>4, <2>1, <3>1 DEF Midway, Product
        <4>2. CASE Product(s) # p
          BY <1>5, <2>1, <4>1, <4>2 DEF HostInv, RowsThere
        <4>3. CASE Product(s) = p
          BY <1>6, <1>7, <2>1, <4>1, <4>3, NoStore DEF HostInv, RowsThere
        <4> QED
          BY <4>2, <4>3
      <3>2. CASE s = r
        <4>1. pc'[r] \in {"shadow", "swap"} /\ Product(r)' = p
          BY <1>4, <2>1, <3>2 DEF Midway, Product
        <4>2. pc'[r] = "swap" => Midway(r)
          BY <1>1, <4>1 DEF Midway, NextProduct, MigrateShadow, Go, Frame, Placed
        <4> QED
          BY <1>6, <1>7, <2>1, <3>2, <4>1, <4>2 DEF HostInv, RowsThere
      <3> QED
        BY <3>1, <3>2
    <2> QED
      BY <1>0, <1>3, <1>12, <2>1 DEF HostInv, RowsThere, Holding
  <1>14. RowsSound'
    <2>1. \A d \in Databases : Sound(dbs[d])' /\ Sound(shadow[d])' <=> Sound(dbs'[d]) /\ Sound(shadow'[d])
      BY <1>3 DEF Sound
    <2>2. Sound(NoDb)
      BY NoStore DEF Sound
    <2> QED
      BY <1>3, <1>5, <1>6, <1>7, <2>1, <2>2 DEF HostInv, RowsSound
  <1>15. OneScript'
    <2>1. Alike(NoDb)
      BY NoStore DEF Alike
    <2>2. collided = {} => Alike(dbs'["billing"]) /\ Alike(shadow'["billing"])
      BY <1>3, <1>5, <1>6, <1>7, <2>1 DEF HostInv, OneScript, Databases
    <2>3. \A q \in Requests : /\ (InScript(q)' <=> InScript(q)) /\ script'[q].listed = script[q].listed
                              /\ script'[q].stopped = script[q].stopped
      BY <1>0, <1>1, <1>4, <1>9
    <2>4. ASSUME collided = {}, NEW q \in Requests, Midway(q)', Product(q)' = "billing"
          PROVE  /\ dbs["billing"].there
                 /\ IsRunning \/ service = "stopped" \/ dbs["billing"].version < Expected("billing")
                 /\ pc'[q] = "move" => ~IsRunning
      <3>1. Copying /\ script[r].listed = installed
        BY <1>1, <2>4 DEF HostInv, OneScript
      <3>2. CASE q # r
        BY <1>0, <1>4, <2>4, <3>1, <3>2 DEF Midway, Product, Copying
      <3>3. CASE q = r /\ pc[r] = "next"
        <4>1. script' = script /\ p = "billing" /\ pc'[r] # "next"
          BY <1>4, <2>4, <3>3 DEF Midway, Product
        <4>2. dbs[p].there /\ ~(dbs[p].version >= Expected(p)) /\ pc'[r] = "shadow"
          BY <3>1, <3>3, <4>1 DEF NextProduct, MigrateShadow, Go, Frame, Placed, Expected
        <4>3. dbs[p].version \in Nat
          BY <1>2 DEF HostInv, HostTypes, Stores
        <4> QED
          BY <1>2, <3>3, <4>1, <4>2, <4>3
      <3>4. CASE q = r /\ pc[r] = "shadow"
        <4>1. Midway(r) /\ p = "billing" /\ pc'[r] # "move"
          BY <1>1, <1>4, <2>4, <3>4 DEF Midway, Product
        <4> QED
          BY <3>1, <3>4, <4>1 DEF Copying
      <3> QED
        BY <1>1, <3>2, <3>3, <3>4
    <2>5. collided = {} => Copying'
      BY <1>3, <2>4 DEF Copying, IsRunning, Expected
    <2> QED
      BY <1>3, <2>2, <2>3, <2>5 DEF HostInv, OneScript, Expected, Alike
  <1>16. Returning'
    <2>1. Untouched' <=> Untouched
      BY <1>0, <1>3 DEF Untouched
    <2>2. Deployed' <=> Deployed
      BY <1>0, <1>1, <1>9 DEF Deployed
    <2>3. Ready' <=> Ready
      BY <1>3 DEF Ready, Expected
    <2>4. Untouched => \A q \in Requests : InScript(q) => q = r
      BY <1>1 DEF HostInv, OneScript, Untouched
    <2>5. Untouched => /\ pc'[r] \in {"shadow", "swap", "move"} => shadow'[Product(r)'].there
                       /\ pc'[r] \in {"swap", "move"} => shadow'[Product(r)'].version >= Expected(Product(r)')
      BY <1>4, <1>6, <1>7, <1>9 DEF Product
    <2>6. Untouched /\ Deploying(r) /\ script'[r].todo # Managed /\ ~script'[r].failed => Ready
      <3>1. CASE script' = script
        BY <1>1, <3>1 DEF HostInv, Returning
      <3>2. CASE /\ script'[r].todo = Tail(script[r].todo) /\ pc'[r] = "next" /\ ~script'[r].failed
        <4>1. Untouched => script[r].listed = installed
          BY <1>1 DEF HostInv, OneScript, Untouched
        <4>2. script'[r].failed = script[r].failed
          BY <1>1, <1>4, <3>2 DEF HostInv, HostTypes, Scripts, NextProduct, MigrateShadow, Fail
        <4>3. CASE p = "billing"
          BY <1>4, <3>2, <4>1, <4>3 DEF Ready, Expected
        <4>4. CASE p # "billing"
          <5>1. script[r].todo # Managed
            BY <4>4 DEF Product, Managed
          <5> QED
            BY <1>1, <3>2, <4>2, <5>1 DEF HostInv, Returning
        <4> QED
          BY <4>3, <4>4
      <3> QED
        BY <1>4, <3>1, <3>2
    <2>8. Untouched /\ Deploying(r) => service = "stopped"
      BY <1>1 DEF HostInv, Returning
    <2>9. ASSUME Untouched, installed \in Known, ~Deployed
          PROVE  /\ enabled /\ (service = "stamping" \/ Ready)
                 /\ \/ service # "stopped"
                    \/ \E q \in Requests : Op(q) = "migrate" /\ InScript(q)' /\ script'[q].stopped
      BY <1>0, <1>1, <1>4, <1>9, <2>4, <2>9 DEF HostInv, Returning
    <2>10. ASSUME Untouched, NEW q \in Requests, InScript(q)' PROVE q = r
      BY <1>0, <2>4, <2>10
    <2> QED
      BY <1>0, <1>3, <1>4, <2>1, <2>2, <2>3, <2>5, <2>6, <2>8, <2>9, <2>10 DEF Returning, Known, Expected
  <1> QED
    BY <1>8, <1>10, <1>11, <1>13, <1>14, <1>15, <1>16 DEF HostInv

\* A service that is stopped has let go of its files.
LEMMA Lets == ASSUME NEW next, Stopped(next)
              PROVE  unlinked' \in [Databases -> Stores] /\ ~unlinked'["billing"].there
  BY NoStore DEF Stopped, Databases

\* A script stops the service before it moves the copy, when it finds it active.
LEMMA StopMoves ==
    ASSUME Frame, HostInv, NEW r \in Requests, Turn(r), UNCHANGED job, StopService(r)
    PROVE  HostInv'
  <1>0. /\ \A q \in Requests : /\ Op(q)' = Op(q) /\ (Deploying(q)' <=> Deploying(q)) /\ (Scripted(q)' <=> Scripted(q))
                               /\ cut'[q] = cut[q] /\ (Op(q) = "book" => ~Scripted(q))
                               /\ (Scripted(q) <=> Deploying(q) \/ Op(q) = "migrate") /\ (InScript(q) => Scripted(q))
        /\ \A q \in Requests \ {r} : pc'[q] = pc[q] /\ (InScript(q)' <=> InScript(q))
    BY HostAround
  <1>1. /\ Scripted(r) /\ pc[r] = "swap" /\ InScript(r) /\ pc'[r] = "move" /\ InScript(r)'
        /\ UNCHANGED <<installed, enabled, dbs, shadow, late, behind, broken, collided>>
        /\ \/ /\ service' = "stopped" /\ unstamped' = unstamped \cup Unfinished /\ service # "stopped"
              /\ unlinked' \in [Databases -> Stores] /\ ~unlinked'["billing"].there
              /\ script' = [script EXCEPT ![r].stopped = TRUE]
           \/ UNCHANGED <<service, unstamped, unlinked, script>> /\ (script[r].stopped \/ ~IsRunning)
    <2>1. ~script[r].stopped /\ service # "stopped" /\ Stopped("stopped") =>
             /\ service' = "stopped" /\ unstamped' = unstamped \cup Unfinished
             /\ unlinked' \in [Databases -> Stores] /\ ~unlinked'["billing"].there
      BY Lets DEF Stopped
    <2> QED
      BY <1>0, <2>1 DEF StopService, InScript, Go, Frame, Placed
  <1>2. /\ script' \in [Requests -> Scripts] /\ \A q \in Requests \ {r} : script'[q] = script[q]
        /\ script'[r].listed = script[r].listed /\ script'[r].todo = script[r].todo /\ script'[r].failed = script[r].failed
        /\ script'[r].rolling = script[r].rolling /\ script'[r].backup = script[r].backup
        /\ script[r].stopped => script'[r].stopped
        /\ service' # service => script'[r].stopped
        /\ script'[r].stopped => script[r].stopped \/ service' = "stopped"
    <2>1. script \in [Requests -> Scripts] /\ script[r] \in Scripts
      BY DEF HostInv, HostTypes
    <2>2. [script[r] EXCEPT !.stopped = TRUE] \in Scripts
      BY <2>1 DEF Scripts
    <2>3. CASE script' = [script EXCEPT ![r] = [script[r] EXCEPT !.stopped = TRUE]] /\ service' = "stopped"
      BY <2>1, <2>2, <2>3 DEF Scripts
    <2>4. CASE script' = script /\ service' = service
      BY <2>1, <2>4
    <2> QED
      BY <1>1, <2>3, <2>4
  <1>3. \A q \in Requests : Product(q)' = Product(q) /\ (InScript(q)' <=> InScript(q))
    BY <1>0, <1>1, <1>2 DEF Product
  <1>4. HostTypes'
    BY <1>1, <1>2 DEF HostInv, HostTypes, Known, Stores, Bookings, Scripts
  <1>5. HostPlaces'
    BY <1>0, <1>1, <1>2, <1>3 DEF HostInv, HostPlaces, Known
  <1>6. HostBare'
    BY <1>1 DEF HostInv, HostBare, Known
  <1>7. RowsThere'
    <2>1. \A q \in Requests : Midway(q)' <=> Midway(q)
      BY <1>0, <1>1, <1>3 DEF Midway
    <2>2. \A q \in Requests : Op(q) = "book" => q # r
      BY <1>0, <1>1
    <2> QED
      BY <1>0, <1>1, <1>3, <2>1, <2>2 DEF HostInv, RowsThere, Holding
  <1>8. RowsSound'
    BY <1>1 DEF HostInv, RowsSound, Sound
  <1>9. OneScript'
    <2>1. collided = {} => Copying /\ (script[r].stopped => service = "stopped") /\ \A q \in Requests : InScript(q) => q = r
      BY <1>1 DEF HostInv, OneScript
    <2>2. collided = {} => Copying'
      <3> SUFFICES ASSUME collided = {}, Midway(r), Product(r) = "billing"
                   PROVE  /\ dbs["billing"].there /\ ~IsRunning'
                          /\ service' = "stopped" \/ dbs["billing"].version < Expected("billing")
        BY <1>0, <1>1, <1>3, <2>1 DEF Copying, Midway, IsRunning, Expected
      <3> QED
        BY <1>1, <2>1 DEF Copying, IsRunning
    <2> QED
      BY <1>0, <1>1, <1>2, <1>3, <2>1, <2>2 DEF HostInv, OneScript, Alike, Expected
  <1>10. Returning'
    <2>1. Untouched' => Untouched /\ (service = "stamping" => service' = service)
      BY <1>0, <1>1 DEF Untouched, Unfinished, Checked
    <2>2. Deployed' <=> Deployed
      BY <1>0, <1>1, <1>3 DEF Deployed
    <2>3. Ready' <=> Ready
      BY <1>1 DEF Ready, Expected
    <2>4. Untouched => \A q \in Requests : InScript(q) => q = r
      BY <1>1 DEF HostInv, OneScript, Untouched
    <2>5. ASSUME Untouched', NEW q \in Requests, InScript(q)'
          PROVE  /\ q = r /\ shadow'[Product(q)'].there
                 /\ shadow'[Product(q)'].version >= Expected(Product(q))
                 /\ Deploying(q) => /\ service' = "stopped"
                                    /\ script'[q].todo # Managed /\ ~script'[q].failed => Ready
      BY <1>1, <1>2, <1>3, <2>1, <2>4, <2>5 DEF HostInv, Returning
    <2>6. ASSUME Untouched', installed \in Known, ~Deployed
          PROVE  /\ enabled /\ (service' = "stamping" \/ Ready)
                 /\ service' # "stopped" \/ (Op(r) = "migrate" /\ script'[r].stopped)
      <3>1. Op(r) = "migrate" /\ enabled /\ (service = "stamping" \/ Ready)
        BY <1>0, <1>1, <2>1, <2>6 DEF HostInv, Returning, Deployed
      <3>2. script[r].stopped \/ service # "stopped"
        BY <1>1, <2>1, <2>4, <2>6 DEF HostInv, Returning
      <3>3. service' = "stamping" \/ Ready
        BY <1>1, <2>1, <2>6, <3>1
      <3>4. service' # "stopped" \/ script'[r].stopped
        BY <1>1, <1>2, <3>2
      <3> QED
        BY <3>1, <3>3, <3>4
    <2> QED
      BY <1>0, <1>1, <1>3, <2>2, <2>3, <2>5, <2>6 DEF Returning, Known, Expected
  <1> QED
    BY <1>4, <1>5, <1>6, <1>7, <1>8, <1>9, <1>10 DEF HostInv

\* The copy takes the place of the database.
LEMMA MoveMoves ==
    ASSUME Frame, HostInv, NEW r \in Requests, Turn(r), UNCHANGED job, MoveShadow(r)
    PROVE  HostInv'
  <1> DEFINE p == Product(r)
  <1>0. /\ \A q \in Requests : /\ Op(q)' = Op(q) /\ (Deploying(q)' <=> Deploying(q)) /\ (Scripted(q)' <=> Scripted(q))
                               /\ cut'[q] = cut[q] /\ (Op(q) = "book" => ~Scripted(q) /\ job[q].product \in Databases)
                               /\ (Scripted(q) <=> Deploying(q) \/ Op(q) = "migrate") /\ (InScript(q) => Scripted(q))
                               /\ (Midway(q) => InScript(q) /\ Product(q) \in Databases)
        /\ \A q \in Requests \ {r} : pc'[q] = pc[q] /\ (InScript(q)' <=> InScript(q))
    BY HostAround
  <1>1. /\ Scripted(r) /\ pc[r] = "move" /\ InScript(r) /\ pc'[r] = "next" /\ InScript(r)'
        /\ script[r].todo # <<>>
        /\ UNCHANGED <<installed, enabled, service, late, behind, unstamped, broken, collided>>
    BY <1>0 DEF MoveShadow, InScript, Go, Frame, Placed, HostInv, HostPlaces
  <1>2. /\ p \in Databases /\ installed \in Known /\ script[r].todo \in Todos
        /\ (script[r].todo # Managed => p # "billing") /\ Tail(script[r].todo) \in Todos \ {Managed}
    BY <1>1, ProductsLeft DEF HostInv, HostTypes, HostPlaces, Scripts, Product
  <1>3. /\ script' \in [Requests -> Scripts] /\ \A q \in Requests \ {r} : script'[q] = script[q]
        /\ script'[r].listed = script[r].listed
        /\ script'[r].rolling = script[r].rolling /\ script'[r].backup = script[r].backup
        /\ script'[r].stopped => script[r].stopped
        /\ shadow[p].there => /\ script'[r].stopped = script[r].stopped /\ script'[r].failed = script[r].failed
                              /\ script'[r].todo = Tail(script[r].todo)
    <2>1. script \in [Requests -> Scripts] /\ script[r] \in Scripts
      BY DEF HostInv, HostTypes
    <2>2. CASE shadow[p].there
      <3>1. [script[r] EXCEPT !.todo = Tail(@)] \in Scripts
        BY <1>2, <2>1 DEF Scripts
      <3>2. script' = [script EXCEPT ![r] = [script[r] EXCEPT !.todo = Tail(@)]]
        BY <2>2 DEF MoveShadow
      <3> QED
        BY <2>1, <3>1, <3>2 DEF Scripts
    <2>3. CASE ~shadow[p].there
      <3>1. [script[r] EXCEPT !.failed = TRUE, !.todo = <<>>, !.stopped = FALSE] \in Scripts
        BY <2>1, ProductsLeft DEF Scripts
      <3>2. script' = [script EXCEPT ![r] = [script[r] EXCEPT !.failed = TRUE, !.todo = <<>>, !.stopped = FALSE]]
        BY <2>3 DEF MoveShadow
      <3> QED
        BY <2>1, <2>3, <3>1, <3>2 DEF Scripts
    <2> QED
      BY <2>2, <2>3
  <1>4. /\ dbs \in [Databases -> Stores] /\ shadow \in [Databases -> Stores]
        /\ unlinked' \in [Databases -> Stores]
        /\ p # "billing" \/ ~IsRunning => unlinked'["billing"] = unlinked["billing"]
        /\ dbs' \in [Databases -> Stores] /\ shadow' \in [Databases -> Stores]
        /\ \A d \in Databases \ {p} : dbs'[d] = dbs[d] /\ shadow'[d] = shadow[d]
        /\ shadow[p].there => dbs'[p] = shadow[p] /\ shadow'[p] = NoDb
        /\ ~shadow[p].there => dbs' = dbs /\ shadow' = shadow
    <2>1. /\ dbs \in [Databases -> Stores] /\ shadow \in [Databases -> Stores] /\ unlinked \in [Databases -> Stores]
          /\ OpenFile(p) \in Stores
      BY <1>2 DEF HostInv, HostTypes, OpenFile
    <2>2. /\ unlinked' \in [Databases -> Stores]
          /\ p # "billing" \/ ~IsRunning => unlinked'["billing"] = unlinked["billing"]
      BY <1>2, <2>1 DEF MoveShadow, Databases
    <2> QED
      BY <1>2, <2>1, <2>2, NoStore DEF MoveShadow
  <1>5. HostTypes'
    BY <1>1, <1>3, <1>4 DEF HostInv, HostTypes, Known, Stores, Bookings, Scripts
  <1>6. HostPlaces'
    BY <1>0, <1>1, <1>3 DEF HostInv, HostPlaces, Known
  <1>7. HostBare'
    BY <1>1, <1>2, <1>4, NoStore DEF HostInv, HostBare, Known
  <1>8. \A q \in Requests \ late, d \in Databases : Holding(dbs[d].rows, q) => Holding(dbs'[d].rows, q)
    <2>1. Midway(r)
      BY <1>1 DEF Midway
    <2>2. \A q \in Requests \ late : shadow[p].there /\ Holding(dbs[p].rows, q) => Holding(shadow[p].rows, q)
      BY <2>1 DEF HostInv, RowsThere
    <2> QED
      BY <1>4, <2>2
  <1>9. RowsThere'
    <2>1. ASSUME NEW q \in Requests, Op(q) = "book", pc'[q] = "done"
          PROVE  q \in late \/ Holding(dbs'[job[q].product].rows, q)
      <3>1. q # r /\ pc[q] = "done" /\ job[q].product \in Databases
        BY <1>0, <1>1, <2>1
      <3> QED
        BY <1>8, <2>1, <3>1 DEF HostInv, RowsThere
    <2>2. ASSUME NEW s \in Requests, Midway(s)', shadow'[Product(s)'].there
          PROVE  /\ Midway(s) /\ Product(s)' = Product(s) /\ Product(s) \in Databases
                 /\ dbs'[Product(s)] = dbs[Product(s)] /\ shadow'[Product(s)] = shadow[Product(s)]
      <3>1. s # r /\ Midway(s) /\ Product(s)' = Product(s)
        BY <1>0, <1>1, <1>3, <2>2 DEF Midway, Product
      <3> QED
        BY <1>0, <1>4, <2>2, <3>1, NoStore
    <2> QED
      BY <1>0, <1>1, <2>1, <2>2 DEF HostInv, RowsThere, Holding
  <1>10. RowsSound'
    <2>1. \A d \in Databases : Sound(dbs[d])' /\ Sound(shadow[d])' <=> Sound(dbs'[d]) /\ Sound(shadow'[d])
      BY <1>1 DEF Sound
    <2>2. Sound(NoDb)
      BY NoStore DEF Sound
    <2> QED
      BY <1>2, <1>4, <2>1, <2>2 DEF HostInv, RowsSound
  <1>11. OneScript'
    <2>1. Alike(NoDb)
      BY NoStore DEF Alike
    <2>2. collided = {} => Alike(dbs'["billing"]) /\ Alike(shadow'["billing"])
      BY <1>4, <2>1 DEF HostInv, OneScript, Databases
    <2>3. \A q \in Requests : (InScript(q)' <=> InScript(q)) /\ script'[q].listed = script[q].listed
                              /\ (script'[q].stopped => script[q].stopped)
      BY <1>0, <1>1, <1>3
    <2>4. collided = {} => \A q \in Requests : ~Midway(q)'
      BY <1>0, <1>1 DEF HostInv, OneScript, Midway
    <2>5. collided = {} => p # "billing" \/ ~IsRunning
      BY <1>1 DEF HostInv, OneScript, Copying, Midway
    <2>6. collided = {} => ~unlinked'["billing"].there
      BY <1>4, <2>5 DEF HostInv, OneScript
    <2>7. IsRunning /\ collided = {} => dbs'["billing"] = dbs["billing"]
      BY <1>4, <2>5 DEF Databases
    <2> QED
      BY <1>1, <2>2, <2>3, <2>4, <2>6, <2>7 DEF HostInv, OneScript, Copying, IsRunning, Expected, Alike
  <1>12. Returning'
    <2>1. Untouched' <=> Untouched
      BY <1>0, <1>1 DEF Untouched
    <2>2. Deployed' <=> Deployed
      BY <1>0, <1>1 DEF Deployed
    <2>3. Untouched => shadow[p].there /\ shadow[p].version >= Expected(p)
      BY <1>1 DEF HostInv, Returning
    <2>4. Untouched => /\ p = "billing" => Ready'
                       /\ p # "billing" => (Ready' <=> Ready) /\ script[r].todo # Managed
      BY <1>1, <1>2, <1>4, <2>3 DEF Ready, Expected, Databases, Product, Managed
    <2>5. ASSUME Untouched, NEW q \in Requests, InScript(q)'
          PROVE  q = r
      BY <1>0, <1>1, <2>5 DEF HostInv, OneScript, Untouched
    <2>6. Untouched =>
             /\ Deploying(r) => service = "stopped" /\ (~script'[r].failed => Ready')
      BY <1>1, <1>3, <2>3, <2>4 DEF HostInv, Returning
    <2>7. ASSUME Untouched, installed \in Known, ~Deployed
          PROVE  /\ enabled /\ (service = "stamping" \/ Ready')
                 /\ \/ service # "stopped"
                    \/ \E q \in Requests : Op(q) = "migrate" /\ InScript(q)' /\ script'[q].stopped
      <3>1. service = "stamping" \/ Ready'
        BY <2>4, <2>7 DEF HostInv, Returning
      <3>2. \A q \in Requests : InScript(q) /\ script[q].stopped => InScript(q)' /\ script'[q].stopped
        BY <1>0, <1>1, <1>3, <2>3, <2>7
      <3> QED
        BY <2>7, <3>1, <3>2 DEF HostInv, Returning
    <2> QED
      BY <1>0, <1>1, <2>1, <2>2, <2>5, <2>6, <2>7 DEF Returning, Known
  <1> QED
    BY <1>5, <1>6, <1>7, <1>9, <1>10, <1>11, <1>12 DEF HostInv

\* What ends a script, or comes before it: the databases are left alone, and no
\* script gets further.
LEMMA RowsRest ==
    ASSUME Frame, HostInv, NEW r \in Requests, Turn(r), UNCHANGED job, Scripted(r),
           UNCHANGED <<dbs, shadow, late, behind>>, ~Midway(r)',
           \A q \in Requests \ {r} : script'[q] = script[q]
    PROVE  RowsThere' /\ RowsSound'
  <1>0. /\ \A q \in Requests : Op(q)' = Op(q) /\ (Scripted(q)' <=> Scripted(q)) /\ (Op(q) = "book" => q # r)
        /\ \A q \in Requests \ {r} : pc'[q] = pc[q] /\ (InScript(q)' <=> InScript(q))
    BY HostAround
  <1>1. \A q \in Requests : Midway(q)' => Midway(q) /\ Product(q)' = Product(q)
    BY <1>0 DEF Midway, Product
  <1>2. RowsThere'
    BY <1>0, <1>1 DEF HostInv, RowsThere, Holding
  <1> QED
    BY <1>2 DEF HostInv, RowsSound, Sound

LEMMA EndMoves ==
    ASSUME Frame, HostInv, NEW r \in Requests, Turn(r), UNCHANGED job, EndMigration(r) \/ EndPostinst(r)
    PROVE  HostInv'
  <1>0. /\ \A q \in Requests : /\ Op(q)' = Op(q) /\ (Deploying(q)' <=> Deploying(q)) /\ (Scripted(q)' <=> Scripted(q))
                               /\ cut'[q] = cut[q] /\ (Op(q) = "book" => ~Scripted(q))
                               /\ (Scripted(q) <=> Deploying(q) \/ Op(q) = "migrate") /\ (InScript(q) => Scripted(q))
                               /\ ~(Deploying(q) /\ Op(q) = "migrate")
        /\ \A q \in Requests \ {r} : pc'[q] = pc[q] /\ (InScript(q)' <=> InScript(q))
    BY HostAround
  <1>1. /\ Scripted(r) /\ pc[r] = "next" /\ InScript(r) /\ script[r].todo = <<>>
        /\ pc'[r] \in {"done", "error", "rollback", "verify"} /\ ~InScript(r)' /\ ~Midway(r)'
        /\ UNCHANGED <<installed, dbs, shadow, script, late, behind, collided>> /\ unstamped \subseteq unstamped'
        /\ unlinked' = unlinked \/ (unlinked' \in [Databases -> Stores] /\ ~unlinked'["billing"].there)
        /\ broken \subseteq broken' /\ (enabled => enabled') /\ enabled' \in BOOLEAN
        /\ installed \in Known
        /\ \/ /\ Op(r) = "migrate" /\ pc'[r] \in {"done", "error"} /\ UNCHANGED <<enabled, broken>>
              /\ service' = IF script[r].stopped /\ service = "stopped" THEN "starting" ELSE service
           \/ /\ Deploying(r) /\ script[r].failed /\ UNCHANGED enabled
              /\ service' = IF script[r].stopped /\ service = "stopped" THEN "starting" ELSE service
              /\ \/ pc'[r] = "error" /\ r \in broken'
                 \/ pc'[r] = "rollback" /\ script[r].backup # NoRelease /\ ~script[r].rolling
           \/ /\ Deploying(r) /\ ~script[r].failed /\ service' = "starting" /\ enabled'
              /\ pc'[r] \in {"error", "verify"}
    <2>1. Stopped("starting") => /\ service' = "starting" /\ unstamped \subseteq unstamped'
                                 /\ unlinked' \in [Databases -> Stores] /\ ~unlinked'["billing"].there
      BY Lets DEF Stopped
    <2>2. CASE EndMigration(r)
      BY <1>0, <2>2 DEF EndMigration, Restarted, At, InScript, Midway, Scripted, Deploying, Go, Frame, Placed,
         HostInv, HostPlaces, HostTypes
    <2>3. CASE EndPostinst(r)
      BY <1>0, <2>1, <2>3 DEF EndPostinst, Restarted, GiveUpOr, At, InScript, Midway, Scripted, Deploying, Go, Frame, Placed,
         HostInv, HostPlaces, HostTypes
    <2> QED
      BY <2>2, <2>3
  <1>2. service' \in {service, "starting"}
    BY <1>1
  <1>3. HostTypes'
    BY <1>1, <1>2 DEF HostInv, HostTypes, Known, Stores, Bookings, Scripts
  <1>4. HostPlaces'
    <2>1. script[r].backup # NoRelease => script[r].backup \in Known
      BY DEF HostInv, HostTypes, Scripts
    <2> QED
      BY <1>0, <1>1, <2>1 DEF HostInv, HostPlaces, Known, Terminal
  <1>5. HostBare'
    BY <1>1, <1>2 DEF HostInv, HostBare, Known
  <1>6. RowsThere' /\ RowsSound'
    BY <1>1, RowsRest
  <1>7. \A q \in Requests : InScript(q)' => InScript(q) /\ q # r /\ pc'[q] = pc[q] /\ Product(q)' = Product(q)
    BY <1>0, <1>1 DEF Product
  <1>8. collided = {} => \A q \in Requests : ~InScript(q)'
    BY <1>1, <1>7 DEF HostInv, OneScript
  <1>9. OneScript'
    <2>1. collided = {} => Copying' /\ ~unlinked'["billing"].there
      BY <1>1, <1>8 DEF Copying, Midway, HostInv, OneScript
    <2> QED
      BY <1>1, <1>2, <1>8, <2>1 DEF HostInv, OneScript, Alike, Expected
  <1>10. Returning'
    <2>1. Untouched' => Untouched /\ r \notin broken'
      BY <1>0, <1>1 DEF Untouched
    <2>2. Ready' <=> Ready
      BY <1>1 DEF Ready, Expected
    <2>3. Untouched => collided = {}
      BY DEF Untouched
    <2>4. ASSUME Untouched, ~Deployed', Deploying(r), ~script[r].failed PROVE Ready
      BY <1>1, <2>4, ProductsLeft DEF HostInv, Returning
    <2>5. ASSUME Untouched', ~Deployed', Deploying(r), script[r].failed PROVE FALSE
      BY <1>0, <1>1, <2>1, <2>5 DEF Deployed
    <2>6. ASSUME Untouched, ~Deployed', Op(r) = "migrate" PROVE ~Deployed
      BY <1>0, <1>1, <1>8, <2>3, <2>6 DEF Deployed, HostInv, OneScript
    <2>7. ASSUME Untouched, ~Deployed, Op(r) = "migrate"
          PROVE  enabled /\ service' # "stopped" /\ (service' = "stamping" \/ Ready)
      <3>1. enabled /\ (service = "stamping" \/ Ready) /\ (service # "stopped" \/ script[r].stopped)
        BY <1>1, <2>3, <2>7 DEF HostInv, Returning, OneScript
      <3>2. script[r].stopped => service = "stopped"
        BY <1>1, <2>3, <2>7 DEF HostInv, OneScript
      <3> QED
        BY <1>0, <1>1, <2>7, <3>1, <3>2
    <2> QED
      BY <1>0, <1>1, <1>8, <2>1, <2>2, <2>3, <2>4, <2>5, <2>6, <2>7 DEF Returning
  <1> QED
    BY <1>3, <1>4, <1>5, <1>6, <1>9, <1>10 DEF HostInv

\* A script begins, by hand or after the package is kept.
LEMMA ScriptBegins ==
    ASSUME Frame, HostInv, NEW r \in Requests, Turn(r), UNCHANGED job, BeginMigration(r) \/ BackUpPackage(r)
    PROVE  HostInv'
  <1>0. /\ \A q \in Requests : /\ Op(q)' = Op(q) /\ (Deploying(q)' <=> Deploying(q)) /\ (Scripted(q)' <=> Scripted(q))
                               /\ cut'[q] = cut[q] /\ (Op(q) = "book" => ~Scripted(q))
                               /\ (Scripted(q) <=> Deploying(q) \/ Op(q) = "migrate") /\ (InScript(q) => Scripted(q))
                               /\ ~(Deploying(q) /\ Op(q) = "migrate")
        /\ \A q \in Requests \ {r} : pc'[q] = pc[q] /\ (InScript(q)' <=> InScript(q))
    BY HostAround
  <1>1. /\ Scripted(r) /\ pc[r] = "new" /\ ~InScript(r) /\ ~script[r].stopped
        /\ UNCHANGED <<installed, enabled, service, dbs, shadow, unlinked, late, behind, unstamped, broken>>
        /\ \A q \in Requests \ {r} : script'[q] = script[q]
        /\ script' \in [Requests -> Scripts] /\ ~script'[r].stopped
        /\ \/ Op(r) = "migrate" /\ pc'[r] = "error" /\ script' = script
           \/ /\ Op(r) = "migrate" /\ pc'[r] = "next" /\ installed \in Known
              /\ script'[r].listed = installed /\ script'[r].todo = Managed
           \/ Deploying(r) /\ pc'[r] = "install"
        /\ Op(r) = "migrate" => collided' = collided \cup {q \in Requests : InScript(q)}
        /\ Deploying(r) => collided' = collided
    <2>1. script \in [Requests -> Scripts] /\ script[r] \in Scripts /\ installed \in Known \cup {NoRelease}
      BY DEF HostInv, HostTypes
    <2>2. [script[r] EXCEPT !.todo = Managed, !.listed = installed] \in Scripts
      BY <2>1, ProductsLeft DEF Scripts
    <2>3. \A kept \in {NoRelease, installed} : [script[r] EXCEPT !.backup = kept] \in Scripts
      BY <2>1 DEF Scripts
    <2>4. /\ Scripted(r) /\ pc[r] = "new" /\ ~InScript(r) /\ ~script[r].stopped
          /\ UNCHANGED <<installed, enabled, service, dbs, shadow, unlinked, late, behind, unstamped, broken>>
      BY DEF BeginMigration, BackUpPackage, At, Scripted, InScript, HostInv, HostPlaces
    <2>5. CASE BeginMigration(r)
      <3>1. Op(r) = "migrate" /\ collided' = collided \cup {q \in Requests : InScript(q)} /\ ~Deploying(r)
        BY <1>0, <2>5 DEF BeginMigration, Meet, At
      <3>2. CASE pc'[r] = "error" /\ script' = script
        BY <2>1, <2>4, <3>1, <3>2
      <3>3. CASE /\ pc'[r] = "next" /\ installed # NoRelease
                 /\ script' = [script EXCEPT ![r] = [script[r] EXCEPT !.todo = Managed, !.listed = installed]]
        BY <2>1, <2>2, <2>4, <3>1, <3>3 DEF Scripts
      <3> QED
        BY <2>5, <3>2, <3>3 DEF BeginMigration, Go, Frame, Placed
    <2>6. CASE BackUpPackage(r)
      <3>1. Deploying(r) /\ collided' = collided /\ pc'[r] = "install" /\ Op(r) # "migrate"
        BY <2>6 DEF BackUpPackage, At, Deploying, Go, Frame, Placed
      <3>2. PICK kept \in {NoRelease, installed} :
               script' = [script EXCEPT ![r] = [script[r] EXCEPT !.backup = kept]]
        BY <2>6 DEF BackUpPackage
      <3> QED
        BY <2>1, <2>3, <2>4, <3>1, <3>2 DEF Scripts
    <2> QED
      BY <2>5, <2>6
  <1>2. ~Midway(r)' /\ (InScript(r)' <=> pc'[r] = "next")
    BY <1>0, <1>1 DEF Midway, InScript
  <1>3. HostTypes'
    BY <1>1 DEF HostInv, HostTypes, Known, Stores, Bookings, Scripts
  <1>4. HostPlaces'
    BY <1>0, <1>1, <1>2 DEF HostInv, HostPlaces, Known, Terminal
  <1>5. HostBare'
    BY <1>1 DEF HostInv, HostBare, Known
  <1>6. RowsThere' /\ RowsSound'
    BY <1>1, <1>2, RowsRest
  <1>7. \A q \in Requests \ {r} : Product(q)' = Product(q)
    BY <1>1 DEF Product
  <1>8. collided' = {} => collided = {} /\ (InScript(r)' => \A q \in Requests : ~InScript(q))
    BY <1>0, <1>1, <1>2
  <1>9. OneScript'
    <2>1. \A q \in Requests : Midway(q)' => Midway(q) /\ pc'[q] = pc[q] /\ Product(q)' = Product(q)
      BY <1>0, <1>1, <1>2, <1>7 DEF Midway
    <2>2. Copying => Copying'
      BY <1>1, <2>1 DEF Copying, IsRunning, Expected
    <2> QED
      BY <1>0, <1>1, <1>2, <1>8, <2>2 DEF HostInv, OneScript, Alike, Expected
  <1>10. Returning'
    <2>1. Untouched' => Untouched /\ (InScript(r)' => \A q \in Requests : ~InScript(q))
      BY <1>0, <1>1, <1>8 DEF Untouched
    <2>2. Deployed' <=> Deployed
      BY <1>0, <1>1, <1>2 DEF Deployed
    <2>3. Ready' <=> Ready
      BY <1>1 DEF Ready, Expected
    <2>4. ASSUME Untouched', InScript(r)'
          PROVE  pc'[r] = "next" /\ ~script'[r].stopped /\ ~Deploying(r)
      BY <1>0, <1>1, <1>2, <2>4
    <2>5. ASSUME Untouched', installed \in Known, ~Deployed
          PROVE  /\ enabled /\ (service = "stamping" \/ Ready)
                 /\ \/ service # "stopped"
                    \/ \E q \in Requests : Op(q) = "migrate" /\ InScript(q)' /\ script'[q].stopped
      BY <1>0, <1>1, <2>1, <2>5 DEF HostInv, Returning
    <2> QED
      BY <1>0, <1>1, <1>7, <2>1, <2>2, <2>3, <2>4, <2>5 DEF HostInv, Returning, Known, Expected
  <1> QED
    BY <1>3, <1>4, <1>5, <1>6, <1>9, <1>10 DEF HostInv

\* dpkg installs a package, over what runs.
LEMMA InstallMoves ==
    ASSUME Frame, HostInv, NEW r \in Requests, Turn(r), UNCHANGED job, InstallPackage(r) \/ RollBack(r)
    PROVE  HostInv'
  <1>0. /\ \A q \in Requests : /\ Op(q)' = Op(q) /\ (Deploying(q)' <=> Deploying(q)) /\ (Scripted(q)' <=> Scripted(q))
                               /\ cut'[q] = cut[q] /\ (Op(q) = "book" => ~Scripted(q))
                               /\ (Scripted(q) <=> Deploying(q) \/ Op(q) = "migrate") /\ (InScript(q) => Scripted(q))
                               /\ ~(Deploying(q) /\ Op(q) = "migrate")
        /\ \A q \in Requests \ {r} : pc'[q] = pc[q] /\ (InScript(q)' <=> InScript(q))
    BY HostAround
  <1>1. /\ Deploying(r) /\ Scripted(r) /\ pc[r] \in {"install", "rollback"} /\ pc'[r] = "next" /\ ~InScript(r)
        /\ UNCHANGED <<enabled, dbs, shadow, late, behind, broken>>
        /\ unlinked' \in [Databases -> Stores] /\ ~unlinked'["billing"].there
        /\ service' = "stopped" /\ unstamped' = unstamped \cup Unfinished
        /\ collided' = collided \cup {q \in Requests : InScript(q)}
        /\ \A q \in Requests \ {r} : script'[q] = script[q]
        /\ script' \in [Requests -> Scripts] /\ ~script'[r].stopped /\ script'[r].todo = Managed
        /\ installed' \in Known /\ script'[r].listed = installed'
    <2>1. script \in [Requests -> Scripts] /\ script[r] \in Scripts
      BY DEF HostInv, HostTypes
    <2>2. CASE InstallPackage(r)
      <3>1. job[r].release \in Known /\ ~script[r].stopped /\ pc[r] = "install" /\ Op(r) = "deploy"
        BY <2>2, HostConstants DEF InstallPackage, At, Frame, Op, Known, HostInv, HostPlaces, Scripted
      <3>2. [script[r] EXCEPT !.todo = Managed, !.listed = job[r].release] \in Scripts
        BY <2>1, <3>1, ProductsLeft DEF Scripts
      <3>3. script' = [script EXCEPT ![r] = [script[r] EXCEPT !.todo = Managed, !.listed = job[r].release]]
        BY <2>2 DEF InstallPackage
      <3>4. /\ script' \in [Requests -> Scripts] /\ \A q \in Requests \ {r} : script'[q] = script[q]
            /\ ~script'[r].stopped /\ script'[r].todo = Managed /\ script'[r].listed = job[r].release
        BY <2>1, <3>1, <3>2, <3>3 DEF Scripts
      <3> QED
        BY <1>0, <2>2, <3>1, <3>4, Lets DEF InstallPackage, Install, Stopped, Meet, Deploying, InScript, Go, Frame, Placed
    <2>3. CASE RollBack(r)
      <3>1. script[r].backup \in Known /\ pc[r] = "rollback" /\ Op(r) = "deploy"
        BY <2>3 DEF RollBack, At, HostInv, HostPlaces, Deploying
      <3> DEFINE knows == [NoScript EXCEPT !.todo = Managed, !.listed = script[r].backup, !.rolling = TRUE]
      <3>2. knows \in Scripts /\ ~knows.stopped /\ knows.todo = Managed /\ knows.listed = script[r].backup
        BY <3>1, ProductsLeft DEF Scripts, NoScript
      <3>3. script' = [script EXCEPT ![r] = knows]
        BY <2>3 DEF RollBack
      <3> HIDE DEF knows
      <3>4. /\ script' \in [Requests -> Scripts] /\ \A q \in Requests \ {r} : script'[q] = script[q]
            /\ ~script'[r].stopped /\ script'[r].todo = Managed /\ script'[r].listed = script[r].backup
        BY <2>1, <3>2, <3>3
      <3> QED
        BY <1>0, <2>3, <3>1, <3>4, Lets DEF RollBack, Install, Stopped, Meet, Deploying, InScript, Go, Frame, Placed
    <2> QED
      BY <2>2, <2>3
  <1>2. ~Midway(r)' /\ InScript(r)'
    BY <1>0, <1>1 DEF Midway, InScript
  <1>3. HostTypes'
    BY <1>1 DEF HostInv, HostTypes, Known, Stores, Bookings, Scripts
  <1>4. HostPlaces'
    BY <1>0, <1>1, <1>2 DEF HostInv, HostPlaces, Known
  <1>5. HostBare'
    BY <1>1 DEF HostInv, HostBare, Known
  <1>6. RowsThere' /\ RowsSound'
    BY <1>1, <1>2, RowsRest
  <1>7. collided' = {} => collided = {} /\ \A q \in Requests : ~InScript(q)
    BY <1>1
  <1>8. OneScript'
    <2>1. collided' = {} => \A q \in Requests : ~Midway(q)'
      BY <1>0, <1>2, <1>7 DEF Midway
    <2> QED
      BY <1>0, <1>1, <1>2, <1>7, <2>1 DEF HostInv, OneScript, Copying, Alike
  <1>9. Returning'
    <2>1. Untouched' => \A q \in Requests : ~InScript(q)
      BY <1>7 DEF Untouched
    <2>2. Deployed'
      BY <1>0, <1>1, <1>2 DEF Deployed
    <2> QED
      BY <1>0, <1>1, <2>1, <2>2 DEF Returning
  <1> QED
    BY <1>3, <1>4, <1>5, <1>6, <1>8, <1>9 DEF HostInv

LEMMA VerifyMoves ==
    ASSUME Frame, HostInv, NEW r \in Requests, Turn(r), UNCHANGED job, VerifyService(r)
    PROVE  HostInv'
  <1>0. /\ \A q \in Requests : /\ Op(q)' = Op(q) /\ (Deploying(q)' <=> Deploying(q)) /\ (Scripted(q)' <=> Scripted(q))
                               /\ cut'[q] = cut[q] /\ (Op(q) = "book" => ~Scripted(q))
                               /\ (Scripted(q) <=> Deploying(q) \/ Op(q) = "migrate") /\ (InScript(q) => Scripted(q))
                               /\ ~(Deploying(q) /\ Op(q) = "migrate")
        /\ \A q \in Requests \ {r} : pc'[q] = pc[q] /\ (InScript(q)' <=> InScript(q))
    BY HostAround
  <1>1. /\ Deploying(r) /\ Scripted(r) /\ pc[r] = "verify" /\ UNCHANGED hostVars
        /\ pc'[r] \in {"done", "error", "rollback"}
        /\ pc'[r] = "rollback" => script[r].backup # NoRelease /\ ~script[r].rolling
    BY DEF VerifyService, At, Deploying, Scripted, GiveUpOr, Go, Frame, Placed
  <1> USE DEF hostVars
  <1>2. \A q \in Requests : (InScript(q)' <=> InScript(q)) /\ (InScript(q) => q # r) /\ Product(q)' = Product(q)
    BY <1>0, <1>1 DEF InScript, Product
  <1>3. HostTypes'
    BY <1>1 DEF HostInv, HostTypes, Known, Stores, Bookings, Scripts
  <1>4. HostPlaces'
    <2>1. script[r].backup # NoRelease => script[r].backup \in Known
      BY DEF HostInv, HostTypes, Scripts
    <2> QED
      BY <1>0, <1>1, <1>2, <2>1 DEF HostInv, HostPlaces, Known, Terminal
  <1>5. HostBare'
    BY <1>1 DEF HostInv, HostBare, Known
  <1>6. RowsThere' /\ RowsSound'
    BY <1>1, <1>2, RowsRest DEF Midway
  <1>7. OneScript'
    <2>1. \A q \in Requests : Midway(q)' => Midway(q) /\ pc'[q] = pc[q] /\ Product(q)' = Product(q)
      BY <1>0, <1>1, <1>2 DEF Midway
    <2>2. Copying => Copying'
      BY <1>1, <2>1 DEF Copying, IsRunning, Expected
    <2> QED
      BY <1>0, <1>1, <1>2, <2>2 DEF HostInv, OneScript, Alike, Expected
  <1>8. Returning'
    <2>1. Untouched' <=> Untouched
      BY <1>0, <1>1 DEF Untouched
    <2>2. ~Deployed' => ~Deployed
      BY <1>0, <1>1, <1>2 DEF Deployed
    <2>3. Ready' <=> Ready
      BY <1>1 DEF Ready, Expected
    <2> QED
      BY <1>0, <1>1, <1>2, <2>1, <2>2, <2>3 DEF HostInv, Returning, Known, Expected
  <1> QED
    BY <1>3, <1>4, <1>5, <1>6, <1>7, <1>8 DEF HostInv

\* The host goes down, and comes up.
LEMMA HostFalls ==
    ASSUME Frame, HostInv, UNCHANGED job, Fallen, HostCrash
    PROVE  HostInv'
  <1>0. \A q \in Requests : /\ Op(q)' = Op(q) /\ (Deploying(q)' <=> Deploying(q)) /\ (Scripted(q)' <=> Scripted(q))
                            /\ (Op(q) = "book" => ~Scripted(q)) /\ (Scripted(q) <=> Deploying(q) \/ Op(q) = "migrate")
    BY DEF Op, Deploying, Scripted
  <1>1. /\ UNCHANGED <<installed, enabled, dbs, shadow, script, late, behind, broken, collided>>
        /\ Watched => service' = (IF enabled THEN "starting" ELSE "stopped") /\ unstamped' = unstamped \cup Unfinished
        /\ ~Watched => UNCHANGED <<service, unstamped>>
        /\ unlinked' = unlinked \/ (unlinked' \in [Databases -> Stores] /\ ~unlinked'["billing"].there)
    BY Lets DEF HostCrash, Stopped
  <1>2. \A q \in Requests : /\ pc'[q] = IF Running(q) THEN "lost" ELSE pc[q]
                            /\ cut'[q] = IF Running(q) THEN pc[q] ELSE cut[q]
    BY DEF Fallen
  <1>3. \A q \in Requests : ~InScript(q)' /\ (InScript(q) => Running(q)) /\ Product(q)' = Product(q)
    BY <1>0, <1>1, <1>2 DEF InScript, Running, Terminal, Product
  <1>4. service' \in {"starting", "stopped", service}
    BY <1>1
  <1>5. HostTypes'
    BY <1>1, <1>4 DEF HostInv, HostTypes, Known, Stores, Bookings, Scripts
  <1>6. HostPlaces'
    BY <1>0, <1>1, <1>2, <1>3 DEF HostInv, HostPlaces, Known, Running, Terminal
  <1>7. HostBare'
    BY <1>1, <1>4 DEF HostInv, HostBare, Known
  <1>8. RowsThere'
    <2>1. \A q \in Requests : Op(q) = "book" /\ pc'[q] = "done" => pc[q] = "done"
      BY <1>2
    <2> QED
      BY <1>0, <1>1, <1>3, <2>1 DEF HostInv, RowsThere, Midway, Holding
  <1>9. RowsSound'
    BY <1>1 DEF HostInv, RowsSound, Sound
  <1>10. OneScript'
    <2>1. \A q \in Requests : ~Midway(q)'
      BY <1>3 DEF Midway
    <2> QED
      BY <1>1, <1>3, <1>4, <2>1 DEF HostInv, OneScript, Copying, Alike, Expected
  <1>11. Returning'
    <2>1. ASSUME Untouched', NEW q \in Requests, Scripted(q) PROVE ~Running(q)
      <3>1. cut'[q] = "never"
        BY <1>0, <2>1 DEF Untouched
      <3> QED
        BY <1>0, <1>2, <2>1, <3>1 DEF HostInv, HostPlaces, Deploying, Terminal
    <2>2. Untouched' => Untouched /\ ~Deployed
      BY <1>0, <1>1, <1>2, <1>3, <2>1 DEF Untouched, Deployed, Running, Terminal
    <2>3. Untouched' /\ Watched => service # "stamping"
      BY <1>1 DEF Untouched, Unfinished, Checked
    <2>4. Ready' <=> Ready
      BY <1>1 DEF Ready, Expected
    <2>5. ASSUME Untouched', NEW q \in Requests, InScript(q) PROVE FALSE
      BY <1>3, <2>1, <2>5 DEF InScript
    <2> QED
      BY <1>1, <1>3, <2>2, <2>3, <2>4, <2>5 DEF HostInv, Returning, Known
  <1> QED
    BY <1>5, <1>6, <1>7, <1>8, <1>9, <1>10, <1>11 DEF HostInv

LEMMA HostKept == ASSUME Frame, HostInv, UNCHANGED job, HouseTurn PROVE HostInv'
  <1>1. CASE \E r \in Requests : HostStep(r) /\ Turn(r) /\ UNCHANGED <<backupVars, releaseVars>>
    BY <1>1, BookMoves, ShadowMoves, StopMoves, MoveMoves, EndMoves, ScriptBegins, InstallMoves, VerifyMoves DEF HostStep
  <1>2. CASE \E r \in Requests : (BackupStep(r) \/ ReleaseStep(r)) /\ Turn(r) /\ UNCHANGED hostVars
    <2>1. PICK r \in Requests : Op(r) \in BackupOps \cup ShipOps /\ Turn(r) /\ UNCHANGED hostVars
      BY <1>2, BackupOnly, ShipOnly
    <2>2. \A q \in Requests : Op(q) \in HostOps => Unmoved(q)
      BY <2>1 DEF Turn, Only, Unmoved, BackupOps, HostOps, ShipOps
    <2> QED
      BY <2>1, <2>2, HostRests
  <1>3. CASE ServiceStep /\ UNCHANGED <<pc, cut, backupVars, releaseVars>>
    BY <1>3, ServiceMoves
  <1>4. CASE (ThreadStep \/ WorkflowStep) /\ UNCHANGED <<pc, cut, hostVars>>
    BY <1>4, HostRests DEF Unmoved
  <1>5. CASE \E r \in Requests : Cut(r) /\ UNCHANGED house
    <2>1. PICK r \in Requests : Cut(r) /\ UNCHANGED hostVars
      BY <1>5 DEF house
    <2>2. \A q \in Requests : \/ Unmoved(q)
                              \/ Running(q) /\ pc'[q] = "504" /\ cut'[q] = pc[q]
      BY <2>1 DEF Cut, Unmoved, Frame, Placed
    <2> QED
      BY <2>1, <2>2, HostRests
  <1>6. CASE Fallen /\ HostCrash
    BY <1>6, HostFalls
  <1>7. CASE UNCHANGED house /\ \A q \in Requests : Op(q) \in HouseOps => Unmoved(q)
    BY <1>7, HostRests DEF house, HouseOps
  <1> QED
    BY <1>1, <1>2, <1>3, <1>4, <1>5, <1>6, <1>7 DEF HouseTurn

LEMMA HostMeans == ASSUME Frame, HostInv PROVE UpgradesSafe
  <1>1. RowsKept
    <2>1. \A q \in Requests : Op(q) = "book" => job[q].product \in Databases
      BY HostConstants DEF Frame, Op
    <2> QED
      BY <2>1 DEF HostInv, RowsThere, Holding, RowsSound, Sound, RowsKept
  <1>2. UnitsAgree
    BY DEF HostInv, OneScript, Alike, Checked, OpenFile, UnitsAgree
  <1>3. ServiceReturns
    <2> SUFFICES ASSUME \A r \in Requests : Scripted(r) => pc[r] \in Terminal /\ cut[r] = "never",
                        installed # NoRelease, broken \cup collided = {}, unstamped \cap Checked = {},
                        ~(dbs["billing"].version > Expected("billing"))
                 PROVE  service # "stopped" /\ (service = "stamping" \/ Agrees("billing"))
      BY DEF ServiceReturns, Checked
    <2>1. Untouched
      BY DEF Untouched
    <2>2. \A r \in Requests : ~InScript(r)
      BY DEF InScript, Terminal
    <2>3. ~Deployed
      BY <2>2 DEF Deployed, Deploying, Scripted, Terminal
    <2>4. installed \in Known
      BY DEF HostInv, HostTypes
    <2>5. service # "stopped" /\ (service = "stamping" \/ Ready)
      BY <2>1, <2>2, <2>3, <2>4 DEF HostInv, Returning
    <2>6. dbs["billing"].version \in Nat /\ Expected("billing") \in Nat
      BY <2>4, HostConstants DEF HostInv, HostTypes, Stores, Databases, Expected, Known
    <2> QED
      BY <2>5, <2>6 DEF Ready, Agrees
  <1> QED
    BY <1>1, <1>2, <1>3 DEF UpgradesSafe

\* A booking stays, in the unit of its release, and the service comes back,
\* through every order of deployments, rollbacks and migrations by hand, each of
\* which may fail at every line, and whenever the host goes down
\* (scripts/deploy.sh, scripts/migrate_db.sh and BaseStorage.connect).
THEOREM UpgradesAlwaysSafe == Spec => []UpgradesSafe
  <1> DEFINE Inv == Frame /\ HostInv
  <1>1. Init => Inv
    BY FrameStart, HostStart
  <1>2. Inv /\ [Next]_vars => Inv'
    BY ProcessTurns, HouseTurns, FrameKept, HostKept
  <1>3. Inv => UpgradesSafe
    BY HostMeans
  <1> QED
    BY <1>1, <1>2, <1>3, PTL DEF Spec
============================================================================
