------------------------------- MODULE Hosting -------------------------------
(***************************************************************************)
(* What goes on around a gateway process: its start and its end, the child *)
(* processes of its connectors and the upstreams these call, the backup    *)
(* and the restore of a database under it, the scripts that upgrade its    *)
(* host, and those that release what the host installs.                    *)
(***************************************************************************)
EXTENDS Upgrades, Lifespan, Releases, Backups

process == <<connectorVars, lifeVars, upstreamVars>>
vars == <<tasks, process, backupVars, hostVars, releaseVars>>

\* A process that is not serving does not take a request, nor does it work.
Step(r) ==
    /\ \/ /\ ConnectorStep(r) /\ (pc[r] = "new" => Serves)
          /\ UNCHANGED <<lifeVars, upstreamVars, backupVars, hostVars, releaseVars>>
       \/ LoopStep(r) /\ UNCHANGED <<connectorVars, upstreamVars, backupVars, hostVars, releaseVars>>
       \/ UpstreamStep(r) /\ UNCHANGED <<connectorVars, lifeVars, backupVars, hostVars, releaseVars>>
       \/ BackupStep(r) /\ UNCHANGED <<process, hostVars, releaseVars>>
       \/ HostStep(r) /\ UNCHANGED <<process, backupVars, releaseVars>>
       \/ ReleaseStep(r) /\ UNCHANGED <<process, backupVars, hostVars>>
    /\ UNCHANGED frame

\* What runs beside the requests: the children, the process itself, the threads
\* of its backups, systemd, and the workflows.
Child(n) == ChildStep(n) /\ UNCHANGED <<job, lifeVars, upstreamVars, backupVars, hostVars, releaseVars>>
Process == LifeStep /\ UNCHANGED <<job, faults, upstreamVars, backupVars, hostVars, releaseVars>>
Threads == ThreadStep /\ UNCHANGED <<tasks, process, hostVars, releaseVars>>
Service == ServiceStep /\ UNCHANGED <<tasks, process, backupVars, releaseVars>>
Workflows == WorkflowStep /\ UNCHANGED <<tasks, process, backupVars, hostVars>>
Tick == UpstreamTick /\ UNCHANGED <<tasks, connectorVars, lifeVars, backupVars, hostVars, releaseVars>>

Cancelled(r) == /\ TimeOut(r) /\ ConnectorTimeOut(r)
                /\ UNCHANGED <<lifeVars, upstreamVars, backupVars, hostVars, releaseVars>>

Died == /\ life \notin Over
        /\ Crashed /\ ConnectorCrash /\ LifeCrash /\ BackupCrash /\ HostCrash
        /\ UNCHANGED <<upstreamVars, releaseVars>>

\* What is not sent: a request to a process that is gone, the restore of a
\* backup that there is not, and what would follow it.
Unsent(r) == \/ pc[r] = "new" /\ life \in Over
             \/ NotRestored(r)
             \/ ~Answered(r) /\ NotRestored(job[r].after)
AllDone == \A r \in Requests : pc[r] \in Terminal \/ Unsent(r) \/ Starved(r)
Terminating == AllDone /\ UNCHANGED vars

Init == /\ TaskInit /\ ConnectorInit /\ LifeInit /\ UpstreamInit /\ BackupInit /\ HostInit /\ ReleaseInit

Next == \/ \E r \in Requests : Step(r) \/ Cancelled(r) \/ Child(r)
        \/ Process \/ Threads \/ Service \/ Workflows \/ Tick \/ Died \/ Terminating

Spec == Init /\ [][Next]_vars

-----------------------------------------------------------------------------
\* What is released, what is done to the host, and to what it holds, is done as
\* a whole.
HostSafe == UpgradesSafe /\ BackupsRight /\ ReleasesRight

\* A connector answers whoever it may, and its upstream is asked once; the
\* process around it starts and ends in order.
ProcessSafe == ConnectorsAnswer /\ UpstreamSafe /\ LifeOrderly
============================================================================
