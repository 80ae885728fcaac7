---------------------------- MODULE Verification ----------------------------
(***************************************************************************)
(* Verification jobs (products/gatekeeper, routes/v1/gatekeeper.py): a     *)
(* submission stores a job, runs the verifier, stores the proof and is     *)
(* billed, all within one request; a cancellation comes from another one.  *)
(* A storage write with its commit is one step.  The id of a job is the    *)
(* request that made it.                                                   *)
(***************************************************************************)
EXTENDS Coroutines, FiniteSets

CONSTANTS JobKeys, NoJobKey, NoRequest

ASSUME JobConstants == NoJobKey \notin JobKeys /\ NoRequest \notin Requests

VARIABLES jobRows,       \* verification_jobs, NoJob where there is none
          proofRows,     \* proof_artifacts, by their job
          verdict,       \* what the verifier said, as the request knows it
          answer,        \* the job and the status a submission was answered with
          billedTo,      \* submissions that were charged for
          premature      \* history: jobs written by a cancellation and its executor at a time

jobVars == <<jobRows, proofRows, verdict, answer, billedTo, premature>>

NoJob == [status |-> "none", result |-> "none", key |-> NoJobKey, agent |-> "none", slow |-> FALSE]
JobWithKey(k) == {j \in Requests : jobRows[j].status # "none" /\ jobRows[j].key = k}
JobKey(r) == job[r].jobKey
Executing(j) == Op(j) = "submit" /\ pc[j] \in {"start", "invoke", "surcharge", "prove", "complete", "fail"}
Ended == {"completed", "failed", "cancelled"}

AnswerWith(r, j) == answer' = [answer EXCEPT ![r] =
    [job |-> j, status |-> jobRows[j].status, result |-> jobRows[j].result]]

\* The job with the key, if there is one and it is the agent's.
ExistingOr(r, otherwise) ==
    IF JobKey(r) = NoJobKey \/ JobWithKey(JobKey(r)) = {}
    THEN Go(r, otherwise) /\ UNCHANGED answer
    ELSE \E j \in JobWithKey(JobKey(r)) :
            IF jobRows[j].agent # job[r].agent THEN Go(r, "rejected") /\ UNCHANGED answer
                                               ELSE Go(r, "bill") /\ AnswerWith(r, j)

LookupJob(r) ==
    /\ At(r, "submit", "new")
    /\ ExistingOr(r, "create")
    /\ UNCHANGED <<jobRows, proofRows, verdict, billedTo, premature>>

\* The INSERT; the unique index on the key decides between two.
CreateJob(r) ==
    /\ At(r, "submit", "create")
    /\ IF JobKey(r) # NoJobKey /\ JobWithKey(JobKey(r)) # {}
       THEN Go(r, "relookup") /\ UNCHANGED jobRows
       ELSE /\ jobRows' = [jobRows EXCEPT ![r] =
                 [NoJob EXCEPT !.status = "pending", !.key = JobKey(r), !.agent = job[r].agent]]
            /\ Go(r, "start")
    /\ UNCHANGED <<proofRows, verdict, answer, billedTo, premature>>

\* Mutant: the loser of the race is shown the job of another agent.
RelookupAnyJob(r) ==
    /\ At(r, "submit", "relookup")
    /\ \E j \in JobWithKey(JobKey(r)) : Go(r, "bill") /\ AnswerWith(r, j)
    /\ UNCHANGED <<jobRows, proofRows, verdict, billedTo, premature>>

RelookupJob(r) ==
    /\ At(r, "submit", "relookup")
    /\ ExistingOr(r, "error")
    /\ UNCHANGED <<jobRows, proofRows, verdict, billedTo, premature>>

\* _execute_job: the statuses are written whatever the row says by now.
StartJob(r) ==
    /\ At(r, "submit", "start")
    /\ jobRows' = [jobRows EXCEPT ![r].status = "running"]
    /\ Go(r, "invoke")
    /\ UNCHANGED <<proofRows, verdict, answer, billedTo, premature>>

\* The verifier answers, perhaps with an error, or raises.
InvokeVerifier(r) ==
    /\ At(r, "submit", "invoke")
    /\ \/ \E said \in {"satisfied", "error"}, next \in {"surcharge", "prove"} :
             verdict' = [verdict EXCEPT ![r] = said] /\ Go(r, next)
       \/ verdict' = [verdict EXCEPT ![r] = "error"] /\ Go(r, "fail")
    /\ UNCHANGED <<jobRows, proofRows, answer, billedTo, premature>>

RaiseCost(r) ==
    /\ At(r, "submit", "surcharge")
    /\ jobRows' = [jobRows EXCEPT ![r].slow = TRUE]
    /\ Go(r, "prove")
    /\ UNCHANGED <<proofRows, verdict, answer, billedTo, premature>>

StoreProof(r) ==
    /\ At(r, "submit", "prove")
    /\ proofRows' = proofRows \cup {r}
    /\ Go(r, "complete")
    /\ UNCHANGED <<jobRows, verdict, answer, billedTo, premature>>

EndJob(r) ==
    /\ Op(r) = "submit" /\ pc[r] \in {"complete", "fail"}
    /\ jobRows' = [jobRows EXCEPT
          ![r].status = IF pc[r] = "complete" THEN "completed" ELSE "failed",
          ![r].result = verdict[r]]
    /\ Go(r, "reload")
    /\ UNCHANGED <<proofRows, verdict, answer, billedTo, premature>>

ReloadJob(r) ==
    /\ At(r, "submit", "reload")
    /\ AnswerWith(r, r)
    /\ Go(r, "bill")
    /\ UNCHANGED <<jobRows, proofRows, verdict, billedTo, premature>>

\* A failed job is free, and so is one whose result is an error.
BillJob(r) ==
    /\ At(r, "submit", "bill")
    /\ billedTo' = IF answer[r].status = "failed" \/ answer[r].result = "error"
                   THEN billedTo ELSE billedTo \cup {r}
    /\ Go(r, "done")
    /\ UNCHANGED <<jobRows, proofRows, verdict, answer, premature>>

\* cancel_verification: a read, and an UPDATE whatever the row says by then.
ReadJob(r) ==
    /\ At(r, "cancelJob", "new")
    /\ LET status == jobRows[job[r].target].status IN
       Go(r, IF status \in Ended \cup {"none"} THEN "rejected" ELSE "cancel")
    /\ UNCHANGED jobVars

CancelJob(r) ==
    /\ At(r, "cancelJob", "cancel")
    /\ jobRows' = [jobRows EXCEPT ![job[r].target].status = "cancelled"]
    /\ premature' = IF Executing(job[r].target) \/ jobRows[job[r].target].status \in Ended
                    THEN premature \cup {job[r].target} ELSE premature
    /\ Go(r, "done")
    /\ UNCHANGED <<proofRows, verdict, answer, billedTo>>

VerificationStep(r) ==
    \/ LookupJob(r) \/ CreateJob(r) \/ RelookupJob(r) \/ StartJob(r) \/ InvokeVerifier(r)
    \/ RaiseCost(r) \/ StoreProof(r) \/ EndJob(r) \/ ReloadJob(r) \/ BillJob(r)
    \/ ReadJob(r) \/ CancelJob(r)

VerificationInit ==
    /\ jobRows = [r \in Requests |-> NoJob]
    /\ proofRows = {} /\ billedTo = {} /\ premature = {}
    /\ verdict = [r \in Requests |-> "none"]
    /\ answer = [r \in Requests |-> [job |-> NoRequest, status |-> "none", result |-> "none"]]

-----------------------------------------------------------------------------
\* Submissions with one key get one job, and never another agent's ("both
\* callers observe the winning job", gatekeeper/src/api.py).  A job that is
\* completed has its proof, and a proof its completed job, unless the job was
\* cancelled while it ran or its request was cut; a job that runs has a
\* request, or one that was cut.  A failed job costs nobody anything who was
\* answered after it had failed, and whoever is charged has a job that was not
\* a failure when the answer was made.
JobsAccounted ==
    /\ \A k \in JobKeys : Cardinality(JobWithKey(k)) <= 1
    /\ \A q, r \in Requests : answer[q].job # NoRequest /\ answer[r].job # NoRequest =>
          /\ jobRows[answer[r].job].agent = job[r].agent
          /\ JobKey(q) = JobKey(r) /\ JobKey(q) # NoJobKey => answer[q].job = answer[r].job
    /\ \A j \in Requests : LET row == jobRows[j] IN
          /\ row.status = "completed" => j \in proofRows
          /\ j \in proofRows => \/ row.status = "completed" \/ j \in premature
                                \/ Executing(j) \/ cut[j] = "complete"
          /\ row.status \in {"pending", "running"} => Executing(j) \/ cut[j] # "never"
          /\ j \in billedTo /\ j = answer[j].job =>
                (row.status = "completed" /\ row.result = "satisfied") \/ j \in premature
          /\ \A r \in Requests : Op(r) = "cancelJob" /\ pc[r] = "done" /\ job[r].target = j =>
                row.status = "cancelled" \/ j \in premature
============================================================================
