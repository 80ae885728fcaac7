----------------------------- MODULE Coroutines -----------------------------
(***************************************************************************)
(* What the handlers of the product modules have in common: a request runs *)
(* one operation, from await to await, in one process; it answers, or the  *)
(* gateway's timeout cancels it at an await, or the process dies under     *)
(* everybody.  A background task is not timed out.                         *)
(***************************************************************************)
EXTENDS Naturals

CONSTANTS Requests,
          Workloads,    \* what the requests may ask: a set of functions
          MaxFaults     \* crashes and timeouts

ASSUME CoroutineConstants ==
    MaxFaults \in Nat /\ \A w \in Workloads : \A r \in Requests : "op" \in DOMAIN w[r]

VARIABLES job,    \* the operation of each request, with its parameters
          pc,     \* the await it stands at
          cut,    \* history: where it stood when it was cancelled or lost
          faults

tasks == <<job, pc, cut, faults>>
frame == <<job, cut, faults>>

Op(r) == job[r].op
At(r, op, place) == Op(r) = op /\ pc[r] = place
Go(r, next) == pc' = [pc EXCEPT ![r] = next]

Terminal == {"done", "rejected", "error", "429", "504", "lost"}
Running(r) == pc[r] \notin Terminal \cup {"new"}

TaskInit ==
    /\ job \in Workloads
    /\ pc = [r \in Requests |-> IF Op(r) = "idle" THEN "done" ELSE "new"]
    /\ cut = [r \in Requests |-> "never"]
    /\ faults = 0

\* RequestTimeoutMiddleware.
TimeOut(r) ==
    /\ Running(r) /\ faults < MaxFaults /\ ~job[r].background
    /\ faults' = faults + 1
    /\ Go(r, "504")
    /\ cut' = [cut EXCEPT ![r] = pc[r]]
    /\ UNCHANGED job

Crashed ==
    /\ faults < MaxFaults
    /\ faults' = faults + 1
    /\ pc' = [r \in Requests |-> IF Running(r) THEN "lost" ELSE pc[r]]
    /\ cut' = [r \in Requests |-> IF Running(r) THEN pc[r] ELSE cut[r]]
    /\ UNCHANGED job
============================================================================
