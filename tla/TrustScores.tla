----------------------------- MODULE TrustScores -----------------------------
(***************************************************************************)
(* The servers whose trust is scored, and the scores (products/trust/src), *)
(* on one connection with implicit transactions.  The ids are given by     *)
(* their owners, who may use one again after a deletion: one id is         *)
(* modelled, and a server is named by the request that registered it.      *)
(***************************************************************************)
EXTENDS Coroutines, Sequences, Functions, SqliteConnection

CONSTANTS FirstServer, NoServer

ASSUME TrustConstants == NoServer \notin Requests \cup {FirstServer}

VARIABLES trustDb,      \* the connection (see SqliteConnection)
          scored,       \* the server each request looked up
          answered,     \* history: the server whose score each was answered
          orphaned,     \* history: servers scored after their deletion
          mixed         \* history: requests that read beside a deletion or a new server

trustVars == <<trustDb, scored, answered, orphaned, mixed>>

trust == trustDb.data
ExecuteTrust(d) == trustDb' = ExecuteImplicit(trustDb, d)
Deleting == \E r \in Requests : At(r, "deleteServer", "scores")

\* register_server: the primary key refuses an id that is in use.
RegisterServer(r) ==
    /\ At(r, "registerServer", "new")
    /\ IF trust.server # NoServer
       THEN Go(r, "error") /\ UNCHANGED trustDb
       ELSE /\ ExecuteTrust([trust EXCEPT !.server = r])
            /\ Go(r, "commit")
    /\ UNCHANGED <<scored, answered, orphaned, mixed>>

\* get_score: the server, the latest score unless a new one is asked for, or
\* one that is computed and stored.
LookupServer(r) ==
    /\ At(r, "score", "new")
    /\ scored' = [scored EXCEPT ![r] = trust.server]
    /\ Go(r, IF trust.server = NoServer THEN "rejected"
             ELSE IF job[r].recompute THEN "compute" ELSE "cached")
    /\ UNCHANGED <<trustDb, answered, orphaned, mixed>>

ReadScore(r) ==
    /\ At(r, "score", "cached")
    /\ IF trust.scores = <<>>
       THEN Go(r, "compute") /\ UNCHANGED <<answered, mixed>>
       ELSE /\ answered' = [answered EXCEPT ![r] = trust.scores[Len(trust.scores)]]
            /\ mixed' = IF Deleting \/ trust.server # scored[r] THEN mixed \cup {r} ELSE mixed
            /\ Go(r, "done")
    /\ UNCHANGED <<trustDb, scored, orphaned>>

StoreScore(r) ==
    /\ At(r, "score", "compute")
    /\ ExecuteTrust([trust EXCEPT !.scores = Append(@, scored[r])])
    /\ orphaned' = IF trust.server # scored[r] THEN orphaned \cup {scored[r]} ELSE orphaned
    /\ answered' = [answered EXCEPT ![r] = scored[r]]
    /\ Go(r, "commit")
    /\ UNCHANGED <<scored, mixed>>

\* delete_server: the row, what belongs to it, and the commit.
DeleteServer(r) ==
    /\ At(r, "deleteServer", "new")
    /\ IF trust.server = NoServer
       THEN Go(r, "rejected") /\ UNCHANGED <<trustDb, scored>>
       ELSE /\ ExecuteTrust([trust EXCEPT !.server = NoServer])
            /\ scored' = [scored EXCEPT ![r] = trust.server]
            /\ Go(r, "scores")
    /\ UNCHANGED <<answered, orphaned, mixed>>

DeleteScores(r) ==
    /\ At(r, "deleteServer", "scores")
    /\ ExecuteTrust([trust EXCEPT !.scores = <<>>])
    /\ Go(r, "commit")
    /\ UNCHANGED <<scored, answered, orphaned, mixed>>

CommitTrust(r) ==
    /\ Op(r) \in {"registerServer", "score", "deleteServer"} /\ pc[r] = "commit"
    /\ trustDb' = Commit(trustDb)
    /\ Go(r, "done")
    /\ UNCHANGED <<scored, answered, orphaned, mixed>>

TrustStep(r) ==
    \/ RegisterServer(r) \/ LookupServer(r) \/ ReadScore(r) \/ StoreScore(r)
    \/ DeleteServer(r) \/ DeleteScores(r) \/ CommitTrust(r)

TrustCrash == trustDb' = Crash(trustDb) /\ UNCHANGED <<scored, answered, orphaned, mixed>>

TrustInit ==
    /\ trustDb = Connected([server |-> FirstServer, scores |-> <<FirstServer>>])
    /\ scored = [r \in Requests |-> NoServer]
    /\ answered = [r \in Requests |-> NoServer]
    /\ orphaned = {} /\ mixed = {}

-----------------------------------------------------------------------------
\* A deletion that was cut short has removed the server but not its scores, and
\* another request's commit may have saved that half.
LeftBehind == {scored[r] : r \in {q \in Requests : Op(q) = "deleteServer" /\ pc[q] \in {"504", "lost"}}}

\* A server answers for itself: "delete a server and all its associated data"
\* leaves nothing to a server that takes the id, but what was computed while
\* it was deleted, or when it was not completed; who asks meanwhile may be
\* answered with the score of another.
ScoresHaveServers ==
    /\ \A r \in Requests : At(r, "score", "done") =>
          answered[r] \in {scored[r]} \cup orphaned \cup LeftBehind \/ r \in mixed
    /\ \A s \in Range(trust.scores) :
          s = trust.server \/ Deleting \/ s \in orphaned \cup LeftBehind
============================================================================
