------------------------------ MODULE MCHosting ------------------------------
(* Three requests around one process at a time, and one fault. *)
EXTENDS Hosting, TLC

CONSTANTS r1, r2, r3, k1, k2, w1, w2, c1, c2

Three(x, y, z) == (r1 :> x) @@ (r2 :> y) @@ (r3 :> z)
Call(op) == [op |-> op, background |-> FALSE]
Task(op) == [op |-> op, background |-> TRUE]
Back(call, r) == call @@ [after |-> r]

Connector == Call("connector")
LoopOf(name) == Task("loop") @@ [name |-> name]
Delivery == Task("send")
Stripe(key) == Task("upstream") @@ [api |-> "stripe", upstreamKey |-> key]
GitHub == Task("upstream") @@ [api |-> "github"]
Deposit == Call("deposit")
Backup(encrypt) == Call("backup") @@ [encrypt |-> encrypt]
Restore(b) == Call("restore") @@ [of |-> b]
Deploy(release) == Task("deploy") @@ [release |-> release]
Migrate == Task("migrate")
Book(db, small) == Task("book") @@ [product |-> db, small |-> small]
Ship(clone, version, mode) ==
    Call("release") @@ [clone |-> clone, version |-> version, mode |-> mode]
Publish(clone, version) ==
    Call("publish") @@ [clone |-> clone, version |-> version, mode |-> "search"]
PublishSha(clone, version) ==
    Call("publish") @@ [clone |-> clone, version |-> version, mode |-> "sha"]
Dispatched(ref) == Call("dispatch") @@ [ref |-> ref]
Again(clone, version) == Call("cleanUp") @@ [clone |-> clone, version |-> version]
PullRequest == Call("pullRequest")
Idling == Call("idle")
Versioned(b, p) == ("billing" :> b) @@ ("paywall" :> p)

MCRequests == {r1, r2, r3}
\* The second release converts both databases.
MCExpects == (1 :> Versioned(1, 1)) @@ (2 :> Versioned(2, 2))

MCWorkloads ==
    { Three(Connector, Connector, Connector),
      Three(Connector, Connector, LoopOf("scheduler")),
      Three(Connector, LoopOf("scheduler"), LoopOf("health")),
      Three(Connector, LoopOf("sessions"), Delivery),
      Three(LoopOf("rates"), LoopOf("eventCleanup"), LoopOf("nonces")),
      Three(LoopOf("aggregates"), LoopOf("lifecycle"), Delivery),
      Three(Stripe(w1), Stripe(w1), Stripe(w2)),
      Three(GitHub, GitHub, Idling),
      Three(Deposit, Backup(FALSE), Restore(r2)),
      Three(Deposit, Backup(TRUE), Restore(r2)),
      Three(Back(Deposit, r3), Backup(TRUE), Restore(r2)),
      Three(Backup(TRUE), Backup(TRUE), Restore(r1)),
      Three(Backup(FALSE), Backup(TRUE), Restore(r1)),
      Three(Backup(TRUE), Restore(r1), Restore(r1)),
      Three(Backup(FALSE), Restore(r1), Restore(r1)),
      Three(Deploy(1), Book("paywall", TRUE), Deploy(2)),
      Three(Deploy(1), Book("paywall", TRUE), Migrate),
      Three(Deploy(1), Book("billing", FALSE), Deploy(2)),
      Three(Deploy(2), Book("billing", FALSE), Book("billing", TRUE)),
      Three(Deploy(2), Book("billing", FALSE), Deploy(2)),
      Three(Deploy(2), Migrate, Book("billing", FALSE)),
      Three(Deploy(2), Migrate, Book("paywall", TRUE)),
      Three(Ship(k1, c1, "full"), PullRequest, Publish(k1, c1)),
      Three(Ship(k1, c1, "full"), PullRequest, Dispatched("main")),
      Three(Ship(k1, c1, "skip-ci"), Dispatched(c1), Dispatched("main")),
      Three(Ship(k1, c1, "skip-publish"), PullRequest, PublishSha(k2, c1)),
      Three(Ship(k1, c1, "full"), Ship(k2, c2, "skip-publish"), Idling),
      Three(Ship(k1, c1, "full"), Ship(k1, c2, "full"), Idling),
      Three(Ship(k1, c1, "skip-ci"), Ship(k2, c1, "full"), Idling),
      Three(Ship(k1, c1, "skip-publish"), Publish(k2, c1), Publish(k1, c1)),
      Three(Ship(k1, c1, "skip-deploy"), Again(k1, c1), Ship(k1, c1, "full")),
      Three(Ship(k1, c1, "full"), Again(k1, c1), Ship(k1, c2, "full")),
      Three(Ship(k1, c1, "dry-run"), Again(k1, c1), Ship(k1, c1, "full")) }
============================================================================
