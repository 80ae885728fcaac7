----------------------------- MODULE MCEscrows -----------------------------
(* Three escrows and a dispute, three requests and the scheduler. *)
EXTENDS Escrows, TLC

CONSTANTS ann, bob, cy, e1, e2, e3, d1, k1, r1, r2, r3

Three(x, y, z) == (r1 :> x) @@ (r2 :> y) @@ (r3 :> z)
T(payer, payee, amount, timed, gated) ==
    [payer |-> payer, payee |-> payee, amount |-> amount,
     timed |-> timed, gated |-> gated]
E(op, e, key) ==
    [op |-> op, esc |-> e, dispute |-> None, key |-> key, verdict |-> "refund"]
D(op, d, verdict) ==
    [op |-> op, esc |-> None, dispute |-> d, key |-> NoKey, verdict |-> verdict]
Pass(op) ==
    [op |-> op, esc |-> None, dispute |-> None, key |-> NoKey, verdict |-> "refund"]

\* e1 is held at the start; cy has no wallet and cannot be paid.
MCRequests == {r1, r2, r3}
MCTerms == (e1 :> T(ann, bob, 2, TRUE, TRUE)) @@ (e2 :> T(bob, cy, 1, TRUE, FALSE))
           @@ (e3 :> T(bob, ann, 1, FALSE, FALSE))
MCSubject == d1 :> e1
MCRowId == (e1 :> 1) @@ (e2 :> 2) @@ (e3 :> 3) @@ (d1 :> 1)
MCStart == (ann :> 1) @@ (bob :> 2) @@ (cy :> 0)

MCWorkloads ==
    { \* everybody wants e1
      Three(E("release", e1, k1), E("refund", e1, k1), E("perf", e1, NoKey)),
      \* a keyed release is retried
      Three(E("release", e1, k1), E("release", e1, k1), E("refund", e1, NoKey)),
      \* an escrow is created, released to nobody, expired by hand
      Three(E("create", e2, k1), E("release", e2, k1), Pass("due")),
      \* a creation is retried
      Three(E("create", e2, k1), E("create", e3, k1), E("refund", e1, NoKey)),
      \* a dispute runs its course, or not
      Three(D("open", d1, "refund"), D("respond", d1, "refund"),
            D("resolve", d1, "release")),
      Three(D("open", d1, "refund"), D("resolve", d1, "refund"), Pass("sweep")),
      Three(D("open", d1, "refund"), Pass("sweep"), E("release", e1, NoKey)) }
=============================================================================
