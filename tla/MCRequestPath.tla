--------------------------- MODULE MCRequestPath ---------------------------
(* Three requests, two windows of the clock. *)
EXTENDS RequestPath, TLC

CONSTANTS r1, r2, r3, rotate, pay, ask, k1, k2, b1, b2, p1, p2

Three(x, y, z) == (r1 :> x) @@ (r2 :> y) @@ (r3 :> z)
J(route, calls, key, body, proof) ==
    [route |-> route, calls |-> calls, key |-> key, header |-> TRUE, body |-> body, proof |-> proof]
Rest1(tool) == J("rest", <<tool>>, NoKey, b1, NoProof)
Exec(tool, key) == J("execute", <<tool>>, key, b1, NoProof)
Gate(key, body) == J("gate", <<pay>>, key, body, NoProof)
Proved(route, calls, p) == J(route, calls, NoKey, b1, p)
Idle == J("idle", <<ask>>, NoKey, b1, NoProof)
Retry == J("retry", <<ask>>, NoKey, b1, NoProof)

\* rotate is limited and free; pay and ask cost credits.
MCRequests == {r1, r2, r3}
MCCost == (rotate :> 0) @@ (pay :> 2) @@ (ask :> 1)
MCToolLimit == (rotate :> 2) @@ (pay :> 9) @@ (ask :> 9)

MCWorkloads ==
    { \* a limited tool, thrice, and over the other routes
      Three(Rest1(rotate), Rest1(rotate), Rest1(rotate)),
      Three(Rest1(rotate), Exec(rotate, NoKey), Idle),
      Three(Rest1(rotate), J("batch", <<rotate, rotate>>, NoKey, b1, NoProof), Idle),
      \* the budget, the balance and the hour's limit
      Three(Rest1(pay), Rest1(pay), Exec(ask, NoKey)),
      Three(Rest1(pay), J("batch", <<pay, ask>>, NoKey, b1, NoProof), Idle),
      \* usage records with one key
      Three(Exec(pay, k1), Exec(ask, k1), Idle),
      Three(Exec(pay, k1), Gate(k1, b1), Idle),
      \* the gate: a retry, another body, a key in the body, an old placeholder
      Three(Gate(k1, b1), Gate(k1, b1), Idle),
      Three(Gate(k1, b1), Gate(k1, b2), Idle),
      Three(Gate(k1, b1), [Gate(k1, b1) EXCEPT !.header = FALSE], Idle),
      Three(Gate(k2, b1), Gate(k2, b2), Idle),
      Three(Gate(k2, b2), Gate(k2, b2), Idle),
      \* proofs: a replay, a batch, retries
      Three(Proved("execute", <<pay>>, p1), Proved("execute", <<pay>>, p1),
            Proved("batch", <<ask, ask>>, p1)),
      Three(Proved("execute", <<pay>>, p1), Proved("execute", <<ask>>, p2), Retry),
      Three(Proved("execute", <<pay>>, p1), Retry, Retry),
      Three(Proved("batch", <<pay, ask>>, p1), Rest1(ask), Idle),
      \* batches of nothing
      Three(J("batch", <<>>, NoKey, b1, NoProof), Proved("batch", <<>>, p1), Idle) }
============================================================================
