------------------------- MODULE MCSettlementRefund -------------------------
(* One settlement of two credits, three requests. *)
EXTENDS SettlementRefund, TLC

CONSTANTS ann, bob, s1, k1, r1, r2, r3

Three(x, y, z) == (r1 :> x) @@ (r2 :> y) @@ (r3 :> z)
J(op, n, key) == [op |-> op, settlement |-> s1, key |-> key, amount |-> n]
Write(op) == J(op, 0, NoKey)

MCRequests == {r1, r2, r3}
MCTerms == s1 :> [payer |-> ann, payee |-> bob, amount |-> 2]
MCStart == (ann :> 0) @@ (bob :> 3)

MCWorkloads ==
    { \* three refunds of parts and of the rest
      Three(J("refund", 1, NoKey), J("refund", 1, NoKey), J("refund", 0, NoKey)),
      \* full refunds beside a writer
      Three(J("refund", 0, NoKey), J("refund", 0, NoKey), Write("write")),
      \* a part is retried beside a writer
      Three(J("refund", 1, k1), J("refund", 1, k1), Write("write")),
      \* a refused writer, another writer
      Three(J("refund", 2, NoKey), Write("refused"), Write("write")) }
=============================================================================
