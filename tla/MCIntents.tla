----------------------------- MODULE MCIntents -----------------------------
(* Four intents, three requests. *)
EXTENDS Intents, TLC

CONSTANTS ann, bob, cy, i1, i2, i3, i4, k1, r1, r2, r3

Three(x, y, z) == (r1 :> x) @@ (r2 :> y) @@ (r3 :> z)
T(payer, payee, n) == [payer |-> payer, payee |-> payee, amount |-> n]
J(op, i, key) == [op |-> op, intent |-> i, key |-> key, amount |-> 1]

\* i1 and i2 are pending at the start; cy has no wallet and cannot be paid;
\* bob needs what i1 brings him to pay i2.
MCRequests == {r1, r2, r3}
MCTerms == (i1 :> T(ann, bob, 2)) @@ (i2 :> T(bob, ann, 2))
           @@ (i3 :> T(ann, cy, 2)) @@ (i4 :> T(ann, bob, 1))
MCStart == (ann :> 4) @@ (bob :> 1) @@ (cy :> 0)

MCWorkloads ==
    { \* two captures and a refund of one intent
      Three(J("capture", i1, k1), J("capture", i1, NoKey), J("refund", i1, NoKey)),
      \* one key for two intents, and a payee who spends what he was paid
      Three(J("capture", i1, k1), J("capture", i2, k1), J("refund", i2, NoKey)),
      \* parts, and a refund
      Three(J("partial", i1, NoKey), J("partial", i1, NoKey), J("refund", i1, NoKey)),
      \* a part whose request is repeated, and the rest
      Three(J("partial", i1, k1), J("partial", i1, k1), J("capture", i1, NoKey)),
      \* an intent is created, captured for nobody, refunded
      Three(J("create", i3, k1), J("capture", i3, NoKey), J("refund", i3, k1)),
      \* a creation is retried
      Three(J("create", i3, k1), J("create", i4, k1), J("capture", i4, NoKey)),
      \* a refund is retried
      Three(J("capture", i1, NoKey), J("refund", i1, k1), J("refund", i1, k1)) }
=============================================================================
