------------------------------ MODULE MCWallet ------------------------------
(* Small workloads for Wallet: two agents, two currencies, three requests. *)
EXTENDS Wallet, TLC

CONSTANTS a1, a2, r1, r2, r3, k1, USD

MCAgents == {a1, a2}
MCCurrencies == {CREDITS, USD}
MCRequests == {r1, r2, r3}

J(op, agent, cur, amount, key) ==
    [op |-> op, agent |-> agent, cur |-> cur, amount |-> amount, key |-> key,
     to |-> CREDITS, gain |-> 0]
Convert(from, amount, to, gain) ==
    [op |-> "convert", agent |-> a1, cur |-> from, amount |-> amount,
     key |-> NoKey, to |-> to, gain |-> gain]
Three(x, y, z) == (r1 :> x) @@ (r2 :> y) @@ (r3 :> z)

\* a1 holds 3 credits and 2 dollars, auto-reloads 2 credits below 2.
MCStart == [a \in MCAgents \X MCCurrencies |->
                IF a = <<a1, CREDITS>> THEN 3 ELSE IF a = <<a1, USD>> THEN 2 ELSE 0]
MCReload == [a \in MCAgents |-> [threshold |-> 2, amount |-> 2]]

MCWorkloads ==
    { \* a keyed deposit, its retry, and a withdrawal that wants the money
      Three(J("deposit", a1, CREDITS, 1, k1), J("deposit", a1, CREDITS, 1, k1),
            J("withdraw", a1, CREDITS, 4, NoKey)),
      \* two debits that both fall below the reload threshold, one too many
      Three(J("withdraw", a1, CREDITS, 2, k1), J("charge", a1, CREDITS, 2, NoKey),
            J("withdraw", a1, CREDITS, 0, NoKey)),
      \* a wallet is created twice while somebody deposits into it
      Three(J("create", a2, CREDITS, 1, NoKey), J("create", a2, CREDITS, 1, NoKey),
            J("deposit", a2, CREDITS, 1, NoKey)),
      \* configuration changes under a withdrawal
      Three(J("freeze", a1, CREDITS, 0, NoKey), J("disable_reload", a1, CREDITS, 0, NoKey),
            J("withdraw", a1, CREDITS, 2, NoKey)),
      Three(J("unfreeze", a1, CREDITS, 0, NoKey), J("enable_reload", a2, CREDITS, 0, NoKey),
            J("withdraw", a1, USD, 2, NoKey)),
      \* conversions: one that succeeds, one that must fail, and a deposit
      Three(Convert(USD, 2, CREDITS, 3), Convert(USD, 1, CREDITS, 2),
            J("deposit", a1, USD, 1, NoKey)),
      Three(Convert(CREDITS, 2, USD, 1), J("charge", a1, CREDITS, 2, NoKey),
            J("freeze", a2, CREDITS, 0, NoKey)) }
=============================================================================
