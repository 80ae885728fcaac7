--------------------------- MODULE DurableLedger ---------------------------
(***************************************************************************)
(* What the billing database promises, whatever the coroutines, crashes    *)
(* and rollbacks do: the durable balances move only by whole balance       *)
(* changes ("legs"), each leg happens at most once and is never undone,    *)
(* and no account is ever durably below zero.                              *)
(***************************************************************************)
EXTENDS Sums

CONSTANTS Accounts,         \* <<agent, currency>> pairs
          Start             \* balances before the first request

VARIABLES legs,             \* all legs the workload may apply: [acct, amount]
          applied,          \* legs durable so far
          balance           \* durable balance of each account

dvars == <<legs, applied, balance>>

Effect(L, acct) ==
    Sum([l \in L |-> l.amount], {l \in L : l.acct = acct})

Init ==
    /\ applied = {}
    /\ balance = Start

\* One COMMIT may make several legs durable at once.
Apply(L) ==
    /\ L # {} /\ L \cap applied = {}
    /\ applied' = applied \cup L
    /\ balance' = [a \in Accounts |-> balance[a] + Effect(L, a)]
    /\ \A a \in Accounts : balance'[a] >= 0
    /\ UNCHANGED legs

\* The legs made durable are those that are new.
Next == applied \subseteq applied' /\ applied' \subseteq legs /\ Apply(applied' \ applied)

Spec == Init /\ [][Next]_dvars
============================================================================
