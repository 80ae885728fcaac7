--------------------------------- MODULE Sums ---------------------------------
(***************************************************************************)
(* Sums of amounts: what SELECT SUM(amount) over a set of rows returns,    *)
(* and the total of the balances or of the payments of a set of agents or  *)
(* requests.  SumLemmas proves what the invariants about money need.       *)
(***************************************************************************)
EXTENDS Integers, FiniteSetsExt

Sum(f, S) == MapThenSumSet(LAMBDA x : f[x], S)

\* SELECT SUM(amount) over rows of <<who inserted it, amount>>.
Amounts(R) == Sum([x \in R |-> x[2]], R)
=============================================================================
