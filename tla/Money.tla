-------------------------------- MODULE Money --------------------------------
(***************************************************************************)
(* Amounts in integers (products/shared/src/money.py): the conversion of   *)
(* credits, which truncates, and split_amount, which divides an amount and *)
(* gives the last part what is left.  Here an amount comes in Fine parts   *)
(* of an atomic unit, and a ratio in parts of One; that products of        *)
(* Decimals are rounded to 28 digits is left out.                          *)
(***************************************************************************)
EXTENDS Integers, Sequences, SequencesExt

CONSTANTS One,          \* Decimal("1"), as a ratio
          Tolerance,    \* Decimal("1E-18")
          Fine          \* of an atomic unit, which is the 10^8th of a credit

CreditsToAtomic(amount) == amount \div Fine

Total(parts) == FoldLeft(+, 0, parts)
Distance(x, y) == IF x < y THEN y - x ELSE x - y

\* What is not refused.
Divides(total, ratios) ==
    /\ total >= 0
    /\ ratios # <<>>
    /\ \A i \in DOMAIN ratios : ratios[i] >= 0
    /\ Distance(Total(ratios), One) <= Tolerance

SplitAmount(total, ratios) ==
    LET atomic == CreditsToAtomic(total)
        slices == [i \in DOMAIN Front(ratios) |-> (atomic * ratios[i]) \div One]
    IN Append(slices, atomic - Total(slices))

\* No unit is lost or made; a part is within one unit for each of the others of
\* its ratio, and never negative, unless the tolerance is worth a unit.
SplitsExactly(total, ratios) == Divides(total, ratios) =>
    LET atomic == CreditsToAtomic(total)
        parts == SplitAmount(total, ratios)
    IN /\ Len(parts) = Len(ratios) /\ Total(parts) = atomic
       /\ atomic * Tolerance < One => \A i \in DOMAIN parts :
             /\ parts[i] >= 0
             /\ Distance(parts[i] * One, atomic * ratios[i]) < Len(ratios) * One

\* The sum is the amount, if that is in whole units.
SplitsWhole(total, ratios) ==
    Divides(total, ratios) /\ total % Fine = 0 => Total(SplitAmount(total, ratios)) * Fine = total
============================================================================
