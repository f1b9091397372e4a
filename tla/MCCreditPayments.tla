--------------------------- MODULE MCCreditPayments ---------------------------
(* Small instances of CreditPayments. *)
EXTENDS CreditPayments, TLC

CONSTANTS q1, q2

\* A query of a table, and cheaper queries of functions, which may fail and then
\* add nothing.
PriceOfQuery == q1 :> 2 @@ [q \in Query \ {q1} |-> 1]
TablePriceOfQuery == q1 :> 2 @@ [q \in Query \ {q1} |-> 0]
TallyOfQuery == [q \in Query |-> IF q = q1 THEN {0} ELSE {0, PriceOfQuery[q]}]
=============================================================================
