--------------------------- MODULE MCEscrowPayments ---------------------------
(* Small instances of EscrowPayments. *)
EXTENDS EscrowPayments, TLC

CONSTANTS q1, q2, q3

\* Two queries fit an escrow together, and leave nothing; one exceeds it.
PriceOfQuery == q1 :> 1 @@ q2 :> 3 @@ [q \in Query \ {q1, q2} |-> 5]
\* The function of a query may throw, and then it costs nothing.
TallyOfQuery ==
  [q \in Query |-> IF q = q1 THEN {PriceOfQuery[q]} ELSE {0, PriceOfQuery[q]}]
TwoMilligons == [type |-> "default", size |-> 2]
=============================================================================
