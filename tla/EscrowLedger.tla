---------------------------- MODULE EscrowLedger ----------------------------
(***************************************************************************)
(* What a payer expects of the escrows it opened with a datastore, in      *)
(* microgons: the datastore holds an amount only when the escrow has it    *)
(* and a settlement the payer signed covers it, a hold is released in part *)
(* or as a whole, and nothing else changes the account.                    *)
(***************************************************************************)
EXTENDS Integers

CONSTANTS
  Escrow,
  Amount   \* what can be held, signed or allocated

VARIABLE account

Empty(state) == [state |-> state, allocated |-> 0, spent |-> 0, signed |-> 0]

IsOpen(e) == account[e].state = "open"

Init == account = [e \in Escrow |-> Empty("unopened")]

Open(e) ==
  /\ account[e].state = "unopened"
  /\ \E allocated \in Amount :
       account' = [account EXCEPT ![e] =
                     [Empty("open") EXCEPT !.allocated = allocated]]

\* The payer signs a larger settlement.
Sign(e) ==
  /\ IsOpen(e)
  /\ \E signed \in Amount : /\ account[e].signed < signed
                            /\ account' = [account EXCEPT ![e].signed = signed]

Hold(e) ==
  /\ IsOpen(e)
  /\ \E spent \in Amount : /\ account[e].spent < spent
                           /\ spent <= account[e].allocated
                           /\ spent <= account[e].signed
                           /\ account' = [account EXCEPT ![e].spent = spent]

Release(e) ==
  /\ IsOpen(e)
  /\ \E spent \in Amount : /\ spent < account[e].spent
                           /\ account' = [account EXCEPT ![e].spent = spent]

\* Escrows are closed together.
Close(dropped) ==
  account' = [e \in Escrow |-> IF e \in dropped THEN Empty("closed")
                                                ELSE account[e]]

Next ==
  \/ \E dropped \in SUBSET Escrow : Close(dropped)
  \/ \E e \in Escrow : Open(e) \/ Sign(e) \/ Hold(e) \/ Release(e)

Spec == Init /\ [][Next]_account
=============================================================================
