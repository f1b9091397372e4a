------------------------------ MODULE EscrowsDb ------------------------------
(***************************************************************************)
(* The escrow table of one datastore (DatastoreEscrowsDb): an SQLite table *)
(* with the balance of every payment-channel escrow, and an in-memory map  *)
(* of the payments already debited from each of them.  The table survives  *)
(* a restart of the process that owns it, the map does not.                *)
(*                                                                         *)
(* Every method runs to completion without an await, so each one is a      *)
(* single step of whatever calls it: the module defines, for every method, *)
(* its result and its effect, and QueryPayments composes them.             *)
(***************************************************************************)
EXTENDS Integers

CONSTANTS
  Escrow,               \* escrow ids
  Uuid,                 \* payment uuids
  QueryRoot,            \* ids of top-level queries
  MicrogonsPerMilligon, \* 1000 in the code
  CleanupDelay,         \* the hour an expired row is kept
  None                  \* no such row, entry, payment

ASSUME MicrogonsPerMilligonAssumption == MicrogonsPerMilligon \in Nat \ {0}
ASSUME CleanupDelayAssumption == CleanupDelay \in Nat

\* A query id: the id of a top-level query, or that id with the suffix ".Q"
\* under which the runner calls a remote storage engine.
QueryId == [root : QueryRoot, sub : {"", "Q"}]

\* Mutated: any query may reuse the payment.
StartsWithAny(queryId, prefix) == TRUE

\* queryId.startsWith(prefix)
StartsWith(queryId, prefix) ==
  /\ queryId.root = prefix.root
  /\ prefix.sub \in {"", queryId.sub}

EscrowRow == [allocated : Nat, remaining : Nat, expirationDate : Nat]
Entry == [microgons : Nat, queryId : QueryId]

ASSUME NoneAssumption == /\ None \notin EscrowRow
                         /\ None \notin Entry
                         /\ None \notin Nat
                         /\ None \notin Uuid

VARIABLES
  escrows,              \* the table
  paymentIdByEscrowId,  \* the map
  now                   \* Date.now()

dbVars == <<escrows, paymentIdByEscrowId>>

Spent(e) == escrows[e].allocated - escrows[e].remaining

DbTypeOK ==
  /\ escrows \in [Escrow -> EscrowRow \cup {None}]
  /\ paymentIdByEscrowId \in [Escrow -> [Uuid -> Entry \cup {None}]]
  /\ now \in Nat

DbInit ==
  /\ escrows = [e \in Escrow |-> None]
  /\ paymentIdByEscrowId = [e \in Escrow |-> [u \in Uuid |-> None]]
  /\ now = 0

-----------------------------------------------------------------------------
(* create *)

CreateEscrow(e, allocatedMilligons, expirationDate) ==
  /\ escrows[e] = None
  /\ escrows' = [escrows EXCEPT ![e] =
       [allocated |-> allocatedMilligons * MicrogonsPerMilligon,
        remaining |-> allocatedMilligons * MicrogonsPerMilligon,
        expirationDate |-> expirationDate]]
  /\ UNCHANGED paymentIdByEscrowId

-----------------------------------------------------------------------------
(* debit *)

\* CEIL(microgons / 1000) <= milligons, without the division: the parameter
\* is bound as a REAL, so SQLite does not truncate.
CoveredBy(microgons, milligons) == microgons <= milligons * MicrogonsPerMilligon

\* Mutated: no check of the balance.
CanDebitUnfunded(e, microgons, settledMilligons) ==
  /\ escrows[e] # None
  /\ now <= escrows[e].expirationDate
  /\ CoveredBy(Spent(e) + microgons, settledMilligons)

\* Mutated: an integer division that truncates.
CanDebitTruncated(e, microgons, settledMilligons) ==
  /\ escrows[e] # None
  /\ microgons <= escrows[e].remaining
  /\ now <= escrows[e].expirationDate
  /\ (Spent(e) + microgons) \div MicrogonsPerMilligon <= settledMilligons

\* Mutated: covers this payment, not the sum of the payments.
CanDebitAlone(e, microgons, settledMilligons) ==
  /\ escrows[e] # None
  /\ microgons <= escrows[e].remaining
  /\ now <= escrows[e].expirationDate
  /\ CoveredBy(microgons, settledMilligons)

\* The WHERE clause of the debit UPDATE.
CanDebit(e, microgons, settledMilligons) ==
  /\ escrows[e] # None
  /\ microgons <= escrows[e].remaining
  /\ now <= escrows[e].expirationDate
  /\ CoveredBy(Spent(e) + microgons, settledMilligons)

\* The payment was debited before.
AlreadyDebited(e, u) == paymentIdByEscrowId[e][u] # None

\* The payment was debited by this query or by one this query is part of:
\* nothing is debited and { shouldFinalize: false } is returned.
DebitRepeated(e, u, queryId) ==
  /\ AlreadyDebited(e, u)
  /\ StartsWith(queryId, paymentIdByEscrowId[e][u].queryId)
  /\ UNCHANGED dbVars

\* Mutated: the payment is not remembered.
RememberNothing(e, u, queryId, microgons) == UNCHANGED paymentIdByEscrowId

\* The entry is stored before the UPDATE runs.
RememberDebit(e, u, queryId, microgons) ==
  paymentIdByEscrowId' = [paymentIdByEscrowId EXCEPT ![e][u] =
                            [microgons |-> microgons, queryId |-> queryId]]

\* The UPDATE changed the row: { shouldFinalize: true }.
DebitAccepted(e, u, queryId, microgons, settledMilligons) ==
  /\ ~AlreadyDebited(e, u)
  /\ CanDebit(e, microgons, settledMilligons)
  /\ RememberDebit(e, u, queryId, microgons)
  /\ escrows' = [escrows EXCEPT ![e].remaining = @ - microgons]

\* The payment was debited by an unrelated query: throws.
DebitRefused(e, u, queryId) ==
  /\ AlreadyDebited(e, u)
  /\ ~StartsWith(queryId, paymentIdByEscrowId[e][u].queryId)
  /\ UNCHANGED dbVars

\* The UPDATE changed no row: throws, and the entry stays in the map.
DebitFailed(e, u, queryId, microgons, settledMilligons) ==
  /\ ~AlreadyDebited(e, u)
  /\ ~CanDebit(e, microgons, settledMilligons)
  /\ RememberDebit(e, u, queryId, microgons)
  /\ UNCHANGED escrows

-----------------------------------------------------------------------------
(* finalize *)

\* Mutated: nothing is released.
NoAdjustment(e, u, finalMicrogons) == 0

Adjustment(e, u, finalMicrogons) ==
  paymentIdByEscrowId[e][u].microgons - finalMicrogons

\* Mutated: neither the WHERE clause nor the CHECK.
CanAdjustUnchecked(e, adjustment) == escrows[e] # None

\* The UPDATE's WHERE clause, and the CHECK of the table.
CanAdjust(e, adjustment) ==
  /\ escrows[e] # None
  /\ escrows[e].remaining + adjustment \in 0 .. escrows[e].allocated

\* Otherwise it throws: no entry, or an UPDATE that changed nothing.
FinalizeSucceeds(e, u, finalMicrogons) ==
  /\ AlreadyDebited(e, u)
  /\ \/ Adjustment(e, u, finalMicrogons) = 0
     \/ CanAdjust(e, Adjustment(e, u, finalMicrogons))

\* The entry stays in the map.
FinalizePayment(e, u, finalMicrogons) ==
  /\ FinalizeSucceeds(e, u, finalMicrogons)
  /\ escrows' = IF Adjustment(e, u, finalMicrogons) = 0
                THEN escrows
                ELSE [escrows EXCEPT ![e].remaining =
                        @ + Adjustment(e, u, finalMicrogons)]
  /\ UNCHANGED paymentIdByEscrowId

-----------------------------------------------------------------------------
(* cleanup, on an interval, and the loss of the map in a restart *)

Stale(e) ==
  /\ escrows[e] # None
  /\ escrows[e].expirationDate + CleanupDelay < now

Cleanup ==
  /\ \E e \in Escrow : Stale(e)
  /\ escrows' = [e \in Escrow |-> IF Stale(e) THEN None ELSE escrows[e]]
  /\ paymentIdByEscrowId' =
       [e \in Escrow |-> IF Stale(e) THEN [u \in Uuid |-> None]
                                     ELSE paymentIdByEscrowId[e]]

ForgetPayments ==
  /\ paymentIdByEscrowId' = [e \in Escrow |-> [u \in Uuid |-> None]]
  /\ UNCHANGED escrows
=============================================================================
