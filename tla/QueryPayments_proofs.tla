------------------------ MODULE QueryPayments_proofs ------------------------
(***************************************************************************)
(* Proofs about QueryPayments, for every set of requests, payments and     *)
(* escrows, every price, and both kinds of storage engine.                 *)
(***************************************************************************)
EXTENDS QueryPayments, TLAPS

(* Type correctness *)

\* TypeOK is inductive once every run that awaits its debit has a payment, and
\* every submitted run a query id.
RunTypeInv(r) ==
  /\ AwaitsDebit(r) => HasPayment(r)
  /\ pc[r] # "idle" => request[r].root \in QueryRoot

TypeInv == TypeOK /\ \A r \in Run : RunTypeInv(r)

LEMMA PriceType == \A calls : Price(calls) \in Nat
BY PricesAssumption DEF Price

LEMMA InitTypeInv == Init => TypeInv
<1> SUFFICES ASSUME Init PROVE TypeInv
  OBVIOUS
<1>1. terms \in [Uuid -> PaymentTerms]
  BY PriceType DEF Init, PaymentTerms, Milligons
<1>2. DbTypeOK
  BY DEF Init, DbInit, DbTypeOK
<1>3. TypeOK
  BY <1>1, <1>2, BoundsAssumption
  DEF Init, TypeOK, Pc, NoRequest, Request
<1> QED
  BY <1>3 DEF TypeInv, RunTypeInv, Init, AwaitsDebit, DebitSteps

\* The terms of a run that has a payment.
LEMMA TermsType ==
  ASSUME TypeOK, NEW r \in Run, HasPayment(r)
  PROVE  /\ Payment(r) \in Uuid
         /\ EscrowOf(r) \in Escrow
         /\ Terms(r).microgons \in Nat
         /\ Terms(r).settledMilligons \in Milligons
         /\ Terms(r).settledMilligons \in Nat
BY BoundsAssumption
DEF TypeOK, HasPayment, Payment, Request, EscrowOf, Terms, PaymentTerms, Milligons

\* A debit that is accepted leaves a row and an entry.
LEMMA DebitAcceptedType ==
  ASSUME DbTypeOK, NEW e \in Escrow, NEW u \in Uuid, NEW queryId \in QueryId,
         NEW microgons \in Nat, NEW settled \in Nat, now' = now,
         DebitAccepted(e, u, queryId, microgons, settled)
  PROVE  DbTypeOK'
<1>1. escrows[e] \in EscrowRow
  BY DEF DbTypeOK, DebitAccepted, CanDebit
<1>2. escrows[e].remaining - microgons \in Nat
  BY <1>1 DEF EscrowRow, DebitAccepted, CanDebit
<1>3. escrows' \in [Escrow -> EscrowRow \cup {None}]
  BY <1>1, <1>2 DEF EscrowRow, DbTypeOK, DebitAccepted
<1>4. [microgons |-> microgons, queryId |-> queryId] \in Entry
  BY DEF Entry
<1>5. paymentIdByEscrowId' \in [Escrow -> [Uuid -> Entry \cup {None}]]
  BY <1>4 DEF DbTypeOK, DebitAccepted, RememberDebit
<1> QED
  BY <1>3, <1>5 DEF DbTypeOK

\* A debit that fails leaves an entry.
LEMMA DebitFailedType ==
  ASSUME DbTypeOK, NEW e \in Escrow, NEW u \in Uuid, NEW queryId \in QueryId,
         NEW microgons \in Nat, NEW settled \in Nat, now' = now,
         DebitFailed(e, u, queryId, microgons, settled)
  PROVE  DbTypeOK'
<1>1. [microgons |-> microgons, queryId |-> queryId] \in Entry
  BY DEF Entry
<1>2. paymentIdByEscrowId' \in [Escrow -> [Uuid -> Entry \cup {None}]]
  BY <1>1 DEF DbTypeOK, DebitFailed, RememberDebit
<1> QED
  BY <1>2 DEF DbTypeOK, DebitFailed

\* A payment that is finalized leaves a row within its allocation.
LEMMA FinalizePaymentType ==
  ASSUME DbTypeOK, NEW e \in Escrow, NEW u \in Uuid,
         NEW final \in Nat, now' = now, FinalizePayment(e, u, final)
  PROVE  DbTypeOK'
<1>1. CASE Adjustment(e, u, final) = 0
  BY <1>1 DEF FinalizePayment, DbTypeOK
<1>2. CASE Adjustment(e, u, final) # 0
  <2>1. CanAdjust(e, Adjustment(e, u, final))
    BY <1>2 DEF FinalizePayment, FinalizeSucceeds
  <2>2. /\ escrows[e] \in EscrowRow
        /\ escrows[e].remaining + Adjustment(e, u, final) \in Nat
    BY <2>1 DEF CanAdjust, DbTypeOK, EscrowRow
  <2>3. escrows' = [escrows EXCEPT ![e].remaining = @ + Adjustment(e, u, final)]
    BY <1>2 DEF FinalizePayment
  <2>4. escrows' \in [Escrow -> EscrowRow \cup {None}]
    BY <2>2, <2>3 DEF DbTypeOK, EscrowRow
  <2> QED
    BY <2>4 DEF FinalizePayment, DbTypeOK
<1> QED
  BY <1>1, <1>2

\* The query id of a debit.
LEMMA DebitQueryIdType ==
  ASSUME TypeOK, NEW r \in Run, request[r].root \in QueryRoot
  PROVE  DebitQueryId(r) \in QueryId
BY DEF TypeOK, DebitQueryId, QueryId

\* A run that goes on leaves every run with a step to take, and none newly
\* waiting for its debit.
LEMMA ProceedType ==
  ASSUME TypeInv, NEW r \in Run, pc[r] # "idle", Proceed(r), UNCHANGED request
  PROVE  /\ pc' \in [Run -> Pc]
         /\ executed' \in [Run -> BOOLEAN]
         /\ \A q \in Run : RunTypeInv(q)'
BY DEF TypeInv, TypeOK, Proceed, Goto, FirstStep, Pc, RunTypeInv,
    AwaitsDebit, DebitSteps, HasPayment

\* ... and so does one whose debit threw.
LEMMA FailedDebitType ==
  ASSUME TypeInv, NEW r \in Run, pc[r] # "idle",
         Goto(r, AfterFailedDebit(r)), UNCHANGED request
  PROVE  /\ pc' \in [Run -> Pc]
         /\ \A q \in Run : RunTypeInv(q)'
BY DEF TypeInv, TypeOK, Goto, AfterFailedDebit, Pc, RunTypeInv,
    AwaitsDebit, DebitSteps, HasPayment

\* The debit steps keep TypeInv.
LEMMA DebitTypeInv ==
  ASSUME TypeInv, NEW r \in Run, Debit(r)
  PROVE  TypeInv'
<1> USE DEF TypeInv
<1>0. pc[r] # "idle" /\ (AwaitsDebit(r) => HasPayment(r))
  BY DEF RunTypeInv, Debit, StartDebit, ReadSettlement, RecordSettlement,
         AcceptDebit, RepeatDebit, RefuseDebit
<1>1. CASE StartDebit(r)
  <2>1. CASE Proceed(r)
    BY <1>0, <1>1, <2>1, ProceedType DEF StartDebit, TypeOK, dbVars, DbTypeOK
  <2>2. CASE Goto(r, AfterFailedDebit(r)) /\ UNCHANGED executed
    BY <1>0, <1>1, <2>2, FailedDebitType DEF StartDebit, TypeOK, dbVars, DbTypeOK
  <2>3. CASE HasPayment(r) /\ Goto(r, "readSettlement") /\ UNCHANGED executed
    BY <1>0, <1>1, <2>3
    DEF StartDebit, TypeOK, dbVars, DbTypeOK, Goto, Pc, RunTypeInv, AwaitsDebit,
        DebitSteps, HasPayment
  <2> QED
    BY <1>1, <2>1, <2>2, <2>3 DEF StartDebit
<1>2. CASE ReadSettlement(r)
  <2>1. CASE Goto(r, AfterFailedDebit(r))
    BY <1>0, <1>2, <2>1, FailedDebitType DEF ReadSettlement, TypeOK, dbVars, DbTypeOK
  <2>2. CASE Goto(r, "recordSettlement") \/ Goto(r, "debit")
    <3>1. HasPayment(r)
      BY <1>0, <1>2 DEF ReadSettlement, AwaitsDebit, DebitSteps
    <3> QED
      BY <1>0, <1>2, <2>2, <3>1
      DEF ReadSettlement, TypeOK, dbVars, DbTypeOK, Goto, Pc, RunTypeInv,
          AwaitsDebit, DebitSteps, HasPayment
  <2> QED
    BY <1>2, <2>1, <2>2 DEF ReadSettlement
<1>3. CASE RecordSettlement(r)
  <2>1. HasPayment(r)
    BY <1>0, <1>3 DEF RecordSettlement, AwaitsDebit, DebitSteps
  <2>2. CASE Goto(r, AfterFailedDebit(r)) /\ UNCHANGED localchain
    BY <1>0, <1>3, <2>2, FailedDebitType DEF RecordSettlement, TypeOK, dbVars, DbTypeOK
  <2>3. CASE /\ localchain' = [localchain EXCEPT ![EscrowOf(r)] =
                   RecordedSettlement(@, Terms(r).settledMilligons)]
             /\ Goto(r, "debit")
    <3>1. localchain' \in [Escrow -> Milligons \cup {None}]
      BY <2>1, <2>3, TermsType DEF TypeOK, RecordedSettlement
    <3> QED
      BY <1>0, <1>3, <2>1, <2>3, <3>1
      DEF RecordSettlement, TypeOK, dbVars, DbTypeOK, Goto, Pc, RunTypeInv,
          AwaitsDebit, DebitSteps, HasPayment
  <2> QED
    BY <1>3, <2>2, <2>3 DEF RecordSettlement
<1>4. CASE AcceptDebit(r)
  <2>1. HasPayment(r) /\ request[r].root \in QueryRoot
    BY <1>0, <1>4 DEF AcceptDebit, AwaitsDebit, DebitSteps, RunTypeInv
  <2>2. DbTypeOK'
    BY <1>4, <2>1, TermsType, DebitQueryIdType, DebitAcceptedType
    DEF AcceptDebit, TypeOK
  <2>3. owed' \in [Run -> Nat]
    BY <1>4, <2>1, TermsType DEF AcceptDebit, TypeOK
  <2>4. /\ pc' \in [Run -> Pc] /\ executed' \in [Run -> BOOLEAN]
        /\ \A q \in Run : RunTypeInv(q)'
    BY <1>0, <1>4, ProceedType, FailedDebitType DEF AcceptDebit, TypeOK
  <2> QED
    BY <1>4, <2>2, <2>3, <2>4 DEF AcceptDebit, TypeOK
<1>5. CASE RepeatDebit(r)
  BY <1>0, <1>5, ProceedType DEF RepeatDebit, DebitRepeated, TypeOK, dbVars, DbTypeOK
<1>6. CASE RefuseDebit(r)
  <2>1. HasPayment(r) /\ request[r].root \in QueryRoot
    BY <1>0, <1>6 DEF RefuseDebit, AwaitsDebit, DebitSteps, RunTypeInv
  <2>2. DbTypeOK'
    <3>1. CASE DebitRefused(EscrowOf(r), Payment(r), DebitQueryId(r))
      BY <1>6, <3>1 DEF RefuseDebit, DebitRefused, dbVars, TypeOK, DbTypeOK
    <3>2. CASE DebitFailed(EscrowOf(r), Payment(r), DebitQueryId(r),
                           Terms(r).microgons, Terms(r).settledMilligons)
      BY <1>6, <2>1, <3>2, TermsType, DebitQueryIdType, DebitFailedType
      DEF RefuseDebit, TypeOK
    <3> QED
      BY <1>6, <3>1, <3>2 DEF RefuseDebit
  <2> QED
    BY <1>0, <1>6, <2>2, FailedDebitType DEF RefuseDebit, TypeOK
<1> QED
  BY <1>1, <1>2, <1>3, <1>4, <1>5, <1>6 DEF Debit

\* So do the calls of the query, and its end.
LEMMA ExecuteTypeInv ==
  ASSUME TypeInv, NEW r \in Run, Execute(r)
  PROVE  TypeInv'
<1> USE DEF TypeInv
<1>1. CASE RunFunction(r)
  <2>1. tally' \in [Run -> Nat]
    BY <1>1, PricesAssumption DEF RunFunction, TypeOK
  <2>2. /\ pc' \in [Run -> Pc]
        /\ \A q \in Run : RunTypeInv(q)'
    BY <1>1
    DEF RunFunction, TypeOK, Goto, AfterFunction, Pc, RunTypeInv, AwaitsDebit,
        DebitSteps, HasPayment
  <2> QED
    BY <1>1, <2>1, <2>2 DEF RunFunction, TypeOK, dbVars, DbTypeOK
<1>2. CASE QueryLocalStorage(r)
  <2>1. tally' \in [Run -> Nat]
    BY <1>2, PricesAssumption DEF QueryLocalStorage, StreamTally, TypeOK
  <2>2. /\ pc' \in [Run -> Pc]
        /\ \A q \in Run : RunTypeInv(q)'
    BY <1>2
    DEF QueryLocalStorage, TypeOK, Goto, Pc, RunTypeInv, AwaitsDebit, DebitSteps, HasPayment
  <2> QED
    BY <1>2, <2>1, <2>2 DEF QueryLocalStorage, TypeOK, dbVars, DbTypeOK
<1>3. CASE CallStorageEngine(r)
  BY <1>3
  DEF CallStorageEngine, TypeOK, dbVars, DbTypeOK, Goto, Pc, RunTypeInv,
      AwaitsDebit, DebitSteps, HasPayment
<1>4. CASE RunStorageEngine(r)
  <2>1. tally' \in [Run -> Nat]
    BY <1>4, PricesAssumption DEF RunStorageEngine, StreamTally, TypeOK
  <2>2. /\ pc' \in [Run -> Pc]
        /\ \A q \in Run : RunTypeInv(q)'
    BY <1>4
    DEF RunStorageEngine, TypeOK, Goto, Pc, RunTypeInv, AwaitsDebit, DebitSteps, HasPayment
  <2>3. DbTypeOK'
    <3>1. CASE UNCHANGED dbVars
      BY <1>4, <3>1 DEF RunStorageEngine, TypeOK, DbTypeOK, dbVars
    <3>2. CASE /\ HasPayment(r)
               /\ FinalizePayment(EscrowOf(r), Payment(r), Price(Calls(r) \cap {"table"}))
      BY <1>4, <3>2, TermsType, PriceType, FinalizePaymentType
      DEF RunStorageEngine, TypeOK
    <3> QED
      BY <1>4, <3>1, <3>2 DEF RunStorageEngine
  <2> QED
    BY <1>4, <2>1, <2>2, <2>3 DEF RunStorageEngine, TypeOK
<1> QED
  BY <1>1, <1>2, <1>3, <1>4 DEF Execute

LEMMA FinalPriceType ==
  ASSUME TypeOK, NEW r \in Run
  PROVE  FinalPrice(r) \in Nat /\ Cost(r) \in Nat
BY PricesAssumption DEF TypeOK, FinalPrice, Cost

LEMMA CompleteTypeInv ==
  ASSUME TypeInv, NEW r \in Run, Complete(r)
  PROVE  TypeInv'
<1> USE DEF TypeInv
<1>1. CASE Finalize(r)
  <2>1. owed' \in [Run -> Nat]
    BY <1>1, FinalPriceType DEF Finalize, Finalizes, Owe, TypeOK
  <2>2. /\ pc' \in [Run -> Pc]
        /\ \A q \in Run : RunTypeInv(q)'
    BY <1>1
    DEF Finalize, Finalizes, AfterFailedFinalize, TypeOK, Goto, Pc, RunTypeInv, AwaitsDebit,
        DebitSteps, HasPayment
  <2>3. DbTypeOK'
    <3>1. CASE UNCHANGED dbVars
      BY <1>1, <3>1 DEF Finalize, Finalizes, TypeOK, DbTypeOK, dbVars
    <3>2. CASE HasPayment(r) /\ FinalizePayment(EscrowOf(r), Payment(r), FinalPrice(r))
      BY <1>1, <3>2, TermsType, FinalPriceType, FinalizePaymentType DEF Finalize, Finalizes, TypeOK
    <3> QED
      BY <1>1, <3>1, <3>2 DEF Finalize, Finalizes
  <2> QED
    BY <1>1, <2>1, <2>2, <2>3 DEF Finalize, Finalizes, Owe, TypeOK
<1>2. CASE FailFinalize(r)
  BY <1>2
  DEF FailFinalize, Finalizes, AfterFailedFinalize, TypeOK, dbVars, DbTypeOK, Goto, Pc, RunTypeInv,
      AwaitsDebit, DebitSteps, HasPayment
<1> QED
  BY <1>1, <1>2 DEF Complete

\* Steps that are not a run's own.
LEMMA EnvironmentTypeInv ==
  ASSUME TypeInv, Environment
  PROVE  TypeInv'
<1> USE DEF TypeInv
<1>1. ASSUME NEW r \in Run, NEW offer \in Offers,
             NEW payment \in Uuid \cup {None}, NEW root \in QueryRoot,
             Submit(r, offer, payment, root)
      PROVE  TypeInv'
  BY <1>1, OffersAssumption
  DEF Submit, Offer, TypeOK, dbVars, DbTypeOK, Goto, Pc, RunTypeInv, AwaitsDebit,
      DebitSteps, HasPayment, Request
<1>2. ASSUME NEW e \in Escrow, NEW milligons \in Milligons \ {0},
             NEW expirationDate \in 0 .. MaxTime,
             RegisterEscrow(e, milligons, expirationDate)
      PROVE  TypeInv'
  <2>1. /\ milligons * MicrogonsPerMilligon \in Nat
        /\ expirationDate \in Nat
        /\ 0 \in Milligons
    BY BoundsAssumption, MicrogonsPerMilligonAssumption DEF Milligons
  <2>2. DbTypeOK'
    BY <1>2, <2>1 DEF RegisterEscrow, CreateEscrow, TypeOK, DbTypeOK, EscrowRow
  <2> QED
    BY <1>2, <2>1, <2>2
    DEF RegisterEscrow, TypeOK, runVars, RunTypeInv, AwaitsDebit, HasPayment
<1>3. CASE CleanupEscrows
  <2>1. DbTypeOK'
    BY <1>3 DEF CleanupEscrows, Cleanup, TypeOK, DbTypeOK
  <2> QED
    BY <1>3, <2>1 DEF CleanupEscrows, TypeOK, runVars, RunTypeInv, AwaitsDebit, HasPayment
<1>4. CASE RestartTracker
  <2>1. DbTypeOK'
    BY <1>4 DEF RestartTracker, ForgetPayments, TypeOK, DbTypeOK
  <2>2. restarts' \in 0 .. MaxRestarts
    BY <1>4, BoundsAssumption DEF RestartTracker, TypeOK
  <2>3. localchain' \in [Escrow -> Milligons \cup {None}]
    BY <1>4, BoundsAssumption DEF RestartTracker, TypeOK, Milligons
  <2>4. /\ pc' \in [Run -> Pc]
        /\ \A q \in Run : RunTypeInv(q)'
    BY <1>4
    DEF RestartTracker, TypeOK, Pc, AfterFailedDebit, RunTypeInv, AwaitsDebit,
        DebitSteps, HasPayment
  <2> QED
    BY <1>4, <2>1, <2>2, <2>3, <2>4 DEF RestartTracker, TypeOK
<1>5. CASE RestartNode
  <2>1. restarts' \in 0 .. MaxRestarts
    BY <1>5, BoundsAssumption DEF RestartNode, TypeOK
  <2>2. /\ pc' \in [Run -> Pc]
        /\ \A q \in Run : RunTypeInv(q)'
    BY <1>5
    DEF RestartNode, Over, TypeOK, Pc, RunTypeInv, AwaitsDebit, DebitSteps, HasPayment
  <2> QED
    BY <1>5, <2>1, <2>2 DEF RestartNode, TypeOK, DbTypeOK, dbVars
<1>6. CASE Tick
  BY <1>6
  DEF Tick, TypeOK, dbVars, DbTypeOK, runVars, RunTypeInv, AwaitsDebit, HasPayment
<1> QED
  BY <1>1, <1>2, <1>3, <1>4, <1>5, <1>6 DEF Environment

LEMMA StutterTypeInv ==
  ASSUME TypeInv, UNCHANGED vars
  PROVE  TypeInv'
BY DEF TypeInv, TypeOK, vars, dbVars, DbTypeOK, runVars, RunTypeInv, AwaitsDebit, HasPayment

\* The state of the node and of its escrow table keeps its types: no balance
\* and no tally goes below zero, whatever is debited and finalized, by any
\* number of runs.
THEOREM TypeCorrect == Spec => []TypeOK
<1>1. Init => TypeInv
  BY InitTypeInv
<1>2. TypeInv /\ [Next]_vars => TypeInv'
  BY DebitTypeInv, ExecuteTypeInv, CompleteTypeInv, EnvironmentTypeInv, StutterTypeInv
  DEF Next, Advance
<1>3. TypeInv => TypeOK
  BY DEF TypeInv
<1> QED
  BY <1>1, <1>2, <1>3, PTL DEF Spec

-----------------------------------------------------------------------------
(* The balances *)

LEMMA ProductMonotonic ==
  ASSUME NEW a \in Nat, NEW b \in Nat, NEW c \in Nat, a <= b
  PROVE  a * c <= b * c
<1>1. PICK d \in Nat : b = a + d
  <2>1. b - a \in Nat /\ b = a + (b - a)
    OBVIOUS
  <2> QED
    BY <2>1
<1>2. b * c = a * c + d * c
  BY <1>1
<1>3. d * c \in Nat /\ a * c \in Nat
  OBVIOUS
<1> QED
  BY <1>2, <1>3

\* The rows of IInv.
Rows == SettlementCoversSpend /\ RowsAreKnown

LEMMA DebitAcceptedCovers ==
  ASSUME TypeOK, Rows, NEW e \in Escrow, NEW u \in Uuid, NEW queryId,
         NEW microgons \in Nat, NEW settled \in Nat,
         DebitAccepted(e, u, queryId, microgons, settled),
         localchain[e] # None, settled <= localchain[e],
         UNCHANGED localchain
  PROVE  Rows'
<1>1. localchain[e] \in Nat
  BY BoundsAssumption DEF TypeOK, Milligons
<1>2. settled * MicrogonsPerMilligon <= localchain[e] * MicrogonsPerMilligon
  BY <1>1, ProductMonotonic, MicrogonsPerMilligonAssumption
<1>3. escrows[e] # None /\ escrows[e] \in EscrowRow
  BY DEF DebitAccepted, CanDebit, TypeOK, DbTypeOK
<1>4. escrows' = [escrows EXCEPT ![e].remaining = escrows[e].remaining - microgons]
  BY DEF DebitAccepted
<1>5. /\ escrows[e].allocated' = escrows[e].allocated
      /\ escrows[e].remaining' = escrows[e].remaining - microgons
  BY <1>3, <1>4 DEF TypeOK, DbTypeOK, EscrowRow
<1>6. /\ Spent(e)' = Spent(e) + microgons
      /\ Spent(e) + microgons <= settled * MicrogonsPerMilligon
      /\ microgons <= escrows[e].remaining
  BY <1>3, <1>5 DEF Spent, EscrowRow, DebitAccepted, CanDebit, CoveredBy
<1>7. /\ Spent(e)' \in 0 .. escrows[e].allocated
      /\ Spent(e)' <= localchain[e] * MicrogonsPerMilligon
  <2>1. /\ settled * MicrogonsPerMilligon \in Nat
        /\ localchain[e] * MicrogonsPerMilligon \in Nat
    BY <1>1, MicrogonsPerMilligonAssumption
  <2>2. Spent(e) \in 0 .. escrows[e].allocated
    BY <1>3 DEF Rows, SettlementCoversSpend
  <2>3. Spent(e) + microgons <= escrows[e].allocated
    BY <1>3, <1>6 DEF Spent, EscrowRow
  <2> QED
    BY <1>2, <1>3, <1>6, <2>1, <2>2, <2>3 DEF EscrowRow
<1>8. ASSUME NEW f \in Escrow, f # e
      PROVE  escrows'[f] = escrows[f] /\ Spent(f)' = Spent(f)
  BY <1>4, <1>8 DEF TypeOK, DbTypeOK, Spent
<1> QED
  BY <1>3, <1>5, <1>7, <1>8 DEF Rows, SettlementCoversSpend, RowsAreKnown

LEMMA FinalizePaymentCovers ==
  ASSUME TypeOK, Rows, NEW e \in Escrow, NEW u \in Uuid, NEW final \in Nat,
         FinalizePayment(e, u, final), final <= paymentIdByEscrowId[e][u].microgons,
         UNCHANGED localchain
  PROVE  Rows'
<1> DEFINE adjustment == Adjustment(e, u, final)
<1>1. adjustment \in Nat
  BY DEF FinalizePayment, FinalizeSucceeds, AlreadyDebited, Adjustment, TypeOK, DbTypeOK, Entry
<1>2. CASE adjustment = 0
  BY <1>2 DEF FinalizePayment, Rows, SettlementCoversSpend, RowsAreKnown, Spent
<1>3. CASE adjustment # 0
  <2>1. /\ escrows[e] # None
        /\ escrows[e].remaining + adjustment \in 0 .. escrows[e].allocated
        /\ escrows' = [escrows EXCEPT ![e].remaining = escrows[e].remaining + adjustment]
    BY <1>3 DEF FinalizePayment, FinalizeSucceeds, CanAdjust
  <2> HIDE DEF adjustment
  <2>2. escrows[e] \in EscrowRow
    BY <2>1 DEF TypeOK, DbTypeOK
  <2>3. /\ escrows[e].allocated' = escrows[e].allocated
        /\ Spent(e)' = Spent(e) - adjustment
    BY <1>1, <2>1, <2>2 DEF TypeOK, DbTypeOK, EscrowRow, Spent
  <2>4. /\ Spent(e) \in 0 .. escrows[e].allocated
        /\ localchain[e] # None
        /\ Spent(e) <= localchain[e] * MicrogonsPerMilligon
        /\ escrows[e].allocated <= MaxMilligons * MicrogonsPerMilligon
    BY <2>1 DEF Rows, SettlementCoversSpend, RowsAreKnown
  <2>5. localchain[e] * MicrogonsPerMilligon \in Nat
    BY <2>4, BoundsAssumption, MicrogonsPerMilligonAssumption DEF TypeOK, Milligons
  <2>6. /\ Spent(e)' \in 0 .. escrows[e].allocated
        /\ Spent(e)' <= localchain[e] * MicrogonsPerMilligon
    BY <1>1, <2>1, <2>2, <2>3, <2>4, <2>5 DEF EscrowRow, Spent
  <2>7. ASSUME NEW f \in Escrow, f # e
        PROVE  escrows'[f] = escrows[f] /\ Spent(f)' = Spent(f)
    BY <2>1, <2>7 DEF TypeOK, DbTypeOK, Spent
  <2> QED
    BY <2>1, <2>3, <2>4, <2>6, <2>7 DEF Rows, SettlementCoversSpend, RowsAreKnown
<1> QED
  BY <1>2, <1>3

-----------------------------------------------------------------------------
(* The runs *)

LEMMA PriceParts ==
  \A calls : /\ Price(calls \cap {"table"}) \in Nat
             /\ Price(calls \cap {"function"}) \in Nat
             /\ Price(calls) = Price(calls \cap {"function"}) + Price(calls \cap {"table"})
BY PricesAssumption DEF Price

\* Settlements in the localchain only grow.
LocalchainGrows ==
  \A e \in Escrow : localchain[e] # None =>
    localchain'[e] \in Nat /\ localchain[e] <= localchain'[e]

LEMMA UnchangedLocalchain ==
  ASSUME TypeOK, UNCHANGED localchain
  PROVE  LocalchainGrows
BY BoundsAssumption DEF LocalchainGrows, TypeOK, Milligons

\* A step of something else does not disturb a run.
LEMMA RunInvFrame ==
  ASSUME TypeOK, NEW q \in Run, RunInv(q), LocalchainGrows,
         UNCHANGED <<terms, pc[q], request[q], stage[q], tally[q]>>
  PROVE  RunInv(q)'
<1>1. RequestMatchesOffer(q)'
  BY DEF RunInv, RequestMatchesOffer, Calls, Uses
<1>2. TallyMatchesPrice(q)'
  BY DEF RunInv, TallyMatchesPrice, Underway, Fresh, Priced, Calls, HasPayment, Terms,
         Payment, Price
<1>3. AwaitsDebit(q) => HasPayment(q) /\ Terms(q).microgons = Price(DebitCalls(q))
  BY DEF RunInv, DebitMatchesPrice
<1>4. /\ AwaitsDebit(q)' = AwaitsDebit(q)
      /\ HasPayment(q)' = HasPayment(q)
      /\ Terms(q)' = Terms(q)
      /\ EscrowOf(q)' = EscrowOf(q)
      /\ DebitCalls(q)' = DebitCalls(q)
  BY DEF AwaitsDebit, HasPayment, Terms, Payment, EscrowOf, DebitCalls, Calls
<1>5. AwaitsDebit(q)' => HasPayment(q)' /\ (Terms(q).microgons = Price(DebitCalls(q)))'
  BY <1>3, <1>4 DEF Price
<1>6. ASSUME AwaitsDebit(q)
      PROVE  EscrowOf(q) \in Escrow /\ Terms(q).settledMilligons \in Nat
  BY <1>3, <1>6, TermsType
<1>7. ASSUME pc[q] \in {"recordSettlement", "debit"}
      PROVE  /\ localchain[EscrowOf(q)] # None
             /\ EscrowOf(q) \in Escrow
             /\ localchain[EscrowOf(q)] \in Nat
             /\ localchain'[EscrowOf(q)] \in Nat
             /\ localchain'[EscrowOf(q)] # None
             /\ localchain[EscrowOf(q)] <= localchain'[EscrowOf(q)]
  <2>1. EscrowOf(q) \in Escrow /\ localchain[EscrowOf(q)] # None
    BY <1>6, <1>7 DEF AwaitsDebit, DebitSteps, RunInv, DebitMatchesPrice
  <2> QED
    BY <2>1, BoundsAssumption, NoneAssumption DEF TypeOK, Milligons, LocalchainGrows
<1>8. ASSUME pc[q] = "debit"
      PROVE  Terms(q).settledMilligons <= localchain'[EscrowOf(q)]
  <2>1. Terms(q).settledMilligons <= localchain[EscrowOf(q)]
    BY <1>8 DEF RunInv, DebitMatchesPrice
  <2>2. Terms(q).settledMilligons \in Nat
    BY <1>6, <1>8 DEF AwaitsDebit, DebitSteps
  <2> QED
    BY <1>7, <1>8, <2>1, <2>2
<1>9. DebitMatchesPrice(q)'
  BY <1>4, <1>5, <1>7, <1>8 DEF DebitMatchesPrice
<1> QED
  BY <1>1, <1>2, <1>9 DEF RunInv

LEMMA EntriesUnchanged ==
  ASSUME EntriesMatchTerms, UNCHANGED <<paymentIdByEscrowId, terms>>
  PROVE  EntriesMatchTerms'
BY DEF EntriesMatchTerms, AlreadyDebited

\* The entry a debit stores matches its payment.
LEMMA EntriesRemembered ==
  ASSUME TypeOK, EntriesMatchTerms, NEW r \in Run, HasPayment(r),
         RememberDebit(EscrowOf(r), Payment(r), DebitQueryId(r), Terms(r).microgons),
         UNCHANGED terms
  PROVE  EntriesMatchTerms'
<1>1. /\ EscrowOf(r) \in Escrow /\ Payment(r) \in Uuid
      /\ EscrowOf(r) = terms[Payment(r)].escrow
      /\ Terms(r) = terms[Payment(r)]
  BY TermsType DEF EscrowOf, Terms
<1>2. SUFFICES ASSUME NEW e \in Escrow, NEW u \in Uuid, AlreadyDebited(e, u)'
      PROVE  /\ e = terms[u].escrow
             /\ paymentIdByEscrowId'[e][u].microgons = terms[u].microgons
  BY DEF EntriesMatchTerms
<1>3. CASE e = EscrowOf(r) /\ u = Payment(r)
  BY <1>1, <1>3 DEF RememberDebit, TypeOK, DbTypeOK
<1>4. CASE ~(e = EscrowOf(r) /\ u = Payment(r))
  <2>1. paymentIdByEscrowId'[e][u] = paymentIdByEscrowId[e][u]
    BY <1>1, <1>4 DEF RememberDebit, TypeOK, DbTypeOK
  <2> QED
    BY <1>2, <2>1 DEF EntriesMatchTerms, AlreadyDebited
<1> QED
  BY <1>3, <1>4

\* What a run calls is offered: without a function it is a query of tables.
LEMMA OfferedCalls ==
  ASSUME NoTableStreams, TypeOK, NEW r \in Run, RunInv(r), pc[r] # "idle"
  PROVE  "function" \notin Calls(r) => request[r].endpoint = "query"
<1> DEFINE offer == [endpoint |-> request[r].endpoint, calls |-> Calls(r)]
<1>1. offer \in Offers /\ offer \in Offer
  BY OffersAssumption DEF RunInv, RequestMatchesOffer
<1>2. /\ request[r].endpoint \in {"query", "stream"}
      /\ Calls(r) \subseteq Entity
      /\ Calls(r) # {}
  BY <1>1 DEF Offer
<1>3. request[r].endpoint = "stream" => "table" \notin Calls(r)
  BY <1>1 DEF NoTableStreams
<1>4. "function" \notin Calls(r) => "table" \in Calls(r)
  BY <1>2 DEF Entity
<1> QED
  BY <1>2, <1>3, <1>4

\* A debit lets its run go on: the run is priced.
LEMMA ProceedRunInv ==
  ASSUME NoTableStreams, TypeOK, NEW r \in Run, RunInv(r), pc[r] \in DebitSteps,
         Proceed(r), Priced(r, DebitCalls(r)),
         UNCHANGED <<terms, request, stage, tally>>
  PROVE  RunInv(r)'
<1>0. pc[r] # "idle"
  BY DEF DebitSteps
<1>1. CASE stage[r] = "root"
  <2>1. pc'[r] = FirstStep(Calls(r)) /\ DebitCalls(r) = Calls(r)
    BY <1>1 DEF Proceed, Goto, TypeOK, DebitCalls
  <2>2. tally[r] = 0
    BY <1>1 DEF RunInv, TallyMatchesPrice, Fresh
  <2>3. RequestMatchesOffer(r)'
    BY <1>0, <1>1, <2>1, OfferedCalls
    DEF RunInv, RequestMatchesOffer, FirstStep, Calls, Uses
  <2>4. DebitMatchesPrice(r)'
    BY <2>1 DEF FirstStep, DebitMatchesPrice, AwaitsDebit, DebitSteps
  <2>5. TallyMatchesPrice(r)'
    BY <1>1, <2>1, <2>2
    DEF RunInv, TallyMatchesPrice, Underway, Fresh, FirstStep, DebitSteps, Priced,
        Calls, HasPayment, Terms, Payment, Price
  <2> QED
    BY <2>3, <2>4, <2>5 DEF RunInv
<1>2. CASE stage[r] # "root"
  <2>1. /\ pc'[r] = "storageQuery"
        /\ stage[r] = "storage"
        /\ DebitCalls(r) = Calls(r) \cap {"table"}
    BY <1>2 DEF Proceed, Goto, TypeOK, DebitCalls
  <2>2. RequestMatchesOffer(r)'
    BY <1>0, <2>1 DEF RunInv, RequestMatchesOffer, Calls, Uses
  <2>3. DebitMatchesPrice(r)'
    BY <2>1 DEF DebitMatchesPrice, AwaitsDebit, DebitSteps
  <2>4. TallyMatchesPrice(r)'
    BY <2>1
    DEF RunInv, TallyMatchesPrice, Underway, Fresh, DebitSteps, Priced,
        Calls, HasPayment, Terms, Payment, Price
  <2> QED
    BY <2>2, <2>3, <2>4 DEF RunInv
<1> QED
  BY <1>1, <1>2

\* A debit that threw ends its run, or the storage call of it.
LEMMA FailedDebitRunInv ==
  ASSUME TypeOK, NEW r \in Run, RunInv(r), pc[r] \in DebitSteps,
         pc'[r] = AfterFailedDebit(r),
         UNCHANGED <<terms, request[r], stage[r], tally[r]>>
  PROVE  RunInv(r)'
<1>1. RequestMatchesOffer(r)'
  BY DEF RunInv, RequestMatchesOffer, Calls, Uses, DebitSteps, AfterFailedDebit
<1>2. DebitMatchesPrice(r)'
  BY DEF DebitMatchesPrice, AwaitsDebit, DebitSteps, AfterFailedDebit
<1>3. TallyMatchesPrice(r)'
  BY DEF TypeOK, RunInv, TallyMatchesPrice, Underway, Fresh, DebitSteps, AfterFailedDebit,
         Priced, Calls, HasPayment, Terms, Payment, Price
<1> QED
  BY <1>1, <1>2, <1>3 DEF RunInv

-----------------------------------------------------------------------------
(* The inductive invariant *)

\* What a run needs of the others: only its own variables change.
OnlyRun(r) ==
  \A q \in Run \ {r} :
    UNCHANGED <<pc[q], request[q], stage[q], tally[q]>>

\* IInv after a step of one run.
LEMMA RunStep ==
  ASSUME IInv, TypeOK', NEW r \in Run, OnlyRun(r), LocalchainGrows, UNCHANGED terms,
         RunInv(r)', EntriesMatchTerms', Rows'
  PROVE  IInv'
<1>1. ASSUME NEW q \in Run
      PROVE  RunInv(q)'
  BY <1>1, RunInvFrame DEF OnlyRun, IInv
<1> QED
  BY <1>1 DEF IInv, Rows

LEMMA GotoOnly ==
  ASSUME TypeOK, NEW r \in Run, NEW label, Goto(r, label), UNCHANGED <<request, stage, tally>>
  PROVE  OnlyRun(r) /\ pc'[r] = label
BY DEF TypeOK, OnlyRun, Goto

LEMMA ProceedOnly ==
  ASSUME TypeOK, NEW r \in Run, Proceed(r), UNCHANGED <<request, stage, tally>>
  PROVE  OnlyRun(r)
BY DEF TypeOK, OnlyRun, Goto, Proceed

LEMMA RowsUnchanged ==
  ASSUME Rows, UNCHANGED <<escrows, localchain>>
  PROVE  Rows'
BY DEF Rows, SettlementCoversSpend, RowsAreKnown, Spent

LEMMA StartDebitIInv ==
  ASSUME NoTableStreams, IInv, TypeOK', NEW r \in Run, StartDebit(r)
  PROVE  IInv'
<1>1. /\ TypeOK /\ RunInv(r) /\ Rows /\ EntriesMatchTerms
      /\ pc[r] = "startDebit" /\ pc[r] \in DebitSteps
  BY DEF IInv, Rows, StartDebit, DebitSteps
<1>2. UNCHANGED <<escrows, paymentIdByEscrowId, localchain, terms, request, stage, tally>>
  BY DEF StartDebit, dbVars
<1>3. Rows' /\ EntriesMatchTerms' /\ LocalchainGrows
  BY <1>1, <1>2, RowsUnchanged, EntriesUnchanged, UnchangedLocalchain
<1>4. CASE Price(DebitCalls(r)) = 0 /\ Proceed(r)
  <2>1. Priced(r, DebitCalls(r))
    BY <1>4 DEF Priced
  <2>2. RunInv(r)' /\ OnlyRun(r)
    BY <1>1, <1>2, <1>4, <2>1, ProceedRunInv, ProceedOnly
  <2> QED
    BY <1>2, <1>3, <2>2, RunStep
<1>5. CASE /\ HasPayment(r) /\ Terms(r).microgons = Price(DebitCalls(r))
           /\ Goto(r, "readSettlement")
  <2>1. pc'[r] = "readSettlement" /\ OnlyRun(r)
    BY <1>1, <1>2, <1>5, GotoOnly
  <2>2. RequestMatchesOffer(r)'
    BY <1>1, <1>2, <2>1 DEF RunInv, RequestMatchesOffer, Calls, Uses
  <2>3. DebitMatchesPrice(r)'
    BY <1>2, <1>5, <2>1
    DEF DebitMatchesPrice, HasPayment, Terms, Payment, DebitCalls, Calls, Price
  <2>4. TallyMatchesPrice(r)'
    BY <1>1, <1>2, <2>1
    DEF RunInv, TallyMatchesPrice, Underway, Fresh, DebitSteps, Priced, Calls,
        HasPayment, Terms, Payment, Price
  <2> QED
    BY <1>2, <1>3, <2>1, <2>2, <2>3, <2>4, RunStep DEF RunInv
<1>6. CASE Goto(r, AfterFailedDebit(r))
  <2>1. pc'[r] = AfterFailedDebit(r) /\ OnlyRun(r)
    BY <1>1, <1>2, <1>6, GotoOnly
  <2>2. RunInv(r)'
    BY <1>1, <1>2, <2>1, FailedDebitRunInv
  <2> QED
    BY <1>2, <1>3, <2>1, <2>2, RunStep
<1> QED
  BY <1>4, <1>5, <1>6 DEF StartDebit

LEMMA ReadSettlementIInv ==
  ASSUME IInv, TypeOK', NEW r \in Run, ReadSettlement(r)
  PROVE  IInv'
<1>1. /\ TypeOK /\ RunInv(r) /\ Rows /\ EntriesMatchTerms
      /\ pc[r] = "readSettlement" /\ pc[r] \in DebitSteps
  BY DEF IInv, Rows, ReadSettlement, DebitSteps
<1>2. UNCHANGED <<escrows, paymentIdByEscrowId, localchain, terms, request, stage, tally>>
  BY DEF ReadSettlement, dbVars
<1>3. Rows' /\ EntriesMatchTerms' /\ LocalchainGrows
  BY <1>1, <1>2, RowsUnchanged, EntriesUnchanged, UnchangedLocalchain
<1>4. CASE Goto(r, AfterFailedDebit(r))
  <2>1. pc'[r] = AfterFailedDebit(r) /\ OnlyRun(r)
    BY <1>1, <1>2, <1>4, GotoOnly
  <2>2. RunInv(r)'
    BY <1>1, <1>2, <2>1, FailedDebitRunInv
  <2> QED
    BY <1>2, <1>3, <2>1, <2>2, RunStep
<1>5. CASE /\ localchain[EscrowOf(r)] # None
           /\ Goto(r, IF Terms(r).settledMilligons > localchain[EscrowOf(r)]
                      THEN "recordSettlement" ELSE "debit")
  <2>1. /\ pc'[r] = IF Terms(r).settledMilligons > localchain[EscrowOf(r)]
                    THEN "recordSettlement" ELSE "debit"
        /\ OnlyRun(r)
    BY <1>1, <1>2, <1>5, GotoOnly
  <2>2. /\ HasPayment(r)
        /\ Terms(r).microgons = Price(DebitCalls(r))
    BY <1>1 DEF RunInv, DebitMatchesPrice, AwaitsDebit, DebitSteps
  <2>3. /\ Terms(r).settledMilligons \in Nat
        /\ localchain[EscrowOf(r)] \in Nat
    BY <1>1, <1>5, <2>2, TermsType, BoundsAssumption DEF TypeOK, Milligons
  <2>4. RequestMatchesOffer(r)'
    BY <1>1, <1>2, <2>1 DEF RunInv, RequestMatchesOffer, Calls, Uses
  <2>5. DebitMatchesPrice(r)'
    BY <1>2, <1>5, <2>1, <2>2, <2>3
    DEF DebitMatchesPrice, HasPayment, Terms, Payment, EscrowOf, DebitCalls, Calls, Price
  <2>6. TallyMatchesPrice(r)'
    BY <1>1, <1>2, <2>1
    DEF RunInv, TallyMatchesPrice, Underway, Fresh, DebitSteps, Priced, Calls,
        HasPayment, Terms, Payment, Price
  <2> QED
    BY <1>2, <1>3, <2>1, <2>4, <2>5, <2>6, RunStep DEF RunInv
<1> QED
  BY <1>4, <1>5 DEF ReadSettlement

\* A larger settlement covers what the smaller one did.
LEMMA RowsWithLargerSettlement ==
  ASSUME TypeOK, Rows, UNCHANGED escrows, LocalchainGrows
  PROVE  Rows'
<1>1. ASSUME NEW e \in Escrow, escrows[e] # None
      PROVE  /\ localchain'[e] # None
             /\ Spent(e) \in 0 .. escrows[e].allocated
             /\ Spent(e) <= localchain'[e] * MicrogonsPerMilligon
  <2>1. /\ escrows[e] \in EscrowRow
        /\ localchain[e] # None
        /\ localchain[e] \in Nat
        /\ localchain'[e] \in Nat
        /\ localchain[e] <= localchain'[e]
        /\ Spent(e) \in 0 .. escrows[e].allocated
        /\ Spent(e) <= localchain[e] * MicrogonsPerMilligon
    BY <1>1, BoundsAssumption
    DEF TypeOK, DbTypeOK, Milligons, LocalchainGrows, Rows, SettlementCoversSpend
  <2>2. localchain[e] * MicrogonsPerMilligon <= localchain'[e] * MicrogonsPerMilligon
    BY <2>1, ProductMonotonic, MicrogonsPerMilligonAssumption
  <2>3. /\ localchain[e] * MicrogonsPerMilligon \in Nat
        /\ localchain'[e] * MicrogonsPerMilligon \in Nat
        /\ Spent(e) \in Nat
    BY <2>1, MicrogonsPerMilligonAssumption DEF EscrowRow
  <2> QED
    BY <2>1, <2>2, <2>3, NoneAssumption
<1>2. RowsAreKnown'
  BY <1>1 DEF Rows, RowsAreKnown
<1> QED
  BY <1>1, <1>2 DEF Rows, SettlementCoversSpend, Spent

LEMMA RecordSettlementIInv ==
  ASSUME IInv, TypeOK', NEW r \in Run, RecordSettlement(r)
  PROVE  IInv'
<1>1. /\ TypeOK /\ RunInv(r) /\ Rows /\ EntriesMatchTerms
      /\ pc[r] = "recordSettlement" /\ pc[r] \in DebitSteps
  BY DEF IInv, Rows, RecordSettlement, DebitSteps
<1>2. UNCHANGED <<escrows, paymentIdByEscrowId, terms, request, stage, tally>>
  BY DEF RecordSettlement, dbVars
<1>3. EntriesMatchTerms'
  BY <1>1, <1>2, EntriesUnchanged
<1>4. CASE Goto(r, AfterFailedDebit(r)) /\ UNCHANGED localchain
  <2>1. pc'[r] = AfterFailedDebit(r) /\ OnlyRun(r)
    BY <1>1, <1>2, <1>4, GotoOnly
  <2>2. RunInv(r)'
    BY <1>1, <1>2, <2>1, FailedDebitRunInv
  <2> QED
    BY <1>1, <1>2, <1>3, <1>4, <2>1, <2>2, RunStep, RowsUnchanged, UnchangedLocalchain
<1>5. CASE /\ localchain' = [localchain EXCEPT ![EscrowOf(r)] =
                   RecordedSettlement(@, Terms(r).settledMilligons)]
           /\ Goto(r, "debit")
  <2>1. pc'[r] = "debit" /\ OnlyRun(r)
    BY <1>1, <1>2, <1>5, GotoOnly
  <2>2. /\ HasPayment(r)
        /\ Terms(r).microgons = Price(DebitCalls(r))
        /\ localchain[EscrowOf(r)] # None
    BY <1>1 DEF RunInv, DebitMatchesPrice, AwaitsDebit, DebitSteps
  <2>3. /\ Terms(r).settledMilligons \in Nat
        /\ EscrowOf(r) \in Escrow
        /\ localchain[EscrowOf(r)] \in Nat
    BY <1>1, <2>2, TermsType, BoundsAssumption DEF TypeOK, Milligons
  <2>4. /\ localchain'[EscrowOf(r)] \in Nat
        /\ localchain'[EscrowOf(r)] # None
        /\ localchain[EscrowOf(r)] <= localchain'[EscrowOf(r)]
        /\ Terms(r).settledMilligons <= localchain'[EscrowOf(r)]
    BY <1>1, <1>5, <2>3, NoneAssumption DEF RecordedSettlement, TypeOK
  <2>5. LocalchainGrows
    BY <1>1, <1>5, <2>3, <2>4, BoundsAssumption DEF LocalchainGrows, TypeOK, Milligons
  <2>6. RequestMatchesOffer(r)'
    BY <1>1, <1>2, <2>1 DEF RunInv, RequestMatchesOffer, Calls, Uses
  <2>7. DebitMatchesPrice(r)'
    BY <1>2, <2>1, <2>2, <2>4
    DEF DebitMatchesPrice, HasPayment, Terms, Payment, EscrowOf, DebitCalls, Calls, Price
  <2>8. TallyMatchesPrice(r)'
    BY <1>1, <1>2, <2>1
    DEF RunInv, TallyMatchesPrice, Underway, Fresh, DebitSteps, Priced, Calls,
        HasPayment, Terms, Payment, Price
  <2>9. Rows'
    BY <1>1, <1>2, <2>5, RowsWithLargerSettlement
  <2> QED
    BY <1>2, <1>3, <2>1, <2>5, <2>6, <2>7, <2>8, <2>9, RunStep DEF RunInv
<1> QED
  BY <1>4, <1>5 DEF RecordSettlement

\* What a run at its debit knows.
LEMMA AtDebit ==
  ASSUME IInv, NEW r \in Run, pc[r] = "debit"
  PROVE  /\ TypeOK /\ RunInv(r) /\ Rows /\ EntriesMatchTerms /\ pc[r] \in DebitSteps
         /\ HasPayment(r)
         /\ Priced(r, DebitCalls(r))
         /\ localchain[EscrowOf(r)] # None
         /\ Terms(r).settledMilligons <= localchain[EscrowOf(r)]
         /\ Payment(r) \in Uuid
         /\ EscrowOf(r) \in Escrow
         /\ Terms(r).microgons \in Nat
         /\ Terms(r).settledMilligons \in Nat
<1>1. HasPayment(r) /\ TypeOK
  BY DEF IInv, RunInv, DebitMatchesPrice, AwaitsDebit, DebitSteps
<1> QED
  BY <1>1, TermsType
  DEF IInv, Rows, RunInv, DebitMatchesPrice, AwaitsDebit, DebitSteps, Priced

LEMMA AcceptDebitIInv ==
  ASSUME NoTableStreams, IInv, TypeOK', NEW r \in Run, AcceptDebit(r)
  PROVE  IInv'
<1>0. pc[r] = "debit"
  BY DEF AcceptDebit
<1>1. UNCHANGED <<localchain, terms, request, stage, tally>>
  BY DEF AcceptDebit
<1>2. EntriesMatchTerms'
  BY <1>0, <1>1, AtDebit, EntriesRemembered DEF AcceptDebit, DebitAccepted
<1>3. Rows'
  BY <1>0, <1>1, AtDebit, DebitAcceptedCovers DEF AcceptDebit
<1>4. RunInv(r)' /\ OnlyRun(r)
  <2>1. CASE Proceed(r)
    BY <1>0, <1>1, <2>1, AtDebit, ProceedRunInv, ProceedOnly
  <2>2. CASE Goto(r, AfterFailedDebit(r))
    BY <1>0, <1>1, <2>2, AtDebit, FailedDebitRunInv, GotoOnly
  <2> QED
    BY <2>1, <2>2 DEF AcceptDebit
<1>5. LocalchainGrows
  BY <1>0, <1>1, AtDebit, UnchangedLocalchain
<1> QED
  BY <1>1, <1>2, <1>3, <1>4, <1>5, RunStep

LEMMA RepeatDebitIInv ==
  ASSUME NoTableStreams, IInv, TypeOK', NEW r \in Run, RepeatDebit(r)
  PROVE  IInv'
<1>0. pc[r] = "debit"
  BY DEF RepeatDebit
<1>1. UNCHANGED <<escrows, paymentIdByEscrowId, localchain, terms, request, stage, tally>>
  BY DEF RepeatDebit, DebitRepeated, dbVars
<1>2. EntriesMatchTerms' /\ Rows' /\ LocalchainGrows
  BY <1>0, <1>1, AtDebit, EntriesUnchanged, RowsUnchanged, UnchangedLocalchain
<1>3. RunInv(r)' /\ OnlyRun(r)
  BY <1>0, <1>1, AtDebit, ProceedRunInv, ProceedOnly DEF RepeatDebit
<1> QED
  BY <1>1, <1>2, <1>3, RunStep

LEMMA RefuseDebitIInv ==
  ASSUME IInv, TypeOK', NEW r \in Run, RefuseDebit(r)
  PROVE  IInv'
<1>0. pc[r] = "debit"
  BY DEF RefuseDebit
<1>1. UNCHANGED <<escrows, localchain, terms, request, stage, tally>>
  BY DEF RefuseDebit, DebitRefused, DebitFailed, dbVars
<1>2. Rows' /\ LocalchainGrows
  BY <1>0, <1>1, AtDebit, RowsUnchanged, UnchangedLocalchain
<1>3. EntriesMatchTerms'
  <2>1. CASE DebitRefused(EscrowOf(r), Payment(r), DebitQueryId(r))
    BY <1>0, <1>1, <2>1, AtDebit, EntriesUnchanged DEF DebitRefused, dbVars
  <2>2. CASE DebitFailed(EscrowOf(r), Payment(r), DebitQueryId(r),
                         Terms(r).microgons, Terms(r).settledMilligons)
    BY <1>0, <1>1, <2>2, AtDebit, EntriesRemembered DEF DebitFailed
  <2> QED
    BY <2>1, <2>2 DEF RefuseDebit
<1>4. RunInv(r)' /\ OnlyRun(r)
  BY <1>0, <1>1, AtDebit, FailedDebitRunInv, GotoOnly DEF RefuseDebit
<1> QED
  BY <1>1, <1>2, <1>3, <1>4, RunStep

\* A run that goes from one of its calls to the next, or to its end.
LEMMA CallRunInv ==
  ASSUME TypeOK, NEW r \in Run, RunInv(r),
         pc[r] \in {"function", "storage", "storageQuery"},
         \/ pc'[r] = "finalize"
         \/ pc'[r] = "storage" /\ request[r].endpoint = "query",
         tally'[r] \in Nat, tally'[r] <= Price(Calls(r) \cap {"function"}),
         UNCHANGED <<terms, request, stage>>
  PROVE  RunInv(r)'
<1>1. RequestMatchesOffer(r)'
  BY DEF RunInv, RequestMatchesOffer, Calls, Uses
<1>2. DebitMatchesPrice(r)'
  BY DEF DebitMatchesPrice, AwaitsDebit, DebitSteps
<1>3. TallyMatchesPrice(r)'
  BY DEF TypeOK, RunInv, TallyMatchesPrice, Underway, Fresh, DebitSteps, Priced, Calls,
         HasPayment, Terms, Payment, Price
<1> QED
  BY <1>1, <1>2, <1>3 DEF RunInv

LEMMA RunFunctionIInv ==
  ASSUME IInv, TypeOK', NEW r \in Run, RunFunction(r)
  PROVE  IInv'
<1>1. /\ TypeOK /\ RunInv(r) /\ Rows /\ EntriesMatchTerms
      /\ pc[r] = "function"
  BY DEF IInv, Rows, RunFunction
<1>2. UNCHANGED <<escrows, paymentIdByEscrowId, localchain, terms, request, stage>>
  BY DEF RunFunction, dbVars
<1>3. Rows' /\ EntriesMatchTerms' /\ LocalchainGrows
  BY <1>1, <1>2, RowsUnchanged, EntriesUnchanged, UnchangedLocalchain
<1>4. tally[r] = 0 /\ "function" \in Calls(r)
  BY <1>1 DEF RunInv, TallyMatchesPrice, Fresh, RequestMatchesOffer, Uses
<1>5. Price(Calls(r) \cap {"function"}) = FunctionPrice + UpstreamPrice
  BY <1>4, PricesAssumption DEF Price
<1>6. tally'[r] \in Nat /\ tally'[r] <= Price(Calls(r) \cap {"function"})
  BY <1>1, <1>4, <1>5, PricesAssumption DEF RunFunction, TypeOK
<1>7. /\ OnlyRun(r)
      /\ \/ pc'[r] = "finalize"
         \/ pc'[r] = "storage" /\ request[r].endpoint = "query"
  BY <1>1, <1>2 DEF RunFunction, Goto, AfterFunction, OnlyRun, TypeOK
<1>8. RunInv(r)'
  BY <1>1, <1>2, <1>6, <1>7, CallRunInv
<1> QED
  BY <1>2, <1>3, <1>7, <1>8, RunStep

LEMMA AtStorage ==
  ASSUME IInv, NEW r \in Run,
         pc[r] = "storage" \/ (pc[r] = "storageQuery" /\ stage[r] = "storage")
  PROVE  /\ TypeOK /\ RunInv(r) /\ Rows /\ EntriesMatchTerms
         /\ request[r].endpoint = "query" /\ StreamTally(r) = 0
         /\ tally[r] \in Nat /\ tally[r] <= Price(Calls(r) \cap {"function"})
BY DEF IInv, Rows, RunInv, RequestMatchesOffer, StreamTally, TypeOK, TallyMatchesPrice

LEMMA QueryLocalStorageIInv ==
  ASSUME IInv, TypeOK', NEW r \in Run, QueryLocalStorage(r)
  PROVE  IInv'
<1>0. pc[r] = "storage"
  BY DEF QueryLocalStorage
<1>1. UNCHANGED <<escrows, paymentIdByEscrowId, localchain, terms, request, stage>>
  BY DEF QueryLocalStorage, dbVars
<1>2. Rows' /\ EntriesMatchTerms' /\ LocalchainGrows
  BY <1>0, <1>1, AtStorage, RowsUnchanged, EntriesUnchanged, UnchangedLocalchain
<1>3. \A q \in Run : tally'[q] = tally[q]
  <2>1. StreamTally(r) = 0 /\ tally \in [Run -> Nat]
    BY <1>0, AtStorage DEF TypeOK
  <2>2. CASE tally' = tally
    BY <2>2
  <2>3. CASE tally' = [tally EXCEPT ![r] = tally[r] + StreamTally(r)]
    BY <2>1, <2>3
  <2> QED
    BY <2>2, <2>3 DEF QueryLocalStorage
<1>4. pc'[r] = "finalize" /\ OnlyRun(r)
  BY <1>0, <1>1, <1>3, AtStorage DEF QueryLocalStorage, Goto, OnlyRun, TypeOK
<1>5. RunInv(r)'
  BY <1>0, <1>1, <1>3, <1>4, AtStorage, CallRunInv
<1> QED
  BY <1>1, <1>2, <1>4, <1>5, RunStep

LEMMA CallStorageEngineIInv ==
  ASSUME IInv, TypeOK', NEW r \in Run, CallStorageEngine(r)
  PROVE  IInv'
<1>0. pc[r] = "storage"
  BY DEF CallStorageEngine
<1>1. UNCHANGED <<escrows, paymentIdByEscrowId, localchain, terms, request, tally>>
  BY DEF CallStorageEngine, dbVars
<1>2. Rows' /\ EntriesMatchTerms' /\ LocalchainGrows
  BY <1>0, <1>1, AtStorage, RowsUnchanged, EntriesUnchanged, UnchangedLocalchain
<1>3. pc'[r] = "startDebit" /\ stage'[r] = "storage" /\ OnlyRun(r)
  BY <1>0, <1>1, AtStorage DEF CallStorageEngine, Goto, OnlyRun, TypeOK
<1>4. RequestMatchesOffer(r)'
  BY <1>0, <1>1, <1>3, AtStorage DEF RunInv, RequestMatchesOffer, Calls, Uses
<1>5. DebitMatchesPrice(r)'
  BY <1>3 DEF DebitMatchesPrice, AwaitsDebit, DebitSteps
<1>6. TallyMatchesPrice(r)'
  BY <1>0, <1>1, <1>3, AtStorage
  DEF RunInv, TallyMatchesPrice, Underway, Fresh, DebitSteps, Priced, Calls,
      HasPayment, Terms, Payment, Price
<1> QED
  BY <1>1, <1>2, <1>3, <1>4, <1>5, <1>6, RunStep DEF RunInv

\* A price that is what the payment pays, or nothing, is at most the entry.
LEMMA PricedByEntry ==
  ASSUME TypeOK, EntriesMatchTerms, NEW r \in Run, HasPayment(r), NEW calls,
         Priced(r, calls), AlreadyDebited(EscrowOf(r), Payment(r))
  PROVE  Price(calls) <= paymentIdByEscrowId[EscrowOf(r)][Payment(r)].microgons
<1>1. /\ EscrowOf(r) \in Escrow /\ Payment(r) \in Uuid
      /\ Terms(r).microgons \in Nat
      /\ Terms(r) = terms[Payment(r)]
  BY TermsType DEF Terms
<1>2. paymentIdByEscrowId[EscrowOf(r)][Payment(r)].microgons = Terms(r).microgons
  BY <1>1 DEF EntriesMatchTerms
<1> QED
  BY <1>1, <1>2, PriceType DEF Priced

LEMMA RunStorageEngineIInv ==
  ASSUME IInv, TypeOK', NEW r \in Run, RunStorageEngine(r)
  PROVE  IInv'
<1> DEFINE tables == Price(Calls(r) \cap {"table"})
<1>0. pc[r] = "storageQuery" /\ stage[r] = "storage"
  BY DEF RunStorageEngine, IInv, RunInv, RequestMatchesOffer
<1>1. UNCHANGED <<localchain, terms, request, stage>>
  BY DEF RunStorageEngine
<1>2. \A q \in Run : tally'[q] = tally[q]
  <2>1. StreamTally(r) = 0 /\ tally \in [Run -> Nat]
    BY <1>0, AtStorage DEF TypeOK
  <2>2. CASE tally' = tally
    BY <2>2
  <2>3. CASE tally' = [tally EXCEPT ![r] = tally[r] + StreamTally(r)]
    BY <2>1, <2>3
  <2> QED
    BY <2>2, <2>3 DEF RunStorageEngine
<1>3. LocalchainGrows
  BY <1>0, <1>1, AtStorage, UnchangedLocalchain
<1>4. EntriesMatchTerms' /\ Rows'
  <2>1. CASE UNCHANGED dbVars
    BY <1>0, <1>1, <2>1, AtStorage, EntriesUnchanged, RowsUnchanged DEF dbVars
  <2>2. CASE HasPayment(r) /\ FinalizePayment(EscrowOf(r), Payment(r), tables)
    <3>1. Priced(r, Calls(r) \cap {"table"})
      BY <1>0, AtStorage DEF RunInv, TallyMatchesPrice
    <3>2. AlreadyDebited(EscrowOf(r), Payment(r))
      BY <2>2 DEF FinalizePayment, FinalizeSucceeds
    <3>3. tables <= paymentIdByEscrowId[EscrowOf(r)][Payment(r)].microgons
      BY <1>0, <2>2, <3>1, <3>2, AtStorage, PricedByEntry
    <3>4. Rows'
      BY <1>0, <1>1, <2>2, <3>3, AtStorage, TermsType, PriceType, FinalizePaymentCovers
    <3>5. EntriesMatchTerms'
      BY <1>0, <1>1, <2>2, AtStorage, EntriesUnchanged DEF FinalizePayment
    <3> QED
      BY <3>4, <3>5
  <2> QED
    BY <2>1, <2>2 DEF RunStorageEngine
<1>5. pc'[r] = "finalize" /\ OnlyRun(r)
  BY <1>0, <1>1, <1>2, AtStorage DEF RunStorageEngine, Goto, OnlyRun, TypeOK
<1>6. RunInv(r)'
  BY <1>0, <1>1, <1>2, <1>5, AtStorage, CallRunInv
<1> QED
  BY <1>1, <1>3, <1>4, <1>5, <1>6, RunStep

Finalizing(r) == pc[r] \in {"finalize", "finalizeRejected", "refinalize"}

\* A run is never charged more than the entry of its payment: a rejected one is
\* charged nothing, any other at most the price of its calls.
LEMMA FinalPriceCovered ==
  ASSUME IInv, NEW r \in Run, Finalizing(r), HasPayment(r),
         AlreadyDebited(EscrowOf(r), Payment(r))
  PROVE  /\ FinalPrice(r) \in Nat
         /\ FinalPrice(r) <= paymentIdByEscrowId[EscrowOf(r)][Payment(r)].microgons
<1>1. TypeOK /\ RunInv(r) /\ EntriesMatchTerms
  BY DEF IInv
<1>2. /\ FinalPrice(r) \in Nat
      /\ tally[r] \in Nat
      /\ paymentIdByEscrowId[EscrowOf(r)][Payment(r)].microgons \in Nat
  <2>1. EscrowOf(r) \in Escrow /\ Payment(r) \in Uuid
    BY <1>1, TermsType
  <2> QED
    BY <1>1, <2>1, FinalPriceType DEF AlreadyDebited, TypeOK, DbTypeOK, Entry
<1>3. CASE pc[r] = "finalize"
  <2>1. Priced(r, Calls(r))
    BY <1>1, <1>3 DEF RunInv, TallyMatchesPrice, Underway
  <2>2. FinalPrice(r) <= Price(Calls(r))
    <3>1. tally[r] <= Price(Calls(r) \cap {"function"})
      BY <1>1 DEF RunInv, TallyMatchesPrice
    <3>2. Price(Calls(r)) =
            Price(Calls(r) \cap {"function"}) + Price(Calls(r) \cap {"table"})
      BY PriceParts
    <3>3. /\ Price(Calls(r) \cap {"function"}) \in Nat
          /\ Price(Calls(r) \cap {"table"}) \in Nat
      BY PriceParts
    <3>4. CASE FinalPrice(r) = tally[r]
      BY <1>2, <3>1, <3>2, <3>3, <3>4
    <3>5. CASE Uses(r, "table") /\ FinalPrice(r) = tally[r] + TablePrice
      <4>1. Price(Calls(r) \cap {"table"}) = TablePrice
        BY <3>5, PricesAssumption DEF Price, Uses
      <4> QED
        BY <1>2, <3>1, <3>2, <3>3, <3>5, <4>1, PricesAssumption
    <3> QED
      BY <3>4, <3>5 DEF FinalPrice, Cost
  <2>3. Price(Calls(r)) <= paymentIdByEscrowId[EscrowOf(r)][Payment(r)].microgons
    BY <1>1, <2>1, PricedByEntry
  <2> QED
    BY <1>2, <2>2, <2>3, PriceType
<1>4. CASE pc[r] # "finalize"
  <2>1. FinalPrice(r) = 0
    BY <1>1, <1>4 DEF FinalPrice, Cost, Finalizing, RunInv, TallyMatchesPrice, Fresh
  <2> QED
    BY <1>2, <2>1
<1> QED
  BY <1>3, <1>4

\* A run that is over.
LEMMA OverRunInv ==
  ASSUME TypeOK, NEW r \in Run, RunInv(r), pc[r] # "idle",
         pc'[r] \in {"done", "rejected", "crashed"},
         UNCHANGED <<terms, request[r], stage[r], tally[r]>>
  PROVE  RunInv(r)'
<1>1. RequestMatchesOffer(r)'
  BY DEF RunInv, RequestMatchesOffer, Calls, Uses
<1>2. DebitMatchesPrice(r)'
  BY DEF DebitMatchesPrice, AwaitsDebit, DebitSteps
<1>3. TallyMatchesPrice(r)'
  BY DEF TypeOK, RunInv, TallyMatchesPrice, Underway, Fresh, DebitSteps, Calls, Price
<1> QED
  BY <1>1, <1>2, <1>3 DEF RunInv

\* A run whose payment is finalized, or that is to finalize it once more.
LEMMA FinalizedRunInv ==
  ASSUME TypeOK, NEW r \in Run, RunInv(r), Finalizing(r),
         pc'[r] \in {"done", AfterFailedFinalize(r)},
         UNCHANGED <<terms, request, stage, tally>>
  PROVE  RunInv(r)'
<1>1. CASE pc'[r] \in {"done", "rejected"}
  BY <1>1, OverRunInv DEF Finalizing
<1>2. CASE pc[r] = "finalizeRejected" /\ pc'[r] = "refinalize"
  <2>1. RequestMatchesOffer(r)'
    BY <1>2 DEF RunInv, RequestMatchesOffer, Calls, Uses
  <2>2. DebitMatchesPrice(r)'
    BY <1>2 DEF DebitMatchesPrice, AwaitsDebit, DebitSteps
  <2>3. TallyMatchesPrice(r)'
    BY <1>2
    DEF TypeOK, RunInv, TallyMatchesPrice, Underway, Fresh, DebitSteps, Calls, Price
  <2> QED
    BY <2>1, <2>2, <2>3 DEF RunInv
<1> QED
  BY <1>1, <1>2 DEF AfterFailedFinalize

LEMMA FinalizeIInv ==
  ASSUME IInv, TypeOK', NEW r \in Run, Finalize(r)
  PROVE  IInv'
<1>1. /\ TypeOK /\ RunInv(r) /\ Rows /\ EntriesMatchTerms
      /\ pc[r] # "idle" /\ Finalizing(r)
  BY DEF IInv, Rows, Finalize, Finalizes, Finalizing
<1>2. UNCHANGED <<localchain, terms, request, stage, tally>>
  BY DEF Finalize, Finalizes
<1>3. LocalchainGrows
  BY <1>1, <1>2, UnchangedLocalchain
<1>4. EntriesMatchTerms' /\ Rows'
  <2>1. CASE UNCHANGED dbVars
    BY <1>1, <1>2, <2>1, EntriesUnchanged, RowsUnchanged DEF dbVars
  <2>2. CASE HasPayment(r) /\ FinalizePayment(EscrowOf(r), Payment(r), FinalPrice(r))
    <3>1. AlreadyDebited(EscrowOf(r), Payment(r))
      BY <2>2 DEF FinalizePayment, FinalizeSucceeds
    <3>2. /\ FinalPrice(r) \in Nat
          /\ FinalPrice(r) <= paymentIdByEscrowId[EscrowOf(r)][Payment(r)].microgons
      BY <1>1, <2>2, <3>1, FinalPriceCovered
    <3>3. Rows'
      BY <1>1, <1>2, <2>2, <3>2, TermsType, FinalizePaymentCovers
    <3>4. EntriesMatchTerms'
      BY <1>1, <1>2, <2>2, EntriesUnchanged DEF FinalizePayment
    <3> QED
      BY <3>3, <3>4
  <2> QED
    BY <2>1, <2>2 DEF Finalize, Finalizes
<1>5. pc'[r] \in {"done", AfterFailedFinalize(r)} /\ OnlyRun(r)
  BY <1>1, <1>2, GotoOnly DEF Finalize, Finalizes
<1>6. RunInv(r)'
  BY <1>1, <1>2, <1>5, FinalizedRunInv
<1> QED
  BY <1>2, <1>3, <1>4, <1>5, <1>6, RunStep

LEMMA FailFinalizeIInv ==
  ASSUME IInv, TypeOK', NEW r \in Run, FailFinalize(r)
  PROVE  IInv'
<1>1. /\ TypeOK /\ RunInv(r) /\ Rows /\ EntriesMatchTerms
      /\ pc[r] # "idle" /\ Finalizing(r)
  BY DEF IInv, Rows, FailFinalize, Finalizes, Finalizing
<1>2. UNCHANGED <<escrows, paymentIdByEscrowId, localchain, terms, request, stage, tally>>
  BY DEF FailFinalize, Finalizes, dbVars
<1>3. EntriesMatchTerms' /\ Rows' /\ LocalchainGrows
  BY <1>1, <1>2, EntriesUnchanged, RowsUnchanged, UnchangedLocalchain
<1>4. pc'[r] = AfterFailedFinalize(r) /\ OnlyRun(r)
  BY <1>1, <1>2, GotoOnly DEF FailFinalize, Finalizes
<1>5. RunInv(r)'
  BY <1>1, <1>2, <1>4, FinalizedRunInv
<1> QED
  BY <1>2, <1>3, <1>4, <1>5, RunStep

\* Steps that are not a run's own keep the localchain's settlements.
LEMMA EnvironmentIInv ==
  ASSUME IInv, TypeOK', Environment
  PROVE  IInv'
<1>0. TypeOK /\ Rows /\ EntriesMatchTerms /\ \A r \in Run : RunInv(r)
  BY DEF IInv, Rows
<1>1. ASSUME NEW r \in Run, NEW offer \in Offers,
             NEW payment \in Uuid \cup {None}, NEW root \in QueryRoot,
             Submit(r, offer, payment, root)
      PROVE  IInv'
  <2>1. UNCHANGED <<escrows, paymentIdByEscrowId, localchain, terms, stage, tally>>
    BY <1>1 DEF Submit, dbVars
  <2>2. EntriesMatchTerms' /\ Rows' /\ LocalchainGrows
    BY <1>0, <2>1, EntriesUnchanged, RowsUnchanged, UnchangedLocalchain
  <2>3. /\ pc[r] = "idle" /\ pc'[r] = "startDebit"
        /\ request'[r] = [endpoint |-> offer.endpoint, calls |-> offer.calls,
                          payment |-> payment, root |-> root]
        /\ stage'[r] = "root" /\ tally'[r] = 0
        /\ OnlyRun(r)
    BY <1>0, <1>1, <2>1
    DEF Submit, Goto, OnlyRun, TypeOK, RunInv, RequestMatchesOffer, TallyMatchesPrice, Fresh
  <2>4. offer = [endpoint |-> offer.endpoint, calls |-> offer.calls]
    BY OffersAssumption DEF Offer
  <2>5. RequestMatchesOffer(r)'
    BY <2>3, <2>4 DEF RequestMatchesOffer, Calls, Uses
  <2>6. DebitMatchesPrice(r)'
    BY <2>3 DEF DebitMatchesPrice, AwaitsDebit, DebitSteps
  <2>7. TallyMatchesPrice(r)'
    BY <2>3, PricesAssumption DEF TallyMatchesPrice, Underway, Fresh, DebitSteps, Price
  <2> QED
    BY <2>1, <2>2, <2>3, <2>5, <2>6, <2>7, RunStep DEF RunInv
<1>2. ASSUME UNCHANGED <<pc, request, stage, tally, terms>>, LocalchainGrows,
             Rows', EntriesMatchTerms'
      PROVE  IInv'
  <2>1. ASSUME NEW q \in Run
        PROVE  RunInv(q)'
    BY <1>0, <1>2, <2>1, RunInvFrame
  <2> QED
    BY <1>2, <2>1 DEF IInv, Rows
<1>3. ASSUME NEW e \in Escrow, NEW milligons \in Milligons \ {0},
             NEW expirationDate \in 0 .. MaxTime,
             RegisterEscrow(e, milligons, expirationDate)
      PROVE  IInv'
  <2>1. /\ UNCHANGED <<pc, request, stage, tally, terms, paymentIdByEscrowId>>
        /\ localchain[e] = None /\ escrows[e] = None
        /\ localchain' = [localchain EXCEPT ![e] = 0]
        /\ escrows' = [escrows EXCEPT ![e] =
             [allocated |-> milligons * MicrogonsPerMilligon,
              remaining |-> milligons * MicrogonsPerMilligon,
              expirationDate |-> expirationDate]]
    BY <1>3 DEF RegisterEscrow, CreateEscrow, runVars
  <2>2. LocalchainGrows /\ EntriesMatchTerms'
    BY <1>0, <2>1, BoundsAssumption, EntriesUnchanged DEF LocalchainGrows, TypeOK, Milligons
  <2>3. /\ milligons * MicrogonsPerMilligon \in Nat
        /\ milligons * MicrogonsPerMilligon <= MaxMilligons * MicrogonsPerMilligon
    BY ProductMonotonic, BoundsAssumption, MicrogonsPerMilligonAssumption DEF Milligons
  <2>4. /\ Spent(e)' = 0 /\ escrows'[e].allocated = milligons * MicrogonsPerMilligon
        /\ localchain'[e] = 0 /\ localchain'[e] # None
        /\ 0 * MicrogonsPerMilligon = 0
    BY <1>0, <2>1, <2>3, NoneAssumption, MicrogonsPerMilligonAssumption
    DEF Spent, TypeOK, DbTypeOK
  <2>5. ASSUME NEW f \in Escrow, f # e
        PROVE  /\ escrows'[f] = escrows[f] /\ Spent(f)' = Spent(f)
               /\ localchain'[f] = localchain[f]
    BY <1>0, <2>1, <2>5 DEF TypeOK, DbTypeOK, Spent
  <2>6. Rows'
    BY <1>0, <2>3, <2>4, <2>5 DEF Rows, SettlementCoversSpend, RowsAreKnown
  <2> QED
    BY <1>2, <2>1, <2>2, <2>6
<1>4. CASE CleanupEscrows
  <2>1. UNCHANGED <<pc, request, stage, tally, terms, localchain>>
    BY <1>4 DEF CleanupEscrows, runVars
  <2>2. ASSUME NEW e \in Escrow
        PROVE  /\ escrows'[e] = IF Stale(e) THEN None ELSE escrows[e]
               /\ paymentIdByEscrowId'[e] = IF Stale(e) THEN [u \in Uuid |-> None]
                                                        ELSE paymentIdByEscrowId[e]
    BY <1>4 DEF CleanupEscrows, Cleanup
  <2>3. EntriesMatchTerms'
    BY <1>0, <2>1, <2>2 DEF EntriesMatchTerms, AlreadyDebited
  <2>4. Rows'
    BY <1>0, <2>1, <2>2 DEF Rows, SettlementCoversSpend, RowsAreKnown, Spent
  <2> QED
    BY <1>0, <1>2, <2>1, <2>3, <2>4, UnchangedLocalchain
<1>5. CASE RestartTracker
  <2>1. /\ UNCHANGED <<request, stage, tally, terms, escrows>>
        /\ paymentIdByEscrowId' = [e \in Escrow |-> [u \in Uuid |-> None]]
    BY <1>5 DEF RestartTracker, ForgetPayments
  <2>2. LocalchainGrows
    BY <1>0, <1>5, BoundsAssumption DEF RestartTracker, LocalchainGrows, TypeOK, Milligons
  <2>3. EntriesMatchTerms'
    BY <2>1 DEF EntriesMatchTerms, AlreadyDebited
  <2>4. Rows'
    BY <1>0, <2>1, <2>2, RowsWithLargerSettlement
  <2>5. ASSUME NEW q \in Run
        PROVE  RunInv(q)'
    <3>1. CASE pc'[q] = pc[q]
      BY <1>0, <2>1, <2>2, <3>1, RunInvFrame
    <3>2. CASE pc'[q] = AfterFailedDebit(q) /\ pc[q] \in DebitSteps
      BY <1>0, <2>1, <3>2, FailedDebitRunInv
    <3> QED
      BY <1>0, <1>5, <3>1, <3>2 DEF RestartTracker, TypeOK, DebitSteps
  <2> QED
    BY <2>3, <2>4, <2>5 DEF IInv, Rows
<1>6. CASE RestartNode
  <2>1. UNCHANGED <<request, stage, tally, terms, escrows, paymentIdByEscrowId, localchain>>
    BY <1>6 DEF RestartNode, dbVars
  <2>2. EntriesMatchTerms' /\ Rows' /\ LocalchainGrows
    BY <1>0, <2>1, EntriesUnchanged, RowsUnchanged, UnchangedLocalchain
  <2>3. ASSUME NEW q \in Run
        PROVE  RunInv(q)'
    <3>1. CASE pc'[q] = pc[q]
      BY <1>0, <2>1, <2>2, <3>1, RunInvFrame
    <3>2. CASE pc[q] # "idle" /\ pc'[q] = "crashed"
      BY <1>0, <2>1, <3>2, OverRunInv
    <3> QED
      BY <1>0, <1>6, <3>1, <3>2 DEF RestartNode, Over, TypeOK
  <2> QED
    BY <2>2, <2>3 DEF IInv, Rows
<1>7. CASE Tick
  <2>1. UNCHANGED <<pc, request, stage, tally, terms, escrows, paymentIdByEscrowId, localchain>>
    BY <1>7 DEF Tick, dbVars, runVars
  <2> QED
    BY <1>0, <1>2, <2>1, EntriesUnchanged, RowsUnchanged, UnchangedLocalchain
<1> QED
  BY <1>1, <1>3, <1>4, <1>5, <1>6, <1>7 DEF Environment

LEMMA InitIInv == Init => IInv
<1> SUFFICES ASSUME Init PROVE IInv
  OBVIOUS
<1>1. TypeOK
  BY InitTypeInv DEF TypeInv
<1>2. Rows /\ EntriesMatchTerms
  BY DEF Init, DbInit, Rows, SettlementCoversSpend, RowsAreKnown, EntriesMatchTerms,
         AlreadyDebited
<1>3. ASSUME NEW r \in Run
      PROVE  RunInv(r)
  BY <1>3, PriceType
  DEF Init, RunInv, RequestMatchesOffer, DebitMatchesPrice, AwaitsDebit, TallyMatchesPrice,
      Underway, Fresh, DebitSteps
<1> QED
  BY <1>1, <1>2, <1>3 DEF IInv, Rows

LEMMA AdvanceIInv ==
  ASSUME NoTableStreams, IInv, TypeOK', NEW r \in Run, Advance(r)
  PROVE  IInv'
BY StartDebitIInv, ReadSettlementIInv, RecordSettlementIInv, AcceptDebitIInv,
   RepeatDebitIInv, RefuseDebitIInv, RunFunctionIInv, QueryLocalStorageIInv,
   CallStorageEngineIInv, RunStorageEngineIInv, FinalizeIInv, FailFinalizeIInv
DEF Advance, Debit, Execute, Complete

LEMMA StutterIInv ==
  ASSUME IInv, TypeOK', UNCHANGED vars
  PROVE  IInv'
<1>1. UNCHANGED <<pc, request, stage, tally, terms, escrows, paymentIdByEscrowId, localchain>>
  BY DEF vars, dbVars, runVars
<1>2. EntriesMatchTerms' /\ Rows' /\ LocalchainGrows
  BY <1>1, EntriesUnchanged, RowsUnchanged, UnchangedLocalchain DEF IInv, Rows
<1>3. ASSUME NEW q \in Run
      PROVE  RunInv(q)'
  BY <1>1, <1>2, <1>3, RunInvFrame DEF IInv
<1> QED
  BY <1>2, <1>3 DEF IInv, Rows

\* IInv is inductive, given the types.
THEOREM IInvHolds ==
  ASSUME NoTableStreams
  PROVE  Spec => []IInv
<1>1. Init => IInv
  BY InitIInv
<1>2. IInv /\ TypeOK' /\ [Next]_vars => IInv'
  BY AdvanceIInv, EnvironmentIInv, StutterIInv DEF Next
<1> QED
  BY <1>1, <1>2, TypeCorrect, PTL DEF Spec

\* What the node has charged to an escrow is covered by a settlement that the
\* payer signed and the localchain recorded, for any number of requests,
\* payments, escrows and restarts: as long as no request is a stream of a table.
THEOREM SettlementAlwaysCoversSpend ==
  ASSUME NoTableStreams
  PROVE  Spec => []SettlementCoversSpend
<1>1. IInv => SettlementCoversSpend
  BY DEF IInv
<1> QED
  BY <1>1, IInvHolds, PTL

-----------------------------------------------------------------------------
(* Refinement: the node implements the ledger *)

MaxAmount == MaxMilligons * MicrogonsPerMilligon

LEMMA MaxAmountType == MaxAmount \in Nat
BY BoundsAssumption, MicrogonsPerMilligonAssumption DEF MaxAmount

\* A settlement is an amount.
LEMMA SettlementAmount ==
  ASSUME NEW milligons \in Milligons
  PROVE  /\ milligons * MicrogonsPerMilligon \in 0 .. MaxAmount
         /\ milligons * MicrogonsPerMilligon \in Nat
<1>1. milligons \in Nat /\ milligons <= MaxMilligons
  BY BoundsAssumption DEF Milligons
<1>2. milligons * MicrogonsPerMilligon <= MaxMilligons * MicrogonsPerMilligon
  BY <1>1, ProductMonotonic, BoundsAssumption, MicrogonsPerMilligonAssumption
<1>3. milligons * MicrogonsPerMilligon \in Nat
  BY <1>1, MicrogonsPerMilligonAssumption
<1> QED
  BY <1>2, <1>3, MaxAmountType DEF MaxAmount

\* What an escrow spent, before and after a step, is an amount.
LEMMA SpentAmount ==
  ASSUME TypeOK, Rows, NEW e \in Escrow, escrows[e] # None
  PROVE  /\ Spent(e) \in 0 .. MaxAmount
         /\ Spent(e) \in Nat
         /\ Spent(e) <= escrows[e].allocated
         /\ localchain[e] \in Milligons
         /\ Spent(e) <= localchain[e] * MicrogonsPerMilligon
         /\ localchain[e] * MicrogonsPerMilligon \in 0 .. MaxAmount
<1>1. /\ escrows[e] \in EscrowRow
      /\ localchain[e] \in Milligons
      /\ Spent(e) \in 0 .. escrows[e].allocated
      /\ escrows[e].allocated <= MaxAmount
      /\ Spent(e) <= localchain[e] * MicrogonsPerMilligon
  BY DEF TypeOK, DbTypeOK, Rows, SettlementCoversSpend, RowsAreKnown, MaxAmount
<1> QED
  BY <1>1, MaxAmountType, SettlementAmount DEF EscrowRow

LEMMA SameAccounts ==
  ASSUME UNCHANGED <<escrows, localchain>>
  PROVE  UNCHANGED Accounts
BY DEF Accounts, Account, Spent

\* One account changes.
LEMMA OneAccount ==
  ASSUME NEW e \in Escrow, \A f \in Escrow \ {e} : Account(f)' = Account(f)
  PROVE  Accounts' = [Accounts EXCEPT ![e] = Account(e)']
BY DEF Accounts

LEMMA InitLedger == Init => Ledger!Init
BY DEF Init, DbInit, Ledger!Init, Ledger!Empty, Accounts, Account

\* What changes when the balance of one escrow does.
LEMMA BalanceStep ==
  ASSUME TypeOK, Rows, TypeOK', Rows', NEW e \in Escrow, NEW remaining \in Nat,
         escrows[e] # None, UNCHANGED localchain,
         escrows' = [escrows EXCEPT ![e].remaining = remaining]
  PROVE  /\ Spent(e)' = escrows[e].allocated - remaining
         /\ Spent(e)' \in 0 .. MaxAmount
         /\ Spent(e)' <= escrows[e].allocated
         /\ Spent(e)' <= localchain[e] * MicrogonsPerMilligon
         /\ Accounts[e] = [state |-> "open", allocated |-> escrows[e].allocated,
                           spent |-> Spent(e),
                           signed |-> localchain[e] * MicrogonsPerMilligon]
         /\ Accounts' = [Accounts EXCEPT ![e].spent = Spent(e)']
<1>1. escrows[e] \in EscrowRow
  BY DEF TypeOK, DbTypeOK
<1>2. /\ escrows'[e] = [escrows[e] EXCEPT !.remaining = remaining]
      /\ \A f \in Escrow \ {e} : escrows'[f] = escrows[f]
  BY DEF TypeOK, DbTypeOK
<1>3. /\ escrows'[e] # None
      /\ escrows'[e].allocated = escrows[e].allocated
      /\ escrows'[e].remaining = remaining
  <2>1. escrows'[e] = [allocated |-> escrows[e].allocated, remaining |-> remaining,
                       expirationDate |-> escrows[e].expirationDate]
    BY <1>1, <1>2 DEF EscrowRow
  <2>2. escrows'[e] \in EscrowRow
    BY <1>1, <2>1 DEF EscrowRow
  <2> QED
    BY <2>1, <2>2, NoneAssumption
<1>4. Spent(e)' = escrows[e].allocated - remaining
  BY <1>3 DEF Spent
<1>5. /\ Spent(e)' \in 0 .. MaxAmount
      /\ Spent(e)' <= escrows[e].allocated
      /\ Spent(e)' <= localchain[e] * MicrogonsPerMilligon
  <2>1. Spent(e)' \in 0 .. escrows[e].allocated
    BY <1>3 DEF Rows, SettlementCoversSpend
  <2>2. Spent(e)' <= localchain[e] * MicrogonsPerMilligon
    BY <1>3 DEF Rows, SettlementCoversSpend
  <2>3. escrows[e].allocated <= MaxAmount
    BY DEF Rows, RowsAreKnown, MaxAmount
  <2> QED
    BY <1>1, <2>1, <2>2, <2>3, MaxAmountType DEF EscrowRow
<1>6. Accounts[e] = [state |-> "open", allocated |-> escrows[e].allocated,
                     spent |-> Spent(e),
                     signed |-> localchain[e] * MicrogonsPerMilligon]
  BY DEF Accounts, Account
<1>7. Account(e)' = [Accounts[e] EXCEPT !.spent = Spent(e)']
  BY <1>3, <1>6 DEF Account
<1>8. \A f \in Escrow \ {e} : Account(f)' = Account(f)
  BY <1>2 DEF Account, Spent
<1>9. Accounts' = [Accounts EXCEPT ![e] = Account(e)']
  BY <1>8, OneAccount
<1> QED
  BY <1>4, <1>5, <1>6, <1>7, <1>9

\* A larger balance is a hold, a smaller one a release.
LEMMA HoldOrRelease ==
  ASSUME TypeOK, Rows, TypeOK', Rows', NEW e \in Escrow, NEW remaining \in Nat,
         escrows[e] # None, UNCHANGED localchain,
         escrows' = [escrows EXCEPT ![e].remaining = remaining]
  PROVE  [Ledger!Next]_Accounts
<1> DEFINE spent == escrows[e].allocated - remaining
<1>1. /\ spent \in 0 .. MaxAmount
      /\ spent <= escrows[e].allocated
      /\ spent <= localchain[e] * MicrogonsPerMilligon
      /\ Accounts[e] = [state |-> "open", allocated |-> escrows[e].allocated,
                        spent |-> Spent(e),
                        signed |-> localchain[e] * MicrogonsPerMilligon]
      /\ Accounts' = [Accounts EXCEPT ![e].spent = spent]
  BY BalanceStep
<1>2. spent \in Nat /\ Spent(e) \in Nat
  BY <1>1, SpentAmount
<1> HIDE DEF spent
<1>3. CASE spent = Spent(e)
  <2>1. [Accounts[e] EXCEPT !.spent = spent] = Accounts[e]
    BY <1>1, <1>3
  <2>2. Accounts' = [Accounts EXCEPT ![e] = Accounts[e]]
    BY <1>1, <2>1
  <2> QED
    BY <2>2 DEF Accounts
<1>4. /\ Accounts[e].state = "open"
      /\ Accounts[e].allocated = escrows[e].allocated
      /\ Accounts[e].spent = Spent(e)
      /\ Accounts[e].signed = localchain[e] * MicrogonsPerMilligon
      /\ spent \in 0 .. MaxMilligons * MicrogonsPerMilligon
  BY <1>1 DEF MaxAmount
<1>5. CASE Spent(e) < spent
  <2>1. Ledger!Hold(e)
    BY <1>1, <1>4, <1>5 DEF Ledger!Hold, Ledger!IsOpen
  <2> QED
    BY <2>1 DEF Ledger!Next
<1>6. CASE spent < Spent(e)
  <2>1. Ledger!Release(e)
    BY <1>1, <1>4, <1>6 DEF Ledger!Release, Ledger!IsOpen
  <2> QED
    BY <2>1 DEF Ledger!Next
<1> QED
  BY <1>2, <1>3, <1>5, <1>6

\* The debit that is accepted.
LEMMA AcceptDebitLedger ==
  ASSUME IInv, IInv', NEW r \in Run, AcceptDebit(r)
  PROVE  [Ledger!Next]_Accounts
<1>1. /\ TypeOK /\ Rows /\ TypeOK' /\ Rows'
      /\ EscrowOf(r) \in Escrow /\ Terms(r).microgons \in Nat
      /\ UNCHANGED localchain
      /\ escrows[EscrowOf(r)] # None
      /\ Terms(r).microgons <= escrows[EscrowOf(r)].remaining
      /\ escrows' = [escrows EXCEPT ![EscrowOf(r)].remaining = @ - Terms(r).microgons]
  BY AtDebit DEF IInv, Rows, AcceptDebit, DebitAccepted, CanDebit
<1>2. escrows[EscrowOf(r)].remaining - Terms(r).microgons \in Nat
  BY <1>1 DEF TypeOK, DbTypeOK, EscrowRow
<1> QED
  BY <1>1, <1>2, HoldOrRelease

\* A payment that is finalized.
LEMMA FinalizePaymentLedger ==
  ASSUME IInv, IInv', NEW e \in Escrow, NEW u \in Uuid, NEW final \in Nat,
         FinalizePayment(e, u, final), UNCHANGED localchain
  PROVE  [Ledger!Next]_Accounts
<1>1. TypeOK /\ Rows /\ TypeOK' /\ Rows'
  BY DEF IInv, Rows
<1>2. CASE Adjustment(e, u, final) = 0
  BY <1>2, SameAccounts DEF FinalizePayment
<1>3. CASE Adjustment(e, u, final) # 0
  <2>1. /\ escrows[e] # None
        /\ escrows[e].remaining + Adjustment(e, u, final) \in 0 .. escrows[e].allocated
        /\ escrows' = [escrows EXCEPT ![e].remaining = @ + Adjustment(e, u, final)]
    BY <1>3 DEF FinalizePayment, FinalizeSucceeds, CanAdjust
  <2>2. escrows[e].remaining + Adjustment(e, u, final) \in Nat
    BY <1>1, <2>1 DEF TypeOK, DbTypeOK, EscrowRow
  <2> QED
    BY <1>1, <2>1, <2>2, HoldOrRelease
<1> QED
  BY <1>2, <1>3

\* A settlement that is recorded.
LEMMA RecordSettlementLedger ==
  ASSUME IInv, IInv', NEW r \in Run, RecordSettlement(r)
  PROVE  [Ledger!Next]_Accounts
<1> SUFFICES ASSUME NEW e \in Escrow, NEW settled \in Milligons,
                    localchain[e] # None, UNCHANGED escrows,
                    localchain' = [localchain EXCEPT ![e] =
                                     RecordedSettlement(@, settled)]
             PROVE  [Ledger!Next]_Accounts
  <2>1. /\ HasPayment(r) /\ TypeOK
        /\ localchain[EscrowOf(r)] # None
    BY DEF IInv, RunInv, DebitMatchesPrice, AwaitsDebit, DebitSteps, RecordSettlement
  <2>2. UNCHANGED escrows
    BY DEF RecordSettlement, dbVars
  <2> QED
    BY <2>1, <2>2, TermsType, SameAccounts DEF RecordSettlement
<1>1. /\ TypeOK /\ Rows
      /\ localchain[e] \in Nat /\ localchain[e] \in Milligons
      /\ settled \in Nat
  BY BoundsAssumption DEF IInv, Rows, TypeOK, Milligons
<1>2. /\ localchain'[e] \in Milligons
      /\ localchain'[e] # None
      /\ \A f \in Escrow \ {e} : localchain'[f] = localchain[f]
  BY <1>1, NoneAssumption DEF TypeOK, RecordedSettlement
<1>3. \A f \in Escrow \ {e} : Account(f)' = Account(f)
  BY <1>2 DEF Account, Spent
<1>4. Accounts' = [Accounts EXCEPT ![e] = Account(e)']
  BY <1>3, OneAccount
<1>5. CASE escrows[e] = None
  <2>1. Account(e)' = Account(e)
    BY <1>2, <1>5 DEF Account
  <2> QED
    BY <1>4, <2>1 DEF Accounts
<1>6. CASE escrows[e] # None /\ localchain'[e] = localchain[e]
  <2>1. Account(e)' = Account(e)
    BY <1>2, <1>6 DEF Account, Spent
  <2> QED
    BY <1>4, <2>1 DEF Accounts
<1>7. CASE escrows[e] # None /\ localchain[e] < localchain'[e]
  <2> DEFINE before == localchain[e] * MicrogonsPerMilligon
             after == localchain'[e] * MicrogonsPerMilligon
  <2>1. /\ before < after
        /\ after \in 0 .. MaxMilligons * MicrogonsPerMilligon
    <3>1. PICK d \in Nat \ {0} : localchain'[e] = localchain[e] + d
      <4>1. localchain'[e] \in Nat
        BY <1>2, BoundsAssumption DEF Milligons
      <4>2. localchain'[e] - localchain[e] \in Nat \ {0}
        BY <1>1, <1>7, <4>1
      <4> QED
        BY <1>1, <4>1, <4>2
    <3>2. after = before + d * MicrogonsPerMilligon
      BY <1>1, <3>1, MicrogonsPerMilligonAssumption
    <3>3. d * MicrogonsPerMilligon \in Nat /\ d * MicrogonsPerMilligon > 0
      BY <3>1, MicrogonsPerMilligonAssumption
    <3>4. before \in Nat
      BY <1>1, MicrogonsPerMilligonAssumption
    <3>5. after \in 0 .. MaxMilligons * MicrogonsPerMilligon
      BY <1>2, SettlementAmount DEF MaxAmount
    <3> QED
      BY <3>2, <3>3, <3>4, <3>5
  <2> HIDE DEF before, after
  <2>2. /\ Accounts[e].state = "open"
        /\ Accounts[e].signed = before
    BY <1>7 DEF Accounts, Account, before
  <2>3. Account(e)' = [Accounts[e] EXCEPT !.signed = after]
    BY <1>2, <1>7 DEF Accounts, Account, Spent, after
  <2>4. Ledger!Sign(e)
    BY <1>4, <2>1, <2>2, <2>3 DEF Ledger!Sign, Ledger!IsOpen
  <2> QED
    BY <2>4 DEF Ledger!Next
<1> QED
  BY <1>1, <1>2, <1>5, <1>6, <1>7 DEF RecordedSettlement, TypeOK

\* A run's own steps.
LEMMA AdvanceLedger ==
  ASSUME IInv, IInv', NEW r \in Run, Advance(r)
  PROVE  [Ledger!Next]_Accounts
<1>1. CASE StartDebit(r) \/ ReadSettlement(r) \/ RepeatDebit(r) \/ RefuseDebit(r)
  BY <1>1, SameAccounts
  DEF StartDebit, ReadSettlement, RepeatDebit, RefuseDebit, DebitRepeated,
      DebitRefused, DebitFailed, dbVars
<1>2. CASE RecordSettlement(r)
  BY <1>2, RecordSettlementLedger
<1>3. CASE AcceptDebit(r)
  BY <1>3, AcceptDebitLedger
<1>4. CASE RunFunction(r) \/ QueryLocalStorage(r) \/ CallStorageEngine(r)
           \/ FailFinalize(r)
  BY <1>4, SameAccounts
  DEF RunFunction, QueryLocalStorage, CallStorageEngine, FailFinalize, Finalizes,
      dbVars
<1>5. CASE RunStorageEngine(r)
  <2>1. CASE UNCHANGED dbVars
    BY <1>5, <2>1, SameAccounts DEF RunStorageEngine, dbVars
  <2>2. CASE /\ HasPayment(r)
             /\ FinalizePayment(EscrowOf(r), Payment(r), Price(Calls(r) \cap {"table"}))
    BY <1>5, <2>2, TermsType, PriceType, FinalizePaymentLedger DEF RunStorageEngine, IInv
  <2> QED
    BY <1>5, <2>1, <2>2 DEF RunStorageEngine
<1>6. CASE Finalize(r)
  <2>1. CASE UNCHANGED dbVars
    BY <1>6, <2>1, SameAccounts DEF Finalize, Finalizes, dbVars
  <2>2. CASE HasPayment(r) /\ FinalizePayment(EscrowOf(r), Payment(r), FinalPrice(r))
    BY <1>6, <2>2, TermsType, FinalPriceType, FinalizePaymentLedger DEF Finalize, Finalizes, IInv
  <2> QED
    BY <1>6, <2>1, <2>2 DEF Finalize, Finalizes
<1> QED
  BY <1>1, <1>2, <1>3, <1>4, <1>5, <1>6 DEF Advance, Debit, Execute, Complete

\* The other steps open and close accounts.
LEMMA EnvironmentLedger ==
  ASSUME IInv, IInv', Environment
  PROVE  [Ledger!Next]_Accounts
<1>0. TypeOK /\ Rows /\ TypeOK'
  BY DEF IInv, Rows
<1>1. ASSUME NEW r \in Run, NEW offer \in Offers,
             NEW payment \in Uuid \cup {None}, NEW root \in QueryRoot,
             Submit(r, offer, payment, root)
      PROVE  [Ledger!Next]_Accounts
  BY <1>1, SameAccounts DEF Submit, dbVars
<1>2. ASSUME NEW e \in Escrow, NEW milligons \in Milligons \ {0},
             NEW expirationDate \in 0 .. MaxTime,
             RegisterEscrow(e, milligons, expirationDate)
      PROVE  [Ledger!Next]_Accounts
  <2> DEFINE allocated == milligons * MicrogonsPerMilligon
  <2>1. /\ escrows[e] = None /\ localchain[e] = None
        /\ localchain' = [localchain EXCEPT ![e] = 0]
        /\ escrows' = [escrows EXCEPT ![e] =
             [allocated |-> allocated, remaining |-> allocated,
              expirationDate |-> expirationDate]]
    BY <1>2 DEF RegisterEscrow, CreateEscrow
  <2>2. allocated \in 0 .. MaxMilligons * MicrogonsPerMilligon /\ allocated \in Nat
    BY SettlementAmount DEF MaxAmount
  <2> HIDE DEF allocated
  <2>3. /\ escrows'[e] = [allocated |-> allocated, remaining |-> allocated,
                          expirationDate |-> expirationDate]
        /\ localchain'[e] = 0
        /\ \A f \in Escrow \ {e} : escrows'[f] = escrows[f] /\ localchain'[f] = localchain[f]
    BY <1>0, <2>1 DEF TypeOK, DbTypeOK
  <2>4. escrows'[e] # None
    <3>1. expirationDate \in Nat
      BY BoundsAssumption
    <3>2. escrows'[e] \in EscrowRow
      BY <2>2, <2>3, <3>1 DEF EscrowRow
    <3> QED
      BY <3>2, NoneAssumption
  <2>5. 0 * MicrogonsPerMilligon = 0
    BY MicrogonsPerMilligonAssumption
  <2>6. Account(e)' = [state |-> "open", allocated |-> allocated, spent |-> 0, signed |-> 0]
    BY <2>2, <2>3, <2>4, <2>5 DEF Account, Spent
  <2>7. Accounts' = [Accounts EXCEPT ![e] = Account(e)']
    BY <2>3, OneAccount DEF Account, Spent
  <2>8. Accounts[e].state = "unopened"
    BY <2>1 DEF Accounts, Account
  <2>9. Account(e)' = [Ledger!Empty("open") EXCEPT !.allocated = allocated]
    BY <2>6 DEF Ledger!Empty
  <2>10. Ledger!Open(e)
    BY <2>2, <2>7, <2>8, <2>9 DEF Ledger!Open
  <2> QED
    BY <2>10 DEF Ledger!Next
<1>3. CASE CleanupEscrows
  <2> DEFINE dropped == {e \in Escrow : Stale(e)}
  <2>1. /\ escrows' = [e \in Escrow |-> IF Stale(e) THEN None ELSE escrows[e]]
        /\ UNCHANGED localchain
    BY <1>3 DEF CleanupEscrows, Cleanup
  <2>2. ASSUME NEW e \in Escrow, Stale(e)
        PROVE  Account(e)' = Ledger!Empty("closed")
    <3>1. localchain[e] # None
      BY <1>0, <2>2 DEF Stale, Rows, RowsAreKnown
    <3> QED
      BY <2>1, <2>2, <3>1 DEF Account, Ledger!Empty
  <2>3. ASSUME NEW e \in Escrow, ~Stale(e)
        PROVE  Account(e)' = Account(e)
    BY <2>1, <2>3 DEF Account, Spent
  <2>4. Accounts' = [e \in Escrow |-> IF e \in dropped THEN Ledger!Empty("closed")
                                                      ELSE Accounts[e]]
    BY <2>2, <2>3 DEF Accounts
  <2>5. Ledger!Close(dropped) /\ dropped \in SUBSET Escrow
    BY <2>4 DEF Ledger!Close
  <2> QED
    BY <2>5 DEF Ledger!Next
<1>4. CASE RestartTracker
  <2>1. UNCHANGED escrows
    BY <1>4 DEF RestartTracker, ForgetPayments
  <2>2. CASE UNCHANGED localchain
    BY <2>1, <2>2, SameAccounts
  <2>3. ASSUME NEW e \in Escrow, localchain[e] = None,
               localchain' = [localchain EXCEPT ![e] = 0]
        PROVE  [Ledger!Next]_Accounts
    <3>1. escrows[e] = None /\ escrows'[e] = None
      BY <1>0, <2>1, <2>3 DEF Rows, RowsAreKnown
    <3>2. localchain'[e] # None /\ \A f \in Escrow \ {e} : localchain'[f] = localchain[f]
      BY <1>0, <2>3, NoneAssumption DEF TypeOK
    <3>3. Account(e)' = Ledger!Empty("closed")
      BY <3>1, <3>2 DEF Account, Ledger!Empty
    <3>4. \A f \in Escrow \ {e} : Account(f)' = Account(f)
      BY <2>1, <3>2 DEF Account, Spent
    <3>5. Accounts' = [f \in Escrow |-> IF f \in {e} THEN Ledger!Empty("closed")
                                                    ELSE Accounts[f]]
      BY <3>3, <3>4 DEF Accounts
    <3>6. Ledger!Close({e}) /\ {e} \in SUBSET Escrow
      BY <3>5 DEF Ledger!Close
    <3> QED
      BY <3>6 DEF Ledger!Next
  <2> QED
    BY <1>4, <2>2, <2>3 DEF RestartTracker
<1>5. CASE RestartNode
  BY <1>5, SameAccounts DEF RestartNode, dbVars
<1>6. CASE Tick
  BY <1>6, SameAccounts DEF Tick, dbVars
<1> QED
  BY <1>1, <1>2, <1>3, <1>4, <1>5, <1>6 DEF Environment

\* The node implements the ledger its payers expect: it never holds what a
\* settlement does not cover and never releases more than it holds, whatever the
\* order of debits and finalizations, and whatever restarts.
THEOREM LedgerImplemented ==
  ASSUME NoTableStreams
  PROVE  Spec => ImplementsLedger
<1>1. Init => Ledger!Init
  BY InitLedger
<1>2. IInv /\ IInv' /\ [Next]_vars => [Ledger!Next]_Accounts
  <2>1. IInv /\ IInv' /\ Next => [Ledger!Next]_Accounts
    BY AdvanceLedger, EnvironmentLedger DEF Next
  <2>2. UNCHANGED vars => UNCHANGED Accounts
    BY SameAccounts DEF vars, dbVars
  <2> QED
    BY <2>1, <2>2
<1>3. Spec => []IInv
  BY IInvHolds
<1> QED
  BY <1>1, <1>2, <1>3, PTL DEF Spec, ImplementsLedger, Ledger!Spec
=============================================================================
