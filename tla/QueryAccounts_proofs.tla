------------------------ MODULE QueryAccounts_proofs ------------------------
(***************************************************************************)
(* Proofs about QueryPayments, for every set of requests, payments and     *)
(* escrows, and every price: what a payment buys, what a run is charged,   *)
(* and what an escrow pays for all its runs.                               *)
(***************************************************************************)
EXTENDS QueryPayments_proofs, Sums_proofs

-----------------------------------------------------------------------------
(* What runs have done *)

\* The localchain knows the escrows it knew.
Remembers == \A e \in Escrow : localchain[e] # None => localchain'[e] # None

\* A step of one run changes nothing of another.
OthersKept(r) ==
  \A q \in Run \ {r} :
    UNCHANGED <<pc[q], request[q], stage[q], shouldFinalize[q], tally[q], owed[q],
                accepted[q], executed[q], finalized[q], storageFinalize[q]>>

LEMMA AdvanceKeeps ==
  ASSUME TypeInv, NEW r \in Run, Advance(r)
  PROVE  OthersKept(r) /\ UNCHANGED <<terms, request, now, restarts>> /\ Remembers
<1>1. CASE Debit(r)
  <2>1. UNCHANGED <<terms, request, now, restarts>>
    BY <1>1 DEF Debit, StartDebit, ReadSettlement, RecordSettlement, AcceptDebit, RepeatDebit,
                RefuseDebit
  <2>2. OthersKept(r)
    BY <1>1, <2>1
    DEF Debit, StartDebit, ReadSettlement, RecordSettlement, AcceptDebit, RepeatDebit,
        RefuseDebit, OthersKept, Proceed, Goto, TypeInv, TypeOK
  <2>3. CASE ~RecordSettlement(r)
    BY <1>1, <2>1, <2>2, <2>3
    DEF Debit, StartDebit, ReadSettlement, AcceptDebit, RepeatDebit, RefuseDebit, Remembers
  <2>4. CASE RecordSettlement(r)
    <3>1. /\ HasPayment(r)
          /\ \A e \in Escrow \ {EscrowOf(r)} : localchain'[e] = localchain[e]
          /\ localchain'[EscrowOf(r)] \in {localchain[EscrowOf(r)], Terms(r).settledMilligons}
      BY <2>4, TermsType
      DEF RecordSettlement, RecordedSettlement, TypeInv, TypeOK, RunTypeInv, AwaitsDebit,
          DebitSteps
    <3>2. Terms(r).settledMilligons # None
      BY <3>1, TermsType, NoneAssumption DEF TypeInv
    <3> QED
      BY <2>1, <2>2, <3>1, <3>2 DEF Remembers
  <2> QED
    BY <2>1, <2>2, <2>3, <2>4
<1>2. CASE Execute(r)
  BY <1>2
  DEF Execute, RunFunction, QueryLocalStorage, CallStorageEngine, RunStorageEngine,
      OthersKept, Goto, TypeInv, TypeOK, Remembers
<1>3. CASE Complete(r)
  BY <1>3
  DEF Complete, Finalize, Finalizes, FailFinalize, Owe, OthersKept, Goto, TypeInv, TypeOK, Remembers
<1> QED
  BY <1>1, <1>2, <1>3 DEF Advance

\* A run that is left alone.
LEMMA HistoryFrame ==
  ASSUME TypeInv, NEW q \in Run, RunHistory(q), Remembers, UNCHANGED terms,
         UNCHANGED <<pc[q], request[q], stage[q], shouldFinalize[q], tally[q], owed[q],
                     accepted[q], executed[q]>>
  PROVE  RunHistory(q)'
<1>1. AwaitsDebit(q) => HasPayment(q)
  BY DEF TypeInv, RunTypeInv
<1>2. HasPayment(q) => EscrowOf(q) \in Escrow
  BY TermsType DEF TypeInv
<1>3. /\ HasPayment(q)' = HasPayment(q) /\ EscrowOf(q)' = EscrowOf(q)
      /\ Bought(q)' = Bought(q) /\ Unpaid(q)' = Unpaid(q)
  BY DEF HasPayment, EscrowOf, Terms, Payment, Bought, Calls, Unpaid
<1> QED
  BY <1>1, <1>2, <1>3 DEF RunHistory, Remembers, AwaitsDebit, DebitSteps

\* A run whose debit was settled, one way or the other.
LEMMA DebitHistory ==
  ASSUME TypeInv, NEW r \in Run, RunHistory(r), pc[r] \in DebitSteps,
         \/ Proceed(r)
         \/ Goto(r, AfterFailedDebit(r)) /\ UNCHANGED executed,
         UNCHANGED <<terms, request, stage, tally>>, Remembers,
         \/ HasPayment(r) /\ localchain[EscrowOf(r)] # None
         \/ /\ Proceed(r) => Price(DebitCalls(r)) = 0
            /\ UNCHANGED <<owed[r], accepted[r]>>
  PROVE  RunHistory(r)'
<1>1. /\ pc'[r] \in {"function", "storage", "storageQuery", "finalize", "finalizeRejected"}
      /\ pc'[r] = "finalizeRejected" => stage[r] = "root" /\ executed'[r] = executed[r]
  BY DEF Proceed, Goto, FirstStep, AfterFailedDebit, TypeInv, TypeOK
<1>2. /\ HasPayment(r)' = HasPayment(r) /\ EscrowOf(r)' = EscrowOf(r)
      /\ Calls(r)' = Calls(r) /\ Price(Calls(r))' = Price(Calls(r))
  BY DEF HasPayment, EscrowOf, Terms, Payment, Calls
<1>3. ~Unpaid(r)' /\ pc'[r] \notin {"idle", "recordSettlement", "debit", "refinalize"}
  BY <1>1 DEF Unpaid, DebitSteps
<1>4. HasPayment(r) => EscrowOf(r) \in Escrow
  BY TermsType DEF TypeInv
<1>5. pc'[r] = "finalizeRejected" => ~executed'[r] /\ tally'[r] = 0
  BY <1>1 DEF RunHistory, Unpaid
<1>6. CASE HasPayment(r) /\ localchain[EscrowOf(r)] # None
  BY <1>2, <1>3, <1>4, <1>5, <1>6 DEF RunHistory, Remembers
<1>7. CASE /\ Proceed(r) => Price(DebitCalls(r)) = 0
           /\ UNCHANGED <<owed[r], accepted[r]>>
  <2>1. Bought(r)' => Bought(r)
    BY <1>2, <1>7 DEF Bought, Proceed, TypeInv, TypeOK, DebitCalls
  <2> QED
    BY <1>2, <1>3, <1>4, <1>5, <1>7, <2>1 DEF RunHistory, Remembers
<1> QED
  BY <1>6, <1>7

\* A run that goes from one of its calls to the next.
LEMMA CallHistory ==
  ASSUME TypeInv, NEW r \in Run, RunHistory(r),
         \/ pc'[r] \in {"storage", "finalize"}
         \/ pc'[r] = "startDebit" /\ stage'[r] = "storage",
         UNCHANGED <<terms, request, owed, accepted, executed>>, Remembers
  PROVE  RunHistory(r)'
<1>1. /\ HasPayment(r)' = HasPayment(r) /\ EscrowOf(r)' = EscrowOf(r)
      /\ Bought(r)' = Bought(r)
  BY DEF HasPayment, EscrowOf, Terms, Payment, Bought, Calls
<1>2. /\ ~Unpaid(r)'
      /\ pc'[r] \notin {"idle", "recordSettlement", "debit", "finalizeRejected", "refinalize"}
  BY DEF Unpaid, DebitSteps
<1>3. HasPayment(r) => EscrowOf(r) \in Escrow
  BY TermsType DEF TypeInv
<1> QED
  BY <1>1, <1>2, <1>3 DEF RunHistory, Remembers

\* A run that ends, or finalizes once more: only a payment that was debited is
\* finalized.
LEMMA EndHistory ==
  ASSUME TypeInv, HistoryInv, NEW r \in Run, pc[r] # "idle",
         \/ pc'[r] \in {"done", "rejected", "crashed"}
         \/ pc[r] = "finalizeRejected" /\ pc'[r] = "refinalize",
         \/ UNCHANGED owed[r]
         \/ HasPayment(r) /\ AlreadyDebited(EscrowOf(r), Payment(r)),
         UNCHANGED <<terms, request, tally, accepted, executed>>, Remembers
  PROVE  RunHistory(r)'
<1>1. /\ HasPayment(r)' = HasPayment(r) /\ EscrowOf(r)' = EscrowOf(r)
      /\ Bought(r)' = Bought(r)
  BY DEF HasPayment, EscrowOf, Terms, Payment, Bought, Calls
<1>2. ~Unpaid(r)' /\ pc'[r] \notin {"idle", "recordSettlement", "debit", "finalizeRejected"}
  BY DEF Unpaid, DebitSteps
<1>3. HasPayment(r) => EscrowOf(r) \in Escrow /\ Payment(r) \in Uuid
  BY TermsType DEF TypeInv
<1>4. RunHistory(r)
  BY DEF HistoryInv
<1>5. pc'[r] = "refinalize" => ~executed'[r] /\ tally'[r] = 0
  BY <1>4 DEF RunHistory
<1>6. HasPayment(r) /\ (accepted'[r] \/ owed'[r] # 0 \/ Bought(r)') =>
        localchain[EscrowOf(r)] # None
  <2>1. CASE UNCHANGED owed[r]
    BY <1>1, <1>4, <2>1 DEF RunHistory
  <2>2. CASE HasPayment(r) /\ AlreadyDebited(EscrowOf(r), Payment(r))
    BY <1>3, <2>2 DEF HistoryInv, EscrowsAreKnown
  <2> QED
    BY <2>1, <2>2
<1>7. ~HasPayment(r) => owed'[r] = 0
  BY <1>4 DEF RunHistory
<1> QED
  BY <1>1, <1>2, <1>3, <1>5, <1>6, <1>7 DEF RunHistory, Remembers

\* HistoryInv after a step of one run.
LEMMA HistoryStep ==
  ASSUME TypeInv, HistoryInv, NEW r \in Run, Advance(r), RunHistory(r)',
         EntriesMatchTerms', EscrowsAreKnown'
  PROVE  HistoryInv'
<1>1. OthersKept(r) /\ UNCHANGED terms /\ Remembers
  BY AdvanceKeeps
<1>2. ASSUME NEW q \in Run
      PROVE  RunHistory(q)'
  <2>1. CASE q # r
    <3>1. UNCHANGED <<pc[q], request[q], stage[q], shouldFinalize[q], tally[q], owed[q],
                      accepted[q], executed[q]>>
      BY <1>1, <2>1 DEF OthersKept
    <3> QED
      BY <1>1, <3>1, HistoryFrame DEF HistoryInv
  <2> QED
    BY <2>1
<1> QED
  BY <1>2 DEF HistoryInv

LEMMA EscrowsStayKnown ==
  ASSUME EscrowsAreKnown, Remembers,
         \A e \in Escrow : escrows'[e] # None => escrows[e] # None,
         \A e \in Escrow, u \in Uuid : AlreadyDebited(e, u)' => AlreadyDebited(e, u)
  PROVE  EscrowsAreKnown'
BY DEF EscrowsAreKnown, Remembers

LEMMA TablesKept ==
  ASSUME HistoryInv, Remembers, UNCHANGED dbVars, UNCHANGED terms
  PROVE  EntriesMatchTerms' /\ EscrowsAreKnown'
BY EntriesUnchanged, EscrowsStayKnown DEF HistoryInv, dbVars, AlreadyDebited

LEMMA FinalizedTables ==
  ASSUME TypeInv, HistoryInv, Remembers, UNCHANGED terms, NEW e \in Escrow, NEW u \in Uuid,
         NEW microgons, FinalizePayment(e, u, microgons)
  PROVE  EntriesMatchTerms' /\ EscrowsAreKnown'
<1>1. \A f \in Escrow : escrows'[f] # None => escrows[f] # None
  BY DEF FinalizePayment, FinalizeSucceeds, CanAdjust, TypeInv, TypeOK, DbTypeOK
<1> QED
  BY <1>1, EntriesUnchanged, EscrowsStayKnown DEF HistoryInv, FinalizePayment, AlreadyDebited

(* The debit *)

LEMMA StartDebitHistory ==
  ASSUME TypeInv, HistoryInv, NEW r \in Run, StartDebit(r)
  PROVE  HistoryInv'
<1>1. /\ OthersKept(r) /\ UNCHANGED terms /\ Remembers
      /\ RunHistory(r) /\ pc[r] = "startDebit" /\ pc[r] \in DebitSteps
  BY AdvanceKeeps DEF Advance, Debit, HistoryInv, StartDebit, DebitSteps
<1>2. EntriesMatchTerms' /\ EscrowsAreKnown'
  BY <1>1, TablesKept DEF StartDebit
<1>3. CASE Goto(r, "readSettlement") /\ UNCHANGED executed
  <2>1. /\ pc'[r] = "readSettlement"
        /\ UNCHANGED <<request, stage, shouldFinalize, tally, owed, accepted, executed, terms,
                       localchain>>
    BY <1>3 DEF StartDebit, Goto, TypeInv, TypeOK
  <2>2. /\ HasPayment(r)' = HasPayment(r) /\ EscrowOf(r)' = EscrowOf(r)
        /\ Bought(r)' = Bought(r) /\ Unpaid(r)' = Unpaid(r)
    BY <1>1, <2>1 DEF HasPayment, EscrowOf, Terms, Payment, Bought, Calls, Unpaid, DebitSteps
  <2>3. RunHistory(r)'
    BY <1>1, <2>1, <2>2 DEF RunHistory
  <2> QED
    BY <1>2, <2>3, HistoryStep DEF Advance, Debit
<1>4. CASE ~(Goto(r, "readSettlement") /\ UNCHANGED executed)
  <2>1. /\ \/ Proceed(r) /\ Price(DebitCalls(r)) = 0
           \/ Goto(r, AfterFailedDebit(r)) /\ UNCHANGED executed /\ ~Proceed(r)
        /\ UNCHANGED <<request, stage, tally, owed, accepted>>
    <3>1. ~(Goto(r, AfterFailedDebit(r)) /\ Proceed(r))
      BY DEF Goto, Proceed, AfterFailedDebit, FirstStep, TypeInv, TypeOK
    <3> QED
      BY <1>4, <3>1 DEF StartDebit
  <2>2. RunHistory(r)'
    BY <1>1, <2>1, DebitHistory
  <2> QED
    BY <1>2, <2>2, HistoryStep DEF Advance, Debit
<1> QED
  BY <1>3, <1>4

LEMMA ReadSettlementHistory ==
  ASSUME TypeInv, HistoryInv, NEW r \in Run, ReadSettlement(r)
  PROVE  HistoryInv'
<1>1. /\ OthersKept(r) /\ UNCHANGED terms /\ Remembers
      /\ RunHistory(r) /\ pc[r] = "readSettlement" /\ pc[r] \in DebitSteps
  BY AdvanceKeeps DEF Advance, Debit, HistoryInv, ReadSettlement, DebitSteps
<1>2. EntriesMatchTerms' /\ EscrowsAreKnown'
  BY <1>1, TablesKept DEF ReadSettlement
<1>3. UNCHANGED <<request, stage, shouldFinalize, tally, owed, accepted, executed, terms,
                  localchain>>
  BY DEF ReadSettlement
<1>4. RunHistory(r)'
  <2>1. CASE Goto(r, AfterFailedDebit(r))
    <3>1. ~Proceed(r)
      BY <1>1, <2>1 DEF Goto, Proceed, AfterFailedDebit, FirstStep, TypeInv, TypeOK
    <3> QED
      BY <1>1, <1>3, <2>1, <3>1, DebitHistory
  <2>2. CASE ~Goto(r, AfterFailedDebit(r))
    <3>1. /\ localchain[EscrowOf(r)] # None
          /\ pc'[r] \in {"recordSettlement", "debit"}
      BY <2>2 DEF ReadSettlement, Goto, TypeInv, TypeOK
    <3>2. /\ HasPayment(r)' = HasPayment(r) /\ EscrowOf(r)' = EscrowOf(r)
          /\ Bought(r)' = Bought(r) /\ Unpaid(r)' = Unpaid(r)
      BY <1>1, <1>3, <3>1
      DEF HasPayment, EscrowOf, Terms, Payment, Bought, Calls, Unpaid, DebitSteps
    <3> QED
      BY <1>1, <1>3, <3>1, <3>2 DEF RunHistory
  <2> QED
    BY <2>1, <2>2
<1> QED
  BY <1>2, <1>4, HistoryStep DEF Advance, Debit

LEMMA RecordSettlementHistory ==
  ASSUME TypeInv, HistoryInv, NEW r \in Run, RecordSettlement(r)
  PROVE  HistoryInv'
<1>1. /\ OthersKept(r) /\ UNCHANGED terms /\ Remembers
      /\ RunHistory(r) /\ pc[r] = "recordSettlement" /\ pc[r] \in DebitSteps
      /\ HasPayment(r)
  BY AdvanceKeeps
  DEF Advance, Debit, HistoryInv, RecordSettlement, DebitSteps, TypeInv, RunTypeInv,
      AwaitsDebit
<1>2. EntriesMatchTerms' /\ EscrowsAreKnown'
  BY <1>1, TablesKept DEF RecordSettlement
<1>3. UNCHANGED <<request, stage, shouldFinalize, tally, owed, accepted, executed, terms>>
  BY DEF RecordSettlement
<1>4. localchain[EscrowOf(r)] # None /\ EscrowOf(r) \in Escrow
  BY <1>1, TermsType DEF RunHistory, TypeInv
<1>5. RunHistory(r)'
  <2>1. CASE Goto(r, AfterFailedDebit(r))
    BY <1>1, <1>3, <1>4, <2>1, DebitHistory
  <2>2. CASE Goto(r, "debit")
    <3>1. /\ pc'[r] = "debit" /\ localchain'[EscrowOf(r)] # None
      BY <1>1, <1>4, <2>2 DEF Goto, TypeInv, TypeOK, Remembers
    <3>2. /\ HasPayment(r)' = HasPayment(r) /\ EscrowOf(r)' = EscrowOf(r)
          /\ Bought(r)' = Bought(r) /\ Unpaid(r)' = Unpaid(r)
      BY <1>1, <1>3, <3>1
      DEF HasPayment, EscrowOf, Terms, Payment, Bought, Calls, Unpaid, DebitSteps
    <3> QED
      BY <1>1, <1>3, <3>1, <3>2 DEF RunHistory
  <2> QED
    BY <2>1, <2>2 DEF RecordSettlement
<1> QED
  BY <1>2, <1>5, HistoryStep DEF Advance, Debit

\* What a run knows when it debits.
LEMMA DebitKnows ==
  ASSUME TypeInv, HistoryInv, NEW r \in Run, pc[r] = "debit"
  PROVE  /\ RunHistory(r) /\ pc[r] \in DebitSteps
         /\ HasPayment(r) /\ localchain[EscrowOf(r)] # None
         /\ EscrowOf(r) \in Escrow /\ Payment(r) \in Uuid
         /\ Terms(r).microgons \in Nat
         /\ EscrowOf(r) = terms[Payment(r)].escrow /\ Terms(r) = terms[Payment(r)]
BY TermsType
DEF HistoryInv, RunHistory, DebitSteps, TypeInv, RunTypeInv, AwaitsDebit, EscrowOf, Terms

\* The entry that a debit leaves is of an escrow the localchain knows.
LEMMA RememberedTables ==
  ASSUME TypeInv, HistoryInv, Remembers, UNCHANGED <<terms, localchain>>,
         NEW r \in Run, pc[r] = "debit",
         RememberDebit(EscrowOf(r), Payment(r), DebitQueryId(r), Terms(r).microgons),
         \A e \in Escrow : escrows'[e] # None => escrows[e] # None
  PROVE  EntriesMatchTerms' /\ EscrowsAreKnown'
<1>1. EntriesMatchTerms'
  BY DebitKnows, EntriesRemembered DEF HistoryInv, TypeInv
<1>2. ASSUME NEW e \in Escrow, NEW u \in Uuid, AlreadyDebited(e, u)'
      PROVE  localchain'[e] # None
  <2>1. CASE e = EscrowOf(r)
    BY <2>1, DebitKnows
  <2>2. CASE e # EscrowOf(r)
    <3>1. paymentIdByEscrowId'[e] = paymentIdByEscrowId[e]
      BY <2>2, DebitKnows DEF RememberDebit, TypeInv, TypeOK, DbTypeOK
    <3> QED
      BY <1>2, <3>1 DEF AlreadyDebited, HistoryInv, EscrowsAreKnown
  <2> QED
    BY <2>1, <2>2
<1> QED
  BY <1>1, <1>2 DEF HistoryInv, EscrowsAreKnown

LEMMA AcceptDebitHistory ==
  ASSUME TypeInv, HistoryInv, NEW r \in Run, AcceptDebit(r)
  PROVE  HistoryInv'
<1>1. /\ OthersKept(r) /\ UNCHANGED <<terms, request>> /\ Remembers /\ pc[r] = "debit"
  BY AdvanceKeeps DEF Advance, Debit, AcceptDebit
<1>2. UNCHANGED <<localchain, stage, tally>>
  BY DEF AcceptDebit
<1>3. \A e \in Escrow : escrows'[e] # None => escrows[e] # None
  BY <1>1, DebitKnows DEF AcceptDebit, DebitAccepted, CanDebit, TypeInv, TypeOK, DbTypeOK
<1>4. EntriesMatchTerms' /\ EscrowsAreKnown'
  BY <1>1, <1>2, <1>3, RememberedTables DEF AcceptDebit, DebitAccepted
<1>5. RunHistory(r)'
  BY <1>1, <1>2, DebitKnows, DebitHistory DEF AcceptDebit
<1> QED
  BY <1>4, <1>5, HistoryStep DEF Advance, Debit

LEMMA RepeatDebitHistory ==
  ASSUME TypeInv, HistoryInv, NEW r \in Run, RepeatDebit(r)
  PROVE  HistoryInv'
<1>1. /\ OthersKept(r) /\ UNCHANGED <<terms, request>> /\ Remembers /\ pc[r] = "debit"
  BY AdvanceKeeps DEF Advance, Debit, RepeatDebit
<1>2. UNCHANGED <<localchain, stage, tally, dbVars>> /\ Proceed(r)
  BY DEF RepeatDebit, DebitRepeated
<1>3. RunHistory(r)'
  BY <1>1, <1>2, DebitKnows, DebitHistory
<1> QED
  BY <1>1, <1>2, <1>3, TablesKept, HistoryStep DEF Advance, Debit

LEMMA RefuseDebitHistory ==
  ASSUME TypeInv, HistoryInv, NEW r \in Run, RefuseDebit(r)
  PROVE  HistoryInv'
<1>1. /\ OthersKept(r) /\ UNCHANGED <<terms, request>> /\ Remembers /\ pc[r] = "debit"
  BY AdvanceKeeps DEF Advance, Debit, RefuseDebit
<1>2. UNCHANGED <<localchain, stage, tally, executed, escrows>> /\ Goto(r, AfterFailedDebit(r))
  BY DEF RefuseDebit, DebitRefused, DebitFailed, dbVars
<1>3. EntriesMatchTerms' /\ EscrowsAreKnown'
  <2>1. CASE UNCHANGED dbVars
    BY <1>1, <2>1, TablesKept
  <2>2. CASE RememberDebit(EscrowOf(r), Payment(r), DebitQueryId(r), Terms(r).microgons)
    BY <1>1, <1>2, <2>2, RememberedTables
  <2> QED
    BY <2>1, <2>2 DEF RefuseDebit, DebitRefused, DebitFailed
<1>4. RunHistory(r)'
  BY <1>1, <1>2, DebitKnows, DebitHistory
<1> QED
  BY <1>3, <1>4, HistoryStep DEF Advance, Debit

(* The calls, and the end *)

LEMMA ExecuteHistory ==
  ASSUME TypeInv, HistoryInv, NEW r \in Run, Execute(r)
  PROVE  HistoryInv'
<1>1. /\ OthersKept(r) /\ UNCHANGED <<terms, request>> /\ Remembers /\ RunHistory(r)
  BY AdvanceKeeps DEF Advance, HistoryInv
<1>2. /\ \/ pc'[r] \in {"storage", "finalize"}
         \/ pc'[r] = "startDebit" /\ stage'[r] = "storage"
      /\ UNCHANGED <<owed, accepted, executed>>
  BY DEF Execute, RunFunction, QueryLocalStorage, CallStorageEngine, RunStorageEngine, Goto,
         AfterFunction, TypeInv, TypeOK
<1>3. RunHistory(r)'
  BY <1>1, <1>2, CallHistory
<1>4. EntriesMatchTerms' /\ EscrowsAreKnown'
  <2>1. CASE UNCHANGED dbVars
    BY <1>1, <2>1, TablesKept
  <2>2. CASE /\ HasPayment(r)
             /\ FinalizePayment(EscrowOf(r), Payment(r), Price(Calls(r) \cap {"table"}))
    BY <1>1, <2>2, TermsType, FinalizedTables DEF TypeInv
  <2> QED
    BY <2>1, <2>2
    DEF Execute, RunFunction, QueryLocalStorage, CallStorageEngine, RunStorageEngine
<1> QED
  BY <1>3, <1>4, HistoryStep DEF Advance

LEMMA CompleteHistory ==
  ASSUME TypeInv, HistoryInv, NEW r \in Run, Complete(r)
  PROVE  HistoryInv'
<1>1. /\ OthersKept(r) /\ UNCHANGED <<terms, request>> /\ Remembers /\ pc[r] # "idle"
  BY AdvanceKeeps DEF Advance, Complete, Finalize, Finalizes, FailFinalize
<1>2. /\ \/ pc'[r] \in {"done", "rejected"}
         \/ pc[r] = "finalizeRejected" /\ pc'[r] = "refinalize"
      /\ UNCHANGED <<tally, accepted, executed>>
  BY DEF Complete, Finalize, Finalizes, FailFinalize, Goto, AfterFailedFinalize, TypeInv, TypeOK
<1>3. CASE UNCHANGED <<dbVars, owed>>
  BY <1>1, <1>2, <1>3, EndHistory, TablesKept, HistoryStep DEF Advance
<1>4. CASE HasPayment(r) /\ FinalizePayment(EscrowOf(r), Payment(r), FinalPrice(r))
  <2>1. EntriesMatchTerms' /\ EscrowsAreKnown'
    BY <1>1, <1>4, TermsType, FinalizedTables DEF TypeInv
  <2>2. AlreadyDebited(EscrowOf(r), Payment(r))
    BY <1>4 DEF FinalizePayment, FinalizeSucceeds
  <2>3. RunHistory(r)'
    BY <1>1, <1>2, <1>4, <2>2, EndHistory
  <2> QED
    BY <2>1, <2>3, HistoryStep DEF Advance
<1>5. UNCHANGED <<dbVars, owed>> \/
        (HasPayment(r) /\ FinalizePayment(EscrowOf(r), Payment(r), FinalPrice(r)))
  <2>1. CASE ~(shouldFinalize[r] /\ HasPayment(r))
    BY <2>1 DEF Complete, Finalize, Finalizes, FailFinalize, Owe, TypeInv, TypeOK
  <2>2. CASE shouldFinalize[r] /\ HasPayment(r)
    BY <2>2 DEF Complete, Finalize, Finalizes, FailFinalize
  <2> QED
    BY <2>1, <2>2
<1> QED
  BY <1>3, <1>4, <1>5

(* Steps that are not a run's own *)

LEMMA SubmitHistory ==
  ASSUME TypeInv, HistoryInv, NEW r \in Run, NEW offer \in Offers,
         NEW payment \in Uuid \cup {None}, NEW root \in QueryRoot,
         Submit(r, offer, payment, root)
  PROVE  HistoryInv'
<1>1. /\ UNCHANGED <<dbVars, terms, localchain, stage, shouldFinalize, tally, owed, accepted,
                     executed>>
      /\ pc[r] = "idle" /\ pc'[r] = "startDebit"
      /\ \A q \in Run \ {r} : pc'[q] = pc[q] /\ request'[q] = request[q]
  BY DEF Submit, Goto, TypeInv, TypeOK
<1>2. Remembers /\ EntriesMatchTerms' /\ EscrowsAreKnown'
  BY <1>1, TablesKept DEF Remembers
<1>3. RunHistory(r)'
  <2>1. /\ Unpaid(r) /\ RunHistory(r)
    BY <1>1 DEF HistoryInv, RunHistory, Unpaid
  <2> QED
    BY <1>1, <2>1 DEF RunHistory, Unpaid, Bought
<1>4. ASSUME NEW q \in Run
      PROVE  RunHistory(q)'
  BY <1>1, <1>2, <1>3, HistoryFrame DEF HistoryInv
<1> QED
  BY <1>2, <1>4 DEF HistoryInv

\* Steps that touch no run.
LEMMA RunsLeftAlone ==
  ASSUME TypeInv, HistoryInv, UNCHANGED <<terms, runVars>>, Remembers,
         EntriesMatchTerms', EscrowsAreKnown'
  PROVE  HistoryInv'
<1>1. ASSUME NEW q \in Run
      PROVE  RunHistory(q)'
  <2>1. UNCHANGED <<pc[q], request[q], stage[q], shouldFinalize[q], tally[q], owed[q],
                    accepted[q], executed[q]>>
    BY DEF runVars
  <2> QED
    BY <2>1, HistoryFrame DEF HistoryInv
<1> QED
  BY <1>1 DEF HistoryInv

LEMMA RegisterHistory ==
  ASSUME TypeInv, HistoryInv, NEW e \in Escrow, NEW milligons, NEW expirationDate,
         RegisterEscrow(e, milligons, expirationDate)
  PROVE  HistoryInv'
<1>1. /\ UNCHANGED <<terms, runVars, paymentIdByEscrowId>>
      /\ localchain' = [localchain EXCEPT ![e] = 0]
      /\ \A f \in Escrow \ {e} : escrows'[f] = escrows[f]
  BY DEF RegisterEscrow, CreateEscrow, TypeInv, TypeOK, DbTypeOK
<1>2. /\ localchain'[e] # None
      /\ \A f \in Escrow \ {e} : localchain'[f] = localchain[f]
  BY <1>1, NoneAssumption DEF TypeInv, TypeOK
<1>3. Remembers
  BY <1>2 DEF Remembers
<1>4. EntriesMatchTerms'
  BY <1>1, EntriesUnchanged DEF HistoryInv
<1>5. EscrowsAreKnown'
  BY <1>1, <1>2 DEF HistoryInv, EscrowsAreKnown, AlreadyDebited
<1> QED
  BY <1>1, <1>3, <1>4, <1>5, RunsLeftAlone

LEMMA CleanupHistory ==
  ASSUME TypeInv, HistoryInv, CleanupEscrows
  PROVE  HistoryInv'
<1>1. UNCHANGED <<terms, runVars, localchain>> /\ Remembers
  BY DEF CleanupEscrows, Remembers
<1>2. ASSUME NEW e \in Escrow
      PROVE  /\ escrows'[e] \in {None, escrows[e]}
             /\ \A u \in Uuid : paymentIdByEscrowId'[e][u] \in {None, paymentIdByEscrowId[e][u]}
  BY DEF CleanupEscrows, Cleanup
<1>3. EntriesMatchTerms'
  BY <1>1, <1>2 DEF HistoryInv, EntriesMatchTerms, AlreadyDebited
<1>4. EscrowsAreKnown'
  BY <1>1, <1>2 DEF HistoryInv, EscrowsAreKnown, AlreadyDebited
<1> QED
  BY <1>1, <1>3, <1>4, RunsLeftAlone

LEMMA RestartTrackerHistory ==
  ASSUME TypeInv, HistoryInv, RestartTracker
  PROVE  HistoryInv'
<1>1. /\ UNCHANGED <<terms, request, stage, shouldFinalize, tally, owed, accepted, executed,
                     escrows>>
      /\ paymentIdByEscrowId' = [e \in Escrow |-> [u \in Uuid |-> None]]
  BY DEF RestartTracker, ForgetPayments
<1>2. Remembers
  BY NoneAssumption DEF RestartTracker, Remembers, TypeInv, TypeOK
<1>3. EntriesMatchTerms' /\ EscrowsAreKnown'
  BY <1>1, <1>2 DEF HistoryInv, EntriesMatchTerms, EscrowsAreKnown, AlreadyDebited, Remembers
<1>4. ASSUME NEW q \in Run
      PROVE  RunHistory(q)'
  <2>1. CASE pc'[q] = pc[q]
    BY <1>1, <1>2, <2>1, HistoryFrame DEF HistoryInv
  <2>2. CASE pc'[q] # pc[q]
    <3>1. pc[q] \in DebitSteps /\ pc'[q] = AfterFailedDebit(q)
      BY <2>2 DEF RestartTracker, DebitSteps, TypeInv, TypeOK
    <3>2. /\ HasPayment(q)' = HasPayment(q) /\ EscrowOf(q)' = EscrowOf(q)
          /\ Bought(q)' = Bought(q)
      BY <1>1 DEF HasPayment, EscrowOf, Terms, Payment, Bought, Calls
    <3>3. HasPayment(q) => EscrowOf(q) \in Escrow
      BY TermsType DEF TypeInv
    <3>4. RunHistory(q) /\ (pc'[q] = "finalizeRejected" => Unpaid(q))
      BY <3>1 DEF HistoryInv, AfterFailedDebit, Unpaid, TypeInv, TypeOK
    <3>5. ~Unpaid(q)' /\ pc'[q] \in {"finalizeRejected", "finalize"}
      BY <3>1 DEF AfterFailedDebit, Unpaid, DebitSteps
    <3> QED
      BY <1>1, <1>2, <3>2, <3>3, <3>4, <3>5 DEF RunHistory, Remembers
  <2> QED
    BY <2>1, <2>2
<1> QED
  BY <1>3, <1>4 DEF HistoryInv

LEMMA RestartNodeHistory ==
  ASSUME TypeInv, HistoryInv, RestartNode
  PROVE  HistoryInv'
<1>1. UNCHANGED <<terms, request, stage, shouldFinalize, tally, owed, accepted, executed,
                  dbVars, localchain>> /\ Remembers
  BY DEF RestartNode, Remembers
<1>2. ASSUME NEW q \in Run
      PROVE  RunHistory(q)'
  <2>1. CASE pc'[q] = pc[q]
    BY <1>1, <2>1, HistoryFrame DEF HistoryInv
  <2>2. CASE pc'[q] # pc[q]
    <3>1. pc'[q] = "crashed" /\ pc[q] # "idle"
      BY <2>2 DEF RestartNode, Over, TypeInv, TypeOK
    <3> QED
      BY <1>1, <3>1, EndHistory
  <2> QED
    BY <2>1, <2>2
<1> QED
  BY <1>1, <1>2, TablesKept DEF HistoryInv

LEMMA TickHistory ==
  ASSUME TypeInv, HistoryInv, Tick
  PROVE  HistoryInv'
<1>1. UNCHANGED <<terms, runVars, localchain, dbVars>> /\ Remembers
  BY DEF Tick, Remembers
<1> QED
  BY <1>1, TablesKept, RunsLeftAlone

LEMMA InitHistory == Init => HistoryInv
<1> SUFFICES ASSUME Init PROVE HistoryInv
  OBVIOUS
<1>1. EntriesMatchTerms /\ EscrowsAreKnown
  BY DEF Init, DbInit, EntriesMatchTerms, EscrowsAreKnown, AlreadyDebited
<1>2. ASSUME NEW r \in Run
      PROVE  RunHistory(r)
  BY <1>2 DEF Init, RunHistory, NoRequest, HasPayment, Payment, Unpaid, Bought
<1> QED
  BY <1>1, <1>2 DEF HistoryInv

LEMMA NextHistory ==
  ASSUME TypeInv, HistoryInv, [Next]_vars
  PROVE  HistoryInv'
<1>1. ASSUME NEW r \in Run, Advance(r)
      PROVE  HistoryInv'
  BY <1>1, StartDebitHistory, ReadSettlementHistory, RecordSettlementHistory,
     AcceptDebitHistory, RepeatDebitHistory, RefuseDebitHistory, ExecuteHistory,
     CompleteHistory
  DEF Advance, Debit
<1>2. CASE Environment
  BY <1>2, SubmitHistory, RegisterHistory, CleanupHistory, RestartTrackerHistory,
     RestartNodeHistory, TickHistory
  DEF Environment
<1>3. CASE UNCHANGED vars
  <2>1. UNCHANGED <<terms, runVars, localchain, dbVars>> /\ Remembers
    BY <1>3 DEF vars, Remembers
  <2> QED
    BY <2>1, TablesKept, RunsLeftAlone
<1> QED
  BY <1>1, <1>2, <1>3 DEF Next

LEMMA TypeInvHolds == Spec => []TypeInv
<1>1. Init => TypeInv
  BY InitTypeInv
<1>2. TypeInv /\ [Next]_vars => TypeInv'
  BY DebitTypeInv, ExecuteTypeInv, CompleteTypeInv, EnvironmentTypeInv, StutterTypeInv
  DEF Next, Advance
<1> QED
  BY <1>1, <1>2, PTL DEF Spec

LEMMA HistoryHolds == Spec => []HistoryInv
<1>1. Init => HistoryInv
  BY InitHistory
<1>2. TypeInv /\ HistoryInv /\ [Next]_vars => HistoryInv'
  BY NextHistory
<1> QED
  BY <1>1, <1>2, TypeInvHolds, PTL DEF Spec

-----------------------------------------------------------------------------
(* What a payment buys *)

\* Steps that let no run through, debit nothing and forget no payment.
LEMMA BuyersKept ==
  ASSUME BuyersInv, UNCHANGED <<terms, request, accepted, executed, restarts>>,
         UNCHANGED paymentIdByEscrowId, TypeInv,
         \A e \in Escrow : escrows'[e] # None => escrows[e] # None
  PROVE  BuyersInv'
<1>1. ASSUME NEW r \in Run
      PROVE  /\ HasPayment(r)' = HasPayment(r) /\ EscrowOf(r)' = EscrowOf(r)
             /\ Payment(r)' = Payment(r) /\ Bought(r)' = Bought(r)
             /\ HasPayment(r) => EscrowOf(r) \in Escrow
  BY TermsType DEF HasPayment, EscrowOf, Terms, Payment, Bought, Calls, TypeInv
<1> QED
  BY <1>1 DEF BuyersInv, AlreadyDebited

\* A run is let through whose payment is remembered for its query, or that is free.
LEMMA LetThrough ==
  ASSUME TypeInv, BuyersInv, NEW r \in Run, Proceed(r),
         UNCHANGED <<terms, request, accepted, restarts, dbVars>>,
         \/ Price(DebitCalls(r)) = 0
         \/ /\ HasPayment(r) /\ AlreadyDebited(EscrowOf(r), Payment(r))
            /\ paymentIdByEscrowId[EscrowOf(r)][Payment(r)].queryId.root = request[r].root
  PROVE  BuyersInv'
<1>1. ASSUME NEW q \in Run
      PROVE  /\ HasPayment(q)' = HasPayment(q) /\ EscrowOf(q)' = EscrowOf(q)
             /\ Payment(q)' = Payment(q) /\ Price(Calls(q))' = Price(Calls(q))
  BY DEF HasPayment, EscrowOf, Terms, Payment, Calls
<1>2. \A q \in Run \ {r} : Bought(q)' = Bought(q)
  BY <1>1 DEF Bought, Proceed, Goto, TypeInv, TypeOK
<1>3. CASE Price(DebitCalls(r)) = 0
  <2>1. Bought(r)' => Bought(r)
    BY <1>1, <1>3 DEF Bought, Proceed, DebitCalls, TypeInv, TypeOK
  <2> QED
    BY <1>1, <1>2, <2>1 DEF BuyersInv, AlreadyDebited, dbVars
<1>4. CASE /\ HasPayment(r) /\ AlreadyDebited(EscrowOf(r), Payment(r))
           /\ paymentIdByEscrowId[EscrowOf(r)][Payment(r)].queryId.root = request[r].root
  BY <1>1, <1>2, <1>4 DEF BuyersInv, AlreadyDebited, dbVars
<1> QED
  BY <1>3, <1>4

\* A first debit is remembered; no run has bought anything with its payment yet.
LEMMA AcceptBuyers ==
  ASSUME TypeInv, HistoryInv, BuyersInv, NEW r \in Run, AcceptDebit(r)
  PROVE  BuyersInv'
<1>1. /\ UNCHANGED <<terms, request, restarts>> /\ pc[r] = "debit"
      /\ accepted' = [accepted EXCEPT ![r] = TRUE]
      /\ \A q \in Run \ {r} : executed'[q] = executed[q]
  BY DEF AcceptDebit, Proceed, TypeInv, TypeOK
<1>2. /\ HasPayment(r) /\ EscrowOf(r) \in Escrow /\ Payment(r) \in Uuid
      /\ EscrowOf(r) = terms[Payment(r)].escrow
  BY <1>1, DebitKnows
<1>3. /\ ~AlreadyDebited(EscrowOf(r), Payment(r))
      /\ escrows[EscrowOf(r)] # None
      /\ paymentIdByEscrowId' = [paymentIdByEscrowId EXCEPT ![EscrowOf(r)][Payment(r)] =
           [microgons |-> Terms(r).microgons, queryId |-> DebitQueryId(r)]]
  BY DEF AcceptDebit, DebitAccepted, RememberDebit, CanDebit
<1>4. \A e \in Escrow : escrows'[e] # None => escrows[e] # None
  BY <1>2, <1>3 DEF AcceptDebit, DebitAccepted, TypeInv, TypeOK, DbTypeOK
<1>5. ASSUME NEW q \in Run
      PROVE  /\ HasPayment(q)' = HasPayment(q) /\ EscrowOf(q)' = EscrowOf(q)
             /\ Payment(q)' = Payment(q) /\ Price(Calls(q))' = Price(Calls(q))
             /\ HasPayment(q) => EscrowOf(q) \in Escrow /\ Payment(q) \in Uuid
  BY <1>1, TermsType DEF HasPayment, EscrowOf, Terms, Payment, Calls, TypeInv
<1>6. /\ AlreadyDebited(EscrowOf(r), Payment(r))'
      /\ paymentIdByEscrowId'[EscrowOf(r)][Payment(r)].queryId.root = request[r].root
  <2>1. paymentIdByEscrowId'[EscrowOf(r)][Payment(r)]
          = [microgons |-> Terms(r).microgons, queryId |-> DebitQueryId(r)]
    BY <1>2, <1>3 DEF TypeInv, TypeOK, DbTypeOK
  <2>2. [microgons |-> Terms(r).microgons, queryId |-> DebitQueryId(r)] \in Entry
    <3>1. TypeOK /\ request[r].root \in QueryRoot /\ Terms(r).microgons \in Nat
      BY <1>1, DebitKnows DEF TypeInv, RunTypeInv
    <3> QED
      BY <3>1, DebitQueryIdType DEF Entry
  <2>3. EscrowOf(r)' = EscrowOf(r) /\ Payment(r)' = Payment(r)
    BY <1>5
  <2>4. AlreadyDebited(EscrowOf(r), Payment(r))'
    BY <2>1, <2>2, <2>3, NoneAssumption DEF AlreadyDebited
  <2>5. DebitQueryId(r).root = request[r].root
    BY DEF DebitQueryId
  <2>6. paymentIdByEscrowId'[EscrowOf(r)][Payment(r)].queryId = DebitQueryId(r)
    BY <2>1
  <2> QED
    BY <2>4, <2>5, <2>6
<1>7. ASSUME restarts = 0, NEW q \in Run, q # r, HasPayment(q)
      PROVE  /\ accepted[q] => Payment(q) # Payment(r)
             /\ escrows[EscrowOf(q)] # None /\ (accepted[q] \/ Bought(q)) =>
                  /\ paymentIdByEscrowId'[EscrowOf(q)][Payment(q)]
                       = paymentIdByEscrowId[EscrowOf(q)][Payment(q)]
                  /\ AlreadyDebited(EscrowOf(q), Payment(q))
  <2>1. EscrowOf(q) = terms[Payment(q)].escrow
    BY DEF EscrowOf, Terms
  <2>2. Payment(q) = Payment(r) => EscrowOf(q) = EscrowOf(r)
    BY <1>2, <2>1
  <2>3. escrows[EscrowOf(q)] # None /\ (accepted[q] \/ Bought(q)) =>
          AlreadyDebited(EscrowOf(q), Payment(q))
    BY <1>7 DEF BuyersInv
  <2>4. accepted[q] => Payment(q) # Payment(r)
    BY <1>3, <2>2, <2>3
  <2>5. AlreadyDebited(EscrowOf(q), Payment(q)) =>
          paymentIdByEscrowId'[EscrowOf(q)][Payment(q)]
            = paymentIdByEscrowId[EscrowOf(q)][Payment(q)]
    BY <1>2, <1>3, <1>5, <1>7, <2>2 DEF AlreadyDebited, TypeInv, TypeOK, DbTypeOK
  <2> QED
    BY <2>3, <2>4, <2>5
<1>8. \A q \in Run \ {r} : Bought(q)' = Bought(q) /\ accepted'[q] = accepted[q]
  BY <1>1, <1>5 DEF Bought, TypeInv, TypeOK
<1>9. ASSUME restarts = 0, NEW q \in Run, HasPayment(q)', escrows'[EscrowOf(q)'] # None
      PROVE  /\ accepted'[q] \/ Bought(q)' => AlreadyDebited(EscrowOf(q), Payment(q))'
             /\ Bought(q)' =>
                  paymentIdByEscrowId'[EscrowOf(q)'][Payment(q)'].queryId.root
                    = request'[q].root
  <2>1. CASE q = r
    BY <1>1, <1>5, <1>6, <2>1
  <2>2. CASE q # r
    <3>1. HasPayment(q) /\ escrows[EscrowOf(q)] # None
      BY <1>4, <1>5, <1>9
    <3>2. /\ accepted[q] \/ Bought(q) => AlreadyDebited(EscrowOf(q), Payment(q))
          /\ Bought(q) =>
               paymentIdByEscrowId[EscrowOf(q)][Payment(q)].queryId.root = request[q].root
      BY <1>9, <3>1 DEF BuyersInv
    <3> QED
      BY <1>1, <1>5, <1>7, <1>8, <1>9, <2>2, <3>1, <3>2 DEF AlreadyDebited
  <2> QED
    BY <2>1, <2>2
<1>10. ASSUME restarts = 0, NEW p \in Run, NEW q \in Run, HasPayment(p)',
              Payment(p)' = Payment(q)', accepted'[p], accepted'[q]
       PROVE  p = q
  <2>1. HasPayment(p) /\ HasPayment(q) /\ Payment(p) = Payment(q)
    BY <1>5, <1>10 DEF HasPayment, Payment
  <2>2. CASE p # r /\ q # r
    BY <1>8, <1>10, <2>1, <2>2 DEF BuyersInv
  <2>3. CASE p = r \/ q = r
    BY <1>7, <1>8, <1>10, <2>1, <2>3
  <2> QED
    BY <2>2, <2>3
<1> QED
  BY <1>1, <1>9, <1>10 DEF BuyersInv

LEMMA RepeatBuyers ==
  ASSUME TypeInv, HistoryInv, BuyersInv, NEW r \in Run, RepeatDebit(r)
  PROVE  BuyersInv'
<1>1. /\ UNCHANGED <<terms, request, accepted, restarts, dbVars>> /\ pc[r] = "debit"
      /\ Proceed(r)
  BY DEF RepeatDebit, DebitRepeated
<1>2. /\ AlreadyDebited(EscrowOf(r), Payment(r))
      /\ paymentIdByEscrowId[EscrowOf(r)][Payment(r)].queryId.root = request[r].root
  BY DEF RepeatDebit, DebitRepeated, StartsWith, DebitQueryId
<1> QED
  BY <1>1, <1>2, DebitKnows, LetThrough

LEMMA RefuseBuyers ==
  ASSUME TypeInv, HistoryInv, BuyersInv, NEW r \in Run, RefuseDebit(r)
  PROVE  BuyersInv'
<1>1. /\ UNCHANGED <<terms, request, accepted, executed, restarts, escrows>>
      /\ pc[r] = "debit"
  BY DEF RefuseDebit, DebitRefused, DebitFailed, dbVars
<1>2. EscrowOf(r) \in Escrow /\ Payment(r) \in Uuid
  BY <1>1, DebitKnows
<1>3. CASE UNCHANGED paymentIdByEscrowId
  BY <1>1, <1>3, BuyersKept
<1>4. CASE /\ ~AlreadyDebited(EscrowOf(r), Payment(r))
           /\ RememberDebit(EscrowOf(r), Payment(r), DebitQueryId(r), Terms(r).microgons)
  <2>1. ASSUME NEW q \in Run
        PROVE  /\ HasPayment(q)' = HasPayment(q) /\ EscrowOf(q)' = EscrowOf(q)
               /\ Payment(q)' = Payment(q) /\ Bought(q)' = Bought(q)
               /\ HasPayment(q) => EscrowOf(q) \in Escrow /\ Payment(q) \in Uuid
    BY <1>1, TermsType DEF HasPayment, EscrowOf, Terms, Payment, Bought, Calls, TypeInv
  <2>2. ASSUME NEW q \in Run, HasPayment(q), AlreadyDebited(EscrowOf(q), Payment(q))
        PROVE  paymentIdByEscrowId'[EscrowOf(q)][Payment(q)]
                 = paymentIdByEscrowId[EscrowOf(q)][Payment(q)]
    BY <1>2, <1>4, <2>1, <2>2 DEF AlreadyDebited, RememberDebit, TypeInv, TypeOK, DbTypeOK
  <2> QED
    BY <1>1, <2>1, <2>2 DEF BuyersInv, AlreadyDebited
<1> QED
  BY <1>3, <1>4 DEF RefuseDebit, DebitRefused, DebitFailed, dbVars

LEMMA AdvanceBuyers ==
  ASSUME TypeInv, HistoryInv, BuyersInv, NEW r \in Run, Advance(r)
  PROVE  BuyersInv'
<1>0. UNCHANGED <<terms, request, restarts>>
  BY AdvanceKeeps
<1>1. CASE StartDebit(r)
  <2>1. CASE Proceed(r) /\ Price(DebitCalls(r)) = 0
    BY <1>0, <1>1, <2>1, LetThrough DEF StartDebit
  <2>2. CASE UNCHANGED executed
    BY <1>0, <1>1, <2>2, BuyersKept DEF StartDebit, dbVars
  <2> QED
    BY <1>1, <2>1, <2>2 DEF StartDebit
<1>2. CASE ReadSettlement(r) \/ RecordSettlement(r)
  BY <1>0, <1>2, BuyersKept DEF ReadSettlement, RecordSettlement, dbVars
<1>3. CASE Execute(r) \/ Complete(r)
  <2>1. UNCHANGED <<accepted, executed>>
    BY <1>3 DEF Execute, RunFunction, QueryLocalStorage, CallStorageEngine, RunStorageEngine,
                Complete, Finalize, Finalizes, FailFinalize
  <2>2. CASE UNCHANGED dbVars
    BY <1>0, <2>1, <2>2, BuyersKept DEF dbVars
  <2>3. ASSUME NEW e \in Escrow, NEW u \in Uuid, NEW microgons,
               FinalizePayment(e, u, microgons)
        PROVE  BuyersInv'
    <3>1. \A f \in Escrow : escrows'[f] # None => escrows[f] # None
      BY <2>3 DEF FinalizePayment, FinalizeSucceeds, CanAdjust, TypeInv, TypeOK, DbTypeOK
    <3> QED
      BY <1>0, <2>1, <2>3, <3>1, BuyersKept DEF FinalizePayment
  <2>4. UNCHANGED dbVars \/ (HasPayment(r) /\ \E microgons \in {FinalPrice(r), Price(Calls(r) \cap {"table"})} :
                               FinalizePayment(EscrowOf(r), Payment(r), microgons))
    BY <1>3 DEF Execute, RunFunction, QueryLocalStorage, CallStorageEngine, RunStorageEngine,
                Complete, Finalize, Finalizes, FailFinalize
  <2> QED
    BY <2>2, <2>3, <2>4, TermsType DEF TypeInv
<1> QED
  BY <1>1, <1>2, <1>3, AcceptBuyers, RepeatBuyers, RefuseBuyers DEF Advance, Debit

LEMMA EnvironmentBuyers ==
  ASSUME TypeInv, HistoryInv, BuyersInv, Environment
  PROVE  BuyersInv'
<1>1. ASSUME NEW r \in Run, NEW offer \in Offers, NEW payment \in Uuid \cup {None},
             NEW root \in QueryRoot, Submit(r, offer, payment, root)
      PROVE  BuyersInv'
  <2>1. /\ UNCHANGED <<dbVars, terms, accepted, executed, restarts>>
        /\ ~accepted[r] /\ ~executed[r]
        /\ \A q \in Run \ {r} : request'[q] = request[q]
    BY <1>1 DEF Submit, HistoryInv, RunHistory, Unpaid, TypeInv, TypeOK
  <2>2. ASSUME NEW q \in Run, q # r
        PROVE  /\ HasPayment(q)' = HasPayment(q) /\ EscrowOf(q)' = EscrowOf(q)
               /\ Payment(q)' = Payment(q) /\ Bought(q)' = Bought(q)
               /\ request'[q] = request[q]
    BY <2>1, <2>2 DEF HasPayment, EscrowOf, Terms, Payment, Bought, Calls
  <2>3. ~accepted'[r] /\ ~Bought(r)'
    BY <2>1 DEF Bought
  <2> QED
    BY <2>1, <2>2, <2>3 DEF BuyersInv, AlreadyDebited, dbVars
<1>2. ASSUME NEW e \in Escrow, NEW milligons \in Milligons \ {0},
             NEW expirationDate \in 0 .. MaxTime, RegisterEscrow(e, milligons, expirationDate)
      PROVE  BuyersInv'
  <2>1. /\ UNCHANGED <<terms, runVars, paymentIdByEscrowId, restarts>>
        /\ localchain[e] = None
        /\ \A f \in Escrow \ {e} : escrows'[f] = escrows[f]
    BY <1>2 DEF RegisterEscrow, CreateEscrow, TypeInv, TypeOK, DbTypeOK
  <2>2. ASSUME NEW q \in Run
        PROVE  /\ HasPayment(q)' = HasPayment(q) /\ EscrowOf(q)' = EscrowOf(q)
               /\ Payment(q)' = Payment(q) /\ Bought(q)' = Bought(q)
               /\ HasPayment(q) => EscrowOf(q) \in Escrow
               /\ HasPayment(q) /\ (accepted[q] \/ Bought(q)) => EscrowOf(q) # e
    BY <2>1, TermsType
    DEF HasPayment, EscrowOf, Terms, Payment, Bought, Calls, TypeInv, runVars, HistoryInv,
        RunHistory
  <2>3. UNCHANGED <<accepted, request>>
    BY <2>1 DEF runVars
  <2> QED
    BY <2>1, <2>2, <2>3 DEF BuyersInv, AlreadyDebited
<1>3. CASE CleanupEscrows
  <2>1. UNCHANGED <<terms, runVars, restarts>>
    BY <1>3 DEF CleanupEscrows
  <2>2. \A e \in Escrow : escrows'[e] # None =>
          escrows[e] # None /\ paymentIdByEscrowId'[e] = paymentIdByEscrowId[e]
    BY <1>3 DEF CleanupEscrows, Cleanup
  <2>3. ASSUME NEW q \in Run
        PROVE  /\ HasPayment(q)' = HasPayment(q) /\ EscrowOf(q)' = EscrowOf(q)
               /\ Payment(q)' = Payment(q) /\ Bought(q)' = Bought(q)
               /\ HasPayment(q) => EscrowOf(q) \in Escrow
    BY <2>1, TermsType
    DEF HasPayment, EscrowOf, Terms, Payment, Bought, Calls, TypeInv, runVars
  <2>4. UNCHANGED <<accepted, request>>
    BY <2>1 DEF runVars
  <2> QED
    BY <2>1, <2>2, <2>3, <2>4 DEF BuyersInv, AlreadyDebited
<1>4. CASE RestartTracker \/ RestartNode
  BY <1>4 DEF RestartTracker, RestartNode, BuyersInv, TypeInv, TypeOK
<1>5. CASE Tick
  BY <1>5, BuyersKept DEF Tick, dbVars, runVars
<1> QED
  BY <1>1, <1>2, <1>3, <1>4, <1>5 DEF Environment

LEMMA InitBuyers == Init => BuyersInv
BY DEF Init, BuyersInv, Bought

LEMMA NextBuyers ==
  ASSUME TypeInv, HistoryInv, BuyersInv, [Next]_vars
  PROVE  BuyersInv'
<1>1. CASE UNCHANGED vars
  BY <1>1, BuyersKept DEF vars, dbVars, runVars
<1> QED
  BY <1>1, AdvanceBuyers, EnvironmentBuyers DEF Next

LEMMA BuyersHold == Spec => []BuyersInv
<1>1. Init => BuyersInv
  BY InitBuyers
<1>2. TypeInv /\ HistoryInv /\ BuyersInv /\ [Next]_vars => BuyersInv'
  BY NextBuyers
<1> QED
  BY <1>1, <1>2, TypeInvHolds, HistoryHolds, PTL DEF Spec

\* The runs a payment buys belong to one top-level query, and the escrow is
\* debited for one of them at most: for any number of requests that share a
\* payment, however their awaits interleave with the cleanup of the escrow, and
\* with or without a remote storage engine, until the tracker restarts.
THEOREM PaymentAlwaysBuysOneQuery == Spec => []PaymentBuysOneQuery
<1>1. BuyersInv => PaymentBuysOneQuery
  <2> SUFFICES ASSUME BuyersInv, restarts = 0, NEW r \in Run, NEW q \in Run,
                      HasPayment(r), Payment(r) = Payment(q)
               PROVE  /\ Bought(r) /\ Bought(q) /\ escrows[EscrowOf(r)] # None
                           => request[r].root = request[q].root
                      /\ accepted[r] /\ accepted[q] => r = q
    BY DEF PaymentBuysOneQuery
  <2>1. HasPayment(q) /\ EscrowOf(q) = EscrowOf(r)
    BY DEF HasPayment, Payment, EscrowOf, Terms
  <2> QED
    BY <2>1 DEF BuyersInv
<1> QED
  BY <1>1, BuyersHold, PTL

-----------------------------------------------------------------------------
(* What a run is charged *)

ChargedInv == \A r \in Run : OwesAtMostPrice(r)

\* A run that is left alone, or goes on with what it owes.
LEMMA ChargedGoto ==
  ASSUME NEW r \in Run, OwesAtMostPrice(r),
         UNCHANGED <<request[r], owed[r], shouldFinalize[r], stage[r]>>,
         pc'[r] = "done" => pc[r] = "done",
         pc'[r] \in DebitSteps => pc[r] \in DebitSteps,
         pc'[r] \in {"function", "storage"} => stage[r] = "root"
  PROVE  OwesAtMostPrice(r)'
<1>1. Price(Calls(r))' = Price(Calls(r))
  BY DEF Calls
<1> QED
  BY <1>1 DEF OwesAtMostPrice

\* What a run costs at its end is what it was quoted, or less.
LEMMA CostQuoted ==
  ASSUME IInv, NEW r \in Run
  PROVE  Cost(r) <= Price(Calls(r))
<1>1. /\ tally[r] \in Nat /\ tally[r] <= Price(Calls(r) \cap {"function"})
  BY DEF IInv, TypeOK, RunInv, TallyMatchesPrice
<1>2. Uses(r, "table") => Price(Calls(r) \cap {"table"}) = TablePrice
  BY PricesAssumption DEF Price, Uses
<1>3. /\ Price(Calls(r) \cap {"table"}) \in Nat /\ Price(Calls(r) \cap {"function"}) \in Nat
      /\ Price(Calls(r)) = Price(Calls(r) \cap {"function"}) + Price(Calls(r) \cap {"table"})
  BY PriceParts
<1>4. CASE Cost(r) = tally[r]
  BY <1>1, <1>3, <1>4
<1>5. CASE Uses(r, "table") /\ Cost(r) = tally[r] + TablePrice
  BY <1>1, <1>2, <1>3, <1>5, PricesAssumption
<1> QED
  BY <1>4, <1>5 DEF Cost

LEMMA AdvanceCharged ==
  ASSUME IInv, TypeInv, HistoryInv, ChargedInv, NEW r \in Run, Advance(r)
  PROVE  ChargedInv'
<1>1. /\ OthersKept(r) /\ UNCHANGED request
      /\ OwesAtMostPrice(r) /\ RunHistory(r) /\ RunInv(r)
  BY AdvanceKeeps DEF ChargedInv, HistoryInv, IInv
<1>2. SUFFICES OwesAtMostPrice(r)'
  <2>1. ASSUME NEW q \in Run, q # r
        PROVE  OwesAtMostPrice(q)'
    <3>1. UNCHANGED <<pc[q], request[q], owed[q], shouldFinalize[q], stage[q]>>
      BY <1>1, <2>1 DEF OthersKept
    <3> QED
      BY <3>1, ChargedGoto DEF ChargedInv, OwesAtMostPrice
  <2> QED
    BY <2>1 DEF ChargedInv
<1>3. CASE StartDebit(r) \/ ReadSettlement(r) \/ RecordSettlement(r) \/ RefuseDebit(r)
  <2>1. UNCHANGED <<owed, shouldFinalize, stage>> /\ pc[r] \in DebitSteps
    BY <1>3 DEF StartDebit, ReadSettlement, RecordSettlement, RefuseDebit, DebitSteps
  <2>2. pc'[r] # "done" /\ (pc'[r] \in {"function", "storage"} => stage[r] = "root")
    BY <1>3
    DEF StartDebit, ReadSettlement, RecordSettlement, RefuseDebit, Proceed, FirstStep,
        AfterFailedDebit, Goto, TypeInv, TypeOK
  <2> QED
    BY <1>1, <2>1, <2>2, ChargedGoto
<1>4. CASE AcceptDebit(r)
  <2>1. /\ UNCHANGED <<shouldFinalize, stage>> /\ pc[r] = "debit"
        /\ owed'[r] = owed[r] + Terms(r).microgons
    BY <1>4 DEF AcceptDebit, TypeInv, TypeOK
  <2>2. /\ pc'[r] \notin DebitSteps \cup {"done"}
        /\ pc'[r] \in {"function", "storage"} => stage[r] = "root"
    BY <1>4
    DEF AcceptDebit, Proceed, FirstStep, AfterFailedDebit, Goto, TypeInv, TypeOK, DebitSteps
  <2>3. CASE shouldFinalize[r]
    BY <2>1, <2>2, <2>3 DEF OwesAtMostPrice
  <2>4. CASE ~shouldFinalize[r]
    <3>1. stage[r] = "storage" /\ owed[r] = 0
      BY <1>1, <2>1, <2>4 DEF RunHistory, Unpaid, OwesAtMostPrice, DebitSteps, TypeInv, TypeOK
    <3>2. Terms(r).microgons = Price(Calls(r) \cap {"table"})
      BY <1>1, <2>1, <3>1 DEF RunInv, DebitMatchesPrice, AwaitsDebit, DebitSteps, DebitCalls
    <3>3. /\ Price(Calls(r) \cap {"table"}) \in Nat /\ Price(Calls(r) \cap {"function"}) \in Nat
          /\ Price(Calls(r)) = Price(Calls(r) \cap {"function"})
                                + Price(Calls(r) \cap {"table"})
      BY PriceParts
    <3>4. owed'[r] = Price(Calls(r) \cap {"table"})
      BY <2>1, <3>1, <3>2, <3>3
    <3>5. owed'[r] <= Price(Calls(r))
      BY <3>3, <3>4
    <3>6. Price(Calls(r))' = Price(Calls(r))
      BY <1>1 DEF Calls
    <3> QED
      BY <2>1, <2>2, <3>1, <3>5, <3>6 DEF OwesAtMostPrice
  <2> QED
    BY <2>3, <2>4
<1>5. CASE RepeatDebit(r)
  <2>1. /\ UNCHANGED <<owed, stage>> /\ pc[r] = "debit" /\ pc[r] \in DebitSteps
        /\ pc'[r] \notin DebitSteps \cup {"done"}
        /\ pc'[r] \in {"function", "storage"} => stage[r] = "root"
    BY <1>5 DEF RepeatDebit, Proceed, FirstStep, Goto, TypeInv, TypeOK, DebitSteps
  <2>2. CASE stage[r] = "root"
    <3>1. owed[r] = 0
      BY <1>1, <2>1, <2>2 DEF RunHistory, Unpaid
    <3>2. Price(Calls(r))' >= 0
      BY PriceType
    <3> QED
      BY <2>1, <2>2, <3>1, <3>2 DEF OwesAtMostPrice
  <2>3. CASE stage[r] # "root"
    <3>1. UNCHANGED shouldFinalize
      BY <1>5, <2>3 DEF RepeatDebit
    <3> QED
      BY <1>1, <2>1, <3>1, ChargedGoto
  <2> QED
    BY <2>2, <2>3
<1>6. CASE Execute(r)
  <2>1. CASE CallStorageEngine(r)
    <3>1. /\ UNCHANGED <<owed, shouldFinalize>> /\ stage[r] = "root"
          /\ pc'[r] = "startDebit"
      BY <1>1, <2>1 DEF CallStorageEngine, Goto, OwesAtMostPrice, TypeInv, TypeOK
    <3>2. Price(Calls(r))' >= 0
      BY PriceType
    <3> QED
      BY <1>1, <3>1, <3>2 DEF OwesAtMostPrice
  <2>2. CASE ~CallStorageEngine(r)
    <3>1. /\ UNCHANGED <<owed, shouldFinalize, stage>>
          /\ \/ pc'[r] = "finalize"
             \/ pc[r] = "function" /\ pc'[r] = "storage"
      BY <1>6, <2>2
      DEF Execute, RunFunction, QueryLocalStorage, RunStorageEngine, Goto, AfterFunction,
          TypeInv, TypeOK
    <3>2. pc'[r] \notin DebitSteps \cup {"done"}
      BY <3>1 DEF DebitSteps
    <3>3. pc'[r] \in {"function", "storage"} => stage[r] = "root"
      BY <1>1, <3>1 DEF OwesAtMostPrice
    <3> QED
      BY <1>1, <3>1, <3>2, <3>3, ChargedGoto
  <2> QED
    BY <2>1, <2>2
<1>7. CASE Complete(r)
  <2>1. /\ UNCHANGED <<shouldFinalize, stage>>
        /\ pc'[r] \notin DebitSteps \cup {"function", "storage"}
    BY <1>7
    DEF Complete, Finalize, Finalizes, FailFinalize, Goto, AfterFailedFinalize, TypeInv, TypeOK, DebitSteps
  <2>2. Price(Calls(r))' = Price(Calls(r))
    BY <1>1 DEF Calls
  <2>3. CASE shouldFinalize[r] /\ HasPayment(r)
    <3>1. pc'[r] = "done" => owed'[r] = Cost(r)
      BY <1>7, <2>3
      DEF Complete, Finalize, Finalizes, FailFinalize, Owe, Goto, AfterFailedFinalize, TypeInv, TypeOK
    <3> QED
      BY <2>1, <2>2, <2>3, <3>1, CostQuoted DEF OwesAtMostPrice
  <2>4. CASE ~(shouldFinalize[r] /\ HasPayment(r))
    <3>1. UNCHANGED owed
      BY <1>7, <2>4 DEF Complete, Finalize, Finalizes, FailFinalize, Owe, TypeInv, TypeOK
    <3>2. ~HasPayment(r) => owed[r] = 0
      BY <1>1 DEF RunHistory
    <3>3. Price(Calls(r)) >= 0
      BY PriceType
    <3> QED
      BY <1>1, <2>1, <2>2, <2>4, <3>1, <3>2, <3>3 DEF OwesAtMostPrice
  <2> QED
    BY <2>3, <2>4
<1> QED
  BY <1>3, <1>4, <1>5, <1>6, <1>7 DEF Advance, Debit

LEMMA EnvironmentCharged ==
  ASSUME TypeInv, HistoryInv, ChargedInv, Environment
  PROVE  ChargedInv'
<1>1. ASSUME NEW r \in Run, NEW offer \in Offers, NEW payment \in Uuid \cup {None},
             NEW root \in QueryRoot, Submit(r, offer, payment, root)
      PROVE  ChargedInv'
  <2>1. /\ UNCHANGED <<owed, shouldFinalize, stage>>
        /\ pc[r] = "idle" /\ pc'[r] = "startDebit"
        /\ \A q \in Run \ {r} : pc'[q] = pc[q] /\ request'[q] = request[q]
    BY <1>1 DEF Submit, Goto, TypeInv, TypeOK
  <2>2. shouldFinalize[r]
    BY <2>1 DEF HistoryInv, RunHistory, Unpaid
  <2>3. OwesAtMostPrice(r)'
    BY <2>1, <2>2 DEF OwesAtMostPrice
  <2>4. ASSUME NEW q \in Run, q # r
        PROVE  OwesAtMostPrice(q)'
    BY <2>1, <2>4, ChargedGoto DEF ChargedInv, OwesAtMostPrice
  <2> QED
    BY <2>3, <2>4 DEF ChargedInv
<1>2. ASSUME NEW q \in Run, ~ \E r \in Run, offer \in Offers, payment \in Uuid \cup {None},
                                root \in QueryRoot : Submit(r, offer, payment, root)
      PROVE  OwesAtMostPrice(q)'
  <2>1. UNCHANGED <<request, owed, shouldFinalize, stage>>
    BY <1>2
    DEF Environment, RegisterEscrow, CleanupEscrows, RestartTracker, RestartNode, Tick, runVars
  <2>2. \/ pc'[q] = pc[q]
        \/ pc'[q] = "crashed"
        \/ pc'[q] = AfterFailedDebit(q)
    BY <1>2
    DEF Environment, RegisterEscrow, CleanupEscrows, RestartTracker, RestartNode, Tick, runVars
  <2>3. /\ pc'[q] = "done" => pc[q] = "done"
        /\ pc'[q] \in DebitSteps => pc[q] \in DebitSteps
        /\ pc'[q] \in {"function", "storage"} => stage[q] = "root"
    BY <2>2 DEF ChargedInv, OwesAtMostPrice, AfterFailedDebit, DebitSteps
  <2> QED
    BY <2>1, <2>3, ChargedGoto DEF ChargedInv
<1> QED
  BY <1>1, <1>2 DEF ChargedInv

LEMMA InitCharged == Init => ChargedInv
<1> SUFFICES ASSUME Init, NEW r \in Run PROVE OwesAtMostPrice(r)
  BY DEF ChargedInv
<1> QED
  BY DEF Init, OwesAtMostPrice

\* An answered request is charged what it was quoted, or less, whether or not its
\* debit was a repeat and its storage call was debited: unless it was a stream of
\* a table.
THEOREM AlwaysChargedAtMostPrice ==
  ASSUME NoTableStreams
  PROVE  Spec => []ChargedAtMostPrice
<1>1. Init => ChargedInv
  BY InitCharged
<1>2. IInv /\ TypeInv /\ HistoryInv /\ ChargedInv /\ [Next]_vars => ChargedInv'
  <2> SUFFICES ASSUME IInv, TypeInv, HistoryInv, ChargedInv, [Next]_vars
               PROVE  ChargedInv'
    OBVIOUS
  <2>1. CASE UNCHANGED vars
    BY <2>1, ChargedGoto DEF vars, runVars, ChargedInv, OwesAtMostPrice
  <2> QED
    BY <2>1, AdvanceCharged, EnvironmentCharged DEF Next
<1>3. ChargedInv => ChargedAtMostPrice
  BY DEF ChargedInv, OwesAtMostPrice, ChargedAtMostPrice
<1> QED
  BY <1>1, <1>2, <1>3, IInvHolds, TypeInvHolds, HistoryHolds, PTL DEF Spec

-----------------------------------------------------------------------------
(* What a run may ask *)

LEMMA AdvanceRequested ==
  ASSUME TypeInv, RequestedInv, NEW r \in Run, Advance(r)
  PROVE  RequestedInv'
<1>1. OthersKept(r) /\ UNCHANGED request
  BY AdvanceKeeps
<1>2. pc[r] # "idle"
  BY DEF Advance, Debit, StartDebit, ReadSettlement, RecordSettlement, AcceptDebit, RepeatDebit,
         RefuseDebit, Execute, RunFunction, QueryLocalStorage, CallStorageEngine,
         RunStorageEngine, Complete, Finalize, Finalizes, FailFinalize
<1>3. accepted'[r] => accepted[r] \/ HasPayment(r)
  <2>1. CASE AcceptDebit(r)
    BY <2>1 DEF AcceptDebit, TypeInv, RunTypeInv, AwaitsDebit, DebitSteps
  <2>2. CASE ~AcceptDebit(r)
    BY <2>2
    DEF Advance, Debit, StartDebit, ReadSettlement, RecordSettlement, RepeatDebit, RefuseDebit,
        Execute, RunFunction, QueryLocalStorage, CallStorageEngine, RunStorageEngine, Complete,
        Finalize, Finalizes, FailFinalize
  <2> QED
    BY <2>1, <2>2
<1>4. \A q \in Run \ {r} : Requested(q)'
  BY <1>1 DEF RequestedInv, Requested, OthersKept, Calls, HasPayment
<1>5. Requested(r)'
  BY <1>1, <1>2, <1>3 DEF RequestedInv, Requested, Calls, HasPayment
<1> QED
  BY <1>4, <1>5 DEF RequestedInv

LEMMA SubmitRequested ==
  ASSUME TypeInv, HistoryInv, RequestedInv, NEW r \in Run, NEW offer \in Offers,
         NEW payment \in Uuid \cup {None}, NEW root \in QueryRoot,
         Submit(r, offer, payment, root)
  PROVE  RequestedInv'
<1>1. ~accepted[r]
  BY DEF Submit, HistoryInv, RunHistory, Unpaid
<1>2. /\ request' = [request EXCEPT ![r] = [endpoint |-> offer.endpoint, calls |-> offer.calls,
                                            payment |-> payment, root |-> root]]
      /\ pc' = [pc EXCEPT ![r] = "startDebit"]
      /\ UNCHANGED accepted
  BY DEF Submit, Goto
<1>3. request'[r].endpoint = offer.endpoint /\ request'[r].calls = offer.calls
  BY <1>2 DEF TypeInv, TypeOK
<1>4. [endpoint |-> offer.endpoint, calls |-> offer.calls] = offer
  BY OffersAssumption DEF Offer
<1>5. \A q \in Run \ {r} : request'[q] = request[q] /\ pc'[q] = pc[q]
  BY <1>2 DEF TypeInv, TypeOK
<1>6. Requested(r)'
  BY <1>1, <1>2, <1>3, <1>4 DEF Requested, Calls
<1>7. \A q \in Run \ {r} : Requested(q)'
  BY <1>2, <1>5 DEF RequestedInv, Requested, Calls, HasPayment
<1> QED
  BY <1>6, <1>7 DEF RequestedInv

LEMMA NextRequested ==
  ASSUME TypeInv, HistoryInv, RequestedInv, [Next]_vars
  PROVE  RequestedInv'
<1>1. ASSUME UNCHANGED <<request, accepted>>,
             \A r \in Run : pc[r] = "idle" => pc'[r] = "idle"
      PROVE  RequestedInv'
  BY <1>1 DEF RequestedInv, Requested, Calls, HasPayment
<1>2. CASE UNCHANGED vars
  BY <1>1, <1>2 DEF vars, runVars
<1>3. ASSUME \/ CleanupEscrows \/ Tick
             \/ \E e \in Escrow : \E milligons \in Milligons \ {0},
                                     expirationDate \in 0 .. MaxTime :
                  RegisterEscrow(e, milligons, expirationDate)
      PROVE  RequestedInv'
  BY <1>1, <1>3 DEF CleanupEscrows, Tick, RegisterEscrow, runVars
<1>4. CASE RestartTracker
  BY <1>1, <1>4 DEF RestartTracker
<1>5. CASE RestartNode
  BY <1>1, <1>5 DEF RestartNode, Over
<1> QED
  BY <1>2, <1>3, <1>4, <1>5, AdvanceRequested, SubmitRequested DEF Next, Environment

LEMMA RequestedHolds == Spec => []RequestedInv
<1>1. Init => RequestedInv
  BY DEF Init, RequestedInv, Requested
<1>2. TypeInv /\ HistoryInv /\ RequestedInv /\ [Next]_vars => RequestedInv'
  BY NextRequested
<1> QED
  BY <1>1, <1>2, TypeInvHolds, HistoryHolds, PTL DEF Spec

-----------------------------------------------------------------------------
(* What a run asks the storage engine *)

\* The storage engine is asked for tables that have a price, if it is remote.
Priceable == RemoteStorage => TablesArePriced

LEMMA TablePriced ==
  ASSUME Priceable, RemoteStorage, NEW calls, "table" \in calls
  PROVE  Price(calls) # 0 /\ Price(calls \cap {"table"}) # 0
BY PricesAssumption DEF Priceable, TablesArePriced, Price

LEMMA RequestOffered ==
  ASSUME RequestedInv, NEW r \in Run, pc[r] # "idle"
  PROVE  /\ Calls(r) \subseteq Entity /\ Calls(r) # {}
         /\ Priceable /\ RemoteStorage /\ request[r].endpoint = "query" => Uses(r, "table")
<1>1. [endpoint |-> request[r].endpoint, calls |-> Calls(r)] \in Offers
  BY DEF RequestedInv, Requested
<1> QED
  BY <1>1, OffersAssumption DEF Offer, Priceable, TablesArePriced, Uses

\* As long as payments are remembered, a storage call is of a run that paid, and is
\* not debited.
LEMMA StorageNotDebited ==
  ASSUME Priceable, TypeInv, BuyersInv, StorageInv, NEW r \in Run,
         stage[r] = "storage", restarts = 0
  PROVE  ~AcceptDebit(r)
<1> SUFFICES ASSUME AcceptDebit(r) PROVE FALSE
  OBVIOUS
<1>1. RemoteStorage /\ executed[r] /\ Uses(r, "table")
  BY DEF StorageInv, AsksStorage
<1>2. HasPayment(r)
  BY DEF AcceptDebit, TypeInv, RunTypeInv, AwaitsDebit, DebitSteps
<1>3. Bought(r)
  BY <1>1, <1>2, TablePriced DEF Bought, Uses
<1>4. escrows[EscrowOf(r)] # None /\ ~AlreadyDebited(EscrowOf(r), Payment(r))
  BY DEF AcceptDebit, DebitAccepted, CanDebit
<1> QED
  BY <1>2, <1>3, <1>4 DEF BuyersInv

\* A debit of the run itself, and one of its storage call.
LEMMA RootDebitAsks ==
  ASSUME TypeInv, RequestedInv, NEW r \in Run, Debit(r), stage[r] = "root"
  PROVE  AsksStorage(r)'
<1>1. /\ stage'[r] = "root" /\ UNCHANGED request /\ pc[r] \in DebitSteps
      /\ \/ Proceed(r)
         \/ pc'[r] \in DebitSteps \cup {"finalizeRejected"}
  BY DEF Debit, StartDebit, ReadSettlement, RecordSettlement, AcceptDebit, RepeatDebit,
         RefuseDebit, Goto, AfterFailedDebit, DebitSteps, TypeInv, TypeOK
<1>2. CASE Proceed(r)
  <2>1. /\ pc'[r] = FirstStep(Calls(r)) /\ pc'[r] \in {"function", "storage"}
        /\ executed'[r]
    BY <1>2 DEF Proceed, Goto, FirstStep, TypeInv, TypeOK
  <2>2. pc'[r] = "storage" => Uses(r, "table")
    BY <1>1, <2>1, RequestOffered DEF FirstStep, Entity, Uses, DebitSteps
  <2> QED
    BY <1>1, <2>1, <2>2 DEF AsksStorage, Uses, Calls
<1>3. CASE pc'[r] \in DebitSteps \cup {"finalizeRejected"}
  BY <1>1, <1>3 DEF AsksStorage, DebitSteps
<1> QED
  BY <1>1, <1>2, <1>3

\* What a debit of a storage call leaves.
StorageDebit(r) ==
  /\ UNCHANGED <<stage, executed, owed, finalized, escrows, shouldFinalize>>
  /\ pc[r] \in DebitSteps /\ pc'[r] \in DebitSteps \cup {"storageQuery", "finalize"}
  /\ pc'[r] = "storageQuery" => ~storageFinalize'[r]

LEMMA StorageDebitSteps ==
  ASSUME Priceable, TypeInv, StorageInv, NEW r \in Run, Debit(r), stage[r] = "storage",
         ~AcceptDebit(r)
  PROVE  StorageDebit(r)
<1>1. AfterFailedDebit(r) = "finalize" /\ Price(DebitCalls(r)) # 0
  BY TablePriced DEF AfterFailedDebit, DebitCalls, StorageInv, AsksStorage, Uses
<1>2. CASE RepeatDebit(r)
  <2>1. /\ UNCHANGED <<stage, owed, finalized, escrows>> /\ pc[r] = "debit"
        /\ UNCHANGED <<shouldFinalize, executed>>
        /\ Goto(r, "storageQuery")
        /\ storageFinalize' = [storageFinalize EXCEPT ![r] = FALSE]
    BY <1>2 DEF RepeatDebit, DebitRepeated, dbVars, Proceed
  <2> QED
    BY <2>1 DEF StorageDebit, Goto, DebitSteps, TypeInv, TypeOK
<1>3. CASE ~RepeatDebit(r)
  <2>1. /\ UNCHANGED <<stage, executed, owed, finalized, escrows, shouldFinalize>>
        /\ pc[r] \in DebitSteps
        /\ \E label \in {"readSettlement", "recordSettlement", "debit", "finalize"} :
             Goto(r, label)
    BY <1>1, <1>3
    DEF Debit, StartDebit, ReadSettlement, RecordSettlement, RefuseDebit, DebitRefused,
        DebitFailed, dbVars, DebitSteps
  <2> QED
    BY <2>1 DEF StorageDebit, Goto, DebitSteps, TypeInv, TypeOK
<1> QED
  BY <1>2, <1>3

LEMMA StorageDebitAsks ==
  ASSUME Priceable, TypeInv, BuyersInv, StorageInv, NEW r \in Run, Debit(r),
         stage[r] = "storage"
  PROVE  AsksStorage(r)'
<1>1. UNCHANGED <<request, restarts>> /\ AsksStorage(r)
  BY AdvanceKeeps DEF StorageInv, Advance
<1>2. CASE AcceptDebit(r)
  <2>1. /\ restarts # 0 /\ UNCHANGED <<stage, executed>>
        /\ pc'[r] \in {"storageQuery", "finalize"}
    BY <1>2, StorageNotDebited
    DEF AcceptDebit, Proceed, Goto, AfterFailedDebit, TypeInv, TypeOK
  <2> QED
    BY <1>1, <2>1 DEF AsksStorage, Uses, Calls
<1>3. CASE ~AcceptDebit(r)
  BY <1>1, <1>3, StorageDebitSteps DEF StorageDebit, AsksStorage, Uses, Calls, DebitSteps
<1> QED
  BY <1>2, <1>3

LEMMA AdvanceAsks ==
  ASSUME Priceable, TypeInv, BuyersInv, RequestedInv, StorageInv, NEW r \in Run, Advance(r)
  PROVE  AsksStorage(r)'
<1>1. UNCHANGED <<request, restarts>> /\ AsksStorage(r)
  BY AdvanceKeeps DEF StorageInv
<1>2. CASE Debit(r)
  BY <1>2, RootDebitAsks, StorageDebitAsks DEF TypeInv, TypeOK
<1>3. CASE RunFunction(r)
  <2>1. /\ UNCHANGED <<stage, executed>> /\ pc[r] = "function"
        /\ pc'[r] \in {"storage", "finalize"}
        /\ pc'[r] = "storage" => request[r].endpoint = "query"
    BY <1>3 DEF RunFunction, Goto, AfterFunction, TypeInv, TypeOK
  <2>2. RemoteStorage /\ pc'[r] = "storage" => Uses(r, "table")
    BY <2>1, RequestOffered
  <2> QED
    BY <1>1, <2>1, <2>2 DEF AsksStorage, Uses, Calls
<1>4. CASE CallStorageEngine(r)
  <2>1. /\ UNCHANGED executed /\ pc[r] = "storage" /\ RemoteStorage
        /\ stage'[r] = "storage" /\ pc'[r] = "startDebit"
    BY <1>4 DEF CallStorageEngine, Goto, TypeInv, TypeOK
  <2> QED
    BY <1>1, <2>1 DEF AsksStorage, Uses, Calls
<1>5. CASE QueryLocalStorage(r) \/ RunStorageEngine(r) \/ Complete(r)
  <2>1. /\ UNCHANGED <<stage, executed>>
        /\ pc'[r] \in {"finalize", "done", "refinalize", "rejected"}
    BY <1>5
    DEF QueryLocalStorage, RunStorageEngine, Complete, Finalize, Finalizes, FailFinalize, Goto,
        AfterFailedFinalize, TypeInv, TypeOK
  <2> QED
    BY <1>1, <2>1 DEF AsksStorage, Uses, Calls
<1> QED
  BY <1>2, <1>3, <1>4, <1>5 DEF Advance, Execute

LEMMA AdvanceStorage ==
  ASSUME Priceable, TypeInv, BuyersInv, RequestedInv, StorageInv, NEW r \in Run, Advance(r)
  PROVE  StorageInv'
<1>1. OthersKept(r) /\ UNCHANGED <<request, restarts>>
  BY AdvanceKeeps
<1>2. \A q \in Run \ {r} : AsksStorage(q)'
  BY <1>1 DEF StorageInv, AsksStorage, OthersKept, Calls, Uses, HasPayment
<1>3. AsksStorage(r)'
  BY AdvanceAsks
<1> QED
  BY <1>2, <1>3 DEF StorageInv

LEMMA SubmitStorage ==
  ASSUME TypeInv, HistoryInv, StorageInv, NEW r \in Run, NEW offer \in Offers,
         NEW payment \in Uuid \cup {None}, NEW root \in QueryRoot,
         Submit(r, offer, payment, root)
  PROVE  StorageInv'
<1>1. pc[r] = "idle" /\ stage[r] = "root"
  BY DEF Submit, HistoryInv, RunHistory
<1>2. /\ pc'[r] = "startDebit"
      /\ \A q \in Run \ {r} : request'[q] = request[q] /\ pc'[q] = pc[q]
      /\ UNCHANGED <<stage, executed, storageFinalize, restarts>>
  BY DEF Submit, Goto, TypeInv, TypeOK
<1>3. AsksStorage(r)'
  BY <1>1, <1>2 DEF AsksStorage
<1>4. \A q \in Run \ {r} : AsksStorage(q)'
  BY <1>2 DEF StorageInv, AsksStorage, Calls, Uses, HasPayment
<1> QED
  BY <1>3, <1>4 DEF StorageInv

LEMMA NextStorage ==
  ASSUME Priceable, TypeInv, HistoryInv, BuyersInv, RequestedInv, StorageInv, [Next]_vars
  PROVE  StorageInv'
<1>1. ASSUME UNCHANGED <<request, stage, executed, storageFinalize>>,
             restarts' = restarts \/ restarts' # 0,
             \A r \in Run : \/ pc'[r] = pc[r]
                            \/ pc'[r] \in {"finalize", "finalizeRejected", "crashed"}
      PROVE  StorageInv'
  BY <1>1 DEF StorageInv, AsksStorage, Calls, Uses, HasPayment
<1>2. CASE UNCHANGED vars
  BY <1>1, <1>2 DEF vars, runVars
<1>3. ASSUME \/ CleanupEscrows \/ Tick
             \/ \E e \in Escrow : \E milligons \in Milligons \ {0},
                                     expirationDate \in 0 .. MaxTime :
                  RegisterEscrow(e, milligons, expirationDate)
      PROVE  StorageInv'
  BY <1>1, <1>3 DEF CleanupEscrows, Tick, RegisterEscrow, runVars
<1>4. restarts \in Nat
  BY BoundsAssumption DEF TypeInv, TypeOK
<1>5. CASE RestartTracker
  <2>1. \A r \in Run : AfterFailedDebit(r) \in {"finalize", "finalizeRejected"}
    BY DEF AfterFailedDebit
  <2> QED
    BY <1>1, <1>4, <1>5, <2>1 DEF RestartTracker
<1>6. CASE RestartNode
  BY <1>1, <1>4, <1>6 DEF RestartNode
<1> QED
  BY <1>2, <1>3, <1>5, <1>6, AdvanceStorage, SubmitStorage DEF Next, Environment

LEMMA InitStorage == Init => StorageInv
BY DEF Init, StorageInv, AsksStorage

LEMMA StorageHolds ==
  ASSUME Priceable
  PROVE  Spec => []StorageInv
<1>1. Init => StorageInv
  BY InitStorage
<1>2. TypeInv /\ HistoryInv /\ BuyersInv /\ RequestedInv /\ StorageInv /\ [Next]_vars
        => StorageInv'
  BY NextStorage
<1> QED
  BY <1>1, <1>2, TypeInvHolds, HistoryHolds, BuyersHold, RequestedHolds, PTL DEF Spec

-----------------------------------------------------------------------------
(* What an escrow pays *)

LEMMA FreeTablesType ==
  ASSUME TypeOK, NEW r \in Run
  PROVE  /\ owed[r] \in Nat /\ FreeTables(r) \in Nat
         /\ Payable[r] = owed[r] - FreeTables(r)
         /\ ~RemoteStorage => FreeTables(r) = 0
         /\ ~finalized[r] => FreeTables(r) = 0
BY PricesAssumption DEF TypeOK, FreeTables, Payable

LEMMA PayableType ==
  ASSUME TypeOK, NEW r \in Run, FreeTables(r) <= owed[r]
  PROVE  Payable[r] \in Nat /\ Payable[r] <= owed[r]
BY FreeTablesType

LEMMA PayableKept ==
  ASSUME NEW r \in Run, UNCHANGED <<owed[r], finalized[r], request[r]>>
  PROVE  FreeTables(r)' = FreeTables(r) /\ Payable'[r] = Payable[r]
<1>1. FreeTables(r)' = FreeTables(r)
  BY DEF FreeTables, Uses, Calls
<1> QED
  BY <1>1 DEF Payable

LEMMA TotalType ==
  ASSUME TypeOK, OwedInv, NEW e
  PROVE  /\ IsFiniteSet(RunsOf(e)) /\ RunsOf(e) \subseteq Run
         /\ \A r \in RunsOf(e) : Payable[r] \in Nat
         /\ TotalPayable(e) \in Nat
<1>1. IsFiniteSet(RunsOf(e)) /\ RunsOf(e) \subseteq Run
  BY RunsAssumption, FS_Subset DEF RunsOf
<1>2. \A r \in RunsOf(e) : Payable[r] \in Nat
  BY <1>1, PayableType DEF OwedInv, OwesPayment
<1> QED
  BY <1>1, <1>2, SumType DEF TotalPayable

\* What an escrow is not charged for is its tables on another host.
LEMMA PayableIsOwed ==
  ASSUME TypeOK, OwedInv, NEW e
  PROVE  /\ TotalPayable(e) <= TotalOwed(e)
         /\ ~RemoteStorage => TotalPayable(e) = TotalOwed(e)
<1>1. ASSUME NEW r \in RunsOf(e)
      PROVE  /\ Payable[r] \in Nat /\ owed[r] \in Nat /\ Payable[r] <= owed[r]
             /\ ~RemoteStorage => Payable[r] = owed[r]
  <2>1. r \in Run /\ FreeTables(r) <= owed[r]
    BY TotalType DEF OwedInv, OwesPayment
  <2> QED
    BY <2>1, PayableType, FreeTablesType
<1>2. TotalPayable(e) <= TotalOwed(e)
  <2>1. \A r \in RunsOf(e) : Payable[r] \in Nat /\ Payable[r] <= owed[r]
    BY <1>1
  <2>2. \A r \in RunsOf(e) : owed[r] \in Nat
    BY <1>1
  <2>3. IsFiniteSet(RunsOf(e))
    BY TotalType
  <2>4. SumFunctionOnSet(Payable, RunsOf(e)) <= SumFunctionOnSet(owed, RunsOf(e))
    BY <2>1, <2>2, <2>3, SumMonotone
  <2> QED
    BY <2>4 DEF TotalPayable, TotalOwed
<1>3. ASSUME ~RemoteStorage
      PROVE  TotalPayable(e) = TotalOwed(e)
  <2>1. \A r \in RunsOf(e) : Payable[r] \in Nat /\ Payable[r] = owed[r]
    BY <1>1, <1>3
  <2>2. SumFunctionOnSet(Payable, RunsOf(e)) = SumFunctionOnSet(owed, RunsOf(e))
    BY <2>1, TotalType, SumAgrees
  <2> QED
    BY <2>2 DEF TotalPayable, TotalOwed
<1> QED
  BY <1>2, <1>3

LEMMA SpentType ==
  ASSUME TypeOK, NEW e \in Escrow, escrows[e] # None
  PROVE  Spent(e) \in Int /\ escrows[e].remaining \in Nat /\ escrows[e].allocated \in Nat
BY DEF TypeOK, DbTypeOK, EscrowRow, Spent

\* What is done to a run whose debit threw leaves it a run whose debit threw.
LEMMA ThrewStays ==
  ASSUME TypeInv, NEW r \in Run, Advance(r), NEW q \in Run, DebitThrew(q)
  PROVE  DebitThrew(q)'
<1>1. CASE q # r
  BY <1>1, AdvanceKeeps DEF OthersKept, DebitThrew
<1>2. CASE q = r
  <2>1. Complete(r)
    BY <1>2
    DEF Advance, Debit, StartDebit, ReadSettlement, RecordSettlement, AcceptDebit,
        RepeatDebit, RefuseDebit, Execute, RunFunction, QueryLocalStorage,
        CallStorageEngine, RunStorageEngine, DebitThrew
  <2>2. /\ executed' = executed
        /\ pc'[r] \in {"refinalize", "done", "rejected"}
    BY <2>1 DEF Complete, Finalize, Finalizes, FailFinalize, Goto, AfterFailedFinalize, TypeInv, TypeOK
  <2> QED
    BY <1>2, <2>2 DEF DebitThrew
<1> QED
  BY <1>1, <1>2

LEMMA RunsOfKept ==
  ASSUME UNCHANGED <<terms, request>>
  PROVE  /\ \A e : RunsOf(e)' = RunsOf(e)
         /\ \A r \in Run : /\ HasPayment(r)' = HasPayment(r) /\ EscrowOf(r)' = EscrowOf(r)
                           /\ Payment(r)' = Payment(r) /\ Terms(r)' = Terms(r)
                           /\ Price(Calls(r))' = Price(Calls(r))
BY DEF RunsOf, HasPayment, EscrowOf, Terms, Payment, Calls

LEMMA CleanBefore ==
  ASSUME TypeInv, NEW r \in Run, Advance(r), NEW e, Clean(e)'
  PROVE  Clean(e)
<1>1. RunsOf(e)' = RunsOf(e) /\ \A q \in Run : Price(Calls(q))' = Price(Calls(q))
  BY AdvanceKeeps, RunsOfKept
<1>2. ASSUME NEW q \in RunsOf(e)
      PROVE  ~DebitThrew(q) /\ Price(Calls(q)) # 0
  <2>1. q \in Run /\ q \in RunsOf(e)'
    BY <1>1, <1>2 DEF RunsOf
  <2>2. ~DebitThrew(q)' /\ Price(Calls(q))' # 0
    BY <2>1 DEF Clean
  <2> QED
    BY <1>1, <2>1, <2>2, ThrewStays
<1> QED
  BY <1>2 DEF Clean

\* An escrow whose row and runs are left alone.
LEMMA ExplainedKept ==
  ASSUME TypeInv, OwedInv, NEW e \in Escrow, escrows'[e] \in {None, escrows[e]},
         RunsOf(e)' = RunsOf(e), \A r \in RunsOf(e) : Payable'[r] = Payable[r],
         Clean(e)' => Clean(e)
  PROVE  Explained(e)'
<1>1. \A r \in RunsOf(e) : Payable[r] \in Nat /\ Payable[r] = Payable'[r]
  BY TotalType DEF TypeInv
<1>2. SumFunctionOnSet(Payable, RunsOf(e)) = SumFunctionOnSet(Payable', RunsOf(e))
  BY <1>1, TotalType, SumAgrees DEF TypeInv
<1>3. TotalPayable(e)' = TotalPayable(e)
  BY <1>2 DEF TotalPayable
<1> QED
  BY <1>3 DEF Explained, Spent, OwedInv

\* One run owes as much more as its escrow spent, or owed too much.
LEMMA ExplainedChange ==
  ASSUME TypeInv, TypeInv', OwedInv, NEW r \in Run, Advance(r), HasPayment(r),
         NEW spent \in Int,
         Payable'[r] \in Nat, escrows[EscrowOf(r)] # None,
         escrows'[EscrowOf(r)] # None,
         Spent(EscrowOf(r))' = Spent(EscrowOf(r)) + spent,
         Payable[r] + spent <= Payable'[r],
         Clean(EscrowOf(r))' => Payable[r] + spent = Payable'[r]
  PROVE  Explained(EscrowOf(r))'
<1>1. /\ EscrowOf(r) \in Escrow /\ EscrowOf(r)' = EscrowOf(r)
      /\ \A e : RunsOf(e)' = RunsOf(e)
  BY AdvanceKeeps, RunsOfKept, TermsType DEF TypeInv
<1>2. PICK e \in Escrow : e = EscrowOf(r)
  BY <1>1
<1>3. r \in RunsOf(e) /\ RunsOf(e)' = RunsOf(e)
  BY <1>1, <1>2 DEF RunsOf
<1>4. \A q \in RunsOf(e) \ {r} : Payable[q] = Payable'[q]
  BY AdvanceKeeps, TotalType, PayableKept DEF OthersKept, TypeInv
<1>5. \A q \in RunsOf(e) : Payable[q] \in Nat /\ Payable'[q] \in Nat
  BY <1>4, TotalType DEF TypeInv
<1>6. SumFunctionOnSet(Payable', RunsOf(e))
        = SumFunctionOnSet(Payable, RunsOf(e)) + Payable'[r] - Payable[r]
  BY <1>3, <1>4, <1>5, TotalType, SumChangesAt DEF TypeInv
<1>7. TotalPayable(e)' = TotalPayable(e) + Payable'[r] - Payable[r]
  BY <1>3, <1>6 DEF TotalPayable
<1>8. /\ TotalPayable(e) \in Nat /\ Spent(e) \in Int
      /\ Payable[r] \in Nat /\ Payable'[r] \in Nat /\ Explained(e)
  BY <1>2, <1>3, <1>5, TotalType, SpentType DEF TypeInv, OwedInv
<1>9. Spent(e)' = Spent(e) + spent
  BY <1>1, <1>2
<1>10. Spent(e)' <= TotalPayable(e)'
  BY <1>2, <1>7, <1>8, <1>9 DEF Explained
<1>11. Clean(e)' => Spent(e)' = TotalPayable(e)'
  <2> SUFFICES ASSUME Clean(e)' PROVE Spent(e)' = TotalPayable(e)'
    OBVIOUS
  <2>1. Clean(e) /\ Payable[r] + spent = Payable'[r]
    BY <1>1, <1>2, CleanBefore
  <2>2. Spent(e) = TotalPayable(e)
    BY <1>2, <1>8, <2>1 DEF Explained
  <2> QED
    BY <1>7, <1>8, <1>9, <2>1, <2>2
<1>12. Explained(e)'
  BY <1>10, <1>11 DEF Explained
<1> QED
  BY <1>1, <1>2, <1>12

\* A run that is left alone, or goes on with what it owes.
LEMMA OwesFrame ==
  ASSUME NEW r \in Run, OwesPayment(r), UNCHANGED terms,
         UNCHANGED <<request[r], owed[r], shouldFinalize[r], executed[r], finalized[r]>>,
         pc'[r] \in Over \/ pc[r] \notin Over, Underway(r)' => Underway(r),
         pc[r] \in {"done", "rejected"} => pc'[r] = pc[r]
  PROVE  OwesPayment(r)'
<1>1. /\ HasPayment(r)' = HasPayment(r) /\ Terms(r)' = Terms(r)
      /\ Price(Calls(r))' = Price(Calls(r)) /\ FreeTables(r)' = FreeTables(r)
  BY PayableKept DEF HasPayment, Terms, Payment, Calls
<1> QED
  BY <1>1 DEF OwesPayment

\* OwedInv after a step of one run that no escrow notices.
LEMMA OwedStep ==
  ASSUME TypeInv, OwedInv, NEW r \in Run, Advance(r), OwesPayment(r)',
         \A e \in Escrow : Explained(e)'
  PROVE  OwedInv'
<1>1. ASSUME NEW q \in Run, q # r
      PROVE  OwesPayment(q)'
  <2>1. /\ UNCHANGED terms
        /\ UNCHANGED <<pc[q], stage[q], request[q], owed[q], shouldFinalize[q], executed[q],
                      finalized[q]>>
    BY <1>1, AdvanceKeeps DEF OthersKept
  <2> QED
    BY <2>1, OwesFrame DEF OwedInv, Underway
<1>2. \A q \in Run : OwesPayment(q)'
  BY <1>1
<1> QED
  BY <1>2 DEF OwedInv

LEMMA EscrowsNotice ==
  ASSUME TypeInv, OwedInv, NEW r \in Run, Advance(r), UNCHANGED <<owed, finalized, escrows>>
  PROVE  \A e \in Escrow : Explained(e)'
<1> SUFFICES ASSUME NEW e \in Escrow PROVE Explained(e)'
  OBVIOUS
<1>1. RunsOf(e)' = RunsOf(e) /\ UNCHANGED request
  BY AdvanceKeeps, RunsOfKept
<1>2. \A q \in RunsOf(e) : Payable'[q] = Payable[q]
  BY <1>1, TotalType, PayableKept DEF TypeInv
<1> QED
  BY <1>1, <1>2, ExplainedKept, CleanBefore

\* The debit of the run itself, before it is let through.
LEMMA RootDebit ==
  ASSUME TypeInv, HistoryInv, OwedInv, NEW r \in Run, pc[r] \in DebitSteps, stage[r] = "root"
  PROVE  /\ shouldFinalize[r] /\ owed[r] = 0 /\ ~finalized[r]
         /\ ~executed[r] /\ tally[r] = 0
         /\ AfterFailedDebit(r) = "finalizeRejected"
         /\ DebitCalls(r) = Calls(r)
         /\ OwesPayment(r)
BY DEF HistoryInv, RunHistory, Unpaid, OwedInv, OwesPayment, AfterFailedDebit, DebitCalls,
       DebitSteps

\* Steps on the way to a debit, and free runs.
LEMMA BeforeDebitOwed ==
  ASSUME TypeInv, HistoryInv, OwedInv, NEW r \in Run, pc[r] \in DebitSteps, Advance(r),
         stage[r] = "root", UNCHANGED <<owed, finalized, escrows, stage, shouldFinalize>>,
         \/ Proceed(r) /\ Price(Calls(r)) = 0
         \/ UNCHANGED executed /\ pc'[r] \in DebitSteps \cup {"finalizeRejected"}
  PROVE  OwedInv'
<1>1. /\ UNCHANGED <<terms, request>> /\ pc[r] \notin Over
  BY AdvanceKeeps DEF Over, DebitSteps
<1>2. OwesPayment(r)'
  <2>1. CASE Proceed(r) /\ Price(Calls(r)) = 0
    <3>1. pc'[r] \in {"function", "storage"} /\ executed'[r]
      BY <2>1, RootDebit DEF Proceed, Goto, FirstStep, TypeInv, TypeOK
    <3>2. /\ HasPayment(r)' = HasPayment(r) /\ Terms(r)' = Terms(r)
          /\ Price(Calls(r))' = Price(Calls(r))
      BY <1>1, RunsOfKept
    <3>3. HasPayment(r) => Terms(r).microgons \in Nat
      BY TermsType DEF TypeInv
    <3>4. ~finalized'[r] /\ FreeTables(r)' <= owed'[r]
      BY <1>1, RootDebit, PayableKept DEF OwesPayment
    <3> QED
      BY <2>1, <3>1, <3>2, <3>3, <3>4, RootDebit DEF OwesPayment
  <2>2. CASE UNCHANGED executed /\ pc'[r] \in DebitSteps \cup {"finalizeRejected"}
    <3>1. ~Underway(r)'
      BY <2>2 DEF DebitSteps, Underway
    <3> QED
      BY <1>1, <2>2, <3>1, RootDebit, OwesFrame DEF DebitSteps
  <2> QED
    BY <2>1, <2>2
<1> QED
  BY <1>2, EscrowsNotice, OwedStep

LEMMA DebitOwed ==
  ASSUME TypeInv, HistoryInv, OwedInv, NEW r \in Run, Debit(r), ~AcceptDebit(r),
         stage[r] = "root"
  PROVE  OwedInv'
<1>1. CASE RepeatDebit(r)
  <2>1. /\ UNCHANGED <<owed, finalized, escrows>> /\ pc[r] \in DebitSteps /\ Proceed(r)
        /\ UNCHANGED <<stage, request>>
    BY <1>1 DEF RepeatDebit, DebitRepeated, dbVars, DebitSteps
  <2>2. /\ shouldFinalize'[r] = FALSE
        /\ pc'[r] \in {"function", "storage"} /\ executed'[r]
    BY <1>1, <2>1, RootDebit DEF RepeatDebit, Proceed, Goto, FirstStep, TypeInv, TypeOK
  <2>3. OwesPayment(r)'
    BY <2>1, <2>2, RootDebit, PayableKept DEF OwesPayment
  <2> QED
    BY <2>1, <2>3, EscrowsNotice, OwedStep DEF Advance
<1>2. CASE ~RepeatDebit(r)
  <2>1. /\ pc[r] \in DebitSteps /\ Advance(r)
        /\ UNCHANGED <<owed, finalized, escrows, stage, shouldFinalize>>
    BY <1>2
    DEF Debit, StartDebit, ReadSettlement, RecordSettlement, RefuseDebit, DebitRefused,
        DebitFailed, dbVars, DebitSteps, Advance
  <2>2. AfterFailedDebit(r) = "finalizeRejected" /\ DebitCalls(r) = Calls(r)
    BY <2>1, RootDebit
  <2>3. \/ Proceed(r) /\ Price(Calls(r)) = 0
        \/ UNCHANGED executed /\ pc'[r] \in DebitSteps \cup {"finalizeRejected"}
    BY <1>2, <2>2
    DEF Debit, StartDebit, ReadSettlement, RecordSettlement, RefuseDebit, Goto, TypeInv,
        TypeOK, DebitSteps
  <2> QED
    BY <2>1, <2>3, BeforeDebitOwed
<1> QED
  BY <1>1, <1>2

LEMMA AcceptDebitOwed ==
  ASSUME TypeInv, TypeInv', HistoryInv, OwedInv, NEW r \in Run, AcceptDebit(r),
         stage[r] = "root"
  PROVE  OwedInv'
<1>1. /\ UNCHANGED <<terms, request, stage, shouldFinalize, finalized>> /\ Advance(r)
      /\ pc[r] = "debit" /\ pc[r] \in DebitSteps
      /\ owed'[r] = owed[r] + Terms(r).microgons
      /\ \A q \in Run \ {r} : owed'[q] = owed[q]
  BY DEF AcceptDebit, Advance, Debit, DebitSteps, TypeInv, TypeOK
<1>2. /\ HasPayment(r) /\ EscrowOf(r) \in Escrow /\ Terms(r).microgons \in Nat
      /\ owed[r] = 0 /\ ~finalized[r]
  BY <1>1, DebitKnows, RootDebit
<1>3. /\ escrows[EscrowOf(r)] # None
      /\ escrows[EscrowOf(r)] \in EscrowRow
      /\ Terms(r).microgons <= escrows[EscrowOf(r)].remaining
      /\ escrows' = [escrows EXCEPT ![EscrowOf(r)].remaining
                       = escrows[EscrowOf(r)].remaining - Terms(r).microgons]
  BY <1>2 DEF AcceptDebit, DebitAccepted, CanDebit, TypeInv, TypeOK, DbTypeOK
<1>4. OwesPayment(r)'
  <2>1. /\ HasPayment(r)' = HasPayment(r) /\ Terms(r)' = Terms(r)
        /\ Price(Calls(r))' = Price(Calls(r))
    BY <1>1, RunsOfKept
  <2>2. \/ pc'[r] \in {"function", "storage"} /\ executed'[r]
        \/ pc'[r] = "finalizeRejected"
    BY <1>1, RootDebit DEF AcceptDebit, Proceed, Goto, FirstStep, TypeInv, TypeOK
  <2>3. owed'[r] = Terms(r).microgons /\ owed'[r] <= Terms(r).microgons
    BY <1>1, <1>2
  <2>4. Underway(r)' => executed'[r]
    BY <1>1, <2>2 DEF Underway, DebitSteps
  <2>5. FreeTables(r)' <= owed'[r]
    BY <1>1, <1>2, <2>3 DEF FreeTables
  <2> QED
    BY <1>1, <1>2, <2>1, <2>3, <2>4, <2>5 DEF OwesPayment
<1>6. /\ Payable[r] = 0 /\ Payable'[r] = Terms(r).microgons
      /\ \A q \in Run \ {r} : Payable'[q] = Payable[q]
  <2>1. FreeTables(r) = 0 /\ FreeTables(r)' = 0
    BY <1>1, <1>2 DEF FreeTables
  <2> QED
    BY <1>1, <1>2, <2>1, PayableKept DEF Payable
<1>5. ASSUME NEW e \in Escrow
      PROVE  Explained(e)'
  <2>1. CASE e # EscrowOf(r)
    <3>1. escrows'[e] = escrows[e]
      BY <1>2, <1>3, <2>1 DEF TypeInv, TypeOK, DbTypeOK
    <3>2. RunsOf(e)' = RunsOf(e) /\ \A q \in RunsOf(e) : Payable'[q] = Payable[q]
      BY <1>1, <1>6, <2>1, RunsOfKept DEF RunsOf
    <3> QED
      BY <1>1, <3>1, <3>2, ExplainedKept, CleanBefore
  <2>2. CASE e = EscrowOf(r)
    <3>1. /\ escrows'[e] # None
          /\ escrows'[e].allocated = escrows[e].allocated
          /\ escrows'[e].remaining = escrows[e].remaining - Terms(r).microgons
      <4>1. escrows[e].remaining - Terms(r).microgons \in Nat
        BY <1>2, <1>3, <2>2 DEF EscrowRow
      <4>2. escrows'[e] = [escrows[e] EXCEPT !.remaining
                             = escrows[e].remaining - Terms(r).microgons]
        BY <1>2, <1>3, <2>2 DEF TypeInv, TypeOK, DbTypeOK
      <4>3. escrows'[e] \in EscrowRow
        BY <1>3, <2>2, <4>1, <4>2 DEF EscrowRow
      <4> QED
        BY <1>3, <2>2, <4>2, <4>3, NoneAssumption DEF EscrowRow
    <3>2. Spent(e)' = Spent(e) + Terms(r).microgons
      BY <1>2, <1>3, <2>2, <3>1 DEF Spent, EscrowRow
    <3>4. EscrowOf(r)' = EscrowOf(r)
      BY <1>1, RunsOfKept
    <3>5. \A f : f = e => Explained(f)'
      <4>1. Explained(EscrowOf(r))'
        BY <1>1, <1>2, <1>3, <1>6, <2>2, <3>1, <3>2, <3>4, ExplainedChange
      <4> QED
        BY <2>2, <3>4, <4>1
    <3> QED
      BY <3>5
  <2> QED
    BY <2>1, <2>2
<1> QED
  BY <1>1, <1>4, <1>5, OwedStep

\* As long as payments are remembered, a storage call debits nothing.
Steady == ~RemoteStorage \/ restarts = 0

LEMMA StorageDebitOwed ==
  ASSUME Steady, Priceable, TypeInv, BuyersInv, StorageInv, OwedInv, NEW r \in Run, Debit(r),
         stage[r] = "storage"
  PROVE  OwedInv'
<1>1. restarts = 0
  BY DEF Steady, StorageInv, AsksStorage
<1>2. StorageDebit(r) /\ Advance(r) /\ UNCHANGED <<terms, request>>
  BY <1>1, StorageNotDebited, StorageDebitSteps, AdvanceKeeps DEF Advance
<1>3. pc[r] \notin Over /\ Underway(r)
  BY <1>2 DEF StorageDebit, Underway, DebitSteps, Over
<1>4. OwesPayment(r)'
  BY <1>2, <1>3, OwesFrame DEF StorageDebit, OwedInv, Over
<1> QED
  BY <1>2, <1>4, EscrowsNotice, OwedStep DEF StorageDebit

\* The calls are run.
LEMMA ExecuteOwed ==
  ASSUME Steady, TypeInv, StorageInv, OwedInv, NEW r \in Run, Execute(r)
  PROVE  OwedInv'
<1>1. Advance(r) /\ UNCHANGED <<terms, request>>
  BY AdvanceKeeps DEF Advance
<1>2. /\ UNCHANGED <<owed, finalized, shouldFinalize, executed>>
      /\ pc[r] \in {"function", "storage", "storageQuery"}
  BY DEF Execute, RunFunction, QueryLocalStorage, CallStorageEngine, RunStorageEngine
<1>3. UNCHANGED escrows
  <2>1. CASE RunStorageEngine(r)
    <3>1. pc[r] = "storageQuery" /\ stage[r] = "storage" /\ restarts = 0
      BY <2>1 DEF RunStorageEngine, StorageInv, AsksStorage, Steady
    <3>2. ~(storageFinalize[r] /\ HasPayment(r))
      BY <3>1 DEF StorageInv, AsksStorage
    <3> QED
      BY <2>1, <3>2 DEF RunStorageEngine, dbVars
  <2>2. CASE ~RunStorageEngine(r)
    BY <2>2 DEF Execute, RunFunction, QueryLocalStorage, CallStorageEngine, dbVars
  <2> QED
    BY <2>1, <2>2
<1>4. Underway(r) /\ pc[r] \notin Over
  BY <1>2 DEF Underway, Over
<1>5. OwesPayment(r)'
  BY <1>1, <1>2, <1>4, OwesFrame DEF OwedInv
<1> QED
  BY <1>1, <1>2, <1>3, <1>5, EscrowsNotice, OwedStep

\* A run that finalized a payment is over, or goes on owing nothing.
LEMMA FinalizedOwes ==
  ASSUME TypeInv, HistoryInv, OwedInv, NEW r \in Run, Finalize(r)
  PROVE  /\ OwesPayment(r)'
         /\ Finalizes(r) => Payable'[r] = FinalPrice(r) /\ FinalPrice(r) \in Nat
<1>1. /\ UNCHANGED <<terms, request, stage, shouldFinalize, executed>>
      /\ pc[r] \in {"finalize", "finalizeRejected", "refinalize"}
      /\ pc'[r] \in {"done", "rejected", "refinalize"}
      /\ pc'[r] = "refinalize" => pc[r] = "finalizeRejected" /\ Finalizes(r)
      /\ Finalizes(r) => owed'[r] = Cost(r)
      /\ ~Finalizes(r) => UNCHANGED <<owed[r], finalized[r]>>
      /\ Finalizes(r) => finalized'[r] = (finalized[r] \/ pc[r] = "finalize")
  BY DEF Finalize, Owe, Goto, AfterFailedFinalize, TypeInv, TypeOK
<1>2. pc'[r] = "refinalize" => owed'[r] = 0
  BY <1>1 DEF Cost, HistoryInv, RunHistory
<1>3. /\ HasPayment(r)' = HasPayment(r) /\ Terms(r)' = Terms(r)
      /\ Uses(r, "table")' = Uses(r, "table")
  BY <1>1, RunsOfKept DEF Uses, Calls
<1>4. HasPayment(r) => Terms(r).microgons \in Nat
  BY TermsType DEF TypeInv
<1>5. ~Underway(r)'
  BY <1>1 DEF Underway, DebitSteps
<1>6. ~finalized[r] /\ FreeTables(r) <= owed[r]
  BY <1>1 DEF OwedInv, OwesPayment
<1>7. FinalPrice(r) \in Nat /\ Cost(r) \in Nat /\ tally[r] \in Nat /\ TablePrice \in Nat
  BY FinalPriceType, PricesAssumption DEF TypeInv, TypeOK
<1>8. ASSUME Finalizes(r)
      PROVE  FreeTables(r)' = Cost(r) - FinalPrice(r)
  <2>1. CASE pc[r] # "finalize"
    <3>1. ~finalized'[r]
      BY <1>1, <1>6, <1>8, <2>1
    <3>2. FreeTables(r)' = 0
      BY <3>1 DEF FreeTables
    <3>3. Cost(r) = tally[r] /\ FinalPrice(r) = tally[r]
      BY <2>1 DEF Cost, FinalPrice
    <3> QED
      BY <1>7, <3>2, <3>3
  <2>2. CASE pc[r] = "finalize"
    <3>1. finalized'[r]
      BY <1>1, <1>8, <2>2
    <3>2. CASE RemoteStorage /\ Uses(r, "table") /\ request[r].endpoint = "query"
      <4>1. FreeTables(r)' = TablePrice
        BY <1>1, <1>3, <3>1, <3>2 DEF FreeTables
      <4>2. Cost(r) = tally[r] + TablePrice /\ FinalPrice(r) = tally[r]
        BY <2>2, <3>2 DEF Cost, FinalPrice
      <4> QED
        BY <1>7, <4>1, <4>2
    <3>3. CASE ~(RemoteStorage /\ Uses(r, "table") /\ request[r].endpoint = "query")
      <4>1. FreeTables(r)' = 0
        BY <1>1, <1>3, <3>3 DEF FreeTables
      <4>2. Cost(r) = FinalPrice(r)
        BY <3>3 DEF Cost, FinalPrice
      <4> QED
        BY <1>7, <4>1, <4>2
    <3> QED
      BY <3>2, <3>3
  <2> QED
    BY <2>1, <2>2
<1>9. Finalizes(r) => Payable'[r] = FinalPrice(r)
  <2> SUFFICES ASSUME Finalizes(r) PROVE Payable'[r] = FinalPrice(r)
    OBVIOUS
  <2>1. Payable'[r] = owed'[r] - FreeTables(r)'
    BY DEF Payable
  <2> QED
    BY <1>1, <1>7, <1>8, <2>1
<1>10. FreeTables(r)' <= owed'[r]
  <2>1. CASE Finalizes(r)
    BY <1>1, <1>7, <1>8, <2>1
  <2>2. CASE ~Finalizes(r)
    BY <1>1, <1>6, <2>2, PayableKept
  <2> QED
    BY <2>1, <2>2
<1>11. finalized'[r] => pc'[r] \in {"done", "rejected"}
  BY <1>1, <1>6
<1>12. OwesPayment(r)'
  <2>1. (shouldFinalize[r] /\ HasPayment(r) /\ pc'[r] \notin Over)
          => owed'[r] <= Terms(r).microgons
    BY <1>1, <1>2, <1>4 DEF Over
  <2> QED
    BY <1>1, <1>3, <1>5, <1>10, <1>11, <2>1 DEF OwesPayment
<1> QED
  BY <1>7, <1>9, <1>12

\* What finalizing takes from the escrow: the final price instead of what the
\* payment pays.
LEMMA FinalizedSpends ==
  ASSUME TypeInv, TypeInv', EntriesMatchTerms, NEW r \in Run, HasPayment(r),
         FinalizePayment(EscrowOf(r), Payment(r), FinalPrice(r)), FinalPrice(r) \in Nat,
         escrows[EscrowOf(r)] # None, EscrowOf(r)' = EscrowOf(r)
  PROVE  /\ escrows'[EscrowOf(r)] # None
         /\ Spent(EscrowOf(r))'
              = Spent(EscrowOf(r)) + (FinalPrice(r) - Terms(r).microgons)
<1>1. /\ EscrowOf(r) \in Escrow /\ Payment(r) \in Uuid /\ Terms(r).microgons \in Nat
  BY TermsType DEF TypeInv
<1> DEFINE adjustment == Adjustment(EscrowOf(r), Payment(r), FinalPrice(r))
<1>2. adjustment = Terms(r).microgons - FinalPrice(r)
  BY <1>1 DEF FinalizePayment, FinalizeSucceeds, EntriesMatchTerms, Adjustment, Terms
<1>3. PICK e \in Escrow : e = EscrowOf(r)
  BY <1>1
<1>4. escrows[e] \in EscrowRow
  BY <1>3 DEF TypeInv, TypeOK, DbTypeOK
<1>5. adjustment \in Int
  BY <1>1, <1>2
<1>6. CASE adjustment = 0
  <2>1. escrows' = escrows
    BY <1>6 DEF FinalizePayment
  <2>2. Spent(e)' = Spent(e) /\ Spent(e) \in Int
    BY <1>3, <2>1, SpentType DEF Spent, TypeInv
  <2>3. FinalPrice(r) - Terms(r).microgons = 0
    BY <1>1, <1>2, <1>6
  <2> QED
    BY <1>3, <2>1, <2>2, <2>3
<1>7. CASE adjustment # 0
  <2>1. escrows' = [escrows EXCEPT ![e].remaining = @ + adjustment]
    BY <1>3, <1>7 DEF FinalizePayment
  <2>2. escrows[e].remaining + adjustment \in 0 .. escrows[e].allocated
    BY <1>3, <1>7 DEF FinalizePayment, FinalizeSucceeds, CanAdjust
  <2> HIDE DEF adjustment
  <2>3. escrows'[e] = [escrows[e] EXCEPT !.remaining = @ + adjustment]
    BY <2>1 DEF TypeInv, TypeOK, DbTypeOK
  <2>4. /\ escrows'[e].allocated = escrows[e].allocated
        /\ escrows'[e].remaining = escrows[e].remaining + adjustment
    BY <1>4, <2>3 DEF EscrowRow
  <2>5. escrows'[e] \in EscrowRow
    BY <1>4, <2>2, <2>3 DEF EscrowRow
  <2>6. escrows'[e] # None
    BY <2>5, NoneAssumption
  <2>7. Spent(e)' = Spent(e) + (FinalPrice(r) - Terms(r).microgons)
    BY <1>1, <1>2, <1>4, <1>5, <2>4 DEF Spent, EscrowRow
  <2> QED
    BY <1>3, <2>6, <2>7
<1> QED
  BY <1>6, <1>7

LEMMA FinalizeOwed ==
  ASSUME TypeInv, TypeInv', HistoryInv, OwedInv, NEW r \in Run, Finalize(r)
  PROVE  OwedInv'
<1>1. /\ UNCHANGED <<terms, request, stage, shouldFinalize, executed>> /\ Advance(r)
      /\ pc[r] \in {"finalize", "finalizeRejected", "refinalize"}
      /\ \A q \in Run \ {r} : owed'[q] = owed[q]
  BY DEF Finalize, Finalizes, Owe, Advance, Complete, TypeInv, TypeOK
<1>2. OwesPayment(r)'
  BY FinalizedOwes
<1>3. CASE ~Finalizes(r)
  <2>1. UNCHANGED <<owed, finalized, escrows>>
    BY <1>3 DEF Finalize, Finalizes, Owe, dbVars, TypeInv, TypeOK
  <2> QED
    BY <1>1, <1>2, <2>1, EscrowsNotice, OwedStep
<1>4. CASE Finalizes(r)
  <2>1. /\ FinalizePayment(EscrowOf(r), Payment(r), FinalPrice(r))
        /\ Payable'[r] = FinalPrice(r)
        /\ HasPayment(r) /\ shouldFinalize[r]
        /\ pc'[r] \in {"done", "rejected", "refinalize"}
    BY <1>4, FinalizedOwes
    DEF Finalize, Finalizes, Goto, AfterFailedFinalize, TypeInv, TypeOK
  <2>2. /\ EscrowOf(r) \in Escrow /\ Terms(r).microgons \in Nat
        /\ Payable[r] = owed[r] /\ owed[r] \in Nat /\ Payable'[r] \in Nat
    <3>1. EscrowOf(r) \in Escrow /\ Terms(r).microgons \in Nat
      BY <2>1, TermsType DEF TypeInv
    <3>2. ~finalized[r]
      BY <1>1 DEF OwedInv, OwesPayment
    <3>3. Payable[r] = owed[r] /\ owed[r] \in Nat
      BY <3>2, FreeTablesType DEF TypeInv
    <3> QED
      BY <1>4, <2>1, <3>1, <3>3, FinalizedOwes
  <2>3. owed[r] <= Terms(r).microgons
    BY <1>1, <2>1 DEF OwedInv, OwesPayment, Over
  <2>4. /\ EscrowOf(r)' = EscrowOf(r) /\ HasPayment(r)' = HasPayment(r)
        /\ Price(Calls(r))' = Price(Calls(r))
        /\ \A e : RunsOf(e)' = RunsOf(e)
    BY <1>1, RunsOfKept
  <2>5. ASSUME Clean(EscrowOf(r))'
        PROVE  owed[r] = Terms(r).microgons
    <3>1. r \in RunsOf(EscrowOf(r))
      BY <2>1 DEF RunsOf
    <3>2. ~DebitThrew(r)' /\ Price(Calls(r)) # 0
      BY <2>4, <2>5, <3>1 DEF Clean
    <3>3. executed[r]
      BY <1>1, <2>1, <3>2 DEF DebitThrew
    <3>4. pc[r] = "finalize"
      BY <1>1, <3>3 DEF HistoryInv, RunHistory
    <3> QED
      BY <2>1, <3>2, <3>4 DEF OwedInv, OwesPayment, Underway
  <2>6. ASSUME NEW e \in Escrow, e # EscrowOf(r)
        PROVE  Explained(e)'
    <3>1. escrows'[e] = escrows[e]
      BY <2>1, <2>2, <2>6 DEF FinalizePayment, TypeInv, TypeOK, DbTypeOK
    <3>2. \A q \in RunsOf(e) : Payable'[q] = Payable[q]
      BY <1>1, <2>6, AdvanceKeeps, PayableKept DEF RunsOf, OthersKept
    <3> QED
      BY <1>1, <2>4, <3>1, <3>2, ExplainedKept, CleanBefore
  <2>7. Explained(EscrowOf(r))'
    <3>1. CASE escrows[EscrowOf(r)] = None
      <4>1. escrows'[EscrowOf(r)] = None
        BY <2>1, <2>2, <3>1
        DEF FinalizePayment, FinalizeSucceeds, CanAdjust, TypeInv, TypeOK, DbTypeOK
      <4> QED
        BY <2>4, <4>1 DEF Explained
    <3>2. CASE escrows[EscrowOf(r)] # None
      <4>1. /\ escrows'[EscrowOf(r)] # None
            /\ Spent(EscrowOf(r))'
                 = Spent(EscrowOf(r)) + (FinalPrice(r) - Terms(r).microgons)
        BY <2>1, <2>2, <2>4, <3>2, FinalizedSpends, FinalPriceType DEF HistoryInv, TypeInv
      <4>2. /\ FinalPrice(r) - Terms(r).microgons \in Int
            /\ Payable[r] + (FinalPrice(r) - Terms(r).microgons) <= Payable'[r]
        BY <2>1, <2>2, <2>3
      <4>3. Clean(EscrowOf(r))' =>
              Payable[r] + (FinalPrice(r) - Terms(r).microgons) = Payable'[r]
        BY <2>1, <2>2, <2>5
      <4> QED
        BY <1>1, <2>1, <2>2, <3>2, <4>1, <4>2, <4>3, ExplainedChange
    <3> QED
      BY <3>1, <3>2
  <2>8. \A e \in Escrow : Explained(e)'
    <3>1. PICK e \in Escrow : e = EscrowOf(r)
      BY <2>2
    <3>2. Explained(e)'
      BY <2>4, <2>7, <3>1
    <3> QED
      BY <2>6, <3>1, <3>2
  <2> QED
    BY <1>1, <1>2, <2>8, OwedStep
<1> QED
  BY <1>3, <1>4

LEMMA FailFinalizeOwed ==
  ASSUME TypeInv, OwedInv, NEW r \in Run, FailFinalize(r)
  PROVE  OwedInv'
<1>1. /\ UNCHANGED <<terms, request, owed, finalized, shouldFinalize, stage, executed, escrows>>
      /\ pc[r] \notin Over /\ pc'[r] \in {"refinalize", "rejected"}
  BY DEF FailFinalize, Finalizes, Goto, AfterFailedFinalize, dbVars, Over, TypeInv, TypeOK
<1>2. ~Underway(r)'
  BY <1>1 DEF Underway, DebitSteps
<1>3. OwesPayment(r)'
  BY <1>1, <1>2, OwesFrame DEF OwedInv, Over
<1> QED
  BY <1>1, <1>3, EscrowsNotice, OwedStep DEF Advance, Complete

LEMMA AdvanceOwed ==
  ASSUME Steady, Priceable, TypeInv, TypeInv', HistoryInv, BuyersInv, StorageInv, OwedInv,
         NEW r \in Run, Advance(r)
  PROVE  OwedInv'
<1>1. stage[r] \in {"root", "storage"}
  BY DEF TypeInv, TypeOK
<1>2. CASE Debit(r)
  BY <1>1, <1>2, DebitOwed, AcceptDebitOwed, StorageDebitOwed
<1>3. CASE Execute(r) \/ Complete(r)
  BY <1>3, ExecuteOwed, FinalizeOwed, FailFinalizeOwed DEF Complete
<1> QED
  BY <1>2, <1>3 DEF Advance

(* The environment *)

\* Runs are left alone or cut short, rows are left alone or removed.
LEMMA RunsCutShort ==
  ASSUME TypeInv, OwedInv,
         UNCHANGED <<terms, request, owed, finalized, shouldFinalize, stage, executed>>,
         \A r \in Run : \/ pc'[r] = pc[r]
                        \/ pc[r] \notin Over /\ pc'[r] \in {"crashed", "finalizeRejected"},
         \A e \in Escrow : escrows'[e] \in {None, escrows[e]} \/ Explained(e)'
  PROVE  OwedInv'
<1>1. ASSUME NEW r \in Run
      PROVE  OwesPayment(r)'
  <2>1. /\ pc'[r] \in Over \/ pc[r] \notin Over
        /\ Underway(r)' => Underway(r)
        /\ pc[r] \in {"done", "rejected"} => pc'[r] = pc[r]
    BY DEF Underway, DebitSteps, Over
  <2> QED
    BY <2>1, OwesFrame DEF OwedInv
<1>2. ASSUME NEW e \in Escrow, escrows'[e] \in {None, escrows[e]}
      PROVE  Explained(e)'
  <2>1. RunsOf(e)' = RunsOf(e) /\ \A r \in Run : Price(Calls(r))' = Price(Calls(r))
    BY RunsOfKept
  <2>2. ASSUME Clean(e)', NEW r \in RunsOf(e)
        PROVE  ~DebitThrew(r) /\ Price(Calls(r)) # 0
    <3>1. r \in Run /\ ~DebitThrew(r)' /\ Price(Calls(r))' # 0
      BY <2>1, <2>2 DEF Clean, RunsOf
    <3> QED
      BY <2>1, <3>1 DEF DebitThrew
  <2>3. Clean(e)' => Clean(e)
    BY <2>2 DEF Clean
  <2>4. \A r \in RunsOf(e) : Payable'[r] = Payable[r]
    BY TotalType, PayableKept DEF TypeInv
  <2> QED
    BY <1>2, <2>1, <2>3, <2>4, ExplainedKept
<1>3. \A e \in Escrow : Explained(e)'
  BY <1>2
<1> QED
  BY <1>1, <1>3 DEF OwedInv

\* Nothing was paid from an escrow that the localchain did not know.
LEMMA RegisterOwed ==
  ASSUME TypeInv, HistoryInv, OwedInv, NEW e \in Escrow, NEW milligons \in Milligons \ {0},
         NEW expirationDate \in 0 .. MaxTime, RegisterEscrow(e, milligons, expirationDate)
  PROVE  OwedInv'
<1>1. /\ UNCHANGED <<terms, request, owed, finalized, shouldFinalize, stage, executed, pc>>
      /\ localchain[e] = None
      /\ escrows' = [escrows EXCEPT ![e] =
           [allocated |-> milligons * MicrogonsPerMilligon,
            remaining |-> milligons * MicrogonsPerMilligon,
            expirationDate |-> expirationDate]]
  BY DEF RegisterEscrow, CreateEscrow, runVars
<1>2. milligons * MicrogonsPerMilligon \in Nat
  BY BoundsAssumption, MicrogonsPerMilligonAssumption DEF Milligons
<1>3. Spent(e)' = 0
  BY <1>1, <1>2 DEF Spent, TypeInv, TypeOK, DbTypeOK
<1>4. \A r \in RunsOf(e) : owed[r] = 0 /\ Payable[r] \in Nat /\ Payable[r] <= owed[r]
  BY <1>1, TotalType, PayableType
  DEF HistoryInv, RunHistory, RunsOf, TypeInv, OwedInv, OwesPayment
<1>5. SumFunctionOnSet(Payable, RunsOf(e)) = 0
  BY <1>4, TotalType, SumOfZeros DEF TypeInv
<1>6. TotalPayable(e)' = 0
  <2>1. Payable' = Payable
    BY <1>1 DEF Payable, FreeTables, Uses, Calls
  <2> QED
    BY <1>1, <1>5, <2>1, RunsOfKept DEF TotalPayable
<1>7. Explained(e)'
  BY <1>3, <1>6 DEF Explained
<1>8. \A f \in Escrow : escrows'[f] \in {None, escrows[f]} \/ Explained(f)'
  BY <1>1, <1>7 DEF TypeInv, TypeOK, DbTypeOK
<1> QED
  BY <1>1, <1>8, RunsCutShort

LEMMA SubmitOwed ==
  ASSUME TypeInv, TypeInv', HistoryInv, OwedInv, NEW r \in Run, NEW offer \in Offers,
         NEW payment \in Uuid \cup {None}, NEW root \in QueryRoot,
         Submit(r, offer, payment, root)
  PROVE  OwedInv'
<1>1. /\ UNCHANGED <<terms, owed, finalized, shouldFinalize, stage, executed, escrows>>
      /\ pc[r] = "idle" /\ pc'[r] = "startDebit"
      /\ \A q \in Run \ {r} : pc'[q] = pc[q] /\ request'[q] = request[q]
  BY DEF Submit, Goto, dbVars, TypeInv, TypeOK
<1>2. ~HasPayment(r) /\ owed[r] = 0 /\ stage[r] = "root" /\ ~finalized[r]
  BY <1>1 DEF HistoryInv, RunHistory, Unpaid, OwedInv, OwesPayment
<1>7. Payable'[r] = 0 /\ \A q \in Run \ {r} : Payable'[q] = Payable[q]
  <2>1. FreeTables(r)' = 0
    BY <1>1, <1>2 DEF FreeTables
  <2> QED
    BY <1>1, <1>2, <2>1, PayableKept DEF Payable
<1>3. OwesPayment(r)'
  <2>1. HasPayment(r)' => Terms(r)'.microgons \in Nat
    BY TermsType DEF TypeInv, TypeOK, HasPayment, Payment, Request, Terms, PaymentTerms
  <2>2. FreeTables(r)' <= owed'[r]
    BY <1>1, <1>2 DEF FreeTables
  <2> QED
    BY <1>1, <1>2, <2>1, <2>2 DEF OwesPayment, Underway, DebitSteps
<1>4. ASSUME NEW q \in Run \ {r}
      PROVE  OwesPayment(q)'
  <2>1. Underway(q)' = Underway(q)
    BY <1>1 DEF Underway
  <2> QED
    BY <1>1, <2>1, OwesFrame DEF OwedInv
<1>5. ASSUME NEW e \in Escrow
      PROVE  Explained(e)'
  <2>1. ASSUME NEW q \in Run \ {r}
        PROVE  /\ q \in RunsOf(e)' <=> q \in RunsOf(e)
               /\ Price(Calls(q))' = Price(Calls(q)) /\ DebitThrew(q)' = DebitThrew(q)
    BY <1>1 DEF RunsOf, HasPayment, EscrowOf, Terms, Payment, Calls, DebitThrew
  <2>2. /\ RunsOf(e)' \in {RunsOf(e), RunsOf(e) \cup {r}} /\ r \notin RunsOf(e)
    <3>1. r \notin RunsOf(e) /\ RunsOf(e) \subseteq Run /\ RunsOf(e)' \subseteq Run
      BY <1>2 DEF RunsOf
    <3> QED
      BY <2>1, <3>1
  <2>3. \A q \in RunsOf(e) : Payable[q] \in Nat /\ Payable[q] = Payable'[q]
    BY <1>7, <2>2, TotalType DEF TypeInv
  <2>7. SumFunctionOnSet(Payable', RunsOf(e)) = TotalPayable(e)
    BY <2>3, TotalType, SumAgrees DEF TypeInv, TotalPayable
  <2>4. TotalPayable(e)' = TotalPayable(e)
    <3>1. CASE RunsOf(e)' = RunsOf(e)
      BY <2>7, <3>1 DEF TotalPayable
    <3>2. CASE RunsOf(e)' = RunsOf(e) \cup {r}
      <4>3. \A q \in RunsOf(e) : Payable'[q] \in Nat
        BY <2>3
      <4>1. SumFunctionOnSet(Payable', RunsOf(e) \cup {r})
              = SumFunctionOnSet(Payable', RunsOf(e)) + Payable'[r]
        BY <1>7, <2>2, <4>3, TotalType, SumWith DEF TypeInv
      <4>2. TotalPayable(e)' = TotalPayable(e) + 0
        BY <1>7, <2>7, <3>2, <4>1 DEF TotalPayable
      <4> QED
        BY <4>2, TotalType DEF TypeInv
    <3> QED
      BY <2>2, <3>1, <3>2
  <2>5. Clean(e)' => Clean(e)
    <3> SUFFICES ASSUME Clean(e)', NEW q \in RunsOf(e)
                 PROVE  ~DebitThrew(q) /\ Price(Calls(q)) # 0
      BY DEF Clean
    <3>1. q \in Run \ {r} /\ q \in RunsOf(e)'
      BY <2>1, <2>2 DEF RunsOf
    <3> QED
      BY <2>1, <3>1 DEF Clean
  <2>6. Explained(e) /\ escrows'[e] = escrows[e]
    BY <1>1 DEF OwedInv
  <2> QED
    BY <2>4, <2>5, <2>6 DEF Explained, Spent
<1> QED
  BY <1>3, <1>4, <1>5 DEF OwedInv

LEMMA EnvironmentOwed ==
  ASSUME Steady', TypeInv, TypeInv', HistoryInv, StorageInv, OwedInv, Environment
  PROVE  OwedInv'
<1>1. ASSUME CleanupEscrows \/ Tick
      PROVE  OwedInv'
  <2>1. /\ UNCHANGED <<terms, request, owed, finalized, shouldFinalize, stage, executed, pc>>
        /\ \A e \in Escrow : escrows'[e] \in {None, escrows[e]}
    BY <1>1 DEF CleanupEscrows, Cleanup, Tick, runVars, dbVars
  <2> QED
    BY <2>1, RunsCutShort
<1>2. ASSUME RestartTracker
      PROVE  OwedInv'
  <2>1. /\ UNCHANGED <<terms, request, owed, finalized, shouldFinalize, stage, executed, escrows>>
        /\ \A r \in Run : \/ pc'[r] = pc[r]
                          \/ pc[r] \notin Over /\ pc'[r] = AfterFailedDebit(r)
    BY <1>2 DEF RestartTracker, ForgetPayments, Over
  <2>2. restarts' # 0
    BY <1>2, BoundsAssumption DEF RestartTracker, TypeInv, TypeOK
  <2>3. \A r \in Run : stage[r] = "root"
    BY <2>2 DEF Steady, StorageInv, AsksStorage, TypeInv, TypeOK
  <2>4. \A r \in Run : AfterFailedDebit(r) = "finalizeRejected"
    BY <2>3 DEF AfterFailedDebit
  <2> QED
    BY <2>1, <2>4, RunsCutShort
<1>3. ASSUME RestartNode
      PROVE  OwedInv'
  <2>1. /\ UNCHANGED <<terms, request, owed, finalized, shouldFinalize, stage, executed, escrows>>
        /\ \A r \in Run : \/ pc'[r] = pc[r]
                          \/ pc[r] \notin Over /\ pc'[r] = "crashed"
    BY <1>3 DEF RestartNode, dbVars
  <2> QED
    BY <2>1, RunsCutShort
<1> QED
  BY <1>1, <1>2, <1>3, RegisterOwed, SubmitOwed DEF Environment

LEMMA InitOwed == Init => OwedInv
<1> SUFFICES ASSUME Init PROVE OwedInv
  OBVIOUS
<1>1. \A r \in Run : OwesPayment(r)
  BY DEF Init, OwesPayment, Over, Underway, DebitSteps, FreeTables
<1>2. \A e \in Escrow : Explained(e)
  BY DEF Init, DbInit, Explained
<1> QED
  BY <1>1, <1>2 DEF OwedInv

LEMMA NextOwed ==
  ASSUME Priceable, TypeInv, TypeInv', HistoryInv, BuyersInv, StorageInv,
         Steady => OwedInv, [Next]_vars
  PROVE  Steady' => OwedInv'
<1> SUFFICES ASSUME Steady' PROVE OwedInv'
  OBVIOUS
<1>1. restarts' = 0 => restarts = 0
  <2>1. restarts' \in {restarts, restarts + 1}
    BY AdvanceKeeps
    DEF Next, Environment, Submit, RegisterEscrow, CleanupEscrows, RestartTracker, RestartNode,
        Tick, vars
  <2>2. restarts \in Nat
    BY BoundsAssumption DEF TypeInv, TypeOK
  <2> QED
    BY <2>1, <2>2
<1>2. Steady /\ OwedInv
  BY <1>1 DEF Steady
<1>3. CASE UNCHANGED vars
  BY <1>2, <1>3, RunsCutShort DEF vars, runVars, dbVars
<1> QED
  BY <1>2, <1>3, AdvanceOwed, EnvironmentOwed DEF Next

LEMMA OwedHolds ==
  ASSUME Priceable
  PROVE  Spec => [](Steady => OwedInv)
<1>1. Init => (Steady => OwedInv)
  BY InitOwed
<1>2. TypeInv /\ TypeInv' /\ HistoryInv /\ BuyersInv /\ StorageInv /\ (Steady => OwedInv)
        /\ [Next]_vars => (Steady' => OwedInv')
  BY NextOwed
<1> QED
  BY <1>1, <1>2, TypeInvHolds, HistoryHolds, BuyersHold, StorageHolds, PTL DEF Spec

\* With the tables on the node itself, an escrow pays what its runs cost, and holds
\* the price of those that are not over, whatever the order of debits, answers that
\* are lost, finalizations, cleanups and restarts: as long as each of its runs had a
\* price and no debit of one threw.
THEOREM SpendAlwaysOwed ==
  ASSUME ~RemoteStorage
  PROVE  Spec => []SpendIsOwed
<1>1. Priceable
  BY DEF Priceable
<1>2. TypeInv /\ (Steady => OwedInv) => SpendIsOwed
  <2> SUFFICES ASSUME TypeInv, OwedInv, NEW e \in Escrow, escrows[e] # None, Clean(e)
               PROVE  Spent(e) = TotalOwed(e)
    BY DEF Steady, SpendIsOwed
  <2>1. Spent(e) = TotalPayable(e)
    BY DEF OwedInv, Explained
  <2> QED
    BY <2>1, PayableIsOwed DEF TypeInv
<1> QED
  BY <1>1, <1>2, OwedHolds, TypeInvHolds, PTL

LEMMA OwedNeverOvercharged ==
  ASSUME TypeInv, OwedInv
  PROVE  NeverOvercharged
<1> SUFFICES ASSUME NEW e \in Escrow, escrows[e] # None PROVE Spent(e) <= TotalOwed(e)
  BY DEF NeverOvercharged
<1>1. /\ Spent(e) <= TotalPayable(e)
      /\ TotalPayable(e) <= TotalOwed(e) /\ TotalPayable(e) \in Nat
      /\ Spent(e) \in Int
  BY PayableIsOwed, TotalType, SpentType DEF TypeInv, OwedInv, Explained
<1>2. TotalOwed(e) \in Nat
  <2>1. \A r \in RunsOf(e) : owed[r] \in Nat
    BY TotalType, FreeTablesType DEF TypeInv
  <2> QED
    BY <2>1, TotalType, SumType DEF TypeInv, TotalOwed
<1> QED
  BY <1>1, <1>2

\* And never more than they cost, without that condition.
THEOREM PayersNeverOvercharged ==
  ASSUME ~RemoteStorage
  PROVE  Spec => []NeverOvercharged
<1>1. Priceable
  BY DEF Priceable
<1>2. TypeInv /\ (Steady => OwedInv) => NeverOvercharged
  BY OwedNeverOvercharged DEF Steady
<1> QED
  BY <1>1, <1>2, OwedHolds, TypeInvHolds, PTL

\* With the tables on another host, and as long as the tracker remembers which run
\* debited a payment, an escrow pays what its runs cost, but for the tables of the
\* queries that were finalized, which are free: if all that is sent there has a price.
\* A storage call finds the payment debited by the run it is part of, and leaves it to
\* that one to finalize it, which leaves out the tables.
THEOREM OnlyTablesFreeUntilRestart ==
  ASSUME TablesArePriced
  PROVE  Spec => []OnlyTablesAreFree
<1>1. Priceable
  BY DEF Priceable
<1>2. (Steady => OwedInv) => OnlyTablesAreFree
  BY DEF Steady, OwedInv, OnlyTablesAreFree
<1> QED
  BY <1>1, <1>2, OwedHolds, PTL

\* Nor is a payer charged more than its runs cost there.
THEOREM RemoteNeverOvercharged ==
  ASSUME TablesArePriced
  PROVE  Spec => [](restarts = 0 => NeverOvercharged)
<1>1. Priceable
  BY DEF Priceable
<1>2. TypeInv /\ (Steady => OwedInv) => (restarts = 0 => NeverOvercharged)
  BY OwedNeverOvercharged DEF Steady
<1> QED
  BY <1>1, <1>2, OwedHolds, TypeInvHolds, PTL

-----------------------------------------------------------------------------
(* What the documentation says, where it holds *)

\* "A one time payment id" (IPayment.ts): as long as the process that keeps the
\* payments has not restarted, no payment is debited for two runs.
THEOREM PaymentIdIsOneTime == Spec => [](restarts = 0 => OneTimePayment)
<1>1. RequestedInv /\ BuyersInv => (restarts = 0 => OneTimePayment)
  BY DEF RequestedInv, Requested, BuyersInv, OneTimePayment
<1> QED
  BY <1>1, BuyersHold, RequestedHolds, PTL

OffersHavePrices == \A offer \in Offers : Price(offer.calls) # 0

\* Once all requests of an escrow are answered, and none was rejected, it has
\* paid what they cost: if no offer is free, and the tables are on the node itself.
THEOREM AnsweredQueriesPaid ==
  ASSUME OffersHavePrices, ~RemoteStorage
  PROVE  Spec => []AnsweredQueriesArePaid
<1>1. RequestedInv /\ SpendIsOwed => AnsweredQueriesArePaid
  <2> SUFFICES ASSUME RequestedInv, SpendIsOwed, NEW e \in Escrow, escrows[e] # None,
                      \A r \in RunsOf(e) : pc[r] = "done" /\ executed[r]
               PROVE  Spent(e) = TotalOwed(e)
    BY DEF AnsweredQueriesArePaid
  <2>1. ASSUME NEW r \in RunsOf(e)
        PROVE  ~DebitThrew(r) /\ Price(Calls(r)) # 0
    <3>1. r \in Run /\ pc[r] = "done" /\ executed[r]
      BY DEF RunsOf
    <3>2. PICK offer \in Offers : offer.calls = Calls(r)
      BY <3>1 DEF RequestedInv, Requested
    <3> QED
      BY <3>1, <3>2 DEF DebitThrew, OffersHavePrices
  <2> QED
    BY <2>1 DEF SpendIsOwed, Clean
<1> QED
  BY <1>1, RequestedHolds, SpendAlwaysOwed, PTL
=============================================================================
