---------------------------- MODULE QueryPayments ----------------------------
(***************************************************************************)
(* How a datastore node charges queries to payment-channel escrows.        *)
(*                                                                         *)
(* A run is one Datastore.query or Datastore.stream request.  Its          *)
(* QueryRunner asks the PaymentsProcessor to debit the price of the        *)
(* entities it calls, runs them, and finalizes the payment with the price  *)
(* of the calls that succeeded.  PaymentsProcessor goes through the        *)
(* EscrowSpendTracker, in the same process or behind a service connection, *)
(* which records the settlement that came with the payment in the          *)
(* localchain and then debits the escrow (EscrowsDb).  When the tables     *)
(* live on a remote storage engine, the run calls                          *)
(* Datastore.queryStorageEngine, which debits the same payment again under *)
(* the query id with the suffix ".Q".                                      *)
(*                                                                         *)
(* Runs interleave at every await: pc[r] is where run r waits.             *)
(***************************************************************************)
EXTENDS EscrowsDb, FiniteSets, Functions

CONSTANTS
  Run,             \* requests
  MaxMilligons,    \* largest escrow and settlement
  MaxTime,         \* bound on the clock
  MaxRestarts,     \* bound on restarts
  FunctionPrice,   \* base price of the datastore's function
  UpstreamPrice,   \* what the manifest adds for the function's upstream call
  TablePrice,      \* base price of the datastore's table
  RemoteStorage,   \* are the tables on a remote storage engine?
  Offers           \* the calls requests make: see Offer

ASSUME BoundsAssumption ==
  /\ MaxMilligons \in Nat
  /\ MaxTime \in Nat
  /\ MaxRestarts \in Nat

ASSUME PricesAssumption ==
  /\ FunctionPrice \in Nat
  /\ UpstreamPrice \in Nat
  /\ TablePrice \in Nat
  /\ RemoteStorage \in BOOLEAN

Entity == {"function", "table"}

\* A query calls any entities, a stream exactly one.
Offer ==
  {offer \in [endpoint : {"query", "stream"}, calls : (SUBSET Entity) \ {{}}] :
     offer.endpoint = "stream" => offer.calls # Entity}

\* PricingManager.computePrice over the manifest's price list
Price(calls) ==
  (IF "function" \in calls THEN FunctionPrice + UpstreamPrice ELSE 0)
    + (IF "table" \in calls THEN TablePrice ELSE 0)

ASSUME OffersAssumption == Offers \subseteq Offer

\* A node handles finitely many requests.
ASSUME RunsAssumption == IsFiniteSet(Run)

Milligons == 0 .. MaxMilligons

\* What a payment says besides its uuid.  The reserver that makes the uuid
\* makes these with it, so a uuid never comes with other values.
PaymentTerms == [escrow : Escrow, microgons : Nat, settledMilligons : Milligons]

Request == [endpoint : {"query", "stream"}, calls : SUBSET Entity,
            payment : Uuid \cup {None}, root : QueryRoot \cup {None}]

Pc == {"idle", "startDebit", "readSettlement", "recordSettlement", "debit", "function",
       "storage", "storageQuery", "finalize", "finalizeRejected",
       "refinalize", "done", "rejected", "crashed"}

Over == {"idle", "done", "rejected", "crashed"}

VARIABLES
  terms,           \* the terms of every payment
  localchain,      \* settledAmount of every escrow the localchain imported
  pc,
  request,         \* the arguments of the run
  stage,           \* who is debiting: the "root" run or its "storage" call
  shouldFinalize,  \* PaymentsProcessor.shouldFinalize of the run
  storageFinalize, \* ... of the PaymentsProcessor of the storage call
  tally,           \* PaymentsProcessor.talliedPrice
  owed,            \* history: what the run was debited, then what it costs
  accepted,        \* history: the run's debit was accepted
  executed,        \* history: the run passed beforeAll
  finalized,       \* history: its payment was finalized once its calls had run
  restarts         \* restarts so far

runVars == <<pc, request, stage, shouldFinalize,
             storageFinalize, tally, owed, accepted, executed, finalized>>
vars == <<dbVars, now, terms, localchain, runVars, restarts>>

TypeOK ==
  /\ DbTypeOK
  /\ terms \in [Uuid -> PaymentTerms]
  /\ localchain \in [Escrow -> Milligons \cup {None}]
  /\ pc \in [Run -> Pc]
  /\ request \in [Run -> Request]
  /\ stage \in [Run -> {"root", "storage"}]
  /\ shouldFinalize \in [Run -> BOOLEAN]
  /\ storageFinalize \in [Run -> BOOLEAN]
  /\ tally \in [Run -> Nat]
  /\ owed \in [Run -> Nat]
  /\ accepted \in [Run -> BOOLEAN]
  /\ executed \in [Run -> BOOLEAN]
  /\ finalized \in [Run -> BOOLEAN]
  /\ restarts \in 0 .. MaxRestarts

NoRequest == [endpoint |-> "query", calls |-> {}, payment |-> None,
              root |-> None]

Init ==
  /\ DbInit
  /\ terms \in [Uuid -> [escrow : Escrow,
                         microgons : {Price(offer.calls) : offer \in Offers},
                         settledMilligons : Milligons \ {0}]]
  /\ localchain = [e \in Escrow |-> None]
  /\ pc = [r \in Run |-> "idle"]
  /\ request = [r \in Run |-> NoRequest]
  /\ stage = [r \in Run |-> "root"]
  /\ shouldFinalize = [r \in Run |-> TRUE]
  /\ storageFinalize = [r \in Run |-> TRUE]
  /\ tally = [r \in Run |-> 0]
  /\ owed = [r \in Run |-> 0]
  /\ accepted = [r \in Run |-> FALSE]
  /\ executed = [r \in Run |-> FALSE]
  /\ finalized = [r \in Run |-> FALSE]
  /\ restarts = 0

-----------------------------------------------------------------------------
(* The run's arguments *)

\* recordUpdatedSettlement of the localchain (external): it keeps the larger
\* settlement.
RecordedSettlement(current, settled) ==
  IF settled > current THEN settled ELSE current

Calls(r) == request[r].calls
Uses(r, entity) == entity \in Calls(r)
HasPayment(r) == request[r].payment # None
Payment(r) == request[r].payment
Terms(r) == terms[Payment(r)]
EscrowOf(r) == Terms(r).escrow

\* What a debit is made for: all calls of the run, or the tables of a storage
\* call, whose functions are virtual entities.
DebitCalls(r) == IF stage[r] = "root" THEN Calls(r) ELSE Calls(r) \cap {"table"}

\* The query id a debit is made under
DebitQueryId(r) ==
  [root |-> request[r].root, sub |-> IF stage[r] = "root" THEN "" ELSE "Q"]

\* Where a run goes once beforeAll has let it through
FirstStep(calls) == IF "function" \in calls THEN "function" ELSE "storage"

\* Functions that a stream calls do not reach the storage engine.
AfterFunction(r) == IF request[r].endpoint = "query" THEN "storage"
                                                     ELSE "finalize"

Goto(r, label) == pc' = [pc EXCEPT ![r] = label]

\* debit resolved: the caller goes on
Proceed(r) ==
  IF stage[r] = "root"
  THEN /\ Goto(r, FirstStep(Calls(r)))
       /\ executed' = [executed EXCEPT ![r] = TRUE]
  ELSE /\ Goto(r, "storageQuery")
       /\ UNCHANGED executed

\* Mutated: the storage call is tried again.
AfterFailedDebitRetry(r) == IF stage[r] = "root" THEN "finalizeRejected"
                                                 ELSE "storage"

\* debit threw: beforeAll finalizes with the error, and the error of a storage
\* call becomes the result of the run
AfterFailedDebit(r) == IF stage[r] = "root" THEN "finalizeRejected"
                                            ELSE "finalize"

-----------------------------------------------------------------------------
(* PaymentsProcessor.debit and EscrowSpendTracker.debit *)

\* A Datastore.query or Datastore.stream request arrives.
Submit(r, offer, payment, root) ==
  /\ pc[r] = "idle"
  /\ request' = [request EXCEPT ![r] =
       [endpoint |-> offer.endpoint, calls |-> offer.calls,
        payment |-> payment, root |-> root]]
  /\ Goto(r, "startDebit")
  /\ UNCHANGED <<dbVars, now, terms, localchain, stage, shouldFinalize,
                 storageFinalize, tally, owed, accepted, executed, finalized,
                 restarts>>

\* The checks PaymentsProcessor.debit makes before its first await, of a manifest
\* that says how it is paid.
StartDebit(r) ==
  LET price == Price(DebitCalls(r))
      paid == HasPayment(r) /\ Terms(r).microgons = price
  IN  /\ pc[r] = "startDebit"
      /\ \/ price = 0 /\ Proceed(r)
         \/ price # 0 /\ paid /\ Goto(r, "readSettlement") /\ UNCHANGED executed
         \/ /\ price # 0 /\ ~paid
            /\ Goto(r, AfterFailedDebit(r))
            /\ UNCHANGED executed
      /\ UNCHANGED <<dbVars, now, terms, localchain, request, stage, shouldFinalize,
                     storageFinalize, tally, owed, accepted, finalized, restarts>>

\* updateSettlement reads the settlement the localchain holds.  The localchain
\* throws for an escrow it does not know, and the call may not reach the
\* tracker's service.
ReadSettlement(r) ==
  LET settled == localchain[EscrowOf(r)]
  IN  /\ pc[r] = "readSettlement"
      /\ \/ Goto(r, AfterFailedDebit(r))
         \/ /\ settled # None
            /\ Goto(r, IF Terms(r).settledMilligons > settled
                       THEN "recordSettlement" ELSE "debit")
      /\ UNCHANGED <<dbVars, now, terms, localchain, request, stage, shouldFinalize,
                     storageFinalize, tally, owed, accepted, executed, finalized,
                     restarts>>

\* Mutated: the settlement is not recorded.
RecordNothing(r) ==
  /\ pc[r] = "recordSettlement"
  /\ Goto(r, "debit")
  /\ UNCHANGED <<dbVars, now, terms, localchain, request, stage, shouldFinalize,
                 storageFinalize, tally, owed, accepted, executed, finalized,
                 restarts>>

\* recordUpdatedSettlement, with the settlement chosen before the await; the
\* localchain throws when it rejects the signature.
RecordSettlement(r) ==
  /\ pc[r] = "recordSettlement"
  /\ \/ /\ localchain' = [localchain EXCEPT ![EscrowOf(r)] =
                            RecordedSettlement(@, Terms(r).settledMilligons)]
        /\ Goto(r, "debit")
     \/ Goto(r, AfterFailedDebit(r)) /\ UNCHANGED localchain
  /\ UNCHANGED <<dbVars, now, terms, request, stage, shouldFinalize,
                 storageFinalize, tally, owed, accepted, executed, finalized,
                 restarts>>

\* DatastoreEscrowsDb.debit accepts the payment.  The answer may be lost with
\* the connection to the tracker's service: the run then sees an error.
AcceptDebit(r) ==
  /\ pc[r] = "debit"
  /\ DebitAccepted(EscrowOf(r), Payment(r), DebitQueryId(r),
                   Terms(r).microgons, Terms(r).settledMilligons)
  /\ owed' = [owed EXCEPT ![r] = @ + Terms(r).microgons]
  /\ accepted' = [accepted EXCEPT ![r] = TRUE]
  /\ \/ Proceed(r)
     \/ Goto(r, AfterFailedDebit(r)) /\ UNCHANGED executed
  /\ UNCHANGED <<now, terms, localchain, request, stage, shouldFinalize,
                 storageFinalize, tally, finalized, restarts>>

\* Mutated: a run that did not pay finalizes too.
RepeatDebitFinalizes(r) ==
  /\ pc[r] = "debit"
  /\ DebitRepeated(EscrowOf(r), Payment(r), DebitQueryId(r))
  /\ Proceed(r)
  /\ UNCHANGED <<now, terms, localchain, request, stage, shouldFinalize,
                 storageFinalize, tally, owed, accepted, finalized, restarts>>

\* The same query, or the query this one is part of, already paid.
RepeatDebit(r) ==
  /\ pc[r] = "debit"
  /\ DebitRepeated(EscrowOf(r), Payment(r), DebitQueryId(r))
  /\ IF stage[r] = "root"
     THEN /\ shouldFinalize' = [shouldFinalize EXCEPT ![r] = FALSE]
          /\ UNCHANGED storageFinalize
     ELSE /\ storageFinalize' = [storageFinalize EXCEPT ![r] = FALSE]
          /\ UNCHANGED shouldFinalize
  /\ Proceed(r)
  /\ UNCHANGED <<now, terms, localchain, request, stage, tally, owed, accepted,
                 finalized, restarts>>

\* DatastoreEscrowsDb.debit throws.
RefuseDebit(r) ==
  /\ pc[r] = "debit"
  /\ \/ DebitRefused(EscrowOf(r), Payment(r), DebitQueryId(r))
     \/ DebitFailed(EscrowOf(r), Payment(r), DebitQueryId(r),
                    Terms(r).microgons, Terms(r).settledMilligons)
  /\ Goto(r, AfterFailedDebit(r))
  /\ UNCHANGED <<now, terms, localchain, request, stage, shouldFinalize,
                 storageFinalize, tally, owed, accepted, executed, finalized,
                 restarts>>

-----------------------------------------------------------------------------
(* The calls of the query *)

\* runFunction: a call that succeeds is tallied with what its upstream
\* reported, one that throws ends the query with the error.
RunFunction(r) ==
  /\ pc[r] = "function"
  /\ \/ \E upstream \in 0 .. UpstreamPrice :
          /\ tally' = [tally EXCEPT ![r] = @ + FunctionPrice + upstream]
          /\ Goto(r, AfterFunction(r))
     \/ Goto(r, "finalize") /\ UNCHANGED tally
  /\ UNCHANGED <<dbVars, now, terms, localchain, request, stage, shouldFinalize,
                 storageFinalize, owed, accepted, executed, finalized, restarts>>

\* Mutated: queries tally their tables here as well.
StreamTallyAlways(r) == TablePrice

\* What a stream of a table tallies when the storage engine answered: the
\* price of the table and, from a remote engine, what that one reported.
StreamTally(r) ==
  IF request[r].endpoint = "query" THEN 0
  ELSE TablePrice + (IF RemoteStorage THEN TablePrice ELSE 0)

\* The engine of this node runs the SQL.
QueryLocalStorage(r) ==
  /\ pc[r] = "storage" /\ ~RemoteStorage
  /\ tally' \in {tally, [tally EXCEPT ![r] = @ + StreamTally(r)]}
  /\ Goto(r, "finalize")
  /\ UNCHANGED <<dbVars, now, terms, localchain, request, stage, shouldFinalize,
                 storageFinalize, owed, accepted, executed, finalized, restarts>>

\* Datastore.queryStorageEngine is called with the payment of the run.
CallStorageEngine(r) ==
  /\ pc[r] = "storage" /\ RemoteStorage
  /\ stage' = [stage EXCEPT ![r] = "storage"]
  /\ Goto(r, "startDebit")
  /\ UNCHANGED <<dbVars, now, terms, localchain, request, shouldFinalize,
                 storageFinalize, tally, owed, accepted, executed, finalized,
                 restarts>>

\* The storage engine host runs the SQL, then finalizes the payment with the
\* price of the tables unless its debit was a repeat.  An error of either, and
\* an answer of the tracker that is lost, is the answer to the run.
RunStorageEngine(r) ==
  LET tables == Price(Calls(r) \cap {"table"})
      finalizes == storageFinalize[r] /\ HasPayment(r)
  IN  /\ pc[r] = "storageQuery"
      /\ \/ /\ finalizes => FinalizePayment(EscrowOf(r), Payment(r), tables)
            /\ ~finalizes => UNCHANGED dbVars
            /\ tally' \in {tally, [tally EXCEPT ![r] = @ + StreamTally(r)]}
         \/ UNCHANGED <<dbVars, tally>>
      /\ Goto(r, "finalize")
      /\ UNCHANGED <<now, terms, localchain, request, stage, shouldFinalize,
                     storageFinalize, owed, accepted, executed, finalized, restarts>>

-----------------------------------------------------------------------------
(* QueryRunner.finalize *)

\* What the run costs.  The tables of a query are added whether or not it
\* succeeded, unless its debit failed.
Cost(r) ==
  IF /\ pc[r] = "finalize" /\ Uses(r, "table")
     /\ RemoteStorage => request[r].endpoint = "query"
  THEN tally[r] + TablePrice ELSE tally[r]

\* The price reported and charged.  filterLocalTableCalls leaves out the tables
\* on a remote storage engine, and what that one reports does not reach the
\* run of a query: it is never added.
FinalPrice(r) == IF RemoteStorage THEN tally[r] ELSE Cost(r)

Finalizes(r) == shouldFinalize[r] /\ HasPayment(r)

\* A run that pays by itself owes what it costs.
Owe(r) ==
  /\ owed' = [owed EXCEPT ![r] = IF Finalizes(r) THEN Cost(r) ELSE @]
  /\ finalized' = [finalized EXCEPT ![r] = @ \/ (Finalizes(r) /\ pc[r] = "finalize")]

\* Where a run goes when finalizing throws: a query whose beforeAll threw takes
\* the error for its result and finalizes once more.
AfterFailedFinalize(r) ==
  IF pc[r] = "finalizeRejected" /\ request[r].endpoint = "query"
  THEN "refinalize" ELSE "rejected"

\* The payment is finalized, or there is none to finalize, and the run
\* answers.  The answer of the tracker's service may be lost.
Finalize(r) ==
  /\ pc[r] \in {"finalize", "finalizeRejected", "refinalize"}
  /\ \/ /\ Finalizes(r)
        /\ FinalizePayment(EscrowOf(r), Payment(r), FinalPrice(r))
        /\ Goto(r, "done") \/ Goto(r, AfterFailedFinalize(r))
     \/ /\ ~Finalizes(r)
        /\ UNCHANGED dbVars
        /\ Goto(r, "done")
  /\ Owe(r)
  /\ UNCHANGED <<now, terms, localchain, request, stage, shouldFinalize,
                 storageFinalize, tally, accepted, executed, restarts>>

\* Finalizing throws, or the call does not reach the tracker's service.
FailFinalize(r) ==
  /\ pc[r] \in {"finalize", "finalizeRejected", "refinalize"}
  /\ Finalizes(r)
  /\ UNCHANGED dbVars
  /\ Goto(r, AfterFailedFinalize(r))
  /\ UNCHANGED <<now, terms, localchain, request, stage, shouldFinalize,
                 storageFinalize, tally, owed, accepted, executed, finalized,
                 restarts>>

-----------------------------------------------------------------------------
(* Escrow.register, the cleanup interval, restarts and time *)

\* importEscrow: the localchain (external) imports an escrow once; its
\* settlement is then zero.  The payer waits for the answer before it pays with
\* the escrow, so no debit comes between the import and the row.
RegisterEscrow(e, milligons, expirationDate) ==
  /\ localchain[e] = None
  /\ localchain' = [localchain EXCEPT ![e] = 0]
  /\ CreateEscrow(e, milligons, expirationDate)
  /\ UNCHANGED <<now, terms, runVars, restarts>>

CleanupEscrows ==
  /\ Cleanup
  /\ UNCHANGED <<now, terms, localchain, runVars, restarts>>

\* The tracker's process restarts.  Calls that wait for it fail, and an escrow
\* that was being imported may be in the localchain without a row.
RestartTracker ==
  /\ restarts < MaxRestarts
  /\ restarts' = restarts + 1
  /\ ForgetPayments
  /\ \/ UNCHANGED localchain
     \/ \E e \in Escrow : /\ localchain[e] = None
                         /\ localchain' = [localchain EXCEPT ![e] = 0]
  /\ pc' = [r \in Run |->
              IF pc[r] \in {"readSettlement", "recordSettlement", "debit"}
              THEN AfterFailedDebit(r) ELSE pc[r]]
  /\ UNCHANGED <<now, terms, request, stage, shouldFinalize, storageFinalize,
                 tally, owed, accepted, executed, finalized>>

\* The node that runs the queries restarts.  With the tracker in the same
\* process this is followed by RestartTracker.
RestartNode ==
  /\ restarts < MaxRestarts
  /\ restarts' = restarts + 1
  /\ \E r \in Run : pc[r] \notin Over
  /\ pc' = [r \in Run |-> IF pc[r] \in Over THEN pc[r] ELSE "crashed"]
  /\ UNCHANGED <<dbVars, now, terms, localchain, request, stage, shouldFinalize,
                 storageFinalize, tally, owed, accepted, executed, finalized>>

Tick ==
  /\ now < MaxTime
  /\ now' = now + 1
  /\ UNCHANGED <<dbVars, terms, localchain, runVars, restarts>>

-----------------------------------------------------------------------------
Debit(r) ==
  \/ StartDebit(r)
  \/ ReadSettlement(r)
  \/ RecordSettlement(r)
  \/ AcceptDebit(r)
  \/ RepeatDebit(r)
  \/ RefuseDebit(r)

Execute(r) ==
  \/ RunFunction(r)
  \/ QueryLocalStorage(r)
  \/ CallStorageEngine(r)
  \/ RunStorageEngine(r)

Complete(r) == Finalize(r) \/ FailFinalize(r)

Advance(r) == Debit(r) \/ Execute(r) \/ Complete(r)

Environment ==
  \/ \E r \in Run : \E offer \in Offers, payment \in Uuid \cup {None},
                     root \in QueryRoot : Submit(r, offer, payment, root)
  \/ \E e \in Escrow : \E milligons \in Milligons \ {0}, expirationDate \in 0 .. MaxTime :
       RegisterEscrow(e, milligons, expirationDate)
  \/ CleanupEscrows
  \/ RestartTracker
  \/ RestartNode
  \/ Tick

Next == Environment \/ \E r \in Run : Advance(r)

\* The event loop runs every pending continuation.
Fairness == \A r \in Run : WF_vars(Advance(r))

Spec == Init /\ [][Next]_vars /\ Fairness

-----------------------------------------------------------------------------
(* Properties *)

RunsOf(e) == {r \in Run : HasPayment(r) /\ EscrowOf(r) = e}

\* beforeAll threw in the run, or did before the node crashed: its debit was
\* refused, failed, or its answer was lost.
DebitThrew(r) ==
  /\ ~executed[r]
  /\ pc[r] \in {"finalizeRejected", "refinalize", "done", "rejected", "crashed"}

TotalOwed(e) == SumFunctionOnSet(owed, RunsOf(e))

\* Every run of the escrow had a price, and no debit of one threw.
Clean(e) == \A r \in RunsOf(e) : ~DebitThrew(r) /\ Price(Calls(r)) # 0

\* The price of a run's tables that finalizing leaves out.
FreeTables(r) ==
  IF RemoteStorage /\ finalized[r] /\ Uses(r, "table") /\ request[r].endpoint = "query"
  THEN TablePrice ELSE 0

\* What runs owe without the tables they get for free.
Payable == [r \in Run |-> owed[r] - FreeTables(r)]
TotalPayable(e) == SumFunctionOnSet(Payable, RunsOf(e))

\* What the node has charged to an escrow is always covered by a settlement
\* the payer signed and the localchain has recorded, whatever the order of
\* debits, finalizations, cleanups and restarts: the condition in the WHERE
\* clause of DatastoreEscrowsDb.debit, kept between its executions.
SettlementCoversSpend ==
  \A e \in Escrow : escrows[e] # None =>
    /\ Spent(e) \in 0 .. escrows[e].allocated
    /\ localchain[e] # None
    /\ Spent(e) <= localchain[e] * MicrogonsPerMilligon

\* An escrow pays what its runs cost, and holds the price of those that are not
\* over yet: no run is paid twice or released twice.  (Unless the debit of one of
\* its runs threw: see RejectedQueriesAreFree.  A run that is free and comes with a
\* payment all the same finalizes it without a debit.)
SpendIsOwed ==
  \A e \in Escrow : escrows[e] # None /\ Clean(e) => Spent(e) = TotalOwed(e)

\* A payer is never charged more than its runs owe, even with debits that
\* threw.
NeverOvercharged ==
  \A e \in Escrow : escrows[e] # None => Spent(e) <= TotalOwed(e)

\* A run that had to be paid for, and was let through.
Bought(r) == executed[r] /\ HasPayment(r) /\ Price(Calls(r)) # 0

\* Between restarts of the tracker, the runs a payment buys belong to one
\* top-level query, until the row of the escrow is cleaned up; and the escrow is
\* debited for one of them at most, also after that.
PaymentBuysOneQuery ==
  restarts = 0 =>
    \A r, q \in Run : HasPayment(r) /\ Payment(r) = Payment(q) =>
      /\ Bought(r) /\ Bought(q) /\ escrows[EscrowOf(r)] # None
           => request[r].root = request[q].root
      /\ accepted[r] /\ accepted[q] => r = q

\* With the tables on another host, two calls debit and finalize one payment.  As
\* long as the tracker remembers which of them debited it, escrows pay what their
\* runs owe there too, but for exactly the tables of the queries that were finalized,
\* which are free: see AnsweredQueriesArePaid.  A debit that threw may release what
\* another run holds; it never takes more than that.
Explained(e) ==
  escrows[e] # None =>
    Spent(e) <= TotalPayable(e) /\ (Clean(e) => Spent(e) = TotalPayable(e))

OnlyTablesAreFree == restarts = 0 => \A e \in Escrow : Explained(e)

\* Every request is answered, if its node does not restart.
RequestsAreAnswered ==
  \A r \in Run : pc[r] = "startDebit" ~> pc[r] \in {"done", "rejected", "crashed"}

\* An escrow's row and its settlement, as an account of the ledger a payer
\* expects.
Account(e) ==
  IF escrows[e] # None
  THEN [state |-> "open", allocated |-> escrows[e].allocated, spent |-> Spent(e),
        signed |-> localchain[e] * MicrogonsPerMilligon]
  ELSE [state |-> IF localchain[e] = None THEN "unopened" ELSE "closed",
        allocated |-> 0, spent |-> 0, signed |-> 0]

Accounts == [e \in Escrow |-> Account(e)]

Ledger == INSTANCE EscrowLedger WITH
  Amount <- 0 .. MaxMilligons * MicrogonsPerMilligon, account <- Accounts

\* Every step of the node opens escrows, records a settlement, holds what is
\* covered, releases what was held, closes escrows, or leaves them alone.
ImplementsLedger == Ledger!Spec

\* An answered request is charged the price it was quoted, or less.
ChargedAtMostPrice ==
  \A r \in Run : pc[r] = "done" => owed[r] <= Price(Calls(r))

(* The inductive invariant behind SettlementCoversSpend and ImplementsLedger: *)
(* it holds when no request is a stream of a table.                           *)

NoTableStreams ==
  \A offer \in Offers : offer.endpoint = "stream" => "table" \notin offer.calls

\* Whatever reaches the storage engine calls a table, and tables have a price.
TablesArePriced ==
  /\ TablePrice # 0
  /\ \A offer \in Offers : offer.endpoint = "query" => "table" \in offer.calls

\* The price of calls is what the payment of r pays, or nothing.
Priced(r, calls) ==
  Price(calls) = 0 \/ (HasPayment(r) /\ Terms(r).microgons = Price(calls))

\* Entries record what their payments pay, from the escrow they name.
EntriesMatchTerms ==
  \A e \in Escrow, u \in Uuid : AlreadyDebited(e, u) =>
    e = terms[u].escrow /\ paymentIdByEscrowId[e][u].microgons = terms[u].microgons

\* No escrow is larger than the escrows that can be opened, and each row is
\* of an escrow the localchain knows.
RowsAreKnown ==
  \A e \in Escrow : escrows[e] # None =>
    /\ localchain[e] # None
    /\ escrows[e].allocated <= MaxMilligons * MicrogonsPerMilligon

DebitSteps == {"startDebit", "readSettlement", "recordSettlement", "debit"}
AwaitsDebit(r) == pc[r] \in DebitSteps \ {"startDebit"}

\* A request is one that is offered; storage calls are made by queries with
\* a remote storage engine.
RequestMatchesOffer(r) ==
  IF pc[r] = "idle" THEN stage[r] = "root"
  ELSE
    /\ [endpoint |-> request[r].endpoint, calls |-> Calls(r)] \in Offers
    /\ request[r].root \in QueryRoot
    /\ pc[r] = "function" => Uses(r, "function")
    /\ pc[r] = "storage" \/ stage[r] = "storage" => request[r].endpoint = "query"
    /\ pc[r] = "storageQuery" => stage[r] = "storage"

\* A debit is only tried for a payment of the right price, once the
\* localchain has its settlement.
DebitMatchesPrice(r) ==
  /\ AwaitsDebit(r) =>
       HasPayment(r) /\ Terms(r).microgons = Price(DebitCalls(r))
  /\ pc[r] \in {"recordSettlement", "debit"} => localchain[EscrowOf(r)] # None
  /\ pc[r] = "debit" => Terms(r).settledMilligons <= localchain[EscrowOf(r)]

\* The root debit of the run went through, or needed no payment.
Underway(r) ==
  \/ pc[r] \in {"function", "storage", "storageQuery", "finalize"}
  \/ stage[r] = "storage" /\ pc[r] \in DebitSteps

\* The run has not called anything.
Fresh(r) ==
  \/ pc[r] \in {"idle", "function", "finalizeRejected", "refinalize"}
  \/ stage[r] = "root" /\ pc[r] \in DebitSteps

\* Runs that go on are priced, and have tallied at most the price of their
\* functions.
TallyMatchesPrice(r) ==
  /\ Underway(r) => Priced(r, Calls(r))
  /\ pc[r] = "storageQuery" => Priced(r, Calls(r) \cap {"table"})
  /\ Fresh(r) => tally[r] = 0
  /\ tally[r] <= Price(Calls(r) \cap {"function"})

RunInv(r) ==
  RequestMatchesOffer(r) /\ DebitMatchesPrice(r) /\ TallyMatchesPrice(r)

IInv ==
  /\ TypeOK
  /\ SettlementCoversSpend
  /\ EntriesMatchTerms
  /\ RowsAreKnown
  /\ \A r \in Run : RunInv(r)

(* And the ones behind PaymentBuysOneQuery, ChargedAtMostPrice, SpendIsOwed and *)
(* NeverOvercharged.                                                             *)

\* A run that has not been let through, and has not been rejected.
Unpaid(r) == stage[r] = "root" /\ pc[r] \in {"idle"} \cup DebitSteps

\* What a run has done, by where it is.
RunHistory(r) ==
  /\ pc[r] = "idle" => stage[r] = "root" /\ ~HasPayment(r)
  /\ Unpaid(r) => ~accepted[r] /\ shouldFinalize[r] /\ owed[r] = 0
  /\ Unpaid(r) \/ pc[r] \in {"finalizeRejected", "refinalize"}
       => ~executed[r] /\ tally[r] = 0
  /\ ~HasPayment(r) => owed[r] = 0
  /\ \/ pc[r] \in {"recordSettlement", "debit"}
     \/ HasPayment(r) /\ (accepted[r] \/ owed[r] # 0 \/ Bought(r))
     => localchain[EscrowOf(r)] # None

\* There are rows and entries of escrows the localchain knows.
EscrowsAreKnown ==
  \A e \in Escrow :
    escrows[e] # None \/ (\E u \in Uuid : AlreadyDebited(e, u)) => localchain[e] # None

HistoryInv ==
  EntriesMatchTerms /\ EscrowsAreKnown /\ \A r \in Run : RunHistory(r)

\* While an escrow has its row, the entry of a payment names the query it bought.
BuyersInv ==
  restarts = 0 =>
    /\ \A r \in Run : HasPayment(r) /\ escrows[EscrowOf(r)] # None =>
         /\ accepted[r] \/ Bought(r) => AlreadyDebited(EscrowOf(r), Payment(r))
         /\ Bought(r) =>
              paymentIdByEscrowId[EscrowOf(r)][Payment(r)].queryId.root = request[r].root
    /\ \A r, q \in Run :
         HasPayment(r) /\ Payment(r) = Payment(q) /\ accepted[r] /\ accepted[q] => r = q

\* A run that does not finalize owes what its storage call was debited.
OwesAtMostPrice(r) ==
  /\ pc[r] \in {"function", "storage"} => stage[r] = "root"
  /\ ~shouldFinalize[r] /\ (stage[r] = "root" \/ pc[r] \in DebitSteps) => owed[r] = 0
  /\ ~shouldFinalize[r] \/ pc[r] = "done" => owed[r] <= Price(Calls(r))

\* A run owes what its payment pays until it finalizes it.
OwesPayment(r) ==
  /\ shouldFinalize[r] /\ HasPayment(r) /\ pc[r] \notin Over
       => owed[r] <= Terms(r).microgons
  /\ Underway(r) =>
       /\ executed[r]
       /\ shouldFinalize[r] /\ HasPayment(r) /\ Price(Calls(r)) # 0
            => owed[r] = Terms(r).microgons
  /\ finalized[r] => pc[r] \in {"done", "rejected"}
  /\ FreeTables(r) <= owed[r]

OwedInv ==
  (\A r \in Run : OwesPayment(r)) /\ (\A e \in Escrow : Explained(e))

\* What a run calls is offered, and its debit was of a payment.
Requested(r) ==
  /\ pc[r] # "idle" => [endpoint |-> request[r].endpoint, calls |-> Calls(r)] \in Offers
  /\ accepted[r] => HasPayment(r)

RequestedInv == \A r \in Run : Requested(r)

\* A run that goes to the storage engine was let through and calls a table.  As
\* long as payments are remembered, its storage call finds the payment debited
\* and leaves it to the run to finalize it.
AsksStorage(r) ==
  /\ pc[r] \in {"function", "storage"} \/ stage[r] = "storage" => executed[r]
  /\ pc[r] = "storageQuery" => stage[r] = "storage"
  /\ stage[r] = "storage" => RemoteStorage
  /\ RemoteStorage /\ (pc[r] = "storage" \/ stage[r] = "storage") => Uses(r, "table")
  /\ restarts = 0 /\ pc[r] = "storageQuery" /\ HasPayment(r) => ~storageFinalize[r]

StorageInv == \A r \in Run : AsksStorage(r)

(* What the repository's documentation, types and tests say *)

\* A query the node rejects leaves the escrow with what the others have paid.
RejectedQueriesAreFree ==
  \A e \in Escrow : escrows[e] # None => Spent(e) = TotalOwed(e)

\* A payment id is used one time.
OneTimePayment ==
  \A r, q \in Run : accepted[r] /\ accepted[q] /\ Payment(r) = Payment(q) => r = q

\* Once all requests are answered, and none was rejected, the escrow has paid
\* what they cost.
AnsweredQueriesArePaid ==
  \A e \in Escrow :
    /\ escrows[e] # None
    /\ \A r \in RunsOf(e) : pc[r] = "done" /\ executed[r]
    => Spent(e) = TotalOwed(e)

\* The run called nothing else, it was debited, and its call was not refused: the
\* function was tallied, or the storage engine took the table's debit for repeated.
HasRun(r, entity) ==
  /\ Calls(r) = {entity} /\ accepted[r] /\ owed[r] # 0
  /\ entity = "table" => ~storageFinalize[r]

\* The least of it: when a query of the function and a query of the table have run
\* at their price, and all requests are answered, the escrow has paid something.
AnsweredEntitiesArePaid ==
  \A e \in Escrow :
    /\ escrows[e] # None
    /\ \A r \in RunsOf(e) : pc[r] = "done" /\ executed[r]
    /\ \A entity \in Entity : \E r \in RunsOf(e) : HasRun(r, entity)
    => Spent(e) # 0
=============================================================================
