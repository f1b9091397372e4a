---------------------------- MODULE EscrowPayments ----------------------------
(***************************************************************************)
(* Queries that are paid from escrows, from the payer's side to the        *)
(* datastore's and back.  The payer's ArgonReserver keeps a list of the    *)
(* escrows it opened with the datastore.  It reserves the price of a query *)
(* from one of them, signs the settlement that covers it, and finalizes    *)
(* the reservation with what the answer says, or at zero when there is     *)
(* none.  The datastore debits and finalizes its own table (EscrowsDb).    *)
(* Each side has its own idea of what an escrow has left.                  *)
(*                                                                         *)
(* A step goes to the next await.  Reservations wait for each other in a   *)
(* queue of the datastore's; finalizations do not.  One payment is made    *)
(* for each query, so that the payment's uuid names both.                  *)
(***************************************************************************)
EXTENDS EscrowsDb, FiniteSetsExt

CONSTANTS
  Price,              \* PricingManager's price of a query, in microgons
  Tally,              \* what the calls of a query may add up to
  Strategy,           \* IEscrowAllocationStrategy
  MinimumSettlement,  \* ESCROW_MINIMUM_SETTLEMENT, in milligons
  Lifetime,           \* ticks until a new escrow expires
  SameHost,           \* the escrows opened at a host without protocol and path: reserve
                      \* compares it with toUrl(host).host
  MaxTime,            \* bound on the clock
  MaxFaults           \* bound on restarts and lost connections

Query == Uuid

ASSUME QueryAssumption == QueryRoot = Uuid
\* A payer makes finitely many queries.
ASSUME QueriesAssumption == IsFiniteSet(Query)
\* Escrows are numbered in the order the payer opens them: the order of its list.
ASSUME EscrowAssumption == Escrow \subseteq Nat
ASSUME PriceAssumption ==
  /\ Price \in [Query -> Nat \ {0}]
  /\ Tally \in [Query -> SUBSET Nat]
  /\ \A q \in Query : \A microgons \in Tally[q] : microgons <= Price[q]
ASSUME StrategyAssumption ==
  Strategy \in [type : {"default", "multiplier"}, size : Nat]
ASSUME BoundsAssumption ==
  MinimumSettlement \in Nat /\ Lifetime \in Nat /\ MaxTime \in Nat /\ MaxFaults \in Nat

\* IPaymentDetails: an escrow of the payer's list
Balance == [allocated : Nat, remaining : Nat, settledMilligons : Nat,
            expirationDate : Nat]
\* The localchain's view of an escrow of the payer
Opened == [milligons : Nat, expirationDate : Nat]

ASSUME NoneIsNoBalance == None \notin Balance /\ None \notin Opened /\ None \notin Escrow

ClientPc == {"idle", "queued", "registering", "signing", "reserved", "waiting",
             "done", "gaveUp", "threw", "failed", "lost"}
NodePc == {"none", "debit", "run", "finalize", "finalizeRejected", "refinalize",
           "answered", "failed", "gone"}

VARIABLES
  sourceEscrows, \* the escrows of the payer's localchain
  balances,      \* paymentsByDatastoreId of the datastore
  openEscrows,   \* openEscrowsById
  pending,       \* paymentsPendingFinalization
  file,          \* the saved balances
  needsSave,
  queue,         \* the query whose turn it is in reserveQueueByDatastoreId
  target,        \* the settlement that is being signed for it
  clientPc,      \* of each query
  chosen,        \* the escrow of its payment
  settlement,    \* settledMilligons of its payment
  nodePc,
  tally,         \* PaymentsProcessor.talliedPrice
  faults,
  recorded,      \* history: the queries whose reservations the file has
  forgotten      \* history: the queries whose reservations a restart lost

storage == <<file, needsSave, recorded, forgotten>>
payer == <<sourceEscrows, balances, openEscrows, pending, queue, target,
           clientPc, chosen, settlement, storage>>
node == <<dbVars, nodePc, tally>>
vars == <<payer, node, now, faults>>

TypeOK ==
  /\ DbTypeOK
  /\ sourceEscrows \in [Escrow -> Opened \cup {None}]
  /\ balances \in [Escrow -> Balance \cup {None}]
  /\ openEscrows \in SUBSET Escrow
  /\ pending \in SUBSET Query
  /\ file \in [Escrow -> Balance \cup {None}]
  /\ needsSave \in BOOLEAN
  /\ queue \in Query \cup {None}
  /\ target \in Nat
  /\ clientPc \in [Query -> ClientPc]
  /\ chosen \in [Query -> Escrow \cup {None}]
  /\ settlement \in [Query -> Nat]
  /\ nodePc \in [Query -> NodePc]
  /\ tally \in [Query -> Nat]
  /\ faults \in Nat
  /\ recorded \in SUBSET Query
  /\ forgotten \in SUBSET Query

Init ==
  /\ DbInit
  /\ sourceEscrows = [e \in Escrow |-> None]
  /\ balances = [e \in Escrow |-> None]
  /\ openEscrows = {}
  /\ pending = {}
  /\ file = [e \in Escrow |-> None]
  /\ needsSave = FALSE
  /\ queue = None
  /\ target = 0
  /\ clientPc = [q \in Query |-> "idle"]
  /\ chosen = [q \in Query |-> None]
  /\ settlement = [q \in Query |-> 0]
  /\ nodePc = [q \in Query |-> "none"]
  /\ tally = [q \in Query |-> 0]
  /\ faults = 0
  /\ recorded = {}
  /\ forgotten = {}

-----------------------------------------------------------------------------
(* ArgonReserver.reserve *)

ClientGoto(q, label) == clientPc' = [clientPc EXCEPT ![q] = label]

\* The queue goes on with the next reservation.
EndTurn(q, label) ==
  /\ ClientGoto(q, label)
  /\ queue' = None
  /\ target' = 0

\* Mutated: rounded down.
FloorMilligons(microgons) == microgons \div MicrogonsPerMilligon

\* Math.ceil(microgons / 1000)
CeilMilligons(microgons) ==
  (microgons + MicrogonsPerMilligon - 1) \div MicrogonsPerMilligon

SettlementFor(balance, microgons) ==
  CeilMilligons(balance.allocated - balance.remaining + microgons)

\* Mutated: no check of the allocation.
Releasable(balance, milligons) == TRUE

\* Otherwise: Cannot release more than the allocated amount.
CanRelease(balance, milligons) ==
  milligons * MicrogonsPerMilligon <= balance.allocated

\* What is left once microgons are reserved under a settlement.
Charged(balance, microgons, milligons) ==
  [allocated |-> balance.allocated, remaining |-> balance.remaining - microgons,
   settledMilligons |-> milligons, expirationDate |-> balance.expirationDate]

\* Mutated: the payment comes with the settlement that was signed before it.
PaymentsBehind(q, e, milligons) ==
  [settlement EXCEPT ![q] = IF balances[e] = None THEN MinimumSettlement
                            ELSE balances[e].settledMilligons]

\* A payment refers to the escrow of the list: those that are not sent yet
\* change with it.
PaymentsOf(q, e, milligons) ==
  [p \in Query |-> IF p = q \/ (clientPc[p] = "reserved" /\ chosen[p] = e)
                   THEN milligons ELSE settlement[p]]

\* The rest of charge.
Charge(q, e, list, milligons) ==
  /\ balances' = [list EXCEPT ![e] = Charged(list[e], Price[q], milligons)]
  /\ settlement' = PaymentsOf(q, e, milligons)
  /\ pending' = pending \cup {q}
  /\ needsSave' = TRUE
  /\ EndTurn(q, "reserved")

\* Charge takes the escrow e of the list: updateSettlement throws, has nothing
\* to sign, or waits for the signature.
BeginCharge(q, e, list, open) ==
  LET milligons == SettlementFor(list[e], Price[q])
      mustSign == milligons > list[e].settledMilligons
      throws == ~CanRelease(list[e], milligons) \/ (mustSign /\ e \notin open)
  IN  \/ /\ throws
         /\ balances' = list
         /\ EndTurn(q, "failed")
         /\ UNCHANGED <<settlement, pending, needsSave>>
      \/ /\ ~throws /\ ~mustSign
         /\ Charge(q, e, list, list[e].settledMilligons)
      \/ /\ ~throws /\ mustSign
         /\ balances' = list
         /\ queue' = q
         /\ target' = milligons
         /\ ClientGoto(q, "signing")
         /\ UNCHANGED <<settlement, pending, needsSave>>

\* Escrows that are spent or expired are dropped when a turn begins.
Kept == [e \in Escrow |->
  IF balances[e] # None /\ balances[e].remaining > 0 /\ balances[e].expirationDate > now
  THEN balances[e] ELSE None]

Options(q) ==
  {e \in Escrow : e \in SameHost /\ Kept[e] # None /\ Kept[e].remaining >= Price[q]}

\* A query asks for a payment.
Submit(q) ==
  /\ clientPc[q] = "idle"
  /\ ClientGoto(q, "queued")
  /\ UNCHANGED <<sourceEscrows, balances, openEscrows, pending, queue, target,
                 chosen, settlement, storage, node, now, faults>>

TurnOf(q) == queue = None /\ clientPc[q] = "queued"

\* The first escrow of the list with enough left pays.
TakeOption(q) ==
  /\ TurnOf(q)
  /\ Options(q) # {}
  /\ \E e \in Options(q) :
       /\ \A f \in Options(q) : e <= f
       /\ chosen' = [chosen EXCEPT ![q] = e]
       /\ BeginCharge(q, e, Kept, openEscrows)
  /\ UNCHANGED <<sourceEscrows, openEscrows, file, recorded, forgotten, node, now, faults>>

\* calculateEscrowMilligons, which rounds down, and the minimum of createEscrow.
StrategyMilligons(microgons) ==
  IF Strategy.type = "default" THEN Strategy.size
  ELSE (microgons * Strategy.size) \div MicrogonsPerMilligon
EscrowMilligons(microgons) ==
  IF StrategyMilligons(microgons) < MinimumSettlement THEN MinimumSettlement
  ELSE StrategyMilligons(microgons)

\* No escrow has enough left: the source creates one, which locks its funds.
OpenEscrow(q) ==
  /\ TurnOf(q)
  /\ Options(q) = {}
  /\ \E e \in Escrow :
       /\ sourceEscrows[e] = None
       /\ \A f \in Escrow : f < e => sourceEscrows[f] # None
       /\ sourceEscrows' = [sourceEscrows EXCEPT ![e] =
            [milligons |-> EscrowMilligons(Price[q]), expirationDate |-> now + Lifetime]]
       /\ chosen' = [chosen EXCEPT ![q] = e]
  /\ balances' = Kept
  /\ queue' = q
  /\ ClientGoto(q, "registering")
  /\ UNCHANGED <<openEscrows, pending, target, settlement, storage, node, now, faults>>

\* The source has no funds left.
FailToOpen(q) ==
  /\ TurnOf(q)
  /\ Options(q) = {}
  /\ \A e \in Escrow : sourceEscrows[e] # None
  /\ balances' = Kept
  /\ EndTurn(q, "failed")
  /\ UNCHANGED <<sourceEscrows, openEscrows, pending, chosen, settlement, storage,
                 node, now, faults>>

\* The datastore creates the row of the escrow that is being registered.
CreateRow(q) ==
  CreateEscrow(chosen[q], sourceEscrows[chosen[q]].milligons,
               sourceEscrows[chosen[q]].expirationDate)

\* A new escrow is settled at the minimum.
NewBalance(opened) ==
  [allocated |-> opened.milligons * MicrogonsPerMilligon,
   remaining |-> opened.milligons * MicrogonsPerMilligon,
   settledMilligons |-> MinimumSettlement, expirationDate |-> opened.expirationDate]

\* Escrow.register is accepted: the escrow is listed, and pays.
Register(q) ==
  LET e == chosen[q]
  IN  /\ clientPc[q] = "registering"
      /\ CreateRow(q)
      /\ openEscrows' = openEscrows \cup {e}
      /\ BeginCharge(q, e, [balances EXCEPT ![e] = NewBalance(sourceEscrows[e])],
                     openEscrows \cup {e})
      /\ UNCHANGED <<sourceEscrows, chosen, file, recorded, forgotten,
                     nodePc, tally, now, faults>>

\* The call or its answer is lost: the escrow is not listed, its funds stay locked.
RegistrationLost(q) ==
  /\ clientPc[q] = "registering"
  /\ faults < MaxFaults
  /\ faults' = faults + 1
  /\ CreateRow(q) \/ UNCHANGED dbVars
  /\ EndTurn(q, "failed")
  /\ UNCHANGED <<sourceEscrows, balances, openEscrows, pending, chosen,
                 settlement, storage, nodePc, tally, now>>

\* The source has signed: charge goes on.
Sign(q) ==
  /\ clientPc[q] = "signing"
  /\ Charge(q, chosen[q], balances, target)
  /\ UNCHANGED <<sourceEscrows, openEscrows, chosen, file, recorded, forgotten,
                 node, now, faults>>

\* Mutated: a failure keeps the queue.
SignFailsInQueue(q) ==
  /\ clientPc[q] = "signing"
  /\ faults < MaxFaults
  /\ faults' = faults + 1
  /\ ClientGoto(q, "failed")
  /\ UNCHANGED <<sourceEscrows, balances, openEscrows, pending, queue, target, chosen,
                 settlement, storage, node, now>>

\* The source throws.
SignFails(q) ==
  /\ clientPc[q] = "signing"
  /\ faults < MaxFaults
  /\ faults' = faults + 1
  /\ EndTurn(q, "failed")
  /\ UNCHANGED <<sourceEscrows, balances, openEscrows, pending, chosen,
                 settlement, storage, node, now>>

-----------------------------------------------------------------------------
(* DatastoreApiClient.query, ArgonReserver.finalize and its file *)

\* The request is written, with the payment as it is now.
Send(q) ==
  /\ clientPc[q] = "reserved"
  /\ ClientGoto(q, "waiting")
  /\ nodePc' = [nodePc EXCEPT ![q] = "debit"]
  /\ UNCHANGED <<sourceEscrows, balances, openEscrows, pending, queue, target,
                 chosen, settlement, storage, dbVars, tally, now, faults>>

\* What is released goes back to the escrow of the payment.  It is not in the
\* list if a turn dropped it meanwhile, and finalize throws.
Finalize(q, microgons, label) ==
  LET e == chosen[q]
  IN  /\ pending' = pending \ {q}
      /\ \/ /\ balances[e] # None
            /\ balances' = [balances EXCEPT ![e] =
                 Charged(balances[e], microgons - Price[q], balances[e].settledMilligons)]
            /\ needsSave' = TRUE
            /\ ClientGoto(q, label)
         \/ /\ balances[e] = None
            /\ ClientGoto(q, "threw")
            /\ UNCHANGED <<balances, needsSave>>
      /\ UNCHANGED <<sourceEscrows, openEscrows, queue, target, chosen, settlement,
                     file, recorded, forgotten, dbVars, tally, now>>

\* The caller's onQueryResult, which is awaited first, throws: nothing is finalized.
CallbackThrows(q) ==
  /\ ClientGoto(q, "threw")
  /\ UNCHANGED <<sourceEscrows, balances, openEscrows, pending, queue, target, chosen,
                 settlement, storage, dbVars, tally, now>>

\* Mutated: the microgons of the answer are released, not those it left.
AnswerReleasesTally(q) ==
  /\ clientPc[q] = "waiting" /\ nodePc[q] = "answered"
  /\ Finalize(q, Price[q] - tally[q], "done") \/ CallbackThrows(q)
  /\ UNCHANGED <<nodePc, faults>>

\* The answer arrives, with what the query was charged.
Answer(q) ==
  /\ clientPc[q] = "waiting" /\ nodePc[q] = "answered"
  /\ Finalize(q, tally[q], "done") \/ CallbackThrows(q)
  /\ UNCHANGED <<nodePc, faults>>

\* The request fails, at the datastore or with it: finalized at zero.
ErrorAnswer(q) ==
  /\ clientPc[q] = "waiting" /\ nodePc[q] \in {"failed", "gone"}
  /\ Finalize(q, 0, "gaveUp")
  /\ UNCHANGED <<nodePc, faults>>

\* The connection is lost, before or after the request reached the datastore.
ConnectionLost(q) ==
  /\ clientPc[q] = "waiting"
  /\ faults < MaxFaults
  /\ faults' = faults + 1
  /\ \/ UNCHANGED nodePc
     \/ nodePc[q] = "debit" /\ nodePc' = [nodePc EXCEPT ![q] = "gone"]
  /\ Finalize(q, 0, "gaveUp")

\* The queries that were charged.
Reserved == {q \in Query :
  clientPc[q] \in {"reserved", "waiting", "done", "gaveUp", "threw", "lost"}}

\* On an interval, and when the payer closes.
Save ==
  /\ needsSave
  /\ needsSave' = FALSE
  /\ file' = balances
  /\ recorded' = Reserved
  /\ UNCHANGED <<sourceEscrows, balances, openEscrows, pending, queue, target,
                 clientPc, chosen, settlement, forgotten, node, now, faults>>

\* Where the restart of the payer leaves a query.
Interrupted(label) ==
  IF label \in {"queued", "registering", "signing"} THEN "failed"
  ELSE IF label \in {"reserved", "waiting"} THEN "lost" ELSE label

\* The payer stops and loads its file: pending payments and the open escrows
\* are not in it.
PayerRestart ==
  /\ faults < MaxFaults
  /\ faults' = faults + 1
  /\ balances' = file
  /\ openEscrows' = {}
  /\ pending' = {}
  /\ needsSave' = FALSE
  /\ queue' = None
  /\ target' = 0
  /\ clientPc' = [q \in Query |-> Interrupted(clientPc[q])]
  /\ forgotten' = forgotten \cup (Reserved \ recorded)
  /\ UNCHANGED <<sourceEscrows, chosen, settlement, file, recorded, node, now>>

-----------------------------------------------------------------------------
(* The datastore: QueryRunner and PaymentsProcessor, see QueryPayments *)

NodeGoto(q, label) == nodePc' = [nodePc EXCEPT ![q] = label]
QueryIdOf(q) == [root |-> q, sub |-> ""]

AcceptDebit(q) ==
  /\ nodePc[q] = "debit"
  /\ DebitAccepted(chosen[q], q, QueryIdOf(q), Price[q], settlement[q])
  /\ NodeGoto(q, "run")
  /\ UNCHANGED <<payer, tally, now, faults>>

\* The query is finalized nevertheless.
FailDebit(q) ==
  /\ nodePc[q] = "debit"
  /\ DebitFailed(chosen[q], q, QueryIdOf(q), Price[q], settlement[q])
  /\ NodeGoto(q, "finalizeRejected")
  /\ UNCHANGED <<payer, tally, now, faults>>

\* The calls of the query return or throw.
RunQuery(q) ==
  /\ nodePc[q] = "run"
  /\ \E microgons \in Tally[q] : tally' = [tally EXCEPT ![q] = microgons]
  /\ NodeGoto(q, "finalize")
  /\ UNCHANGED <<payer, dbVars, now, faults>>

NodeFinalize(q) ==
  /\ nodePc[q] \in {"finalize", "finalizeRejected", "refinalize"}
  /\ FinalizePayment(chosen[q], q, tally[q])
  /\ NodeGoto(q, "answered")
  /\ UNCHANGED <<payer, tally, now, faults>>

\* A rejected query whose finalization throws is finalized once more.
NodeFinalizeThrows(q) ==
  /\ nodePc[q] \in {"finalize", "finalizeRejected", "refinalize"}
  /\ ~FinalizeSucceeds(chosen[q], q, tally[q])
  /\ NodeGoto(q, IF nodePc[q] = "finalizeRejected" THEN "refinalize" ELSE "failed")
  /\ UNCHANGED <<payer, dbVars, tally, now, faults>>

CleanupEscrows == Cleanup /\ UNCHANGED <<payer, nodePc, tally, now, faults>>

\* The node restarts: the queries it had are gone, and so is its map.
NodeRestart ==
  /\ faults < MaxFaults
  /\ faults' = faults + 1
  /\ ForgetPayments
  /\ nodePc' = [q \in Query |-> IF nodePc[q] \in {"none", "answered", "failed"}
                                THEN nodePc[q] ELSE "gone"]
  /\ UNCHANGED <<payer, tally, now>>

Tick ==
  /\ now < MaxTime
  /\ now' = now + 1
  /\ UNCHANGED <<payer, node, faults>>

-----------------------------------------------------------------------------
Turn(q) == TakeOption(q) \/ OpenEscrow(q) \/ FailToOpen(q)
Client(q) == Register(q) \/ Sign(q) \/ Send(q) \/ Answer(q) \/ ErrorAnswer(q)
Handle(q) == AcceptDebit(q) \/ FailDebit(q) \/ RunQuery(q) \/ NodeFinalize(q)
               \/ NodeFinalizeThrows(q)

Next ==
  \/ \E q \in Query :
       \/ Submit(q)
       \/ Turn(q)
       \/ Client(q)
       \/ Handle(q)
       \/ RegistrationLost(q)
       \/ SignFails(q)
       \/ ConnectionLost(q)
  \/ Save
  \/ PayerRestart
  \/ CleanupEscrows
  \/ NodeRestart
  \/ Tick

Spec == Init /\ [][Next]_vars

-----------------------------------------------------------------------------
(* Properties *)

\* What is settled of an escrow covers what is reserved and spent of it, and does
\* not exceed it.
Covered(balance) ==
  /\ CoveredBy(balance.allocated - balance.remaining, balance.settledMilligons)
  /\ balance.settledMilligons * MicrogonsPerMilligon <= balance.allocated

\* What the payer has signed covers what it has reserved and spent, whatever is
\* released, saved or signed in between, and nothing signed exceeds the escrow.
SignedCoversReserved ==
  \A e \in Escrow : balances[e] # None => Covered(balances[e])

\* The queries of an escrow whose cost the two sides may see differently: the
\* payer gave them up, or forgot that it reserved their price.
Disputed(e) ==
  {q \in Query : chosen[q] = e /\ (clientPc[q] = "gaveUp" \/ q \in forgotten)}

\* What the payer believes it may spend, the datastore has for it, up to the
\* prices of the queries the payer gave up or forgot in a restart.
PayerBalanceIsBacked ==
  \A e \in Escrow : balances[e] # None /\ balances[e].expirationDate >= now =>
    /\ escrows[e] # None
    /\ balances[e].remaining
         <= escrows[e].remaining + SumFunctionOnSet(Price, Disputed(e))

\* While nothing is lost, a payment the payer reserved is only refused when
\* another one, settled for more, overtook it, or the payer gave another one up
\* (the datastore could not finalize it, and holds its price), or the escrow expired.
RefusedIsOvertaken ==
  faults = 0 => \A q \in Query : nodePc[q] = "finalizeRejected" =>
    \/ \E p \in Query :
         chosen[p] = chosen[q] /\ (settlement[p] > settlement[q] \/ clientPc[p] = "gaveUp")
    \/ sourceEscrows[chosen[q]].expirationDate < now

\* The queue waits for the escrow or the signature of one query, and goes on
\* whether they succeed or fail.
QueueMovesOn ==
  \A q \in Query : clientPc[q] \in {"registering", "signing"} <=> queue = q

\* The largest settlement of the payments that the payer sent the datastore.
Sent(e) == {q \in Query : chosen[q] = e /\ nodePc[q] # "none"}
Signed(e) == Max({0} \cup {settlement[q] : q \in Sent(e)})

\* The datastore may yet make a row of the escrow.
Unopened(e) ==
  sourceEscrows[e] = None \/ \E q \in Query : clientPc[q] = "registering" /\ chosen[q] = e

\* An escrow, as an account of the ledger a payer expects.
Account(e) ==
  IF escrows[e] # None
  THEN [state |-> "open", allocated |-> escrows[e].allocated, spent |-> Spent(e),
        signed |-> Signed(e) * MicrogonsPerMilligon]
  ELSE [state |-> IF Unopened(e) THEN "unopened" ELSE "closed",
        allocated |-> 0, spent |-> 0, signed |-> 0]

Accounts == [e \in Escrow |-> Account(e)]

\* An escrow is opened for what one query needs.
Amounts == UNION {0 .. EscrowMilligons(Price[q]) * MicrogonsPerMilligon : q \in Query}

Ledger == INSTANCE EscrowLedger WITH Amount <- Amounts, account <- Accounts

\* Payer and datastore together: whatever is lost, restarted or refused, an escrow is
\* opened once, what the datastore holds of it is covered by a settlement that the
\* payer sent, and payments and settlements change nothing else.
ImplementsLedger == Ledger!Spec

(* The inductive invariant behind SignedCoversReserved and QueueMovesOn, see
   EscrowPayments_proofs. *)

\* What is saved is what was covered once.
SavedIsCovered == \A e \in Escrow : file[e] # None => Covered(file[e])

\* A query that has its turn, a payment or a request has an escrow, and costs no
\* more than its price.
QueriesHaveEscrows ==
  \A q \in Query :
    /\ clientPc[q] \in {"registering", "signing", "reserved", "waiting"}
         \/ nodePc[q] # "none" => chosen[q] \in Escrow
    /\ nodePc[q] # "none" => clientPc[q] \notin {"idle", "queued", "registering",
                                                "signing", "reserved"}
    /\ tally[q] <= Price[q]

\* An escrow that is being registered may be settled at the minimum.
RegisteringAtMinimum ==
  \A q \in Query : clientPc[q] = "registering" =>
    /\ sourceEscrows[chosen[q]] # None
    /\ MinimumSettlement <= sourceEscrows[chosen[q]].milligons

\* The settlement that is being signed still covers the payment that waits for it,
\* whatever was released meanwhile.
Signable(balance, microgons, milligons) ==
  /\ CoveredBy(balance.allocated - balance.remaining + microgons, milligons)
  /\ CanRelease(balance, milligons)
SigningIsCovered ==
  \A q \in Query : clientPc[q] = "signing" =>
    balances[chosen[q]] # None /\ Signable(balances[chosen[q]], Price[q], target)

(* And the one behind PayerBalanceIsBacked and RefusedIsOvertaken. *)

\* What a query costs the payer, as far as the payer knows.
PayerCost(q) ==
  IF q \in forgotten THEN 0
  ELSE IF clientPc[q] \in {"reserved", "waiting", "threw", "lost"} THEN Price[q]
  ELSE IF clientPc[q] = "done" THEN tally[q] ELSE 0

\* What it costs the payer at the datastore, at most.
NodeCost(q) ==
  IF nodePc[q] \in {"run", "finalize", "failed", "gone"} THEN Price[q]
  ELSE IF nodePc[q] = "answered" THEN tally[q] ELSE 0

\* The costs of the queries of an escrow: in the payer's list, in its file, at
\* the datastore.
PayerCosts(e) == [q \in Query |-> IF chosen[q] = e THEN PayerCost(q) ELSE 0]
FileCosts(e) == [q \in Query |-> IF chosen[q] = e /\ q \in recorded THEN PayerCost(q) ELSE 0]
NodeCosts(e) == [q \in Query |-> IF chosen[q] = e THEN NodeCost(q) ELSE 0]
Total(costs) == SumFunctionOnSet(costs, Query)

\* The payer leaves an escrow no more than its costs do, the datastore no less.
CostsAreBooked ==
  \A e \in Escrow :
    /\ balances[e] # None =>
         balances[e].remaining + Total(PayerCosts(e)) <= balances[e].allocated
    /\ file[e] # None => file[e].remaining + Total(FileCosts(e)) <= file[e].allocated
    /\ escrows[e] # None =>
         escrows[e].allocated <= escrows[e].remaining + Total(NodeCosts(e))

\* A balance or a row is of an escrow that was opened, with what was locked for it.
SameAsOpened(e, balance) ==
  /\ sourceEscrows[e] # None
  /\ balance.allocated = sourceEscrows[e].milligons * MicrogonsPerMilligon
  /\ balance.expirationDate = sourceEscrows[e].expirationDate

\* The escrow paid for a query, or may yet.
Pays(e) == balances[e] # None \/ file[e] # None \/ \E q \in Reserved : chosen[q] = e

\* The datastore has a row of each of these, or had one until it expired.
EscrowsAreOpened ==
  \A e \in Escrow :
    /\ balances[e] # None => SameAsOpened(e, balances[e])
    /\ file[e] # None => SameAsOpened(e, file[e])
    /\ escrows[e] # None => SameAsOpened(e, escrows[e])
    /\ Pays(e) => escrows[e] # None \/ sourceEscrows[e].expirationDate < now

\* How far a query is with the payer, the datastore and the file.
QueryInv(q) ==
  /\ clientPc[q] \in {"idle", "queued"} => chosen[q] = None
  /\ clientPc[q] \in {"idle", "queued", "registering"} => settlement[q] = 0
  /\ q \in Reserved => chosen[q] # None
  /\ chosen[q] # None => chosen[q] \in Escrow /\ sourceEscrows[chosen[q]] # None
  /\ clientPc[q] = "registering" =>
       /\ balances[chosen[q]] = None /\ file[chosen[q]] = None
       /\ \A p \in Query \ {q} : chosen[p] # chosen[q]
  /\ nodePc[q] # "none" => clientPc[q] \in {"waiting", "done", "gaveUp", "threw", "lost"}
  /\ clientPc[q] = "done" => nodePc[q] = "answered"
  /\ q \in recorded => q \in Reserved
  /\ q \in forgotten => clientPc[q] \in {"done", "gaveUp", "threw", "lost"}
  /\ \A e \in Escrow : AlreadyDebited(e, q) => paymentIdByEscrowId[e][q].microgons = Price[q]

\* While nothing is lost, a payment of each escrow is settled for all that the
\* escrow pays; and no other payment is settled for more than the list says.
SettledForAll ==
  faults = 0 =>
    /\ forgotten = {}
    /\ \A q \in Query : nodePc[q] = "debit" => clientPc[q] = "waiting"
    /\ \A q \in Query : chosen[q] # None /\ balances[chosen[q]] # None =>
         /\ settlement[q] <= balances[chosen[q]].settledMilligons
         /\ clientPc[q] = "signing" => balances[chosen[q]].settledMilligons <= target
    /\ \A q \in Reserved : \E p \in Query :
         /\ chosen[p] = chosen[q]
         /\ balances[chosen[q]] # None =>
              settlement[p] = balances[chosen[q]].settledMilligons
         /\ Total(PayerCosts(chosen[q])) <= settlement[p] * MicrogonsPerMilligon
         /\ settlement[p] <= sourceEscrows[chosen[q]].milligons

AccountsInv ==
  CostsAreBooked /\ EscrowsAreOpened /\ (\A q \in Query : QueryInv(q)) /\ SettledForAll

(* And what ImplementsLedger needs besides. *)

\* What is locked is what a query needs, and what is settled is locked.
LockedForQueries ==
  \A e \in Escrow : sourceEscrows[e] # None =>
    \E q \in Query : sourceEscrows[e].milligons = EscrowMilligons(Price[q])
SettledWithin ==
  \A q \in Query : chosen[q] # None => settlement[q] <= sourceEscrows[chosen[q]].milligons

\* An escrow has no row before it is registered, and never more than was locked.
RowsWithin ==
  /\ \A q \in Query : clientPc[q] = "registering" => escrows[chosen[q]] = None
  /\ \A e \in Escrow : escrows[e] # None => escrows[e].remaining <= escrows[e].allocated

AmountsInv == LockedForQueries /\ SettledWithin /\ RowsWithin
=============================================================================
