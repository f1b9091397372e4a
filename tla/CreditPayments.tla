---------------------------- MODULE CreditPayments ----------------------------
(***************************************************************************)
(* Queries that are paid with Credits.  The datastore issues a credit as a *)
(* row of its table ulx_credits, of which every version of the datastore   *)
(* has its own, copied from the version before.  The payer keeps a balance *)
(* of each credit (a CreditReserver, with a file), reserves the price of a *)
(* query, sends it, and finalizes the reservation with what the answer     *)
(* says.  The datastore debits the price and finalizes it with what the    *)
(* query tallied.  A version may keep its tables on a remote storage       *)
(* engine: the query's call of that engine is a request of its own, with   *)
(* the same payment, which debits the price of the tables once more.  The  *)
(* run does not tally those tables, and finalizes as if they were free.    *)
(*                                                                         *)
(* A step goes to the next await.  The queue of a reserver and the         *)
(* debounce of its file are external: a turn in the queue comes some time  *)
(* after it was asked for, and a save some time after the last request.    *)
(***************************************************************************)
EXTENDS Integers, FiniteSets, Functions

CONSTANTS
  Query,
  Credit,
  MaxVersion,    \* versions of the datastore are 1 .. MaxVersion
  RemoteVersions, \* the versions whose manifest has a storageEngineHost
  Price,         \* PricingManager's price of a query, in microgons
  TablePrice,    \* the part of it that is for tables
  Tally,         \* what the functions of a query may add up to
  MaxMicrogons,  \* bound on what is issued for a credit
  MinBalance,    \* CreditReserver.MIN_BALANCE
  MaxFaults,     \* bound on restarts and lost connections
  None

Version == 1 .. MaxVersion
Row == [issued : Nat, remaining : Int]

\* A query tallies no more than its price.  (The stream of a table does, twice:
\* that is QueryPayments' business.)
ASSUME PriceAssumption ==
  /\ Price \in [Query -> Nat \ {0}]
  /\ TablePrice \in [Query -> Nat]
  /\ Tally \in [Query -> SUBSET Nat]
  /\ \A q \in Query : \A microgons \in Tally[q] : microgons + TablePrice[q] <= Price[q]
ASSUME RemoteAssumption == RemoteVersions \subseteq Version
\* The two processes handle finitely many queries.
ASSUME QueriesAssumption == IsFiniteSet(Query)
ASSUME BoundAssumption ==
  MaxVersion \in Nat \ {0} /\ MaxMicrogons \in Nat /\ MinBalance \in Nat /\ MaxFaults \in Nat
ASSUME NoneAssumption == None \notin Row \cup Int \cup Credit

ClientPc == {"idle", "reserve", "waiting", "done", "failed", "threw", "lost"}
NodePc == {"none", "update", "run", "storage", "storageUpdate", "finalize", "answered", "gone"}

VARIABLES
  credits,    \* ulx_credits of each version
  latest,     \* the latest version, and so the number of them
  wallet,     \* paymentDetails.remaining of the reserver of a credit, if any
  pending,    \* paymentsPendingFinalization
  file,       \* the saved balance of a credit, if there is a file
  save,       \* the debounced save: none, or with or without canDelete
  clientPc,   \* of each query
  nodePc,
  choice,     \* the credit and the version of a query
  debited,    \* has the datastore debited the query?
  storageDebited, \* has the storage call of the query debited it again?
  tally,      \* PaymentsProcessor.talliedPrice
  faults,
  opening,    \* history: what a row had remaining when it was inserted
  givenUp     \* history: queries the payer gave up, or sent before it restarted

payer == <<wallet, pending, file, save, givenUp>>
node == <<credits, nodePc, debited, storageDebited, tally>>
vars == <<payer, node, latest, clientPc, choice, faults, opening>>

NoChoice == [credit |-> None, version |-> 0]

TypeOK ==
  /\ credits \in [Version -> [Credit -> Row \cup {None}]]
  /\ latest \in Version
  /\ wallet \in [Credit -> Nat \cup {None}]
  /\ pending \in SUBSET Query
  /\ file \in [Credit -> Nat \cup {None}]
  /\ save \in [Credit -> {"none", "keep", "mayDelete"}]
  /\ clientPc \in [Query -> ClientPc]
  /\ nodePc \in [Query -> NodePc]
  /\ choice \in [Query -> [credit : Credit \cup {None}, version : Version \cup {0}]]
  /\ debited \in [Query -> BOOLEAN]
  /\ storageDebited \in [Query -> BOOLEAN]
  /\ tally \in [Query -> Nat]
  /\ faults \in Nat
  /\ opening \in [Version -> [Credit -> Int]]
  /\ givenUp \in SUBSET Query

Init ==
  /\ credits = [v \in Version |-> [c \in Credit |-> None]]
  /\ latest = 1
  /\ wallet = [c \in Credit |-> None]
  /\ pending = {}
  /\ file = [c \in Credit |-> None]
  /\ save = [c \in Credit |-> "none"]
  /\ clientPc = [q \in Query |-> "idle"]
  /\ nodePc = [q \in Query |-> "none"]
  /\ choice = [q \in Query |-> NoChoice]
  /\ debited = [q \in Query |-> FALSE]
  /\ storageDebited = [q \in Query |-> FALSE]
  /\ tally = [q \in Query |-> 0]
  /\ faults = 0
  /\ opening = [v \in Version |-> [c \in Credit |-> 0]]
  /\ givenUp = {}

-----------------------------------------------------------------------------
(* The administrator and the owner of the credits *)

\* CreditsTable.create.  With embedded Credits it compares what was issued to
\* the upstream limit; the sum is undefined there, and nothing is refused.
Create(c, microgons) ==
  /\ \A v \in Version : credits[v][c] = None
  /\ credits' = [credits EXCEPT ![latest][c] =
                   [issued |-> microgons, remaining |-> microgons]]
  /\ opening' = [opening EXCEPT ![latest][c] = microgons]
  /\ UNCHANGED <<payer, nodePc, debited, storageDebited, tally, latest, clientPc, choice, faults>>

\* Mutated: the new version starts from what was issued.
CarriedAnew(row) == IF row = None THEN None ELSE [row EXCEPT !.remaining = row.issued]

Carried(row) == row

\* onVersionMigrated: a new version copies the table of the one before.
Migrate ==
  /\ latest < MaxVersion
  /\ latest' = latest + 1
  /\ credits' = [credits EXCEPT ![latest + 1] =
                   [c \in Credit |-> Carried(credits[latest][c])]]
  /\ opening' = [opening EXCEPT ![latest + 1] =
                   [c \in Credit |-> IF credits[latest][c] = None THEN 0
                                     ELSE credits[latest][c].remaining]]
  /\ UNCHANGED <<payer, nodePc, debited, storageDebited, tally, clientPc, choice, faults>>

\* attachCredit looks up the balance of a credit, and saves it.
Attach(c) ==
  /\ wallet[c] = None /\ credits[latest][c] # None
  /\ wallet' = [wallet EXCEPT ![c] = credits[latest][c].remaining]
  /\ file' = [file EXCEPT ![c] = credits[latest][c].remaining]
  /\ UNCHANGED <<pending, save, givenUp, node, latest, clientPc, choice, faults, opening>>

-----------------------------------------------------------------------------
(* The payer *)

HasBalance(c, microgons) == wallet[c] # None /\ wallet[c] >= microgons

\* DefaultPaymentService.reserve takes a credit with enough balance; without
\* one it turns to the localchain, or throws.  (Which credit is first depends
\* on the order they were attached in.)
Submit(q) ==
  /\ clientPc[q] = "idle"
  /\ \/ \E c \in Credit, v \in 1 .. latest :
          /\ HasBalance(c, Price[q])
          /\ choice' = [choice EXCEPT ![q] = [credit |-> c, version |-> v]]
          /\ clientPc' = [clientPc EXCEPT ![q] = "reserve"]
     \/ /\ \A c \in Credit : ~HasBalance(c, Price[q])
        /\ clientPc' = [clientPc EXCEPT ![q] = "failed"]
        /\ UNCHANGED choice
  /\ UNCHANGED <<payer, node, latest, faults, opening>>

\* Mutated: the balance is checked before the queue only.
CanReserveUnchecked(c, microgons) == TRUE

\* The check is repeated in the queue: others may have reserved meanwhile.
CanReserve(c, microgons) == HasBalance(c, microgons)

Reserve(q) ==
  LET c == choice[q].credit
  IN  /\ clientPc[q] = "reserve"
      /\ \/ /\ CanReserve(c, Price[q])
            /\ wallet' = [wallet EXCEPT ![c] = @ - Price[q]]
            /\ save' = [save EXCEPT ![c] = "keep"]
            /\ pending' = pending \cup {q}
            /\ clientPc' = [clientPc EXCEPT ![q] = "waiting"]
         \/ /\ ~CanReserve(c, Price[q])
            /\ clientPc' = [clientPc EXCEPT ![q] = "failed"]
            /\ UNCHANGED <<wallet, save, pending>>
      /\ UNCHANGED <<file, givenUp, node, latest, choice, faults, opening>>

\* Mutated: the whole price is returned.
FinalizeAtNoCost(q, microgons) ==
  LET c == choice[q].credit
  IN  \/ /\ q \in pending
         /\ pending' = pending \ {q}
         /\ wallet' = [wallet EXCEPT ![c] = @ + Price[q]]
         /\ save' = [save EXCEPT ![c] = "mayDelete"]
      \/ q \notin pending /\ UNCHANGED <<pending, wallet, save>>

\* CreditReserver.finalize, of a payment that is pending.
Finalize(q, microgons) ==
  LET c == choice[q].credit
  IN  \/ /\ q \in pending
         /\ pending' = pending \ {q}
         /\ wallet' = [wallet EXCEPT ![c] = @ + Price[q] - microgons]
         /\ save' = [save EXCEPT ![c] = "mayDelete"]
      \/ q \notin pending /\ UNCHANGED <<pending, wallet, save>>

\* The answer arrives, with what the query was charged.  The caller's
\* onQueryResult is awaited first: if it throws, nothing is finalized.
Answer(q) ==
  /\ clientPc[q] = "waiting" /\ nodePc[q] = "answered"
  /\ \/ /\ Finalize(q, tally[q])
        /\ clientPc' = [clientPc EXCEPT ![q] = "done"]
     \/ /\ clientPc' = [clientPc EXCEPT ![q] = "threw"]
        /\ UNCHANGED <<wallet, pending, save>>
  /\ UNCHANGED <<file, givenUp, node, latest, choice, faults, opening>>

\* Mutated: a query that failed is not finalized.
GiveUpSilently(q) ==
  /\ clientPc[q] = "waiting"
  /\ clientPc' = [clientPc EXCEPT ![q] = "done"]
  /\ givenUp' = givenUp \cup {q}
  /\ UNCHANGED <<wallet, pending, file, save, node, latest, choice, opening>>

\* The request fails, wherever the query is by now: finalized at no cost.
GiveUp(q) ==
  /\ clientPc[q] = "waiting"
  /\ Finalize(q, 0)
  /\ givenUp' = givenUp \cup {q}
  /\ clientPc' = [clientPc EXCEPT ![q] = "done"]
  /\ UNCHANGED <<file, node, latest, choice, opening>>

\* The node that had the query is gone, or the connection is.
NodeGone(q) == nodePc[q] = "gone" /\ GiveUp(q) /\ UNCHANGED faults

ConnectionLost(q) ==
  /\ faults < MaxFaults
  /\ faults' = faults + 1
  /\ GiveUp(q)

\* The debounced save: the file of a credit that is used up is deleted.
Save(c) ==
  /\ save[c] # "none"
  /\ save' = [save EXCEPT ![c] = "none"]
  /\ file' = [file EXCEPT ![c] =
       IF save[c] = "mayDelete" /\ wallet[c] <= MinBalance THEN None ELSE wallet[c]]
  /\ UNCHANGED <<wallet, pending, givenUp, node, latest, clientPc, choice, faults, opening>>

\* The payer stops without saving, and loads its files again.
PayerRestart ==
  /\ faults < MaxFaults
  /\ faults' = faults + 1
  /\ wallet' = file
  /\ pending' = {}
  /\ save' = [c \in Credit |-> "none"]
  /\ givenUp' = {q \in Query : clientPc[q] # "idle"}
  /\ clientPc' = [q \in Query |-> IF clientPc[q] = "reserve" THEN "failed"
                                  ELSE IF clientPc[q] = "waiting" THEN "lost"
                                  ELSE clientPc[q]]
  /\ UNCHANGED <<file, node, latest, choice, opening>>

-----------------------------------------------------------------------------
(* The datastore *)

RowOf(q) == credits[choice[q].version][choice[q].credit]
SetRemaining(q, microgons) ==
  credits' = [credits EXCEPT ![choice[q].version][choice[q].credit].remaining = microgons]

NodeGoto(q, label) == nodePc' = [nodePc EXCEPT ![q] = label]
NodeOnly(q) == UNCHANGED <<payer, latest, clientPc, choice, faults, opening>>

\* Whether a balance is enough for a query.
Covers(row, q) == row # None /\ row.remaining >= Price[q]

\* CreditsTable.debit selects the row; beforeAll finalizes a query it refuses.
DebitSelect(q) ==
  /\ clientPc[q] \in {"waiting", "done", "lost"} /\ nodePc[q] = "none"
  /\ \/ Covers(RowOf(q), q) /\ NodeGoto(q, "update")
     \/ ~Covers(RowOf(q), q) /\ NodeGoto(q, "finalize")
  /\ UNCHANGED <<credits, debited, storageDebited, tally>> /\ NodeOnly(q)

\* Mutated: the UPDATE trusts the row that was selected.
CanUpdateSelected(q) == TRUE

\* WHERE (remainingCredits - $2) >= 0
CanUpdate(q) == Covers(RowOf(q), q)

\* The row is updated, or the query is refused after all.
DebitUpdate(q) ==
  /\ nodePc[q] = "update"
  /\ \/ /\ CanUpdate(q)
        /\ SetRemaining(q, RowOf(q).remaining - Price[q])
        /\ debited' = [debited EXCEPT ![q] = TRUE]
        /\ NodeGoto(q, "run")
     \/ /\ ~CanUpdate(q)
        /\ NodeGoto(q, "finalize")
        /\ UNCHANGED <<credits, debited>>
  /\ UNCHANGED <<storageDebited, tally>> /\ NodeOnly(q)

Remote(q) == choice[q].version \in RemoteVersions

\* The functions of the query return or throw.  Tables of the local engine are
\* added when it finalizes, whatever happens; those of a remote one are not: the
\* query goes there, unless a function threw.
RunQuery(q) ==
  /\ nodePc[q] = "run"
  /\ \E microgons \in Tally[q] :
       \/ /\ ~Remote(q)
          /\ tally' = [tally EXCEPT ![q] = microgons + TablePrice[q]]
          /\ NodeGoto(q, "finalize")
       \/ /\ Remote(q)
          /\ tally' = [tally EXCEPT ![q] = microgons]
          /\ NodeGoto(q, "storage") \/ NodeGoto(q, "finalize")
  /\ UNCHANGED <<credits, debited, storageDebited>> /\ NodeOnly(q)

\* Datastore.queryStorageEngine debits the price of the tables from the payment
\* of the whole query: there is nothing to debit, or the payment is of another
\* price and the call throws, or the row is selected once more.
StorageSelect(q) ==
  /\ nodePc[q] = "storage"
  /\ \/ TablePrice[q] # Price[q] /\ NodeGoto(q, "finalize")
     \/ TablePrice[q] = Price[q] /\ Covers(RowOf(q), q) /\ NodeGoto(q, "storageUpdate")
     \/ TablePrice[q] = Price[q] /\ ~Covers(RowOf(q), q) /\ NodeGoto(q, "finalize")
  /\ UNCHANGED <<credits, debited, storageDebited, tally>> /\ NodeOnly(q)

\* The row is updated, or the storage call throws.  It refunds nothing: it
\* tallies the price of its tables, or its SQL throws and it does not finalize.
StorageUpdate(q) ==
  /\ nodePc[q] = "storageUpdate"
  /\ \/ /\ CanUpdate(q)
        /\ SetRemaining(q, RowOf(q).remaining - Price[q])
        /\ storageDebited' = [storageDebited EXCEPT ![q] = TRUE]
     \/ ~CanUpdate(q) /\ UNCHANGED <<credits, storageDebited>>
  /\ NodeGoto(q, "finalize")
  /\ UNCHANGED <<debited, tally>> /\ NodeOnly(q)

\* Mutated: what the query tallied is refunded.
RefundTally(q) == tally[q]

\* PaymentsProcessor.finalize: initialPrice - talliedPrice.
Refund(q) == Price[q] - tally[q]

\* shouldFinalize is TRUE also for a query whose debit threw.
NodeFinalize(q) ==
  /\ nodePc[q] = "finalize"
  /\ \/ RowOf(q) # None /\ SetRemaining(q, RowOf(q).remaining + Refund(q))
     \/ RowOf(q) = None /\ UNCHANGED credits
  /\ NodeGoto(q, "answered")
  /\ UNCHANGED <<debited, storageDebited, tally>> /\ NodeOnly(q)

\* The node restarts: queries it had are gone, their debits stay.
NodeRestart ==
  /\ faults < MaxFaults
  /\ faults' = faults + 1
  /\ nodePc' = [q \in Query |-> IF nodePc[q] \in {"none", "answered"}
                                THEN nodePc[q] ELSE "gone"]
  /\ UNCHANGED <<payer, credits, debited, storageDebited, tally, latest, clientPc, choice, opening>>

-----------------------------------------------------------------------------
Client(q) == Reserve(q) \/ Answer(q) \/ NodeGone(q)
Handle(q) ==
  \/ DebitSelect(q)
  \/ DebitUpdate(q)
  \/ RunQuery(q)
  \/ StorageSelect(q)
  \/ StorageUpdate(q)
  \/ NodeFinalize(q)

Next ==
  \/ \E c \in Credit :
       \/ \E microgons \in 1 .. MaxMicrogons : Create(c, microgons)
       \/ Attach(c)
       \/ Save(c)
  \/ Migrate
  \/ \E q \in Query : Submit(q) \/ Client(q) \/ ConnectionLost(q) \/ Handle(q)
  \/ PayerRestart
  \/ NodeRestart

\* The event loops and timers of the two processes, and the calls of a query.
Fairness ==
  /\ \A q \in Query : WF_vars(Client(q)) /\ WF_vars(Handle(q))
  /\ \A c \in Credit : WF_vars(Save(c))

Spec == Init /\ [][Next]_vars /\ Fairness

-----------------------------------------------------------------------------
(* Properties *)

QueriesOf(v, c) == {q \in Query : choice[q] = [credit |-> c, version |-> v]}
Holding(v, c) == {q \in QueriesOf(v, c) : debited[q] /\ nodePc[q] # "answered"}
Charged(v, c) == {q \in QueriesOf(v, c) : debited[q] /\ nodePc[q] = "answered"}
Refused(v, c) == {q \in QueriesOf(v, c) : ~debited[q] /\ nodePc[q] = "answered"}

StorageCharged(v, c) == {q \in QueriesOf(v, c) : storageDebited[q]}

PriceOf(queries) == SumFunctionOnSet(Price, queries)
TallyOf(queries) == SumFunctionOnSet(tally, queries)

\* The balance of a credit is explained by the queries on each version: less
\* the price of what runs or was lost in a restart, less the tally of what was
\* answered, less the price of what a storage call debited once more, plus the
\* price of what was refused after the payer sent it.
CreditsAreExplained ==
  \A v \in 1 .. latest, c \in Credit : credits[v][c] # None =>
    credits[v][c].remaining
      = opening[v][c] - PriceOf(Holding(v, c)) - TallyOf(Charged(v, c))
          - PriceOf(StorageCharged(v, c)) + PriceOf(Refused(v, c))

\* No interleaving of debits, refunds and new versions takes a credit below zero.
CreditsNeverOverdrawn ==
  \A v \in Version, c \in Credit :
    credits[v][c] # None => credits[v][c].remaining >= 0

\* What the payer waits for and the datastore has not debited.
Reserved(c) ==
  {q \in Query : choice[q].credit = c /\ clientPc[q] = "waiting"
                   /\ ~debited[q] /\ nodePc[q] # "answered"}

\* What the datastore debited although the payer gave it up or forgot it; and
\* what a storage call debited, which the payer does not hear of.
Unknown(c) == {q \in Query : choice[q].credit = c /\ debited[q] /\ q \in givenUp}
DebitedTwice(c) == {q \in Query : choice[q].credit = c /\ storageDebited[q]}

\* While a datastore has one version, what the payer believes to have left, with
\* what it reserved and the datastore is yet to debit, is backed by the balance of
\* the datastore, but for charges the payer cannot know of: through restarts of
\* both sides, late files and lost answers.
WalletIsBacked ==
  latest = 1 => \A c \in Credit : wallet[c] # None =>
    /\ credits[1][c] # None
    /\ wallet[c] + PriceOf(Reserved(c))
         <= credits[1][c].remaining + PriceOf(Unknown(c)) + PriceOf(DebitedTwice(c))

\* While a datastore has one version, it refuses no query that the payer reserved,
\* unless there is a charge the payer cannot know of.
ReservedIsAccepted ==
  latest = 1 =>
    \A q \in Query \ givenUp : nodePc[q] \in {"finalize", "answered"} /\ ~debited[q] =>
      Unknown(choice[q].credit) \cup DebitedTwice(choice[q].credit) # {}

\* Every reservation is finalized, so that its rest can be spent again, unless
\* the caller's onQueryResult throws.
ReservationsAreFinalized ==
  \A q \in Query : q \in pending ~> q \notin pending \/ clientPc[q] = "threw"

(* The inductive invariant behind CreditsNeverOverdrawn, see CreditPayments_proofs. *)

\* What holds of a query by the labels of its two sides.
QueriesAreChosen ==
  \A q \in Query :
    /\ clientPc[q] \in {"reserve", "waiting", "done", "threw", "lost"} \/ nodePc[q] # "none"
         => choice[q].credit \in Credit /\ choice[q].version \in Version
    /\ q \in pending => clientPc[q] \in {"waiting", "threw"} /\ wallet[choice[q].credit] # None
    /\ tally[q] <= Price[q]

\* Only the balance of an attached credit is saved.
SavesAreOfWallets ==
  \A c \in Credit : save[c] # "none" => wallet[c] # None

(* And the one behind CreditsAreExplained. *)

\* Whether a version has a row of the credit.
Issued(c) == \E v \in Version : credits[v][c] # None

\* Balances and queries are of credits that were issued, and queries of a version
\* there is; versions to come have no rows.
OnlyIssuedIsUsed ==
  /\ \A v \in Version, c \in Credit : v > latest => credits[v][c] = None
  /\ \A c \in Credit : wallet[c] # None \/ file[c] # None => Issued(c)
  /\ \A q \in Query :
       choice[q].credit # None => choice[q].version <= latest /\ Issued(choice[q].credit)

\* The datastore debits a query once, and before it runs it; its storage call
\* debits it afterwards.
DebitsPrecedeCalls ==
  \A q \in Query :
    /\ clientPc[q] = "idle" => nodePc[q] = "none" /\ choice[q] = NoChoice
    /\ nodePc[q] \in {"none", "update"} => ~debited[q]
    /\ nodePc[q] \in {"run", "storage", "storageUpdate"} => debited[q] /\ ~storageDebited[q]
    /\ ~debited[q] => tally[q] = 0 /\ ~storageDebited[q]

(* And the one behind WalletIsBacked and ReservedIsAccepted. *)

\* A query the payer does not wait for is over, or the payer gave it up.
SidesAgree ==
  \A q \in Query :
    /\ clientPc[q] = "waiting" => q \in pending
    /\ q \in givenUp => clientPc[q] \in {"done", "failed", "threw", "lost"}
    /\ clientPc[q] \in {"idle", "reserve", "failed"} => nodePc[q] = "none"
    /\ clientPc[q] \in {"done", "threw", "lost"} /\ q \notin givenUp => nodePc[q] = "answered"

\* What the datastore returned and the payer is yet to hear of.
Returned(c) ==
  {q \in Query : choice[q].credit = c /\ clientPc[q] = "waiting" /\ nodePc[q] = "answered"}
RefundOf(queries) == SumFunctionOnSet([q \in Query |-> Price[q] - tally[q]], queries)
Debited(c) == {q \in Query : choice[q].credit = c /\ debited[q]}

\* What the payer may claim of a credit, or may take back, less what it cannot know
\* of; and by how much a file that is loaded later may be behind.
Claimed(c) ==
  PriceOf(Reserved(c)) + RefundOf(Returned(c)) - PriceOf(Unknown(c)) - PriceOf(DebitedTwice(c))
Missed(c) == PriceOf(Debited(c)) + PriceOf(DebitedTwice(c))

\* WalletIsBacked, with what the payer is yet to hear of, and of files too.
Backed(c) ==
  /\ wallet[c] # None =>
       credits[1][c] # None /\ wallet[c] + Claimed(c) <= credits[1][c].remaining
  /\ file[c] # None =>
       credits[1][c] # None /\ file[c] <= credits[1][c].remaining + Missed(c)

BackedInv == SidesAgree /\ (latest = 1 => \A c \in Credit : Backed(c))
=============================================================================
