# Verification of the Ulixee platform

TLA+ modules that model parts of the Ulixee platform (this repository, a
TypeScript monorepo), configurations that check them with TLC, and theorems
about them that TLAPS proves. Paths are relative to the root of the repository.

## The system

A *datastore* is a package of extractors, crawlers (both called *functions*
here) and tables. A *cloud node* hosts datastores and answers queries over
sockets; a *client* pays for them with an escrow (a payment channel of the
Argon localchain) or with Credits issued by the datastore.

| Component | State | Operations | Talks to |
| --- | --- | --- | --- |
| Escrow table, `DatastoreEscrowsDb` | one SQLite row per escrow (allocated, remaining, expiration); an in-memory map of the payments debited | create, debit, finalize, cleanup | called by the spend tracker, one table per datastore |
| Payments of a query: `QueryRunner`, `PaymentsProcessor`, `EscrowSpendTracker` | per run: price, tally, `shouldFinalize`; per node: open escrows of the localchain | debit, trackCallResult, storageEngineResult, finalize, importEscrow, updateSettlement | localchain; a tracker in the same process or behind a service connection; the remote storage engine |
| Query execution: `DatastoreInternal`, storage engines | SQLite database of a version, virtual tables of a query | queryInternal, query, queryStorageEngine | `QueryRunner` callbacks |
| Credits, `CreditsTable` | issued and remaining amount per credit | create, debit, finalize, migrate to a new version | `PaymentsProcessor`, upstream datastores |
| Payer: `ArgonReserver`, `CreditReserver`, `DefaultPaymentService`, escrow sources | balances of escrows and Credits, pending payments, files | reserve, finalize, createEscrow, updateSettlement, save, load | datastore client, localchain or databroker |
| Datastore client, `DatastoreApiClient` | active streams, cached manifests | query, stream | payer and node |
| Databroker | balances of organizations, escrows created for them | grant, debit, createEscrow, settle after a sync | localchain, administration API |
| `LocalchainWithSync` | a timer | scheduleNextTick | databroker, node |
| Registry: `DatastoreRegistry`, disk store, versions table | rows, files, caches | upload, install, roll back, start, stop, latest version | storage engine registry, cluster registry |
| Storage engine registry | open engines, connections | get, create, deleteExisting | registry, query execution |
| `WorkTracker` | pending runs and uploads | trackRun, trackUpload, stop | runs, shutdown |
| Statistics | totals and averages per version and per datastore | record, get | runs |
| Cloud nodes: `NodeTracker`, `NodeRegistry` | known nodes and when they were last seen | register, heartbeat, prune | each other |
| Crawlers, extractors, passthroughs, `ObjectObserver` | cache of a crawler, output | run | user code |
| Manifest, packager, virtual machine, SQL, schema, desktop, pages, command line | files, none, or a user interface | | |

What makes them hard:

- **Interleavings.** A node is one event loop; requests interleave at every
  `await`. Two runs may carry one payment (a query and its storage call), and
  two payments may draw on one escrow while a third settlement is recorded.
- **Failures.** The spend tracker may be another process: calls and answers are
  lost. Either process restarts; the escrow table survives, the map of debited
  payments does not. The payer restarts with an older file.
- **Order.** Settlements, debits, finalizations, cleanups and refunds of several
  runs arrive in any order; a rejected run still finalizes.
- **Boundaries.** Microgons are compared to milligons; balances are compared to
  zero, to the allocation and to what was signed.

What makes each component correct:

- *escrow table and payments*: the escrow is never charged more than was
  signed and allocated; what it pays is what its runs are charged; one payment
  buys one query; each request is answered;
- *Credits*: what was spent and what remains is what was issued; limits of
  embedded Credits hold; one version spends a credit;
- *payer*: its balance never exceeds what the datastore holds for it; pending
  payments are released once; a restart loses no escrow;
- *databroker*: grant = balance + open escrows + settlements, whichever step
  fails;
- *registry*: installed versions have their files; a failed installation leaves
  nothing behind; the latest version is the highest;
- *work tracker*: shutdown waits for all work; *nodes*: live nodes stay known.

`PROJECT.json` lists every hazard at its line with the properties that cover it,
or why none does.

## Modules

| Module | Models |
| --- | --- |
| `EscrowsDb` | `datastore/core/db/DatastoreEscrowsDb.ts`: the result and the effect of each method, all of which run without an `await` |
| `QueryPayments` | `PaymentsProcessor`, `EscrowSpendTracker`, `QueryRunner`, and the `Datastore.query`, `Datastore.stream`, `Datastore.queryStorageEngine` and `Escrow.register` endpoints, over `EscrowsDb` |
| `EscrowLedger` | the abstract specification: what a payer expects of an escrow |
| `CreditPayments` | `CreditsTable`, the Credits branch of `PaymentsProcessor`, `CreditReserver` and the Credits of `DefaultPaymentService`: a payer and a datastore |
| `EscrowPayments` | `ArgonReserver`, `LocalchainEscrowSource` and `DatastoreApiClient.query`, composed with `EscrowsDb` on the datastore's side |
| `Databroker` | `datastore/broker`: tables, `Databroker.createEscrow`, the administration API and `onLocalchainSync`, with the timer of `LocalchainWithSync` |
| `DatastoreInstalls` | `DatastoreRegistryDiskStore`, `DatastoreVersionsTable`, `StorageEngineRegistry.create`, `WorkTracker`, start and close of `DatastoreCore` |
| `QueryPayments_proofs`, `CreditPayments_proofs`, `EscrowPayments_proofs`, `Databroker_proofs`, `DatastoreInstalls_proofs` | theorems about the module of that name |
| `QueryAccounts_proofs`, `EscrowAccounts_proofs` | the accounts of `QueryPayments` and `EscrowPayments`: what adds up, what is refused, what implements the ledger |
| `Sums_proofs` | sums over finite sets, for the proofs above |
| `MC*` | small instances, with one `.cfg` per run |

No module reaches a `RECURSIVE` operator; sums are folds of the community
modules. Definitions whose comment begins with "Mutated" are variants of the one
that follows; no behaviour uses them. They record a plausible mistake that a
property would notice.

### QueryPayments

A *run* is one request. `pc[r]` is the `await` it is at:

| `pc` | Code | Leaves by |
| --- | --- | --- |
| `idle` | no request yet | `Submit` |
| `startDebit` | `PaymentsProcessor.debit`, the price checks | `StartDebit` |
| `readSettlement` | `await escrow.escrow` in `updateSettlement` | `ReadSettlement` |
| `recordSettlement` | `await escrow.recordUpdatedSettlement` | `RecordSettlement` |
| `debit` | `DatastoreEscrowsDb.debit` | `AcceptDebit`, `RepeatDebit`, `RefuseDebit` |
| `function` | `QueryRunner.runFunction` | `RunFunction` |
| `storage` | `StorageEngine.query` | `QueryLocalStorage`, `CallStorageEngine` |
| `storageQuery` | the storage engine host, after its own debit | `RunStorageEngine` |
| `finalize`, `finalizeRejected`, `refinalize` | `QueryRunner.finalize`: of a run that went on, of one whose debit threw, and the second one of a query whose first one threw | `Finalize`, `FailFinalize` |
| `done`, `rejected`, `crashed` | answered, failed, lost with its node | |

A storage call debits like its run does: `stage[r]` says which of them is
debiting, `storageFinalize` is the `shouldFinalize` of the call's own
`PaymentsProcessor`. `owed`, `accepted`, `executed` and `finalized` are history
variables for the properties. What a run *costs* (`Cost`, and `owed` once it finalizes)
is what its functions tallied and the price of its tables, wherever these are: the docs
charge a table's `basePrice` per query (`docs/basics/table.md:37`). What it is
*finalized with* (`FinalPrice`) is what the code passes on, which leaves out tables on a
remote storage engine. The environment registers escrows, cleans up, restarts the
tracker (`RestartTracker`) or the node (`RestartNode`; with a tracker in the
same process a restart is one followed by the other), and lets time pass.

Abstractions, and why they lose nothing the properties tell apart:

- one datastore, since each has its own escrow table and payments name it;
- a query calls the datastore's function, its table, or both; a stream calls
  one. Prices add up, so one of each kind is what the code distinguishes.
  Functions a stream calls do not reach the storage engine. Passthrough tables
  behave as functions for payments and are left out;
- the function's upstream call reports at most the price the manifest quotes for it;
- a payment id comes with the same terms (escrow, microgons, settlement)
  whenever it is used, as its reserver makes them together; two runs may carry
  the same payment, and a run may carry none;
- a query id is the id of a top-level query, or that with `.Q`: what
  `startsWith` distinguishes among the ids the runner makes;
- the localchain (a native library) is external: it keeps the larger
  settlement, and may reject one;
- `importEscrow` awaits the localchain before it creates the row. `RegisterEscrow`
  takes both at once, as the payer awaits `Escrow.register` before it lists the escrow
  (`ArgonReserver.ts:191`) and no payment with it is under way; the crash in between is
  an outcome of `RestartTracker`;
- the manifest has a payment address: without one `PaymentsProcessor.debit` asks for
  nothing (line 40), whatever the prices, and no payer reserves;
- whatever fails before `PaymentsProcessor.debit` touches no payment.

### EscrowLedger

An account has an allocation, an amount spent and an amount signed. Steps open
it, sign a larger amount, hold what is signed and allocated, release part of
what is held, or close it. `QueryPayments!Accounts` maps an escrow's row and its
settlement in the localchain to an account; an escrow that the localchain knows
and that has no row is closed.

`EscrowPayments!Accounts` maps the same accounts from both sides at once: the
row at the datastore, and as the amount signed the largest settlement among the
payments the payer has *sent* (`Signed`), not those it has signed and kept. An
escrow is unopened as long as the source has not created it or its registration is
on the way (`Unopened`); one that was created and has no row any more, or whose
registration failed, is closed for good. So the two refinements tell a node and a
payer apart: the first says that a node which records what it is sent holds no
more than that, the second that the payer's queue, signatures, retries and
restarts only ever send it what makes it hold what the payer reserved.

### CreditPayments

`clientPc[q]` and `nodePc[q]` are the `await`s of a query at the payer and at the
datastore.

| Action | Code |
| --- | --- |
| `Create`, `Migrate` | `CreditsTable.create`, `onVersionMigrated` |
| `Attach` | `DefaultPaymentService.attachCredit` with `CreditReserver.lookup` |
| `Submit`, `Reserve` | the choice of a credit before the queue, and the second check in it |
| `Answer`, `NodeGone`, `ConnectionLost` | `DatastoreApiClient.query`, which finalizes with the answer or at zero; or not at all, if the caller's `onQueryResult` throws |
| `Save`, `PayerRestart` | the debounced `save`, with its deletion of a used-up file; loading the files |
| `DebitSelect`, `DebitUpdate` | the two statements of `CreditsTable.debit` |
| `RunQuery`, `NodeFinalize` | the functions, `QueryRunner.finalize`, `PaymentsProcessor.finalize` and `CreditsTable.finalize` |
| `StorageSelect`, `StorageUpdate` | `Datastore.queryStorageEngine` of a version whose tables are on another host: its `PaymentsProcessor` debits the same credit |
| `NodeRestart` | what was running is lost; the table stays |

The queue of a reserver is external: a query gets its turn some time after it
asked. A reservation in the queue runs without an `await`, so turns need no
lock. Which of several Credits is taken depends on the order they were attached
in; the model takes any. `opening` is the history of what each row had when it
was inserted, `givenUp` of the queries that the payer finalized without an answer, or
had sent when it restarted.

The versions in `RemoteVersions` keep their tables, `ulx_credits` too, on a remote storage
engine. There a query calls the engine with its payment. Nothing remembers that a query
paid by Credits was debited, so the call debits the price of its tables once more, if
that is the price of the payment; if it is not, because functions are called
too, the call throws `InsufficientQueryPriceError`. It tallies what it debited and refunds
nothing, and its tally does not reach the run, which refunds its own debit. The
connection to that engine does not fail in the model, and the statements on
`ulx_credits` it forwards are taken like local ones: their lost answers would be debits
and refunds that a query does not know of, as those of the fault `NodeRestart` are.

### EscrowPayments

| Action | Code |
| --- | --- |
| `TakeOption`, `OpenEscrow`, `FailToOpen` | a turn of `ArgonReserver.reserve`: drop spent and expired escrows, charge the first with enough left, or create one |
| `Register`, `RegistrationLost` | the rest of `createEscrow`: `registerEscrow` and the new entry of the list |
| `Sign`, `SignFails` | `updateSettlement` after its `await`, and the rest of `charge` |
| `Send`, `Answer`, `ErrorAnswer`, `ConnectionLost` | `DatastoreApiClient.query` and `ArgonReserver.finalize`; a callback of the caller that throws is awaited before it, and leaves the reservation |
| `Save`, `PayerRestart` | `writeToDisk` on its interval, `load` |
| `AcceptDebit` ... `NodeFinalizeThrows` | `QueryRunner` at the datastore, as in `QueryPayments`, over `EscrowsDb` |
| `CleanupEscrows`, `NodeRestart`, `Tick` | `DatastoreEscrowsDb.cleanup`, a restart, time |

`queue` is the query whose turn it is and `target` the settlement that is being
signed for it: turns wait for each other, finalizations do not and change the
balance meanwhile. A payment refers to the entry of the list, so a payment that
is not yet sent changes when a later one signs (`PaymentsOf`). `recorded` and
`forgotten` are history: whose reservations the file has, and whose a restart
lost. One datastore, as queues and lists are kept by datastore. An escrow of the list
is taken only if its host, which is kept as the caller wrote it, is equal to the host
of the request without protocol and path (`ArgonReserver.ts:141`): `SameHost` are the
escrows of which this is so, any others are never used again. The payer's
source of escrows opens what it is asked for until its funds (the set `Escrow`)
are used up.

### Databroker

`Databroker.createEscrow` passes an asynchronous function to
`db.transaction`, which commits at the first `await`. So `StartCreateEscrow` (the
checks and the debit), `OpenEscrow` (the localchain) and `RecordEscrow` (the row)
are separate steps, and a request that fails in between keeps the debit.
`Administer` has the handlers of `AdminApiEndpoints`, each one statement or one
real transaction. `Sync` is the timer of `LocalchainWithSync`, which is not set again;
`SettleEscrow` is one round of the loop in `onLocalchainSync`; that `await
notarization.escrows` succeeds is assumed (it is outside of the loop's `try`, and a rejection
would end the loop). `Restart` sets the
timer and loses what was being handled. `chain` is the localchain (external).
`known` and `paid` are history.

### DatastoreInstalls

An installer is a package that is uploaded, or `Disk`, the loop
`installOnDiskUploads` of a start, which installs one directory after the other.
`pc[i]` is the `await` of `install` it is at; from `load` on it is inside
`onInstalled`.

| Action | Code |
| --- | --- |
| `Upload` | `Datastore.upload`, `DatastoreRegistry.saveDbx` |
| `Check`, `Reject` | a version with a row is a duplicate; invalid packages and identities throw |
| `Find`, `RemoveOld`, `Move` | `existsAsync`, `Fs.rm`, `Fs.rename` |
| `Save` | `saveManifestMetadata` and the choice of the previous version |
| `Load`, `CreateTables`, `Migrate`, `Throw` | `StorageEngineRegistry.create` with `AbstractStorageEngine.create` |
| `RollBack`, `RemoveNew` | the `catch` of `onInstalled`, and of `installOnDiskUploads` |
| `Timeout`, `Stop`, `Shutdown` | `WorkTracker`, `DatastoreCore.close` |
| `Crash` | the end of the process: rows, directories and storage stay, caches do not |
| `CopyToDisk`, `Start`, `Unpack`, `InstallOnDisk`, `Started` | packages put in the directory while the node is down, and `DatastoreCore.start` |

Abstractions: one datastore, as rows, directories and storage are kept by
datastore; the node hosts the storage itself; a package is valid or not, which
`Reject` and `Throw` choose; the reads between the row and the callback of
`onInstalled` are taken with `Save`; the tables of a version are created together
(`partial` from the first one on); a directory that is to be removed can be.
`Stop` is modelled of a node that is up, a crash at any time. `met` and
`interrupted` are history: which uploads overlapped, and which versions were
being installed when the process ended.

## Runs

| Run | Asks | Result |
| --- | --- | --- |
| `query_payments_local` | two runs, two payments, tables on the node | every invariant and the refinement hold |
| `query_payments_remote` | two runs that share a payment, tables on a remote engine | the settlement, the refinement and what a payment buys the same; until a restart the spend is what is owed but for the tables; each request is answered |
| `rejected_query_refunds` | do rejected queries leave the escrow alone? | no: they release the hold of another run of the payment |
| `payment_reused_after_restart` | is a payment id used once? | not across a restart of the tracker |
| `remote_queries_are_free` | do answered queries pay? | not on a node with a remote engine: the storage call finalizes a query of functions at zero, and the run finalizes its tables at zero |
| `table_stream_charges_twice` | is a stream charged its price? | a table is charged twice |
| `credit_payments` | two queries of one credit, on a version with a remote engine and one without, with two faults | all properties hold |
| `escrow_payments` | three queries of one payer on two escrows, with one fault | all properties hold |
| `databroker` | two requests, two organizations, a sync, a restart | all properties hold |
| `databroker_active_balance` | is `balanceInEscrows` what active escrows hold? | not after a `createEscrow` that failed |
| `databroker_automatic_sync` | are expired escrows settled by automatic syncs? | not after the first sync of a process |
| `datastore_installs` | two packages, two versions, a crash | all properties hold |

Six runs expect a violation; each checks what a test, a type, a comment or the
documentation says, and the findings in `PROJECT.json` quote it. In
`QueryPayments`, `SpendIsOwed` therefore excludes escrows with a run whose debit
threw, `PaymentBuysOneQuery` is stated for executions in which nothing
restarted, and the first run offers no stream of a table.

Properties of `QueryPayments`:

- `SettlementCoversSpend`: what an escrow was charged lies between zero and its
  allocation, and is covered by the settlement the localchain recorded;
- `SpendIsOwed`: with the tables on the node, an escrow pays exactly what its runs
  cost and holds the price of those that run, if none of them was free or had a debit
  that threw;
- `NeverOvercharged`: and never more, whichever debits threw;
- `OnlyTablesAreFree`: with a remote engine two calls debit and finalize one payment.
  Until the tracker restarts, an escrow still pays what its runs cost, but for exactly the
  prices of the tables of finalized queries, which the code loses; and never more;
- `PaymentBuysOneQuery`: until a restart of the tracker, the runs a payment lets
  through belong to one query while the escrow has its row, and at most one of
  them was ever debited;
- `ChargedAtMostPrice`: an answered run owes at most the quoted price;
- `RequestsAreAnswered`: each request ends (liveness);
- `ImplementsLedger`: the refinement of `EscrowLedger`.

Of `CreditPayments`:

- `CreditsAreExplained`: on every version, what remains of a credit is what its
  row began with, less what runs hold and answered runs cost, less what storage calls
  debited once more, plus what refused queries were refunded without a debit;
- `CreditsNeverOverdrawn`: no credit goes below zero, though its balance is
  selected in one step and updated in another;
- `WalletIsBacked`: while there is one version, the balance the payer keeps, with what it
  reserved and the datastore has yet to debit, is backed by the datastore's, up to charges
  the payer cannot know of: queries it gave up or forgot in a restart, and second debits
  of storage calls. It holds through restarts, late files and lost answers;
- `ReservedIsAccepted`: while there is one version, the datastore refuses a query the payer
  reserved and did not give up only if there is such a charge;
- `ReservationsAreFinalized`: every reservation is finalized, unless the caller's callback
  threw (liveness).

Of `EscrowPayments`:

- `SignedCoversReserved`: what is signed covers what is reserved and spent, and
  no more than the escrow, across the `await` of a signature;
- `PayerBalanceIsBacked`: what the payer believes it may spend, the datastore
  has, up to queries the payer gave up or forgot;
- `RefusedIsOvertaken`: without faults a payment is only refused when one of the
  same escrow was settled for more, or was given up, or the escrow expired;
- `ImplementsLedger`: payer and datastore together refine `EscrowLedger`;
- `QueueMovesOn`: the queue waits for exactly the query that is registering or
  signing, and never for one that failed.

Of `Databroker`:

- `GrantsAreConserved`: balance, escrows and settlements add up to the grants;
- `EscrowBalanceIsExplained`: what is in escrows is held by open rows or by
  requests that left no row;
- `EscrowsHaveOrganizations`: also when an organization is deleted while a
  request of one of its users waits;
- `NotarizedEscrowsAreRecorded`: a settlement the notary accepted reaches its
  row, unless the broker restarts in the middle of a sync (liveness).

Of `DatastoreInstalls`:

- `InstalledStaysInstalled`: what was answered to be installed keeps its row, its
  own package and its storage;
- `InstalledOrAbsent`: a version nobody is installing is there as a whole, or
  has neither row nor directory;
- `VersionsAreListed`: the cached list of versions misses no row;
- `MigratesFromPrevious`: a version is migrated from the highest one installed
  below it, though the list still names versions that were rolled back;
- `StartsSucceed`: a node that is started again and again starts: each failure
  removes what it failed at;
- `ShutdownEnds`: a shutdown ends, though the code of a package may not return.

The two invariants exclude versions whose installations overlapped, and
`InstalledOrAbsent` needs no storage of a version that was interrupted by the end
of the process; see the observations below.

### Bounds

`QueryPayments`. One escrow: escrows only meet in a run's payment, which names one. Two runs and
two payments show every pair of roles (sharing a payment or not, sharing a query
or not). The remote run has two query ids, which tell related queries from
unrelated ones; the local run has one (and the query derived from it), so that
there `PaymentBuysOneQuery` only says that at most one of the runs was debited. Two
microgons to a milligon and settlements of one or two milligons make all
roundings differ; payments of one and two microgons fit a milligon by
themselves and exceed it together, so that they need the larger settlement or do
not fit the escrow. The remote run gives the function an upstream call, so that
a run may end up cheaper than it was debited; in the local run a function that
fails does that.
`CleanupDelay` is zero and time takes two values, so that rows are live, expired and
deleted. `MaxRestarts` is one: either process restarts at any step, once. The remote run
has one payment, as its question is what a run and its storage call do with the
same one, and one milligon.

Safety runs use symmetry over runs, payments and query ids; the run with the
liveness property uses none.

The run `remote_queries_are_free` offers queries of one table and of one function, with one
query root, no restart and no expiration: the counterexample needs none of them.

`CreditPayments`. One credit: Credits meet nowhere but in the choice of one.
A query of a table of price two and one of a function of price one against at most four
issued: the table query fits twice, as it is debited twice on the remote engine of version 1, both
queries fit, one, or none; the function may fail at no cost. Version 2 is local: what a
query costs there is tallied. `MinBalance` is one, so that a file is deleted with one
left. Two faults (`MaxFaults`) give a restart of either side after a lost call.

`EscrowPayments`. Prices 1, 3 and 5 against escrows of two milligons of two microgons:
the first two fit one escrow together and leave nothing, the third exceeds it.
The second and the third may end at no cost. Both escrows may be used again (`SameHost`): those
that may not only take choices away. Escrows live one tick (`Lifetime`) of a clock of two
(`MaxTime`), so they are live, expired and cleaned up; a second escrow is opened after
the first is spent, expired or lost. One fault: any restart, lost call or failed
signature, at any step.

`Databroker`. Two organizations and one user that may change between them; two
requests, which compete for one balance or draw on two; grants up to two milligons,
so that a balance is enough for both requests, for one or for none; one restart.
`SyncMayThrow` is `FALSE` only where a violation should not be blamed on a failure.

`DatastoreInstalls`. Two packages with any two versions: the same version twice, or one
above the other, in either order, uploaded or found on disk. One crash, and any
number of shutdowns and starts. Three packages exceed what a run can take in
minutes; what a third could add, an installation after a failed one and beside
another, is within the theorems.

Only `datastore_installs` checks deadlock: a node can always be shut down or started. The
other runs set `CHECK_DEADLOCK FALSE`, as a system whose requests are all
answered, with its clock and its faults at their bounds, has nothing to do.

### Fairness

`QueryPayments`: `WF_vars(Advance(r))` for each run: the event loop runs each continuation that is ready, and each call to the
localchain, the tracker, the storage engine or user code returns or fails (the
runner bounds the time of functions, and a lost connection rejects what waits
for it). Nothing is assumed of requests, registrations, cleanups, restarts or the clock.

`Databroker`: the handlers go on (`Handle`), escrows expire (`Expire`: time passes) and a
timer that is set fires (`Sync`). `CreditPayments`: both sides of a query go on, and
a debounced save happens. In both, calls return or fail, as their actions have
both outcomes. `EscrowPayments` states no fairness: its properties are about safety,
and its instance is at the limit of what a run with liveness can take.
`DatastoreInstalls`: timers fire (`Timeout`), a shutdown goes on when it may (`Shutdown`), a
node that is down is started, and its start goes on (`StartSteps`). Nothing is
assumed of uploads: the code of a package may never return.

## Proofs

Every safety property and every refinement of the passing runs is a theorem, for
every value of the constants. The proofs use the assumptions the modules name: bounds
are naturals, prices and offers are well formed, `None` is not a value, and runs,
queries and requests are finitely many (a sum over all of them has to exist; a
process handles finitely many). TLC checked each inductive invariant on the instances
before it was proved.

### Sums_proofs

The accounts are sums over sets of queries, and the community modules define a sum
as a fold: the `CHOOSE` of a recursive function, about which the provers know
nothing. `SumCountsUnits` replaces it by a cardinality. A value `n` of an element `x` stands for the
pairs `<<x, 1>>` to `<<x, n>>`; counting these solves the equation of the fold, and
the equation has one solution (a smallest set on which two differed could not be).
The rest follows from the library's facts on cardinality: `SumType`,
`SumWithout` and `SumWith` (one element), `SumOfUnion` (two sets), `SumAgrees`,
`SumChangesAt` (one value) and `SumMonotone`.

### QueryPayments_proofs

For every number of escrows, payments, runs and prices, any bounds, and any
ratio of microgons to milligons:

- `TypeCorrect`: `Spec => []TypeOK`. The typing of an action needs that a run
  that is debiting carries a payment, so the proof is of `TypeInv`.
- `IInvHolds`: the inductive invariant `IInv`. `SettlementCoversSpend` is not
  inductive: finalizing could charge more than the run was debited. It cannot
  because (1) a run is only debited, or goes on, when its payment is worth the
  price of its calls (`DebitMatchesPrice`, `TallyMatchesPrice`), (2) entries of
  the map say what their payments say (`EntriesMatchTerms`), also when another
  run or an earlier storage call wrote them, and (3) a run never tallies more
  than the price of its calls. (3) is false of streams of tables, so the theorem
  assumes `NoTableStreams`, a condition on `Offers`: `table_stream_charges_twice`
  shows that it is needed.
- `SettlementAlwaysCoversSpend`: `Spec => []SettlementCoversSpend`, from it.
- `LedgerImplemented`: `Spec => ImplementsLedger`. The initial states map to unopened accounts;
  debits hold, finalizations hold or release (a run that shares a payment may
  finalize it twice), settlements sign, registrations open, cleanups close and
  every other step leaves the accounts alone. `IInv` bounds what is held.

### QueryAccounts_proofs

What a payment buys and what an escrow pays. All of it rests on `HistoryInv`, what
a run has done by where it is, and on what the localchain knows.

- `PaymentAlwaysBuysOneQuery`, from `BuyersInv`: while an escrow has its row,
  the entry of a payment names the query it bought. The entry outlives the row, so
  a second debit of the payment needs a restart; `PaymentIdIsOneTime` says that the
  documented `OneTimePayment` holds until then.
- `AlwaysChargedAtMostPrice`, from `OwesAtMostPrice`, given `NoTableStreams`: a run
  that does not finalize owes what its storage call was debited, if it was.
- `SpendAlwaysOwed` and `PayersNeverOvercharged`, from `OwedInv`, with the tables on the
  node itself. Three facts carry the sum: a debit adds the same to the row and to
  its run, a finalization takes the difference from both, and a finalization that
  throws leaves the row with at most what the run still owes. A run whose debit threw
  may release what another one holds, so the equality is of escrows without such
  runs (`RejectedQueriesAreFree` is the finding) and the inequality of all.
- `OnlyTablesFreeUntilRestart` and `RemoteNeverOvercharged`: the same with a remote engine,
  where a storage call debits and finalizes the payment of its run once more. Until a
  restart it finds the payment remembered (`BuyersInv`), so it is not debited, and as the
  run that made it was let through and calls a table (`StorageInv`) it leaves the
  finalization to that run. That run leaves out its tables, so the sum is of `Payable`, what
  runs owe without `FreeTables`: the theorem says that this is all that is lost. It
  assumes `TablesArePriced`, a condition on `Offers`: a query without a table loses its
  functions too (`remote_queries_are_free`). After a restart the storage call is
  debited again, and TLC finds a spend above what is owed.
- `AnsweredQueriesPaid`: with the tables on the node itself and no free offer, an escrow
  whose runs were all let through and answered has paid their costs. With a remote
  engine it is false (`AnsweredEntitiesArePaid` is the finding).

### Databroker_proofs

- `TypeCorrect`, `GrantsConserved` and `EscrowsOwned`. That the columns of an
  organization add up is preserved by each statement, but only if a settlement
  goes to the organization that was debited, which has its row, and is no larger
  than the hold: `DebitsPrecedeEscrows` says what a request has done by the time
  it waits at a label, `UsersHaveOrganizations` and `UnknownHaveNothing` that ids
  refer to what exists.
- `EscrowBalanceExplained`. The balance in escrows is what outstanding requests
  took (`EscrowBalanceIsOutstanding`): a debit adds one request to the sum and a
  settlement takes one out, once (`SettledOnce`), and an organization that is new has
  none (`DebitsAreOfKnown`). What is outstanding has an open row, which holds what
  was taken, or no row.
- `BalanceInActiveEscrows`: the documented `BalanceIsInActiveEscrows` holds until a
  request fails between its debit and its row.

### CreditPayments_proofs

- `TypeCorrect` and `NeverOverdrawn`. The second check in the `UPDATE` keeps a credit
  above zero, and a refund is never negative as a query tallies at most its
  price (`QueriesAreChosen`; an assumption on `Tally`, which streams of tables
  break). That the payer's balance is a natural number needs the check in the
  queue, and `SavesAreOfWallets`.
- `CreditsExplained`. A debit, the second debit of a storage call and a refund move one
  query from one sum to another
  (`DebitsPrecedeCalls`: once each, and in this order), a new version opens with what the one
  before had, and a version to come has no query (`OnlyIssuedIsUsed`).
- `WalletAlwaysBacked`, from `BackedInv`. The inductive form adds what the datastore returned
  and the payer has yet to hear of to what the payer may claim (`Claimed`), and bounds what a
  file that is loaded later may be behind by all that was ever debited (`Missed`). A query
  the payer does not wait for is over at the datastore or was given up (`SidesAgree`), so a late
  debit or refund is always of a charge that is counted.
- `ReservedAccepted`. A query the payer waits for is part of what it claims, so without a
  charge it cannot know of the balance covers its price, when it is selected and when it
  is updated; such charges never go away.

### EscrowPayments_proofs

`TypeCorrect`, `SignedAlwaysCoversReserved` and `QueueAlwaysMovesOn`. A settlement is
computed before the signature and recorded after it, while finalizations change
the balance. They only release, as a query costs at most its price
(`QueriesHaveEscrows`), so what is signed still covers the payment
(`SigningIsCovered`); the list keeps the escrow meanwhile as only turns drop
entries, and there is one turn (`QueueMovesOn`). A restart goes back to what was
covered once (`SavedIsCovered`); an escrow that is registered has at least the
minimum settlement (`RegisteringAtMinimum`).

### EscrowAccounts_proofs

The accounts of the two sides, for any strategy of opening escrows. `AccountsInv` has
four parts: the payer leaves an escrow no more than its queries cost it, the file no
more than what it recorded, and the datastore no less (`CostsAreBooked`); lists,
files and rows agree on what was locked (`EscrowsAreOpened`); how far a query is with
each side (`QueryInv`); and, while nothing is lost, some payment of the escrow is
settled for all that it pays (`SettledForAll`). The steps of the payer's queue are
first shown to be cases of one relation, `TurnStep`, and the invariant is
proved of that.

- `PayerBalanceAlwaysBacked`. A query costs the payer less than the datastore only if
  the payer gave it up or forgot it, so the sums differ by the prices of these.
- `RefusedAlwaysOvertaken`. The datastore refuses a payment whose settlement does not
  cover the holds. If none was settled for more, this one is settled for all that
  the payer has reserved, which is all that the datastore holds unless a query was
  given up. Payments and settlements only grow, so a payment that was overtaken stays so.
- `PaymentsImplementLedger`: `Spec => ImplementsLedger`, with both processes as one
  account. Registration opens it; a request signs, if its settlement is the largest
  that was sent; debits hold, finalizations release; the end of an escrow, a restart
  of the payer or a lost registration close it; all other steps leave it alone.
  `AmountsInv` bounds what is locked, settled and returned. An account is opened at most
  once, since a row is only created while its query is registering.

### DatastoreInstalls_proofs

`TypeCorrect`; `VersionsAreAlwaysListed`; `InstalledAlwaysStaysInstalled`,
`InstalledAlwaysOrAbsent` and `AlwaysMigratesFromPrevious`. Two lemmas, `StepFacts` and `StepChanges`, say once what any
step may do to a version; the rest argues from them, not from the actions.

- Uploads run while the node is up, `Disk` while it starts
  (`InstallersTakeTurns`), and any two uploads that are busy have met
  (`BusyHaveMet`). So an installation that did not overlap is the only one of its
  version, and owns its directory from the move on and its row from the save on
  (`UploadsOwnTheirVersion`). Once it is answered to be installed, a later one
  of the version finds the row (`InstalledOnce`).
- The rest is bookkeeping between rows, directories, storage and installers:
  `RowsFollowInstallers`, `RowsHaveFiles`, `DiskInstallsFiles`, `FilesHaveRows` and
  `RowsHaveStorage`. They imply `InstalledOrAbsent`.
- The version to migrate from is chosen by the save and used at the end
  (`PreviousStaysHighest`): the list may name versions that were rolled back, but their
  rows are gone, and a version below that is installed meanwhile is an overlap.

### Only model-checked

- Liveness: `RequestsAreAnswered`, `NotarizedEscrowsAreRecorded`,
  `ReservationsAreFinalized`, `StartsSucceed` and `ShutdownEnds`. Fairness is `ENABLED`,
  which the prover does not handle.
- The runs that end in a violation: their counterexamples are behaviours of
  small instances. The theorems that say where their properties do hold are named
  above.
- Nothing else: `OnlyTablesAreFree` and `NeverOvercharged` are not claimed of a remote storage
  engine after a restart of the tracker, where they are false (see Observations), nor
  `WalletIsBacked` and `ReservedIsAccepted` of a datastore with two versions.

## Observations

What the modelling showed beside the findings. No document says otherwise, so
no run checks these.

- `DatastoreEscrowsDb.debit` remembers a payment before its `UPDATE`: if that
  changes no row, a second request with the same payment and query id finds the
  entry and runs without a debit. (Neither client sends a query twice.)
- Two uploads of one version at the same time both pass the check. The second
  `CREATE TABLE` throws, and its roll back deletes the row and the files of
  the first, which may have been answered to be installed.
- The tables of a failed installation stay, and the check whether storage exists
  looks for another file name (`StorageEngineRegistry.ts:115`), so a second attempt
  at the version fails at `CREATE TABLE`.
- A version that was being installed when the process ended keeps its row without
  storage, and as it has a row it is not installed again.
- A package that fails is removed from the directory, but not its `.dbx.tgz`,
  which the next start unpacks again: the node does not start until somebody removes it.
- The list of versions keeps those that were rolled back, and `getLatestVersion`
  may name one.
- `DatastoreVersionsTable.save` compares the latest version the wrong way round
  (line 132) and inserts `isStarted` and `isLatest` in the order of neither
  column (line 146).
- A shutdown waits for the uploads it finds; those that arrive while it waits are
  cut off.
- A debit that failed after the cleanup of its escrow leaves its entry in the map, and
  a later run with the same payment and query finds it and runs unpaid.
- A tracker that restarts between the debit of a run and that of its remote storage
  call has forgotten the payment, and debits the escrow for it twice.
- A run that is free and comes with a payment finalizes that payment, which nobody
  debited.
- A query that is refused releases its price, which another one holds. The
  finalization of that one may then find less held than it releases, and throws, so a
  third payment is refused for what it did not return (prices 1, 5 and 3 from an
  escrow of four milligons).
- After a restart the payer has balances but no open escrows: a query that needs
  a larger settlement fails until the escrow expires.
- `ArgonReserver.finalize` throws when a turn dropped the escrow of the payment.
- A query whose debit of Credits is refused is refunded its price, which was not debited
  (`CreditsTable.ts:92`; `docs/advanced/credits.md:32` has `remainingCredits` go down by the
  final total). `CreditsAreExplained` states it as a term of its own.
- A new version copies the Credits of the previous one, and both copies can be spent:
  a payer with one balance may spend it on each.
- With a remote storage engine a query of tables that is paid by Credits is debited by its run
  and again by its storage call. If the balance is too small for both the query fails;
  otherwise the run, which tallies nothing, refunds its debit and reports a cost of zero, so the
  payer believes to have more than the datastore says, and a later query it reserves
  is refused. (A pending test, `DatastorePayments.test.ts:282`, names double charges of storage
  and tables.) A query of tables and functions that is paid, by Credits or from an escrow, fails:
  its storage call is charged another price than its payment has.
- `DatastoreApiClient.query` awaits `onQueryResult` before it finalizes (line 270): if that
  throws, the reservation stays pending and its rest cannot be spent again. A stream finalizes first.
- The totals of a datastore start from the row of one of its versions after a restart
  (`DatastoreStatsTable.ts:86`).
- `CreditsTable.create` does not enforce the upstream limit: the sum it compares is
  undefined.

## Plan

Done: payments of a query by escrow and by Credits on both sides, the databroker, and the
installation of versions, with proofs of all their safety properties. In the order
in which they would add most:

1. An abstract purse that `CreditPayments` refines, as `EscrowLedger` is for escrows.
2. `RemoteReserver` and `EmbeddedPaymentService`: payments of a datastore to the datastores
   it calls, composed with `EscrowPayments`.
3. The registry of a cluster: `DatastoreRegistryServiceClient`, `installFromService` and
   storage engines on other hosts, above `DatastoreInstalls`.
4. `NodeRegistry` and `NodeTracker`: heartbeats and pruning.
5. Runs in `WorkTracker`, with cancellation.

## Not modelled

- Parsing and translation of SQL, schemas, manifests and packaging, the virtual
  machine, the client facade, specification types and helpers: no state that
  several actors change; text, files or types.
- Desktop application, pages of the broker and of datastores, command line, website: user
  interfaces and tests over the same APIs.
- Statistics: sums over a log, each kept by one statement.
- Cloud nodes: a map of heartbeats and routing of sockets.
- Crawlers, extractors and passthrough tables: code of users runs in them; for
  payments they are functions.
- Of the registry: `startAtPath` and its watcher, `isLatest` and `isStarted`,
  publishing dates, the store of a cluster leader.
- Of the datastore client: the output of streams.
- The localchain, a native library: external wherever it appears.
