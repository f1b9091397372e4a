------------------------------ MODULE Databroker ------------------------------
(***************************************************************************)
(* A databroker opens escrows on behalf of the users of organizations.     *)
(* Organizations, users and escrows are rows of one SQLite database; the   *)
(* escrows themselves, and the money, are in a localchain (external).      *)
(*                                                                         *)
(* Databroker.createEscrow runs inside db.transaction with an async        *)
(* function: the transaction commits at the first await, so the debit of   *)
(* the organization and the row of the escrow are separate steps, with the *)
(* localchain in between.  Settlements come back with the localchain's     *)
(* sync, which LocalchainWithSync runs from a timer.                       *)
(***************************************************************************)
EXTENDS Integers, FiniteSets, Functions

CONSTANTS
  Organization,  \* ids of organizations
  Identity,      \* users
  Request,       \* Databroker.createEscrow requests; also the escrows they open
  MaxMilligons,  \* bound on what is granted to an organization
  MaxRestarts,   \* bound on restarts of the broker
  SyncMayThrow,  \* may balanceSync.sync throw (TRUE, unless a run assumes it away)?
  None

Milligons == 0 .. MaxMilligons

\* A run of the broker handles finitely many requests.
ASSUME RequestsAssumption == IsFiniteSet(Request)
ASSUME BoundsAssumption ==
  MaxMilligons \in Nat /\ MaxRestarts \in Nat /\ SyncMayThrow \in BOOLEAN

\* Only the balance has a CHECK; what is in escrows is just a number.
OrganizationRow == [totalGranted : Nat, balance : Nat, balanceInEscrows : Int]
EscrowRow == [organization : Organization, held : Nat, settled : Nat \cup {None}]

ASSUME NoneAssumption ==
  None \notin OrganizationRow \cup EscrowRow \cup Nat \cup Organization

Pc == {"idle", "openEscrow", "recordEscrow", "done", "failed"}

\* Of an escrow in the localchain: whether it is there, its hold expired, or
\* the notary settled it.
ChainState == {"absent", "open", "expired", "notarized"}

VARIABLES
  organizations,  \* the tables
  users,
  escrows,
  whitelisted,    \* is the domain of the requests in the whitelist?
  pc,             \* where each request waits
  debited,        \* the organization and milligons a request took
  chain,          \* the localchain's escrows
  syncing,        \* notarizations of a sync that onLocalchainSync has yet to handle
  nextTick,       \* is the timer of LocalchainWithSync set?
  restarts,
  known,          \* history: organizations ever created
  paid            \* history: what the escrows of an organization settled for

tables == <<organizations, users, escrows, whitelisted>>
vars == <<tables, pc, debited, chain, syncing, nextTick, restarts, known, paid>>

NoDebit == [organization |-> None, milligons |-> 0]

TypeOK ==
  /\ organizations \in [Organization -> OrganizationRow \cup {None}]
  /\ users \in [Identity -> Organization \cup {None}]
  /\ escrows \in [Request -> EscrowRow \cup {None}]
  /\ whitelisted \in BOOLEAN
  /\ pc \in [Request -> Pc]
  /\ debited \in [Request -> [organization : Organization \cup {None}, milligons : Nat]]
  /\ chain \in [Request -> ChainState]
  /\ syncing \in [Request -> Nat \cup {None}]
  /\ nextTick \in BOOLEAN
  /\ restarts \in 0 .. MaxRestarts
  /\ known \in SUBSET Organization
  /\ paid \in [Organization -> Nat]

Init ==
  /\ organizations = [o \in Organization |-> None]
  /\ users = [i \in Identity |-> None]
  /\ escrows = [r \in Request |-> None]
  /\ whitelisted = FALSE
  /\ pc = [r \in Request |-> "idle"]
  /\ debited = [r \in Request |-> NoDebit]
  /\ chain = [r \in Request |-> "absent"]
  /\ syncing = [r \in Request |-> None]
  /\ nextTick = TRUE
  /\ restarts = 0
  /\ known = {}
  /\ paid = [o \in Organization |-> 0]

Goto(r, label) == pc' = [pc EXCEPT ![r] = label]

HasRow(o) == organizations[o] # None
RowsOf(o) == {r \in Request : escrows[r] # None /\ escrows[r].organization = o}
OpenRows(o) == {r \in RowsOf(o) : escrows[r].settled = None}
Settled(r) == escrows[r] # None /\ escrows[r].settled # None

\* UPDATE Organizations: a statement adds to the columns of one row.
AddTo(o, granted, free, held) ==
  organizations' = [organizations EXCEPT ![o] =
    [totalGranted |-> @.totalGranted + granted, balance |-> @.balance + free,
     balanceInEscrows |-> @.balanceInEscrows + held]]

-----------------------------------------------------------------------------
(* The administration API: each handler is one statement or transaction. *)

CreateOrganization(o, balance) ==
  /\ o \notin known
  /\ known' = known \cup {o}
  /\ organizations' = [organizations EXCEPT ![o] =
       [totalGranted |-> balance, balance |-> balance, balanceInEscrows |-> 0]]
  /\ UNCHANGED <<users, escrows, whitelisted, pc, debited, chain, syncing,
                 nextTick, restarts, paid>>

Grant(o, amount) ==
  /\ HasRow(o)
  /\ organizations[o].totalGranted + amount \in Milligons
  /\ AddTo(o, amount, amount, 0)
  /\ UNCHANGED <<users, escrows, whitelisted, pc, debited, chain, syncing,
                 nextTick, restarts, known, paid>>

\* Mutated: escrows do not refer to their organization.
DeletableUnreferenced(o) == HasRow(o)

\* Escrows refer to their organization: the transaction rolls back when there
\* are any.
Deletable(o) == HasRow(o) /\ RowsOf(o) = {}

DeleteOrganization(o) ==
  /\ Deletable(o)
  /\ organizations' = [organizations EXCEPT ![o] = None]
  /\ users' = [i \in Identity |-> IF users[i] = o THEN None ELSE users[i]]
  /\ UNCHANGED <<escrows, whitelisted, pc, debited, chain, syncing, nextTick,
                 restarts, known, paid>>

CreateUser(i, o) ==
  /\ users[i] = None /\ HasRow(o)
  /\ users' = [users EXCEPT ![i] = o]
  /\ UNCHANGED <<organizations, escrows, whitelisted, pc, debited, chain,
                 syncing, nextTick, restarts, known, paid>>

DeleteUser(i) ==
  /\ users[i] # None
  /\ users' = [users EXCEPT ![i] = None]
  /\ UNCHANGED <<organizations, escrows, whitelisted, pc, debited, chain,
                 syncing, nextTick, restarts, known, paid>>

EditWhitelist ==
  /\ whitelisted' = ~whitelisted
  /\ UNCHANGED <<organizations, users, escrows, pc, debited, chain, syncing,
                 nextTick, restarts, known, paid>>

-----------------------------------------------------------------------------
(* Databroker.createEscrow *)

\* Mutated: the table has no CHECK.
CanDebitOverdrawn(o, milligons) == TRUE

\* CHECK (balance >= 0)
CanDebit(o, milligons) == milligons <= organizations[o].balance

\* Mutated: the balance is taken, and not put in escrow.
DebitBalanceOnly(o, milligons) == AddTo(o, 0, -milligons, 0)

DebitOrganization(o, milligons) == AddTo(o, 0, -milligons, milligons)

\* The request is authorized and its organization debited, up to the first
\* await: the transaction commits here.
StartCreateEscrow(r, i, milligons) ==
  LET o == users[i]
      accepted == whitelisted /\ o # None /\ CanDebit(o, milligons)
  IN  /\ pc[r] = "idle"
      /\ \/ /\ accepted
            /\ DebitOrganization(o, milligons)
            /\ debited' = [debited EXCEPT ![r] =
                             [organization |-> o, milligons |-> milligons]]
            /\ Goto(r, "openEscrow")
         \/ /\ ~accepted
            /\ Goto(r, "failed")
            /\ UNCHANGED <<organizations, debited>>
      /\ UNCHANGED <<users, escrows, whitelisted, chain, syncing, nextTick,
                     restarts, known, paid>>

\* localchain.transactions.createEscrow answers or throws.
OpenEscrow(r) ==
  /\ pc[r] = "openEscrow"
  /\ \/ chain' = [chain EXCEPT ![r] = "open"] /\ Goto(r, "recordEscrow")
     \/ Goto(r, "failed") /\ UNCHANGED chain
  /\ UNCHANGED <<tables, debited, syncing, nextTick, restarts, known, paid>>

\* The escrow is read, which may throw, and its row created, unless its
\* organization is gone; what follows exports the escrow and may throw.
RecordEscrow(r) ==
  LET debit == debited[r]
  IN  /\ pc[r] = "recordEscrow"
      /\ \/ /\ HasRow(debit.organization)
            /\ escrows' = [escrows EXCEPT ![r] =
                 [organization |-> debit.organization, held |-> debit.milligons,
                  settled |-> None]]
            /\ \E label \in {"done", "failed"} : Goto(r, label)
         \/ Goto(r, "failed") /\ UNCHANGED escrows
      /\ UNCHANGED <<organizations, users, whitelisted, debited, chain,
                     syncing, nextTick, restarts, known, paid>>

-----------------------------------------------------------------------------
(* The localchain's sync and onLocalchainSync *)

\* An escrow reaches its expiration tick, long after its request is over.
Expire(r) ==
  /\ chain[r] = "open" /\ pc[r] # "recordEscrow"
  /\ chain' = [chain EXCEPT ![r] = "expired"]
  /\ UNCHANGED <<tables, pc, debited, syncing, nextTick, restarts, known, paid>>

\* The timer fires, and is not set again.  balanceSync.sync notarizes the
\* expired escrows, each with what its recipient asked for, and the result is
\* emitted; or it throws.
Sync ==
  LET expired == {r \in Request : chain[r] = "expired"}
  IN  /\ nextTick
      /\ nextTick' = FALSE
      /\ \/ /\ chain' = [r \in Request |-> IF r \in expired THEN "notarized"
                                                           ELSE chain[r]]
            /\ \E settled \in [expired -> Milligons] :
                 /\ \A r \in expired : settled[r] <= debited[r].milligons
                 /\ syncing' = [r \in Request |-> IF r \in expired THEN settled[r]
                                                                   ELSE syncing[r]]
         \/ SyncMayThrow /\ UNCHANGED <<chain, syncing>>
      /\ UNCHANGED <<tables, pc, debited, restarts, known, paid>>

\* Mutated: what was settled stays in escrow.
SettleOrganizationPartly(o, change, held) == AddTo(o, 0, change, -change)

SettleOrganization(o, change, held) == AddTo(o, 0, change, -held)

\* Mutated: an error ends the loop over the escrows of the sync.
SettleEscrowOrStop(r) ==
  LET row == escrows[r]
  IN  /\ syncing[r] # None
      /\ \/ /\ row # None
            /\ syncing' = [syncing EXCEPT ![r] = None]
            /\ escrows' = [escrows EXCEPT ![r].settled = syncing[r]]
            /\ SettleOrganization(row.organization, row.held - syncing[r], row.held)
            /\ paid' = [paid EXCEPT ![row.organization] = @ + syncing[r]]
         \/ /\ row = None
            /\ syncing' = [q \in Request |-> None]
            /\ UNCHANGED <<escrows, organizations, paid>>
      /\ UNCHANGED <<users, whitelisted, pc, debited, chain, nextTick,
                     restarts, known>>

\* One transaction: the escrow's row takes its settlement, and the organization
\* the rest of the hold.  Without a row it throws, and the error is logged.
SettleEscrow(r) ==
  LET row == escrows[r]
  IN  /\ syncing[r] # None
      /\ syncing' = [syncing EXCEPT ![r] = None]
      /\ \/ /\ row # None
            /\ escrows' = [escrows EXCEPT ![r].settled = syncing[r]]
            /\ SettleOrganization(row.organization, row.held - syncing[r], row.held)
            /\ paid' = [paid EXCEPT ![row.organization] = @ + syncing[r]]
         \/ row = None /\ UNCHANGED <<escrows, organizations, paid>>
      /\ UNCHANGED <<users, whitelisted, pc, debited, chain, nextTick,
                     restarts, known>>

\* The broker restarts: requests and the rest of a sync are lost, and the
\* timer is set when the localchain is loaded.
Restart ==
  /\ restarts < MaxRestarts
  /\ restarts' = restarts + 1
  /\ pc' = [r \in Request |-> IF pc[r] \in {"openEscrow", "recordEscrow"}
                              THEN "failed" ELSE pc[r]]
  /\ syncing' = [r \in Request |-> None]
  /\ nextTick' = TRUE
  /\ UNCHANGED <<tables, debited, chain, known, paid>>

-----------------------------------------------------------------------------
Administer ==
  \/ \E o \in Organization :
       \/ \E milligons \in Milligons : CreateOrganization(o, milligons)
       \/ \E milligons \in Milligons \ {0} : Grant(o, milligons)
       \/ DeleteOrganization(o)
       \/ \E i \in Identity : CreateUser(i, o)
  \/ \E i \in Identity : DeleteUser(i)
  \/ EditWhitelist

Handle(r) == OpenEscrow(r) \/ RecordEscrow(r) \/ SettleEscrow(r)

Next ==
  \/ Administer
  \/ \E r \in Request :
       \/ \E i \in Identity, milligons \in Milligons \ {0} :
            StartCreateEscrow(r, i, milligons)
       \/ Handle(r)
       \/ Expire(r)
  \/ Sync
  \/ Restart

\* The event loop and its timers, and the passage of time.
Fairness ==
  /\ \A r \in Request : WF_vars(Handle(r)) /\ WF_vars(Expire(r))
  /\ WF_vars(Sync)

Spec == Init /\ [][Next]_vars /\ Fairness

-----------------------------------------------------------------------------
(* Properties *)

\* What an organization was granted is its balance, what is in escrows, and
\* what its escrows were settled for, whichever handler failed in between and
\* whatever the broker lost in a restart: every statement of OrganizationsTable
\* moves money, none makes or loses it.
GrantsAreConserved ==
  \A o \in Organization : HasRow(o) =>
    LET org == organizations[o]
    IN  org.balance + org.balanceInEscrows + paid[o] = org.totalGranted

\* Requests that took money from an organization and left no row.
Unrecorded(o) ==
  {r \in Request : debited[r].organization = o /\ escrows[r] = None}

HeldBy(rows) == SumFunctionOnSet([r \in rows |-> escrows[r].held], rows)
TakenBy(requests) ==
  SumFunctionOnSet([r \in Request |-> debited[r].milligons], requests)

\* What is in escrows is held by rows that are not settled, or was taken by
\* requests that are not, or never will be, recorded: no settlement returns a
\* hold twice, and none returns more than was held.
EscrowBalanceIsExplained ==
  \A o \in Organization : HasRow(o) =>
    organizations[o].balanceInEscrows
      = HeldBy(OpenRows(o)) + TakenBy(Unrecorded(o))

\* Every escrow has its organization, also when it was deleted while a request
\* of one of its users was waiting for the localchain.
EscrowsHaveOrganizations ==
  \A r \in Request : escrows[r] # None =>
    /\ HasRow(escrows[r].organization)
    /\ escrows[r].held = debited[r].milligons
    /\ chain[r] # "absent"

\* A settlement the notary accepted reaches the row of its escrow, unless the
\* broker restarts: onLocalchainSync goes on after an escrow that has no row.
NotarizedEscrowsAreRecorded ==
  \A r \in Request :
    chain[r] = "notarized" /\ escrows[r] # None ~> Settled(r) \/ restarts > 0

\* What the administration API says of balanceInEscrows: the balance in active
\* escrows, whenever no request is being handled.
BalanceIsInActiveEscrows ==
  (\A r \in Request : pc[r] \in {"idle", "done", "failed"}) =>
    \A o \in Organization : HasRow(o) =>
      organizations[o].balanceInEscrows = HeldBy(OpenRows(o))

\* With automatic syncs, what an expired escrow did not spend is returned,
\* if syncs do not fail.
ExpiredEscrowsAreSettled ==
  \A r \in Request :
    chain[r] = "expired" /\ escrows[r] # None ~> Settled(r)

(* The inductive invariant behind GrantsAreConserved, see Databroker_proofs. *)

\* What a request did by the time it waits at a label; escrows keep what was
\* debited for them, and settle for no more.
DebitsPrecedeEscrows ==
  \A r \in Request :
    /\ pc[r] \in {"idle", "openEscrow", "recordEscrow"} => escrows[r] = None
    /\ pc[r] \in {"idle", "openEscrow"} => chain[r] = "absent"
    /\ pc[r] \in {"openEscrow", "recordEscrow"} => debited[r].organization # None
    /\ pc[r] = "recordEscrow" => chain[r] # "absent"
    /\ escrows[r] # None => escrows[r].organization = debited[r].organization
    /\ syncing[r] # None => /\ syncing[r] <= debited[r].milligons
                            /\ chain[r] # "absent"

\* Users refer to their organization.
UsersHaveOrganizations ==
  \A i \in Identity : users[i] # None => HasRow(users[i])

\* An id is used once: an organization that is yet to be created paid nothing.
UnknownHaveNothing ==
  \A o \in Organization : o \notin known => organizations[o] = None /\ paid[o] = 0

(* And the one behind EscrowBalanceIsExplained. *)

\* The notary settles an escrow once, and so does its row.
SettledOnce ==
  \A r \in Request :
    /\ syncing[r] # None => chain[r] = "notarized" /\ ~Settled(r)
    /\ Settled(r) => chain[r] = "notarized"

\* A request that has started debited an organization that was known by then.
DebitsAreOfKnown ==
  \A r \in Request :
    /\ debited[r].organization \in known \cup {None}
    /\ pc[r] = "idle" => debited[r].organization = None

\* What was taken from an organization is outstanding until its row is settled.
Outstanding(o) == {r \in Request : debited[r].organization = o /\ ~Settled(r)}

EscrowBalanceIsOutstanding ==
  \A o \in Organization : HasRow(o) =>
    organizations[o].balanceInEscrows = TakenBy(Outstanding(o))
=============================================================================
