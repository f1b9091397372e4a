-------------------------- MODULE Databroker_proofs --------------------------
(***************************************************************************)
(* Proofs about Databroker, for any organizations, users, requests and     *)
(* bounds.  Each invariant needs the others, so one inductive invariant    *)
(* carries all: a settlement leaves the balance a natural number because   *)
(* it is no more than what the request debited, and the money adds up      *)
(* because the row of an organization outlives the rows of its escrows.    *)
(***************************************************************************)
EXTENDS Databroker, Sums_proofs, TLAPS

IInv ==
  /\ TypeOK
  /\ DebitsPrecedeEscrows
  /\ UnknownHaveNothing
  /\ UsersHaveOrganizations
  /\ EscrowsHaveOrganizations
  /\ GrantsAreConserved

LEMMA InitInv == Init => IInv
<1> SUFFICES ASSUME Init PROVE IInv
  OBVIOUS
<1> USE NoneAssumption, BoundsAssumption DEF Init
<1>1. TypeOK
  <2>1. debited \in [Request -> [organization : Organization \cup {None}, milligons : Nat]]
    BY DEF NoDebit
  <2>2. /\ organizations \in [Organization -> OrganizationRow \cup {None}]
        /\ users \in [Identity -> Organization \cup {None}]
        /\ escrows \in [Request -> EscrowRow \cup {None}]
        /\ syncing \in [Request -> Nat \cup {None}]
        /\ paid \in [Organization -> Nat]
        /\ restarts \in 0 .. MaxRestarts
    OBVIOUS
  <2>3. pc \in [Request -> Pc] /\ chain \in [Request -> ChainState]
    BY DEF Pc, ChainState
  <2> HIDE DEF Init
  <2>4. whitelisted \in BOOLEAN /\ nextTick \in BOOLEAN /\ known \in SUBSET Organization
    BY Zenon DEF Init
  <2> QED
    BY <2>1, <2>2, <2>3, <2>4 DEF TypeOK
<1>2. /\ DebitsPrecedeEscrows /\ UnknownHaveNothing
      /\ UsersHaveOrganizations /\ EscrowsHaveOrganizations
  BY DEF DebitsPrecedeEscrows, UnknownHaveNothing, UsersHaveOrganizations,
         EscrowsHaveOrganizations, NoDebit
<1>3. GrantsAreConserved
  BY DEF GrantsAreConserved, HasRow
<1> QED
  BY <1>1, <1>2, <1>3 DEF IInv

(* Rows of organizations: each statement takes a row to a row that conserves *)
(* its grant.                                                                *)

\* What a row of an organization that paid the given milligons must satisfy.
Conserves(row, milligons) ==
  row.balance + row.balanceInEscrows + milligons = row.totalGranted

LEMMA ConservedRows ==
  ASSUME NEW o \in Organization, NEW row \in OrganizationRow,
         NEW settlements \in [Organization -> Nat],
         organizations \in [Organization -> OrganizationRow \cup {None}],
         paid \in [Organization -> Nat],
         GrantsAreConserved,
         organizations' = [organizations EXCEPT ![o] = row],
         paid' = settlements,
         \A q \in Organization \ {o} : settlements[q] = paid[q],
         Conserves(row, settlements[o])
  PROVE  /\ organizations' \in [Organization -> OrganizationRow \cup {None}]
         /\ paid' \in [Organization -> Nat]
         /\ GrantsAreConserved'
<1>1. \A q \in Organization \ {o} : organizations'[q] = organizations[q]
  OBVIOUS
<1>2. organizations'[o] = row
  OBVIOUS
<1>3. \A q \in Organization \ {o} : HasRow(q)' =>
        Conserves(organizations[q], paid[q])
  BY <1>1 DEF GrantsAreConserved, HasRow, Conserves
<1>4. GrantsAreConserved'
  BY <1>1, <1>2, <1>3 DEF GrantsAreConserved, HasRow, Conserves
<1> QED
  BY <1>4

(* The administration API *)

\* An action that leaves requests and their escrows alone keeps what is said of
\* them, as long as no organization with escrows goes.
LEMMA EscrowsUntouched ==
  ASSUME IInv,
         UNCHANGED <<escrows, pc, debited, chain, syncing>>,
         \A o \in Organization : RowsOf(o) # {} /\ HasRow(o) => HasRow(o)'
  PROVE  DebitsPrecedeEscrows' /\ EscrowsHaveOrganizations'
<1>1. DebitsPrecedeEscrows'
  BY DEF IInv, DebitsPrecedeEscrows
<1>2. ASSUME NEW r \in Request, escrows'[r] # None
      PROVE  /\ HasRow(escrows[r].organization)'
             /\ escrows'[r].held = debited'[r].milligons
             /\ chain'[r] # "absent"
  <2>1. escrows[r].organization \in Organization
    BY <1>2 DEF IInv, TypeOK, EscrowRow
  <2>2. r \in RowsOf(escrows[r].organization)
    BY <1>2 DEF RowsOf
  <2>3. HasRow(escrows[r].organization)
    BY <1>2 DEF IInv, EscrowsHaveOrganizations
  <2> QED
    BY <1>2, <2>1, <2>2, <2>3 DEF IInv, EscrowsHaveOrganizations, HasRow
<1> QED
  BY <1>1, <1>2 DEF EscrowsHaveOrganizations, HasRow

LEMMA UsersUntouched ==
  ASSUME IInv, UNCHANGED users,
         \A o \in Organization : HasRow(o) => HasRow(o)'
  PROVE  UsersHaveOrganizations'
BY DEF IInv, TypeOK, UsersHaveOrganizations, HasRow

LEMMA CreateOrganizationInv ==
  ASSUME IInv, NEW o \in Organization, NEW m \in Milligons,
         CreateOrganization(o, m)
  PROVE  IInv'
<1> DEFINE row == [totalGranted |-> m, balance |-> m, balanceInEscrows |-> 0]
<1> USE BoundsAssumption, NoneAssumption
<1>1. row \in OrganizationRow /\ m \in Nat
  BY DEF OrganizationRow, Milligons
<1>2. paid[o] = 0 /\ Conserves(row, paid[o])
  BY <1>1 DEF IInv, UnknownHaveNothing, CreateOrganization, Conserves
<1>3. /\ organizations' = [organizations EXCEPT ![o] = row]
      /\ paid' = paid
  BY DEF CreateOrganization
<1> HIDE DEF row
<1>4. /\ organizations' \in [Organization -> OrganizationRow \cup {None}]
      /\ paid' \in [Organization -> Nat]
      /\ GrantsAreConserved'
  BY <1>1, <1>2, <1>3, ConservedRows DEF IInv, TypeOK
<1>5. TypeOK'
  BY <1>4 DEF IInv, TypeOK, CreateOrganization
<1>6. DebitsPrecedeEscrows' /\ EscrowsHaveOrganizations' /\ UsersHaveOrganizations'
  <2>1. \A q \in Organization : HasRow(q) => HasRow(q)'
    BY <1>1, <1>3 DEF HasRow, IInv, TypeOK
  <2> QED
    BY <2>1, EscrowsUntouched, UsersUntouched DEF CreateOrganization
<1>7. UnknownHaveNothing'
  BY <1>3 DEF IInv, TypeOK, UnknownHaveNothing, CreateOrganization
<1> QED
  BY <1>4, <1>5, <1>6, <1>7 DEF IInv

\* What an UPDATE adds to the columns is what is granted or paid.
Balanced(o, granted, free, held, settled) ==
  /\ granted \in Nat /\ free \in Int /\ held \in Int /\ settled \in Nat
  /\ organizations[o].balance + free >= 0
  /\ free + held + settled = granted

\* An UPDATE that keeps the balance a natural number, of an organization that
\* paid what the columns lose.
LEMMA ConservedUpdate ==
  ASSUME IInv, NEW o \in Organization, HasRow(o),
         NEW granted, NEW free, NEW held, NEW settled,
         Balanced(o, granted, free, held, settled),
         AddTo(o, granted, free, held),
         paid' = [paid EXCEPT ![o] = @ + settled]
  PROVE  /\ organizations' \in [Organization -> OrganizationRow \cup {None}]
         /\ paid' \in [Organization -> Nat]
         /\ GrantsAreConserved'
         /\ \A q \in Organization : HasRow(q) => HasRow(q)'
<1> DEFINE row == [totalGranted |-> organizations[o].totalGranted + granted,
                   balance |-> organizations[o].balance + free,
                   balanceInEscrows |-> organizations[o].balanceInEscrows + held]
<1> DEFINE settlements == [paid EXCEPT ![o] = @ + settled]
<1>1. organizations[o] \in OrganizationRow /\ paid[o] \in Nat
  BY DEF IInv, TypeOK, HasRow
<1> USE DEF Balanced
<1>2. row \in OrganizationRow
  BY <1>1 DEF OrganizationRow
<1>3. /\ settlements \in [Organization -> Nat]
      /\ settlements[o] = paid[o] + settled
      /\ \A q \in Organization \ {o} : settlements[q] = paid[q]
  BY <1>1 DEF IInv, TypeOK
<1>4. Conserves(row, settlements[o])
  <2>1. organizations[o].balance + organizations[o].balanceInEscrows + paid[o]
          = organizations[o].totalGranted
    BY DEF IInv, GrantsAreConserved
  <2> QED
    BY <1>1, <1>3, <2>1 DEF Conserves, OrganizationRow
<1>5. organizations' = [organizations EXCEPT ![o] = row] /\ paid' = settlements
  BY DEF AddTo
<1> HIDE DEF row, settlements
<1>6. /\ organizations' \in [Organization -> OrganizationRow \cup {None}]
      /\ paid' \in [Organization -> Nat]
      /\ GrantsAreConserved'
  BY <1>2, <1>3, <1>4, <1>5, ConservedRows DEF IInv, TypeOK
<1>7. \A q \in Organization : HasRow(q) => HasRow(q)'
  BY <1>2, <1>5, NoneAssumption DEF HasRow, IInv, TypeOK
<1> QED
  BY <1>6, <1>7

LEMMA GrantInv ==
  ASSUME IInv, NEW o \in Organization, NEW m \in Milligons, Grant(o, m)
  PROVE  IInv'
<1>1. /\ organizations[o] \in OrganizationRow /\ m \in Nat
      /\ paid' = [paid EXCEPT ![o] = @ + 0]
  BY BoundsAssumption DEF IInv, TypeOK, Grant, HasRow, Milligons
<1>2. /\ organizations' \in [Organization -> OrganizationRow \cup {None}]
      /\ GrantsAreConserved'
      /\ \A q \in Organization : HasRow(q) => HasRow(q)'
  <2>1. Balanced(o, m, m, 0, 0)
    BY <1>1 DEF OrganizationRow, Balanced
  <2>2. HasRow(o) /\ AddTo(o, m, m, 0)
    BY DEF Grant
  <2> QED
    BY <1>1, <2>1, <2>2, ConservedUpdate
<1>3. TypeOK'
  BY <1>2 DEF IInv, TypeOK, Grant
<1>4. DebitsPrecedeEscrows' /\ EscrowsHaveOrganizations' /\ UsersHaveOrganizations'
  BY <1>2, EscrowsUntouched, UsersUntouched DEF Grant
<1>5. UnknownHaveNothing'
  BY DEF IInv, TypeOK, UnknownHaveNothing, Grant, HasRow, AddTo
<1> QED
  BY <1>2, <1>3, <1>4, <1>5 DEF IInv

LEMMA DeleteOrganizationInv ==
  ASSUME IInv, NEW o \in Organization, DeleteOrganization(o)
  PROVE  IInv'
<1>1. organizations' = [organizations EXCEPT ![o] = None] /\ paid' = paid
  BY DEF DeleteOrganization
<1>2. TypeOK'
  BY <1>1 DEF IInv, TypeOK, DeleteOrganization
<1>3. DebitsPrecedeEscrows' /\ EscrowsHaveOrganizations'
  <2>1. \A q \in Organization : RowsOf(q) # {} /\ HasRow(q) => HasRow(q)'
    BY <1>1 DEF DeleteOrganization, Deletable, HasRow, IInv, TypeOK
  <2> QED
    BY <2>1, EscrowsUntouched DEF DeleteOrganization
<1>4. UnknownHaveNothing'
  BY <1>1 DEF IInv, TypeOK, UnknownHaveNothing, DeleteOrganization
<1>5. GrantsAreConserved'
  BY <1>1 DEF IInv, TypeOK, GrantsAreConserved, HasRow
<1>6. UsersHaveOrganizations'
  BY <1>1 DEF IInv, TypeOK, UsersHaveOrganizations, HasRow, DeleteOrganization
<1> QED
  BY <1>2, <1>3, <1>4, <1>5, <1>6 DEF IInv

\* Users and the whitelist decide what is authorized; no invariant is about them.
LEMMA UsersInv ==
  ASSUME IInv,
         \/ \E i \in Identity, o \in Organization : CreateUser(i, o)
         \/ \E i \in Identity : DeleteUser(i)
         \/ EditWhitelist
  PROVE  IInv'
<1>1. /\ UNCHANGED <<organizations, escrows, pc, debited, chain, syncing,
                    nextTick, restarts, known, paid>>
      /\ users' \in [Identity -> Organization \cup {None}]
      /\ whitelisted' \in BOOLEAN
  BY DEF CreateUser, DeleteUser, EditWhitelist, IInv, TypeOK
<1>2. TypeOK'
  BY <1>1 DEF IInv, TypeOK
<1>3. DebitsPrecedeEscrows' /\ EscrowsHaveOrganizations'
  BY <1>1, EscrowsUntouched DEF HasRow
<1>4. UnknownHaveNothing' /\ GrantsAreConserved'
  BY <1>1 DEF IInv, UnknownHaveNothing, GrantsAreConserved, HasRow
<1>5. UsersHaveOrganizations'
  BY <1>1
  DEF CreateUser, DeleteUser, EditWhitelist, IInv, TypeOK, UsersHaveOrganizations, HasRow
<1> QED
  BY <1>2, <1>3, <1>4, <1>5 DEF IInv

(* Databroker.createEscrow *)

\* An action that leaves organizations alone keeps what is said of them alone.
LEMMA OrganizationsUntouched ==
  ASSUME IInv, UNCHANGED <<organizations, users, known, paid>>
  PROVE  UnknownHaveNothing' /\ UsersHaveOrganizations' /\ GrantsAreConserved'
BY DEF IInv, UnknownHaveNothing, UsersHaveOrganizations, GrantsAreConserved, HasRow

LEMMA StartCreateEscrowInv ==
  ASSUME IInv, NEW r \in Request, NEW i \in Identity, NEW m \in Milligons \ {0},
         StartCreateEscrow(r, i, m)
  PROVE  IInv'
<1> DEFINE o == users[i]
           accepted == whitelisted /\ o # None /\ CanDebit(o, m)
<1> USE NoneAssumption
<1>1. CASE ~accepted
  <2>1. /\ pc[r] = "idle" /\ pc' = [pc EXCEPT ![r] = "failed"]
        /\ UNCHANGED <<tables, debited, chain, syncing, nextTick, restarts, known, paid>>
    BY <1>1 DEF StartCreateEscrow, Goto, tables
  <2> HIDE DEF accepted
  <2>2. TypeOK'
    BY <2>1 DEF IInv, TypeOK, Pc, tables
  <2>3. DebitsPrecedeEscrows' /\ EscrowsHaveOrganizations'
    BY <2>1
    DEF IInv, TypeOK, DebitsPrecedeEscrows, EscrowsHaveOrganizations, HasRow, tables
  <2> QED
    BY <2>1, <2>2, <2>3, OrganizationsUntouched DEF IInv, tables
<1>2. CASE accepted
  <2>1. /\ o \in Organization /\ HasRow(o) /\ m \in Nat /\ -m \in Int
        /\ organizations[o] \in OrganizationRow /\ paid[o] \in Nat
    BY <1>2, BoundsAssumption DEF IInv, TypeOK, UsersHaveOrganizations, HasRow, Milligons
  <2>2. /\ AddTo(o, 0, -m, m) /\ paid' = paid
        /\ debited' = [debited EXCEPT ![r] = [organization |-> o, milligons |-> m]]
        /\ pc[r] = "idle" /\ pc' = [pc EXCEPT ![r] = "openEscrow"]
        /\ UNCHANGED <<users, escrows, whitelisted, chain, syncing, nextTick, restarts, known>>
    BY <1>2 DEF StartCreateEscrow, DebitOrganization, Goto
  <2>3. Balanced(o, 0, -m, m, 0)
    BY <1>2, <2>1 DEF CanDebit, OrganizationRow, Balanced
  <2>4. paid' = [paid EXCEPT ![o] = @ + 0]
    BY <2>1, <2>2 DEF IInv, TypeOK
  <2> HIDE DEF accepted, o
  <2>5. /\ organizations' \in [Organization -> OrganizationRow \cup {None}]
        /\ GrantsAreConserved'
        /\ \A q \in Organization : HasRow(q) => HasRow(q)'
    BY <2>1, <2>2, <2>3, <2>4, ConservedUpdate
  <2>6. TypeOK'
    <3>1. debited' \in [Request -> [organization : Organization \cup {None}, milligons : Nat]]
      BY <2>1, <2>2 DEF IInv, TypeOK
    <3> QED
      BY <2>2, <2>5, <3>1 DEF IInv, TypeOK, Pc
  <2>7. escrows[r] = None /\ chain[r] = "absent" /\ syncing[r] = None
    BY <2>2 DEF IInv, DebitsPrecedeEscrows
  <2>8. DebitsPrecedeEscrows'
    BY <2>1, <2>2, <2>7 DEF IInv, TypeOK, DebitsPrecedeEscrows
  <2>9. EscrowsHaveOrganizations'
    <3> SUFFICES ASSUME NEW q \in Request, escrows'[q] # None
                 PROVE  /\ HasRow(escrows[q].organization)'
                        /\ escrows'[q].held = debited'[q].milligons
                        /\ chain'[q] # "absent"
      BY DEF EscrowsHaveOrganizations, HasRow
    <3>1. q # r /\ debited'[q] = debited[q]
      BY <2>2, <2>7 DEF IInv, TypeOK
    <3>2. escrows[q].organization \in Organization
      BY <2>2 DEF IInv, TypeOK, EscrowRow
    <3> QED
      BY <2>2, <2>5, <3>1, <3>2 DEF IInv, EscrowsHaveOrganizations, HasRow
  <2>10. UnknownHaveNothing'
    BY <2>1, <2>2 DEF IInv, TypeOK, UnknownHaveNothing, HasRow, AddTo
  <2> QED
    BY <2>2, <2>5, <2>6, <2>8, <2>9, <2>10, UsersUntouched DEF IInv
<1> QED
  BY <1>1, <1>2

LEMMA OpenEscrowInv ==
  ASSUME IInv, NEW r \in Request, OpenEscrow(r)
  PROVE  IInv'
<1> USE NoneAssumption
<1>1. /\ UNCHANGED <<tables, debited, syncing, nextTick, restarts, known, paid>>
      /\ pc[r] = "openEscrow"
      /\ \/ pc' = [pc EXCEPT ![r] = "recordEscrow"] /\ chain' = [chain EXCEPT ![r] = "open"]
         \/ pc' = [pc EXCEPT ![r] = "failed"] /\ chain' = chain
  BY DEF OpenEscrow, Goto
<1>2. TypeOK'
  BY <1>1 DEF IInv, TypeOK, Pc, ChainState, tables
<1>3. DebitsPrecedeEscrows' /\ EscrowsHaveOrganizations'
  BY <1>1
  DEF IInv, TypeOK, DebitsPrecedeEscrows, EscrowsHaveOrganizations, HasRow, tables
<1> QED
  BY <1>1, <1>2, <1>3, OrganizationsUntouched DEF IInv, tables

LEMMA RecordEscrowInv ==
  ASSUME IInv, NEW r \in Request, RecordEscrow(r)
  PROVE  IInv'
<1> DEFINE row == [organization |-> debited[r].organization,
                   held |-> debited[r].milligons, settled |-> None]
<1> USE NoneAssumption
<1>1. /\ UNCHANGED <<organizations, users, whitelisted, debited, chain, syncing,
                    nextTick, restarts, known, paid>>
      /\ pc[r] = "recordEscrow"
      /\ pc' = [pc EXCEPT ![r] = "done"] \/ pc' = [pc EXCEPT ![r] = "failed"]
      /\ \/ escrows' = escrows
         \/ escrows' = [escrows EXCEPT ![r] = row] /\ HasRow(debited[r].organization)
  BY DEF RecordEscrow, Goto
<1>2. /\ debited[r].organization \in Organization /\ debited[r].milligons \in Nat
      /\ escrows[r] = None /\ chain[r] # "absent"
  BY <1>1 DEF IInv, TypeOK, DebitsPrecedeEscrows
<1>3. row \in EscrowRow
  BY <1>2 DEF EscrowRow
<1>4. row.organization = debited[r].organization /\ row.held = debited[r].milligons
  OBVIOUS
<1> HIDE DEF row
<1>5. TypeOK'
  BY <1>1, <1>3 DEF IInv, TypeOK, Pc
<1>6. DebitsPrecedeEscrows' /\ EscrowsHaveOrganizations'
  BY <1>1, <1>2, <1>4
  DEF IInv, TypeOK, DebitsPrecedeEscrows, EscrowsHaveOrganizations, HasRow
<1> QED
  BY <1>1, <1>5, <1>6, OrganizationsUntouched DEF IInv

(* Synchronization *)

\* Requests, notarizations and restarts that leave the tables alone.
LEMMA TablesUntouched ==
  ASSUME IInv, UNCHANGED <<tables, debited, known, paid>>, DebitsPrecedeEscrows',
         \A r \in Request : chain[r] # "absent" => chain'[r] # "absent"
  PROVE  /\ UnknownHaveNothing' /\ UsersHaveOrganizations'
         /\ EscrowsHaveOrganizations' /\ GrantsAreConserved'
<1>1. EscrowsHaveOrganizations'
  BY DEF IInv, EscrowsHaveOrganizations, HasRow, tables
<1> QED
  BY <1>1, OrganizationsUntouched DEF tables

LEMMA ExpireInv ==
  ASSUME IInv, NEW r \in Request, Expire(r)
  PROVE  IInv'
<1>1. TypeOK'
  BY DEF IInv, TypeOK, ChainState, Expire, tables
<1>2. DebitsPrecedeEscrows'
  BY DEF IInv, TypeOK, DebitsPrecedeEscrows, Expire, tables
<1>3. \A q \in Request : chain[q] # "absent" => chain'[q] # "absent"
  BY DEF IInv, TypeOK, Expire
<1> QED
  BY <1>1, <1>2, <1>3, TablesUntouched DEF IInv, Expire

LEMMA SyncInv ==
  ASSUME IInv, Sync
  PROVE  IInv'
<1> USE NoneAssumption
<1>1. CASE UNCHANGED <<chain, syncing>>
  <2>1. TypeOK'
    BY <1>1 DEF IInv, TypeOK, Sync, tables
  <2>2. DebitsPrecedeEscrows'
    BY <1>1 DEF IInv, DebitsPrecedeEscrows, Sync, tables
  <2> QED
    BY <1>1, <2>1, <2>2, TablesUntouched DEF IInv, Sync
<1>2. CASE ~ UNCHANGED <<chain, syncing>>
  <2> DEFINE expired == {r \in Request : chain[r] = "expired"}
  <2>1. PICK settled \in [expired -> Milligons] :
          /\ \A r \in expired : settled[r] <= debited[r].milligons
          /\ syncing' = [r \in Request |-> IF r \in expired THEN settled[r] ELSE syncing[r]]
    BY <1>2 DEF Sync
  <2>2. /\ UNCHANGED <<tables, pc, debited, restarts, known, paid>>
        /\ nextTick' = FALSE
        /\ chain' = [r \in Request |-> IF r \in expired THEN "notarized" ELSE chain[r]]
    BY <1>2 DEF Sync
  <2>3. \A r \in expired : settled[r] \in Nat
    BY <2>1, BoundsAssumption DEF Milligons
  <2>4. TypeOK'
    BY <2>1, <2>2, <2>3 DEF IInv, TypeOK, ChainState, tables
  <2>5. DebitsPrecedeEscrows'
    BY <2>1, <2>2, <2>3 DEF IInv, TypeOK, DebitsPrecedeEscrows, tables
  <2>6. \A q \in Request : chain[q] # "absent" => chain'[q] # "absent"
    BY <2>2
  <2> QED
    BY <2>2, <2>4, <2>5, <2>6, TablesUntouched DEF IInv
<1> QED
  BY <1>1, <1>2

LEMMA SettleEscrowInv ==
  ASSUME IInv, NEW r \in Request, SettleEscrow(r)
  PROVE  IInv'
<1> USE NoneAssumption
<1>1. /\ UNCHANGED <<users, whitelisted, pc, debited, chain, nextTick, restarts, known>>
      /\ syncing[r] \in Nat /\ syncing' = [syncing EXCEPT ![r] = None]
  BY DEF SettleEscrow, IInv, TypeOK
<1>2. CASE escrows[r] = None
  <2>1. UNCHANGED <<escrows, organizations, paid>>
    BY <1>2 DEF SettleEscrow
  <2>2. TypeOK'
    BY <1>1, <2>1 DEF IInv, TypeOK
  <2>3. DebitsPrecedeEscrows'
    BY <1>1, <2>1 DEF IInv, TypeOK, DebitsPrecedeEscrows
  <2> QED
    BY <1>1, <2>1, <2>2, <2>3, TablesUntouched DEF IInv, tables
<1>3. CASE escrows[r] # None
  <2> DEFINE o == escrows[r].organization
             held == escrows[r].held
             row == [escrows[r] EXCEPT !.settled = syncing[r]]
  <2>1. /\ o \in Organization /\ HasRow(o) /\ held \in Nat
        /\ syncing[r] <= held
        /\ organizations[o] \in OrganizationRow
    BY <1>1, <1>3
    DEF IInv, TypeOK, EscrowRow, EscrowsHaveOrganizations, DebitsPrecedeEscrows, HasRow
  <2>2. /\ AddTo(o, 0, held - syncing[r], -held)
        /\ paid' = [paid EXCEPT ![o] = @ + syncing[r]]
        /\ escrows' = [escrows EXCEPT ![r] = row]
    BY <1>3 DEF SettleEscrow, SettleOrganization, IInv, TypeOK
  <2>3. Balanced(o, 0, held - syncing[r], -held, syncing[r])
    BY <1>1, <2>1 DEF Balanced, OrganizationRow
  <2>4. row \in EscrowRow /\ row.organization = o /\ row.held = held
    BY <1>1, <1>3 DEF IInv, TypeOK, EscrowRow
  <2> HIDE DEF o, held, row
  <2>5. /\ organizations' \in [Organization -> OrganizationRow \cup {None}]
        /\ paid' \in [Organization -> Nat]
        /\ GrantsAreConserved'
        /\ \A q \in Organization : HasRow(q) => HasRow(q)'
    BY <2>1, <2>2, <2>3, ConservedUpdate
  <2>6. TypeOK'
    BY <1>1, <2>2, <2>4, <2>5 DEF IInv, TypeOK
  <2>7. DebitsPrecedeEscrows'
    BY <1>1, <1>3, <2>2, <2>4 DEF IInv, TypeOK, DebitsPrecedeEscrows, o
  <2>8. EscrowsHaveOrganizations'
    <3>1. ASSUME NEW q \in Request, escrows'[q] # None
          PROVE  /\ organizations'[escrows'[q].organization] # None
                 /\ escrows'[q].held = debited'[q].milligons
                 /\ chain'[q] # "absent"
      <4>1. /\ escrows[q] # None
            /\ escrows'[q].organization = escrows[q].organization
            /\ escrows'[q].held = escrows[q].held
        BY <1>3, <2>2, <2>4, <3>1 DEF IInv, TypeOK, o, held
      <4>2. escrows[q].organization \in Organization
        BY <4>1 DEF IInv, TypeOK, EscrowRow
      <4> QED
        BY <1>1, <2>5, <4>1, <4>2 DEF IInv, EscrowsHaveOrganizations, HasRow
    <3> QED
      BY <3>1 DEF EscrowsHaveOrganizations, HasRow
  <2>9. UnknownHaveNothing'
    BY <1>1, <2>1, <2>2 DEF IInv, TypeOK, UnknownHaveNothing, HasRow, AddTo
  <2> QED
    BY <1>1, <2>5, <2>6, <2>7, <2>8, <2>9, UsersUntouched DEF IInv
<1> QED
  BY <1>2, <1>3

LEMMA RestartInv ==
  ASSUME IInv, Restart
  PROVE  IInv'
<1> USE NoneAssumption, BoundsAssumption
<1>1. TypeOK'
  <2>1. restarts' \in 0 .. MaxRestarts
    BY DEF IInv, TypeOK, Restart
  <2>2. pc' \in [Request -> Pc]
    BY DEF IInv, TypeOK, Restart, Pc
  <2>3. syncing' \in [Request -> Nat \cup {None}]
    BY DEF Restart
  <2> QED
    BY <2>1, <2>2, <2>3 DEF IInv, TypeOK, Restart, tables
<1>2. DebitsPrecedeEscrows'
  BY DEF IInv, TypeOK, DebitsPrecedeEscrows, Restart, tables
<1> QED
  BY <1>1, <1>2, TablesUntouched DEF IInv, Restart

LEMMA NextInv == IInv /\ [Next]_vars => IInv'
<1> SUFFICES ASSUME IInv, [Next]_vars PROVE IInv'
  OBVIOUS
<1>1. CASE Administer
  BY <1>1, CreateOrganizationInv, GrantInv, DeleteOrganizationInv, UsersInv DEF Administer
<1>2. ASSUME NEW r \in Request, Handle(r) \/ Expire(r)
      PROVE  IInv'
  BY <1>2, OpenEscrowInv, RecordEscrowInv, SettleEscrowInv, ExpireInv DEF Handle
<1>3. ASSUME NEW r \in Request, NEW i \in Identity, NEW m \in Milligons \ {0},
             StartCreateEscrow(r, i, m)
      PROVE  IInv'
  BY <1>3, StartCreateEscrowInv
<1>4. CASE Sync \/ Restart
  BY <1>4, SyncInv, RestartInv
<1>5. CASE UNCHANGED vars
  BY <1>5
  DEF IInv, TypeOK, DebitsPrecedeEscrows, UnknownHaveNothing, UsersHaveOrganizations,
      EscrowsHaveOrganizations, GrantsAreConserved, HasRow, vars, tables
<1> QED
  BY <1>1, <1>2, <1>3, <1>4, <1>5 DEF Next

LEMMA IInvHolds == Spec => []IInv
<1> QED
  BY InitInv, NextInv, PTL DEF Spec

(* The account of what is in escrows.  It is what outstanding requests took, *)
(* and a settlement takes one of them out, once.                             *)

AccountInv ==
  /\ SettledOnce
  /\ DebitsAreOfKnown
  /\ EscrowBalanceIsOutstanding

\* What each request took, as TakenBy sums it.
Takings == [r \in Request |-> debited[r].milligons]

LEMMA TakingsAreNatural ==
  ASSUME TypeOK
  PROVE  \A r \in Request : Takings[r] = debited[r].milligons /\ Takings[r] \in Nat
BY DEF TypeOK, Takings

LEMMA OutstandingFinite ==
  ASSUME NEW o
  PROVE  IsFiniteSet(Outstanding(o)) /\ Outstanding(o) \subseteq Request
BY RequestsAssumption, FS_Subset DEF Outstanding

LEMMA InitAccount == Init => AccountInv
<1> SUFFICES ASSUME Init PROVE AccountInv
  OBVIOUS
<1>1. SettledOnce /\ DebitsAreOfKnown
  BY DEF Init, SettledOnce, Settled, DebitsAreOfKnown, NoDebit
<1>2. EscrowBalanceIsOutstanding
  BY DEF Init, EscrowBalanceIsOutstanding, HasRow
<1> QED
  BY <1>1, <1>2 DEF AccountInv

\* What is outstanding changes with a debit or a settlement only.
LEMMA BalanceUntouched ==
  ASSUME AccountInv, UNCHANGED debited,
         \A r \in Request : Settled(r)' <=> Settled(r),
         \A o \in Organization : HasRow(o)' =>
           /\ HasRow(o)
           /\ organizations'[o].balanceInEscrows = organizations[o].balanceInEscrows
  PROVE  EscrowBalanceIsOutstanding'
<1> SUFFICES ASSUME NEW o \in Organization, HasRow(o)'
             PROVE  organizations'[o].balanceInEscrows = TakenBy(Outstanding(o))'
  BY DEF EscrowBalanceIsOutstanding
<1>1. Outstanding(o)' = Outstanding(o)
  BY DEF Outstanding
<1>2. TakenBy(Outstanding(o))' = TakenBy(Outstanding(o))
  BY <1>1 DEF TakenBy
<1> QED
  BY <1>2 DEF AccountInv, EscrowBalanceIsOutstanding

\* Nothing is outstanding of an organization that is new.
LEMMA CreateOrganizationAccount ==
  ASSUME IInv, AccountInv, NEW o \in Organization, NEW m \in Milligons,
         CreateOrganization(o, m)
  PROVE  AccountInv'
<1>1. SettledOnce' /\ DebitsAreOfKnown'
  BY DEF AccountInv, SettledOnce, DebitsAreOfKnown, Settled, CreateOrganization
<1>2. ASSUME NEW q \in Organization, HasRow(q)'
      PROVE  organizations'[q].balanceInEscrows = TakenBy(Outstanding(q))'
  <2>1. Outstanding(q)' = Outstanding(q)
    BY DEF Outstanding, Settled, CreateOrganization
  <2>2. TakenBy(Outstanding(q))' = TakenBy(Outstanding(q))
    BY <2>1 DEF TakenBy, CreateOrganization
  <2>3. CASE q = o
    <3>1. o \notin known
      BY DEF CreateOrganization
    <3>2. o # None
      BY NoneAssumption
    <3>3. Outstanding(o) = {}
      BY <3>1, <3>2 DEF AccountInv, DebitsAreOfKnown, Outstanding
    <3>4. TakenBy(Outstanding(o)) = 0
      BY <3>3, SumOfNothing DEF TakenBy
    <3>5. organizations'[o].balanceInEscrows = 0
      BY DEF CreateOrganization, IInv, TypeOK
    <3> QED
      BY <2>2, <2>3, <3>4, <3>5
  <2>4. CASE q # o
    <3>1. organizations'[q] = organizations[q]
      BY <2>4 DEF CreateOrganization, IInv, TypeOK
    <3> QED
      BY <1>2, <2>2, <3>1 DEF AccountInv, EscrowBalanceIsOutstanding, HasRow
  <2> QED
    BY <2>3, <2>4
<1> QED
  BY <1>1, <1>2 DEF AccountInv, EscrowBalanceIsOutstanding

\* The rest of the administration leaves what is in escrows alone.
LEMMA AdministerAccount ==
  ASSUME IInv, AccountInv,
         \/ \E o \in Organization :
              \/ \E m \in Milligons \ {0} : Grant(o, m)
              \/ DeleteOrganization(o)
              \/ \E i \in Identity : CreateUser(i, o)
         \/ \E i \in Identity : DeleteUser(i)
         \/ EditWhitelist
  PROVE  AccountInv'
<1>1. UNCHANGED <<escrows, pc, debited, chain, syncing, known>>
  BY DEF Grant, DeleteOrganization, CreateUser, DeleteUser, EditWhitelist
<1>2. \A r \in Request : Settled(r)' <=> Settled(r)
  BY <1>1 DEF Settled
<1>3. SettledOnce' /\ DebitsAreOfKnown'
  BY <1>1 DEF AccountInv, SettledOnce, DebitsAreOfKnown, Settled
<1>4. ASSUME NEW q \in Organization, HasRow(q)'
      PROVE  /\ HasRow(q)
             /\ organizations'[q].balanceInEscrows = organizations[q].balanceInEscrows
  <2>1. CASE UNCHANGED organizations
    BY <1>4, <2>1 DEF HasRow
  <2>2. ASSUME NEW o \in Organization, DeleteOrganization(o)
        PROVE  organizations'[q] = organizations[q]
    BY <1>4, <2>2 DEF DeleteOrganization, HasRow, IInv, TypeOK
  <2>3. ASSUME NEW o \in Organization, NEW m \in Milligons \ {0}, Grant(o, m)
        PROVE  /\ HasRow(q)
               /\ organizations'[q].balanceInEscrows = organizations[q].balanceInEscrows
    <3>1. HasRow(o) /\ organizations[o] \in OrganizationRow
      BY <2>3 DEF Grant, HasRow, IInv, TypeOK
    <3> QED
      BY <1>4, <2>3, <3>1 DEF Grant, AddTo, HasRow, IInv, TypeOK, OrganizationRow
  <2> QED
    BY <1>4, <2>1, <2>2, <2>3 DEF HasRow, CreateUser, DeleteUser, EditWhitelist
<1>5. EscrowBalanceIsOutstanding'
  BY <1>1, <1>2, <1>4, BalanceUntouched
<1> QED
  BY <1>3, <1>5 DEF AccountInv

\* A debit puts in escrow what the request takes.
LEMMA StartCreateEscrowAccount ==
  ASSUME IInv, IInv', AccountInv,
         NEW r \in Request, NEW i \in Identity, NEW m \in Milligons \ {0},
         StartCreateEscrow(r, i, m)
  PROVE  AccountInv'
<1> DEFINE o == users[i]
           accepted == whitelisted /\ o # None /\ CanDebit(o, m)
<1>1. /\ UNCHANGED <<escrows, chain, syncing, known>>
      /\ \A q \in Request : Settled(q)' <=> Settled(q)
      /\ pc[r] = "idle" /\ debited[r].organization = None
      /\ pc'[r] # "idle" /\ \A q \in Request \ {r} : pc'[q] = pc[q]
  BY DEF StartCreateEscrow, Settled, AccountInv, DebitsAreOfKnown, Goto, IInv, TypeOK
<1>2. SettledOnce'
  BY <1>1 DEF AccountInv, SettledOnce
<1>3. CASE ~accepted
  <2>1. UNCHANGED <<organizations, debited>>
    BY <1>3 DEF StartCreateEscrow
  <2>2. EscrowBalanceIsOutstanding'
    BY <1>1, <2>1, BalanceUntouched DEF HasRow
  <2>3. DebitsAreOfKnown'
    BY <1>1, <2>1 DEF AccountInv, DebitsAreOfKnown
  <2> QED
    BY <1>2, <2>2, <2>3 DEF AccountInv
<1>4. CASE accepted
  <2>1. /\ o \in Organization /\ HasRow(o) /\ o # None /\ m \in Nat /\ o \in known
        /\ organizations[o] \in OrganizationRow
    BY <1>4, BoundsAssumption
    DEF IInv, TypeOK, UsersHaveOrganizations, UnknownHaveNothing, HasRow, Milligons
  <2>2. /\ AddTo(o, 0, -m, m)
        /\ debited' = [debited EXCEPT ![r] = [organization |-> o, milligons |-> m]]
    BY <1>4 DEF StartCreateEscrow, DebitOrganization
  <2> HIDE DEF o, accepted
  <2>3. /\ debited'[r] = [organization |-> o, milligons |-> m]
        /\ \A q \in Request \ {r} : debited'[q] = debited[q]
    BY <2>2 DEF IInv, TypeOK
  <2>4. DebitsAreOfKnown'
    BY <1>1, <2>1, <2>3 DEF AccountInv, DebitsAreOfKnown
  <2>5. ~Settled(r)
    BY <1>1 DEF IInv, DebitsPrecedeEscrows, Settled
  <2>6. \A q \in Request : Takings[q] \in Nat /\ Takings'[q] \in Nat
    BY TakingsAreNatural DEF IInv, Takings, TypeOK
  <2>7. Takings'[r] = m /\ \A q \in Request \ {r} : Takings'[q] = Takings[q]
    BY <2>3 DEF Takings
  <2>8. ASSUME NEW q \in Organization, HasRow(q)'
        PROVE  organizations'[q].balanceInEscrows = TakenBy(Outstanding(q))'
    <3>1. r \notin Outstanding(q) /\ IsFiniteSet(Outstanding(q))
      BY <1>1, OutstandingFinite, NoneAssumption DEF Outstanding
    <3>2. SumFunctionOnSet(Takings', Outstanding(q)) = TakenBy(Outstanding(q))
      <4>1. \A x \in Outstanding(q) : Takings'[x] \in Nat /\ Takings'[x] = Takings[x]
        BY <2>6, <2>7, <3>1 DEF Outstanding
      <4> QED
        BY <3>1, <4>1, SumAgrees DEF TakenBy, Takings
    <3>3. CASE q = o
      <4>1. Outstanding(q)' = Outstanding(q) \cup {r}
        BY <1>1, <2>3, <2>5, <3>3 DEF Outstanding
      <4>2. \A x \in Outstanding(q) : Takings'[x] \in Nat
        BY <2>6 DEF Outstanding
      <4>3. SumFunctionOnSet(Takings', Outstanding(q) \cup {r})
              = SumFunctionOnSet(Takings', Outstanding(q)) + m
        BY <2>1, <2>7, <3>1, <4>2, SumWith
      <4>4. organizations'[q].balanceInEscrows = organizations[q].balanceInEscrows + m
        BY <2>1, <2>2, <3>3 DEF AddTo, IInv, TypeOK
      <4>5. organizations[q].balanceInEscrows = TakenBy(Outstanding(q))
        BY <2>1, <3>3 DEF AccountInv, EscrowBalanceIsOutstanding
      <4>6. TakenBy(Outstanding(q))' = SumFunctionOnSet(Takings', Outstanding(q)')
        BY DEF TakenBy, Takings
      <4> QED
        BY <3>2, <4>1, <4>3, <4>4, <4>5, <4>6
    <3>4. CASE q # o
      <4>1. Outstanding(q)' = Outstanding(q)
        BY <1>1, <2>1, <2>3, <3>1, <3>4 DEF Outstanding
      <4>2. organizations'[q] = organizations[q]
        BY <2>2, <3>4 DEF AddTo, IInv, TypeOK
      <4>3. organizations[q].balanceInEscrows = TakenBy(Outstanding(q))
        BY <2>8, <4>2 DEF AccountInv, EscrowBalanceIsOutstanding, HasRow
      <4>4. TakenBy(Outstanding(q))' = SumFunctionOnSet(Takings', Outstanding(q)')
        BY DEF TakenBy, Takings
      <4> QED
        BY <3>2, <4>1, <4>2, <4>3, <4>4
    <3> QED
      BY <3>3, <3>4
  <2>9. EscrowBalanceIsOutstanding'
    BY <2>8 DEF EscrowBalanceIsOutstanding
  <2> QED
    BY <1>2, <2>4, <2>9 DEF AccountInv
<1> QED
  BY <1>3, <1>4

\* Opening and recording an escrow settles nothing, nor does its expiration.
LEMMA EscrowStepsAccount ==
  ASSUME IInv, AccountInv, NEW r \in Request,
         OpenEscrow(r) \/ RecordEscrow(r) \/ Expire(r)
  PROVE  AccountInv'
<1>1. /\ UNCHANGED <<organizations, debited, syncing, known>>
      /\ \A q \in Request : pc'[q] = "idle" => pc[q] = "idle"
  BY DEF OpenEscrow, RecordEscrow, Expire, Goto, tables, IInv, TypeOK
<1>2. \A q \in Request : Settled(q)' <=> Settled(q)
  <2>1. CASE OpenEscrow(r) \/ Expire(r)
    BY <2>1 DEF OpenEscrow, Expire, tables, Settled
  <2>2. CASE RecordEscrow(r)
    <3>1. escrows[r] = None
      BY <2>2 DEF RecordEscrow, IInv, DebitsPrecedeEscrows
    <3> QED
      BY <2>2, <3>1 DEF RecordEscrow, Settled, IInv, TypeOK
  <2> QED
    BY <2>1, <2>2
<1>3. \A q \in Request : chain[q] = "notarized" => chain'[q] = "notarized"
  BY DEF OpenEscrow, RecordEscrow, Expire, IInv, TypeOK, DebitsPrecedeEscrows
<1>4. SettledOnce' /\ DebitsAreOfKnown'
  BY <1>1, <1>2, <1>3 DEF AccountInv, SettledOnce, DebitsAreOfKnown
<1>5. EscrowBalanceIsOutstanding'
  BY <1>1, <1>2, BalanceUntouched DEF HasRow
<1> QED
  BY <1>4, <1>5 DEF AccountInv

\* The notary settles escrows that no row was settled for.
LEMMA SyncAccount ==
  ASSUME IInv, AccountInv, Sync
  PROVE  AccountInv'
<1>1. UNCHANGED <<tables, pc, debited, known>>
  BY DEF Sync
<1>2. \A r \in Request : Settled(r)' <=> Settled(r)
  BY <1>1 DEF Settled, tables
<1>3. \A r \in Request :
        /\ chain[r] = "notarized" => chain'[r] = "notarized"
        /\ syncing'[r] # None =>
             syncing[r] # None \/ (chain[r] = "expired" /\ chain'[r] = "notarized")
  BY DEF Sync
<1>4. SettledOnce'
  BY <1>2, <1>3 DEF AccountInv, SettledOnce
<1>5. DebitsAreOfKnown'
  BY <1>1 DEF AccountInv, DebitsAreOfKnown
<1>6. EscrowBalanceIsOutstanding'
  BY <1>1, <1>2, BalanceUntouched DEF HasRow, tables
<1> QED
  BY <1>4, <1>5, <1>6 DEF AccountInv

\* A restart forgets requests and settlements, not what they took.
LEMMA RestartAccount ==
  ASSUME IInv, AccountInv, Restart
  PROVE  AccountInv'
<1>1. /\ UNCHANGED <<tables, debited, chain, known>>
      /\ \A r \in Request : syncing'[r] = None /\ (pc'[r] = "idle" => pc[r] = "idle")
  BY DEF Restart
<1>2. \A r \in Request : Settled(r)' <=> Settled(r)
  BY <1>1 DEF Settled, tables
<1>3. SettledOnce' /\ DebitsAreOfKnown'
  BY <1>1, <1>2 DEF AccountInv, SettledOnce, DebitsAreOfKnown
<1>4. EscrowBalanceIsOutstanding'
  BY <1>1, <1>2, BalanceUntouched DEF HasRow, tables
<1> QED
  BY <1>3, <1>4 DEF AccountInv

\* A settlement takes one request out of what is outstanding, and its hold out
\* of the escrows of its organization.
LEMMA SettleEscrowAccount ==
  ASSUME IInv, AccountInv, NEW r \in Request, SettleEscrow(r)
  PROVE  AccountInv'
<1>1. /\ UNCHANGED <<pc, debited, chain, known>>
      /\ syncing[r] # None /\ syncing' = [syncing EXCEPT ![r] = None]
      /\ chain[r] = "notarized" /\ ~Settled(r)
  BY DEF SettleEscrow, AccountInv, SettledOnce
<1>2. DebitsAreOfKnown'
  BY <1>1 DEF AccountInv, DebitsAreOfKnown
<1>3. \A q \in Request : syncing'[q] # None => q # r /\ syncing[q] # None
  BY <1>1 DEF IInv, TypeOK
<1>4. CASE escrows[r] = None
  <2>1. UNCHANGED <<escrows, organizations>>
    BY <1>4 DEF SettleEscrow
  <2>2. \A q \in Request : Settled(q)' <=> Settled(q)
    BY <2>1 DEF Settled
  <2>3. SettledOnce'
    BY <1>1, <1>3, <2>2 DEF AccountInv, SettledOnce
  <2>4. EscrowBalanceIsOutstanding'
    BY <1>1, <2>1, <2>2, BalanceUntouched DEF HasRow
  <2> QED
    BY <1>2, <2>3, <2>4 DEF AccountInv
<1>5. CASE escrows[r] # None
  <2> DEFINE o == escrows[r].organization
             held == escrows[r].held
             free == held - syncing[r]
  <2>1. /\ o \in Organization /\ HasRow(o) /\ held \in Nat /\ held = debited[r].milligons
        /\ o = debited[r].organization
        /\ organizations[o] \in OrganizationRow
    BY <1>5
    DEF IInv, TypeOK, EscrowRow, EscrowsHaveOrganizations, DebitsPrecedeEscrows, HasRow
  <2>2. /\ AddTo(o, 0, free, -held)
        /\ escrows' = [escrows EXCEPT ![r].settled = syncing[r]]
    BY <1>5 DEF SettleEscrow, SettleOrganization
  <2>3. Settled(r)' /\ \A q \in Request \ {r} : Settled(q)' <=> Settled(q)
    <3>1. /\ escrows'[r] = [escrows[r] EXCEPT !.settled = syncing[r]]
          /\ \A q \in Request \ {r} : escrows'[q] = escrows[q]
      BY <2>2 DEF IInv, TypeOK
    <3>2. escrows[r] \in EscrowRow /\ syncing[r] \in Nat
      BY <1>1, <1>5 DEF IInv, TypeOK
    <3>3. escrows'[r] \in EscrowRow /\ escrows'[r].settled = syncing[r]
      BY <3>1, <3>2 DEF EscrowRow
    <3> QED
      BY <1>1, <3>1, <3>3, NoneAssumption DEF Settled
  <2> HIDE DEF o, held, free
  <2>4. SettledOnce'
    BY <1>1, <1>3, <2>3 DEF AccountInv, SettledOnce
  <2>5. \A q \in Request : Takings[q] = debited[q].milligons /\ Takings[q] \in Nat
    BY TakingsAreNatural DEF IInv
  <2>6. ASSUME NEW q \in Organization, HasRow(q)'
        PROVE  organizations'[q].balanceInEscrows = TakenBy(Outstanding(q))'
    <3>1. TakenBy(Outstanding(q))' = SumFunctionOnSet(Takings, Outstanding(q)')
      BY <1>1 DEF TakenBy, Takings
    <3>2. CASE q = o
      <4>1. r \in Outstanding(q) /\ Outstanding(q)' = Outstanding(q) \ {r}
        BY <1>1, <2>1, <2>3, <3>2 DEF Outstanding
      <4>2. IsFiniteSet(Outstanding(q)) /\ \A x \in Outstanding(q) : Takings[x] \in Nat
        BY <2>5, OutstandingFinite
      <4>3. SumFunctionOnSet(Takings, Outstanding(q))
              = held + SumFunctionOnSet(Takings, Outstanding(q) \ {r})
        BY <2>1, <2>5, <4>1, <4>2, SumWithout
      <4>4. SumFunctionOnSet(Takings, Outstanding(q) \ {r}) \in Nat
        BY <4>2, FS_RemoveElement, SumType
      <4>5. organizations'[q].balanceInEscrows = organizations[q].balanceInEscrows - held
        BY <2>1, <2>2, <3>2 DEF AddTo, IInv, TypeOK, OrganizationRow
      <4>6. organizations[q].balanceInEscrows = SumFunctionOnSet(Takings, Outstanding(q))
        BY <2>1, <3>2 DEF AccountInv, EscrowBalanceIsOutstanding, TakenBy, Takings
      <4> QED
        BY <2>1, <3>1, <4>1, <4>3, <4>4, <4>5, <4>6
    <3>3. CASE q # o
      <4>1. Outstanding(q)' = Outstanding(q)
        BY <1>1, <2>1, <2>3, <3>3 DEF Outstanding
      <4>2. organizations'[q] = organizations[q]
        BY <2>2, <3>3 DEF AddTo, IInv, TypeOK
      <4>3. organizations[q].balanceInEscrows = TakenBy(Outstanding(q))
        BY <2>6, <4>2 DEF AccountInv, EscrowBalanceIsOutstanding, HasRow
      <4> QED
        BY <3>1, <4>1, <4>2, <4>3 DEF TakenBy, Takings
    <3> QED
      BY <3>2, <3>3
  <2>7. EscrowBalanceIsOutstanding'
    BY <2>6 DEF EscrowBalanceIsOutstanding
  <2> QED
    BY <1>2, <2>4, <2>7 DEF AccountInv
<1> QED
  BY <1>4, <1>5

LEMMA NextAccount == IInv /\ IInv' /\ AccountInv /\ [Next]_vars => AccountInv'
<1> SUFFICES ASSUME IInv, IInv', AccountInv, [Next]_vars PROVE AccountInv'
  OBVIOUS
<1>1. CASE Administer
  BY <1>1, CreateOrganizationAccount, AdministerAccount DEF Administer
<1>2. ASSUME NEW r \in Request, Handle(r) \/ Expire(r)
      PROVE  AccountInv'
  BY <1>2, EscrowStepsAccount, SettleEscrowAccount DEF Handle
<1>3. ASSUME NEW r \in Request, NEW i \in Identity, NEW m \in Milligons \ {0},
             StartCreateEscrow(r, i, m)
      PROVE  AccountInv'
  BY <1>3, StartCreateEscrowAccount
<1>4. CASE Sync \/ Restart
  BY <1>4, SyncAccount, RestartAccount
<1>5. CASE UNCHANGED vars
  <2>1. UNCHANGED <<organizations, escrows, pc, debited, chain, syncing, known>>
    BY <1>5 DEF vars, tables
  <2>2. \A r \in Request : Settled(r)' <=> Settled(r)
    BY <2>1 DEF Settled
  <2>3. SettledOnce' /\ DebitsAreOfKnown'
    BY <2>1, <2>2 DEF AccountInv, SettledOnce, DebitsAreOfKnown
  <2>4. EscrowBalanceIsOutstanding'
    BY <2>1, <2>2, BalanceUntouched DEF HasRow
  <2> QED
    BY <2>3, <2>4 DEF AccountInv
<1> QED
  BY <1>1, <1>2, <1>3, <1>4, <1>5 DEF Next

\* Open rows hold what their requests took.
LEMMA HoldsAreTakings ==
  ASSUME IInv, NEW o \in Organization, IsFiniteSet(OpenRows(o))
  PROVE  HeldBy(OpenRows(o)) = TakenBy(OpenRows(o))
<1> DEFINE holds == [r \in OpenRows(o) |-> escrows[r].held]
<1>1. \A r \in OpenRows(o) : Takings[r] \in Nat /\ Takings[r] = holds[r]
  BY TakingsAreNatural DEF OpenRows, RowsOf, IInv, EscrowsHaveOrganizations
<1> HIDE DEF holds
<1>2. SumFunctionOnSet(Takings, OpenRows(o)) = SumFunctionOnSet(holds, OpenRows(o))
  BY <1>1, SumAgrees
<1> QED
  BY <1>2 DEF HeldBy, TakenBy, Takings, holds

\* What is outstanding has a row that is open, or no row.
LEMMA OutstandingIsExplained == IInv /\ AccountInv => EscrowBalanceIsExplained
<1> SUFFICES ASSUME IInv, AccountInv, NEW o \in Organization, HasRow(o)
             PROVE  organizations[o].balanceInEscrows
                      = HeldBy(OpenRows(o)) + TakenBy(Unrecorded(o))
  BY DEF EscrowBalanceIsExplained
<1>1. /\ Outstanding(o) = OpenRows(o) \cup Unrecorded(o)
      /\ OpenRows(o) \cap Unrecorded(o) = {}
  BY DEF Outstanding, OpenRows, RowsOf, Unrecorded, Settled, IInv, DebitsPrecedeEscrows
<1>2. IsFiniteSet(OpenRows(o)) /\ IsFiniteSet(Unrecorded(o))
  BY <1>1, OutstandingFinite, FS_Subset
<1>3. \A r \in Request : Takings[r] = debited[r].milligons /\ Takings[r] \in Nat
  BY TakingsAreNatural DEF IInv
<1>4. TakenBy(Outstanding(o)) = TakenBy(OpenRows(o)) + TakenBy(Unrecorded(o))
  <2>1. \A r \in OpenRows(o) \cup Unrecorded(o) : Takings[r] \in Nat
    BY <1>3 DEF OpenRows, RowsOf, Unrecorded
  <2> QED
    BY <1>1, <1>2, <2>1, SumOfUnion DEF TakenBy, Takings
<1>5. HeldBy(OpenRows(o)) = TakenBy(OpenRows(o))
  BY <1>2, HoldsAreTakings
<1> QED
  BY <1>4, <1>5 DEF AccountInv, EscrowBalanceIsOutstanding

LEMMA AccountHolds == Spec => []AccountInv
<1> QED
  BY InitAccount, NextAccount, IInvHolds, PTL DEF Spec

(* The theorems *)

\* Rows and requests keep their types; in particular no balance goes below zero,
\* whatever the localchain settles: CHECK (balance >= 0) never fails a settlement.
THEOREM TypeCorrect == Spec => []TypeOK
<1> QED
  BY IInvHolds, PTL DEF IInv

\* Statements of OrganizationsTable move money between the balance and the
\* escrows of an organization, and only settlements take it out.
THEOREM GrantsConserved == Spec => []GrantsAreConserved
<1> QED
  BY IInvHolds, PTL DEF IInv

\* The organization of an escrow's row is there, and the row holds what was
\* debited, although deletions interleave with requests that wait.
THEOREM EscrowsOwned == Spec => []EscrowsHaveOrganizations
<1> QED
  BY IInvHolds, PTL DEF IInv

\* No settlement returns a hold twice or to another organization: what the row
\* of an organization says is in escrows is what its open escrows hold and what
\* its unrecorded requests took.
THEOREM EscrowBalanceExplained == Spec => []EscrowBalanceIsExplained
<1> QED
  BY IInvHolds, AccountHolds, OutstandingIsExplained, PTL

(* What the administration API says of balanceInEscrows, where it holds *)

\* A request that is answered has its row.
DoneAreRecorded == \A r \in Request : pc[r] = "done" => escrows[r] # None

LEMMA NextRecorded ==
  ASSUME IInv, DoneAreRecorded, [Next]_vars
  PROVE  DoneAreRecorded'
<1>1. ASSUME UNCHANGED escrows, \A r \in Request : pc'[r] = "done" => pc[r] = "done"
      PROVE  DoneAreRecorded'
  BY <1>1 DEF DoneAreRecorded
<1>2. CASE UNCHANGED vars
  BY <1>1, <1>2 DEF vars, tables
<1>3. CASE Administer
  BY <1>1, <1>3
  DEF Administer, CreateOrganization, Grant, DeleteOrganization, CreateUser, DeleteUser,
      EditWhitelist
<1>4. ASSUME NEW r \in Request, NEW i \in Identity, NEW m \in Milligons \ {0},
             StartCreateEscrow(r, i, m)
      PROVE  DoneAreRecorded'
  BY <1>1, <1>4 DEF StartCreateEscrow, Goto, IInv, TypeOK
<1>5. ASSUME NEW r \in Request, OpenEscrow(r) \/ Expire(r)
      PROVE  DoneAreRecorded'
  BY <1>1, <1>5 DEF OpenEscrow, Expire, Goto, tables, IInv, TypeOK
<1>6. ASSUME NEW r \in Request, RecordEscrow(r)
      PROVE  DoneAreRecorded'
  <2> DEFINE row == [organization |-> debited[r].organization, held |-> debited[r].milligons,
                     settled |-> None]
  <2>1. row # None
    <3>1. row \in EscrowRow
      BY <1>6, NoneAssumption DEF RecordEscrow, IInv, TypeOK, DebitsPrecedeEscrows, EscrowRow
    <3> QED
      BY <3>1, NoneAssumption
  <2> HIDE DEF row
  <2>2. CASE escrows' = [escrows EXCEPT ![r] = row] /\ \E label \in Pc : Goto(r, label)
    BY <2>1, <2>2 DEF Goto, DoneAreRecorded, IInv, TypeOK
  <2>3. CASE Goto(r, "failed") /\ UNCHANGED escrows
    BY <1>1, <2>3 DEF Goto, IInv, TypeOK
  <2> QED
    BY <1>6, <2>2, <2>3 DEF RecordEscrow, Pc, row
<1>7. ASSUME NEW r \in Request, SettleEscrow(r)
      PROVE  DoneAreRecorded'
  <2>1. UNCHANGED pc
    BY <1>7 DEF SettleEscrow
  <2>2. CASE escrows[r] = None /\ UNCHANGED escrows
    BY <1>1, <2>1, <2>2
  <2>3. CASE escrows[r] # None /\ escrows' = [escrows EXCEPT ![r].settled = syncing[r]]
    <3>1. escrows'[r] = [escrows[r] EXCEPT !.settled = syncing[r]]
      BY <2>3 DEF IInv, TypeOK
    <3>2. escrows'[r] # None
      BY <1>7, <2>3, <3>1, NoneAssumption DEF SettleEscrow, IInv, TypeOK, EscrowRow
    <3> QED
      BY <2>1, <2>3, <3>2 DEF DoneAreRecorded, IInv, TypeOK
  <2> QED
    BY <1>7, <2>2, <2>3 DEF SettleEscrow
<1>8. CASE Sync \/ Restart
  BY <1>1, <1>8 DEF Sync, Restart, tables
<1> QED
  BY <1>2, <1>3, <1>4, <1>5, <1>6, <1>7, <1>8 DEF Next, Handle

\* Requests that debited their organization and failed before the row of their
\* escrow was created.
LostDebits ==
  {r \in Request : pc[r] = "failed" /\ debited[r].organization # None /\ escrows[r] = None}

\* The balance in escrows is the balance in active escrows whenever no request is
\* being handled, until the first request fails between its debit and its row.
THEOREM BalanceInActiveEscrows ==
  Spec => [](LostDebits = {} => BalanceIsInActiveEscrows)
<1>1. Spec => []DoneAreRecorded
  <2>1. Init => DoneAreRecorded
    BY DEF Init, DoneAreRecorded
  <2>2. IInv /\ DoneAreRecorded /\ [Next]_vars => DoneAreRecorded'
    BY NextRecorded
  <2> QED
    BY <2>1, <2>2, IInvHolds, PTL DEF Spec
<1>2. IInv /\ AccountInv /\ DoneAreRecorded => (LostDebits = {} => BalanceIsInActiveEscrows)
  <2> SUFFICES ASSUME IInv, AccountInv, DoneAreRecorded, LostDebits = {},
                      \A r \in Request : pc[r] \in {"idle", "done", "failed"},
                      NEW o \in Organization, HasRow(o)
               PROVE  organizations[o].balanceInEscrows = HeldBy(OpenRows(o))
    BY DEF BalanceIsInActiveEscrows
  <2>1. ASSUME NEW r \in Request, debited[r].organization = o
        PROVE  escrows[r] # None
    BY <2>1, NoneAssumption DEF LostDebits, AccountInv, DebitsAreOfKnown, DoneAreRecorded
  <2>2. Outstanding(o) = OpenRows(o)
    BY <2>1 DEF Outstanding, OpenRows, RowsOf, Settled, IInv, DebitsPrecedeEscrows
  <2> QED
    BY <2>2, OutstandingFinite, HoldsAreTakings DEF AccountInv, EscrowBalanceIsOutstanding
<1> QED
  BY <1>1, <1>2, IInvHolds, AccountHolds, PTL
=============================================================================
