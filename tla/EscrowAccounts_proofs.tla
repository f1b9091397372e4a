------------------------ MODULE EscrowAccounts_proofs ------------------------
(***************************************************************************)
(* Proofs about EscrowPayments, for any queries, prices, escrows, strategy *)
(* and number of faults: that the datastore has what the payer believes it *)
(* may spend, and why it refuses a payment.                                *)
(***************************************************************************)
EXTENDS EscrowPayments_proofs, Sums_proofs, WellFoundedInduction

Rows == [Escrow -> EscrowRow \cup {None}]

LEMMA Types ==
  ASSUME IInv
  PROVE  /\ balances \in List /\ file \in List /\ escrows \in Rows
         /\ paymentIdByEscrowId \in [Escrow -> [Query -> Entry \cup {None}]]
         /\ sourceEscrows \in [Escrow -> Opened \cup {None}]
         /\ chosen \in [Query -> Escrow \cup {None}]
         /\ clientPc \in [Query -> ClientPc] /\ nodePc \in [Query -> NodePc]
         /\ settlement \in [Query -> Nat] /\ tally \in [Query -> Nat]
         /\ faults \in Nat /\ now \in Nat /\ target \in Nat
BY DEF IInv, TypeOK, DbTypeOK, List, Rows, Query

LEMMA PriceType ==
  ASSUME NEW q \in Query
  PROVE  Price[q] \in Nat /\ Price[q] > 0
BY PriceAssumption

-----------------------------------------------------------------------------
(* Sums of costs *)

LEMMA TotalType ==
  ASSUME NEW f \in [Query -> Nat]
  PROVE  Total(f) \in Nat
BY QueriesAssumption, SumType DEF Total

LEMMA TotalGrows ==
  ASSUME NEW f \in [Query -> Nat], NEW g \in [Query -> Nat], \A q \in Query : f[q] <= g[q]
  PROVE  Total(f) <= Total(g)
BY QueriesAssumption, SumMonotone DEF Total

LEMMA TotalChanges ==
  ASSUME NEW f \in [Query -> Nat], NEW g \in [Query -> Nat], NEW q \in Query,
         \A p \in Query \ {q} : g[p] = f[p]
  PROVE  Total(g) = Total(f) + g[q] - f[q]
BY QueriesAssumption, SumChangesAt DEF Total

LEMMA CostTypes ==
  ASSUME IInv
  PROVE  /\ \A q \in Query : /\ PayerCost(q) \in 0 .. Price[q]
                             /\ NodeCost(q) \in 0 .. Price[q]
         /\ \A e \in Escrow : /\ PayerCosts(e) \in [Query -> Nat]
                              /\ FileCosts(e) \in [Query -> Nat]
                              /\ NodeCosts(e) \in [Query -> Nat]
<1>1. ASSUME NEW q \in Query
      PROVE  PayerCost(q) \in 0 .. Price[q] /\ NodeCost(q) \in 0 .. Price[q]
  <2>1. tally[q] \in Nat /\ tally[q] <= Price[q] /\ Price[q] \in Nat
    BY PriceType, Types DEF IInv, QueriesHaveEscrows
  <2> QED
    BY <2>1 DEF PayerCost, NodeCost
<1>2. \A q \in Query : PayerCost(q) \in Nat /\ NodeCost(q) \in Nat
  BY <1>1, PriceType
<1> QED
  BY <1>1, <1>2 DEF PayerCosts, FileCosts, NodeCosts

LEMMA CostTypesNext ==
  ASSUME IInv'
  PROVE  \A e \in Escrow : /\ PayerCosts(e)' \in [Query -> Nat]
                           /\ FileCosts(e)' \in [Query -> Nat]
                           /\ NodeCosts(e)' \in [Query -> Nat]
<1>1. \A q \in Query : tally'[q] \in Nat /\ Price[q] \in Nat
  BY PriceType DEF IInv, TypeOK
<1>2. \A q \in Query : PayerCost(q)' \in Nat /\ NodeCost(q)' \in Nat
  BY <1>1 DEF PayerCost, NodeCost
<1> QED
  BY <1>2 DEF PayerCosts, FileCosts, NodeCosts

ListBooked(e) ==
  balances[e] # None => balances[e].remaining + Total(PayerCosts(e)) <= balances[e].allocated

FileBooked(e) ==
  file[e] # None => file[e].remaining + Total(FileCosts(e)) <= file[e].allocated

RowBooked(e) ==
  escrows[e] # None => escrows[e].allocated <= escrows[e].remaining + Total(NodeCosts(e))

LEMMA Booked ==
  CostsAreBooked <=> \A e \in Escrow : ListBooked(e) /\ FileBooked(e) /\ RowBooked(e)
BY DEF CostsAreBooked, ListBooked, FileBooked, RowBooked

\* The list, the file and the row stay as they are, or go, and the costs do not
\* change the wrong way.
LEMMA ListKept ==
  ASSUME IInv, IInv', NEW e \in Escrow, ListBooked(e), balances'[e] \in {None, balances[e]},
         \A q \in Query : PayerCosts(e)'[q] <= PayerCosts(e)[q]
  PROVE  ListBooked(e)'
<1> SUFFICES ASSUME balances'[e] # None
             PROVE  balances'[e].remaining + Total(PayerCosts(e)') <= balances'[e].allocated
  BY DEF ListBooked, Total
<1>1. /\ balances'[e] = balances[e] /\ balances[e] \in Balance
      /\ balances[e].remaining + Total(PayerCosts(e)) <= balances[e].allocated
  BY Types DEF ListBooked, List
<1>2. /\ Total(PayerCosts(e)') <= Total(PayerCosts(e))
      /\ Total(PayerCosts(e)') \in Nat /\ Total(PayerCosts(e)) \in Nat
  BY CostTypes, CostTypesNext, TotalGrows, TotalType
<1> QED
  BY <1>1, <1>2 DEF Balance

LEMMA FileKept ==
  ASSUME IInv, IInv', NEW e \in Escrow, FileBooked(e), file'[e] = file[e],
         \A q \in Query : FileCosts(e)'[q] <= FileCosts(e)[q]
  PROVE  FileBooked(e)'
<1> SUFFICES ASSUME file'[e] # None
             PROVE  file'[e].remaining + Total(FileCosts(e)') <= file'[e].allocated
  BY DEF FileBooked, Total
<1>1. /\ file'[e] = file[e] /\ file[e] \in Balance
      /\ file[e].remaining + Total(FileCosts(e)) <= file[e].allocated
  BY Types DEF FileBooked, List
<1>2. /\ Total(FileCosts(e)') <= Total(FileCosts(e))
      /\ Total(FileCosts(e)') \in Nat /\ Total(FileCosts(e)) \in Nat
  BY CostTypes, CostTypesNext, TotalGrows, TotalType
<1> QED
  BY <1>1, <1>2 DEF Balance

LEMMA RowKept ==
  ASSUME IInv, IInv', NEW e \in Escrow, RowBooked(e),
         escrows'[e] \in {None, escrows[e]} \/ escrows'[e].remaining = escrows'[e].allocated,
         \A q \in Query : NodeCosts(e)[q] <= NodeCosts(e)'[q]
  PROVE  RowBooked(e)'
<1> SUFFICES ASSUME escrows'[e] # None
             PROVE  escrows'[e].allocated <= escrows'[e].remaining + Total(NodeCosts(e)')
  BY DEF RowBooked, Total
<1>1. /\ Total(NodeCosts(e)) <= Total(NodeCosts(e)')
      /\ Total(NodeCosts(e)') \in Nat /\ Total(NodeCosts(e)) \in Nat
  BY CostTypes, CostTypesNext, TotalGrows, TotalType
<1>2. escrows'[e] \in EscrowRow
  BY DEF IInv, TypeOK, DbTypeOK
<1>3. CASE escrows'[e] = escrows[e]
  <2>1. escrows[e].allocated <= escrows[e].remaining + Total(NodeCosts(e))
    BY <1>3 DEF RowBooked
  <2> QED
    BY <1>1, <1>2, <1>3, <2>1 DEF EscrowRow
<1>4. CASE escrows'[e].remaining = escrows'[e].allocated
  BY <1>1, <1>2, <1>4 DEF EscrowRow
<1> QED
  BY <1>3, <1>4

\* One query's cost changes, and the list or the row with it.
LEMMA ListChanges ==
  ASSUME IInv, IInv', NEW e \in Escrow, NEW q \in Query, NEW b \in Balance, NEW spent \in Int,
         b.remaining + Total(PayerCosts(e)) <= b.allocated,
         balances'[e].allocated = b.allocated, balances'[e].remaining = b.remaining - spent,
         \A p \in Query \ {q} : PayerCosts(e)'[p] = PayerCosts(e)[p],
         PayerCosts(e)'[q] = PayerCosts(e)[q] + spent
  PROVE  ListBooked(e)'
<1>1. /\ Total(PayerCosts(e)') = Total(PayerCosts(e)) + PayerCosts(e)'[q] - PayerCosts(e)[q]
      /\ PayerCosts(e)[q] \in Nat /\ Total(PayerCosts(e)) \in Nat
  BY CostTypes, CostTypesNext, TotalChanges, TotalType
<1>2. Total(PayerCosts(e)') = Total(PayerCosts(e)) + spent
  BY <1>1
<1>3. balances'[e].remaining + Total(PayerCosts(e)') <= balances'[e].allocated
  BY <1>1, <1>2 DEF Balance
<1> QED
  BY <1>3 DEF ListBooked, Total

LEMMA RowChanges ==
  ASSUME IInv, IInv', NEW e \in Escrow, NEW q \in Query, NEW spent \in Int,
         RowBooked(e), escrows[e] # None,
         escrows'[e].allocated = escrows[e].allocated,
         escrows'[e].remaining = escrows[e].remaining - spent,
         \A p \in Query \ {q} : NodeCosts(e)'[p] = NodeCosts(e)[p],
         NodeCosts(e)[q] + spent <= NodeCosts(e)'[q]
  PROVE  RowBooked(e)'
<1>1. /\ Total(NodeCosts(e)') = Total(NodeCosts(e)) + NodeCosts(e)'[q] - NodeCosts(e)[q]
      /\ NodeCosts(e)[q] \in Nat /\ NodeCosts(e)'[q] \in Nat /\ Total(NodeCosts(e)) \in Nat
  BY CostTypes, CostTypesNext, TotalChanges, TotalType
<1>2. Total(NodeCosts(e)) + spent <= Total(NodeCosts(e)')
  BY <1>1
<1>3. /\ escrows[e].allocated <= escrows[e].remaining + Total(NodeCosts(e))
      /\ escrows[e].allocated \in Nat /\ escrows[e].remaining \in Nat
      /\ Total(NodeCosts(e)') \in Nat
  BY Types, CostTypesNext, TotalType DEF RowBooked, Rows, EscrowRow
<1>4. escrows'[e].allocated <= escrows'[e].remaining + Total(NodeCosts(e)')
  BY <1>1, <1>2, <1>3
<1> QED
  BY <1>4 DEF RowBooked, Total

-----------------------------------------------------------------------------
(* The datastore *)

\* A step of the datastore leaves the payer and its costs alone.
LEMMA NodeAccounts ==
  ASSUME IInv, IInv', AccountsInv, UNCHANGED payer, now <= now',
         faults' = faults \/ faults' # 0,
         \A q \in Query : PayerCost(q)' = PayerCost(q),
         \A e \in Escrow : RowBooked(e)',
         \A e \in Escrow : escrows'[e] # None =>
           /\ escrows[e] # None
           /\ escrows'[e].allocated = escrows[e].allocated
           /\ escrows'[e].expirationDate = escrows[e].expirationDate,
         \A e \in Escrow : escrows[e] # None =>
           escrows'[e] # None \/ escrows[e].expirationDate < now',
         \A e \in Escrow, q \in Query :
           AlreadyDebited(e, q)' => paymentIdByEscrowId'[e][q].microgons = Price[q],
         \A q \in Query : /\ nodePc[q] = "none" => nodePc'[q] = "none"
                          /\ nodePc[q] = "answered" => nodePc'[q] = "answered"
                          /\ nodePc'[q] = "debit" => nodePc[q] = "debit"
  PROVE  AccountsInv'
<1>1. /\ UNCHANGED <<balances, sourceEscrows, chosen, settlement, clientPc, target, file,
                     recorded, forgotten, Reserved>>
      /\ \A e \in Escrow : PayerCosts(e)' = PayerCosts(e) /\ FileCosts(e)' = FileCosts(e)
  BY DEF payer, storage, Reserved, PayerCosts, FileCosts
<1>2. CostsAreBooked'
  <2>1. ASSUME NEW e \in Escrow
        PROVE  ListBooked(e)' /\ FileBooked(e)'
    BY <1>1, Booked DEF AccountsInv, ListBooked, FileBooked, Total
  <2> QED
    BY <2>1 DEF CostsAreBooked, ListBooked, FileBooked, RowBooked
<1>3. EscrowsAreOpened'
  <2> SUFFICES ASSUME NEW e \in Escrow
               PROVE  /\ balances'[e] # None => SameAsOpened(e, balances[e])'
                      /\ file'[e] # None => SameAsOpened(e, file[e])'
                      /\ escrows'[e] # None => SameAsOpened(e, escrows[e])'
                      /\ Pays(e)' => escrows'[e] # None
                                       \/ sourceEscrows'[e].expirationDate < now'
    BY DEF EscrowsAreOpened
  <2>1. /\ balances[e] # None => SameAsOpened(e, balances[e])
        /\ file[e] # None => SameAsOpened(e, file[e])
        /\ escrows[e] # None => SameAsOpened(e, escrows[e])
        /\ Pays(e) => escrows[e] # None \/ sourceEscrows[e].expirationDate < now
    BY DEF AccountsInv, EscrowsAreOpened
  <2>2. Pays(e)' = Pays(e)
    BY <1>1 DEF Pays
  <2>3. Pays(e) => escrows'[e] # None \/ sourceEscrows[e].expirationDate < now'
    <3>1. CASE escrows[e] # None
      BY <2>1, <3>1 DEF SameAsOpened
    <3>2. CASE escrows[e] = None
      <4>1. Pays(e) => sourceEscrows[e] # None
        BY <2>1 DEF Pays, SameAsOpened, AccountsInv, QueryInv, Reserved
      <4>2. sourceEscrows[e] # None => sourceEscrows[e].expirationDate \in Nat
        BY Types DEF Opened
      <4>3. now \in Nat /\ now' \in Nat
        BY DEF IInv, TypeOK, DbTypeOK
      <4> QED
        BY <2>1, <3>2, <4>1, <4>2, <4>3
    <3> QED
      BY <3>1, <3>2
  <2> QED
    BY <1>1, <2>1, <2>2, <2>3 DEF SameAsOpened
<1>4. ASSUME NEW q \in Query
      PROVE  QueryInv(q)'
  BY <1>1 DEF AccountsInv, QueryInv
<1>5. SettledForAll'
  <2> SUFFICES ASSUME faults' = 0 PROVE SettledForAll'
    BY DEF SettledForAll
  <2>1. faults = 0
    OBVIOUS
  <2>2. \A q \in Reserved : chosen[q] \in Escrow
    BY Types DEF Reserved, AccountsInv, QueryInv
  <2>3. \A e \in Escrow : Total(PayerCosts(e))' = Total(PayerCosts(e))
    BY <1>1 DEF Total
  <2>4. \A q \in Reserved :
          Total(PayerCosts(chosen[q]))' = Total(PayerCosts(chosen[q]))
    <3> SUFFICES ASSUME NEW q \in Reserved
                 PROVE  Total(PayerCosts(chosen[q]))' = Total(PayerCosts(chosen[q]))
      OBVIOUS
    <3>1. PICK e \in Escrow : e = chosen[q]
      BY <2>2
    <3>2. Total(PayerCosts(chosen[q]))' = Total(PayerCosts(e))'
      BY <1>1, <3>1 DEF Total, PayerCosts
    <3> QED
      BY <2>3, <3>1, <3>2
  <2> QED
    BY <1>1, <2>1, <2>4 DEF AccountsInv, SettledForAll
<1> QED
  BY <1>2, <1>3, <1>4, <1>5 DEF AccountsInv

\* The table is left alone, and so are the costs.
LEMMA RowsLeftAlone ==
  ASSUME IInv, IInv', AccountsInv, UNCHANGED <<chosen, escrows>>,
         \A q \in Query : NodeCost(q) <= NodeCost(q)'
  PROVE  \A e \in Escrow : RowBooked(e)'
<1> SUFFICES ASSUME NEW e \in Escrow PROVE RowBooked(e)'
  OBVIOUS
<1>1. \A q \in Query : NodeCosts(e)[q] <= NodeCosts(e)'[q]
  BY DEF NodeCosts
<1>2. RowBooked(e)
  BY Booked DEF AccountsInv
<1> QED
  BY <1>1, <1>2, RowKept

\* The entry of a debit is of its price.
LEMMA EntriesOfDebit ==
  ASSUME IInv, AccountsInv, NEW q \in Query,
         RememberDebit(chosen[q], q, QueryIdOf(q), Price[q])
  PROVE  \A e \in Escrow, p \in Query :
           AlreadyDebited(e, p)' => paymentIdByEscrowId'[e][p].microgons = Price[p]
<1> SUFFICES ASSUME NEW e \in Escrow, NEW p \in Query, AlreadyDebited(e, p)'
             PROVE  paymentIdByEscrowId'[e][p].microgons = Price[p]
  OBVIOUS
<1>1. AlreadyDebited(e, p) => paymentIdByEscrowId[e][p].microgons = Price[p]
  BY DEF AccountsInv, QueryInv
<1>2. \/ paymentIdByEscrowId'[e][p] = paymentIdByEscrowId[e][p]
      \/ p = q /\ paymentIdByEscrowId'[e][p]
                    = [microgons |-> Price[q], queryId |-> QueryIdOf(q)]
  BY Types DEF RememberDebit
<1> QED
  BY <1>1, <1>2 DEF AlreadyDebited

LEMMA AcceptDebitAccounts ==
  ASSUME IInv, IInv', AccountsInv, NEW q \in Query, AcceptDebit(q)
  PROVE  AccountsInv'
<1> DEFINE e == chosen[q]
<1>1. /\ UNCHANGED <<payer, tally, now, faults>> /\ UNCHANGED <<chosen, forgotten, clientPc>>
      /\ nodePc[q] = "debit" /\ nodePc' = [nodePc EXCEPT ![q] = "run"]
      /\ RememberDebit(e, q, QueryIdOf(q), Price[q])
      /\ escrows[e] # None /\ Price[q] <= escrows[e].remaining
      /\ escrows' = [escrows EXCEPT ![e].remaining = @ - Price[q]]
  BY DEF AcceptDebit, NodeGoto, DebitAccepted, CanDebit, payer, storage
<1>2. /\ e \in Escrow /\ escrows[e] \in EscrowRow /\ Price[q] \in Nat
      /\ nodePc \in [Query -> NodePc] /\ escrows \in Rows
  BY <1>1, Types, PriceType DEF Rows, IInv, QueriesHaveEscrows
<1>3. \A p \in Query : PayerCost(p)' = PayerCost(p)
  BY <1>1 DEF PayerCost
<1>4. /\ escrows'[e] = [escrows[e] EXCEPT !.remaining = @ - Price[q]]
      /\ \A f \in Escrow \ {e} : escrows'[f] = escrows[f]
  BY <1>1, <1>2 DEF Rows
<1>5. /\ escrows'[e].allocated = escrows[e].allocated
      /\ escrows'[e].remaining = escrows[e].remaining - Price[q]
      /\ escrows'[e].expirationDate = escrows[e].expirationDate
  BY <1>2, <1>4 DEF EscrowRow
<1>6. escrows'[e] # None
  <2>1. escrows[e].remaining - Price[q] \in Nat
    BY <1>1, <1>2 DEF EscrowRow
  <2>2. escrows'[e] \in EscrowRow
    BY <1>2, <1>4, <2>1 DEF EscrowRow
  <2> QED
    BY <2>2, NoneAssumption
<1>7. NodeCost(q) = 0 /\ NodeCost(q)' = Price[q]
      /\ \A p \in Query \ {q} : NodeCost(p)' = NodeCost(p)
  BY <1>1, <1>2 DEF NodeCost
<1>8. ASSUME NEW f \in Escrow
      PROVE  RowBooked(f)'
  <2>0. RowBooked(f)
    BY Booked DEF AccountsInv
  <2>1. CASE f = e
    <3>1. /\ \A p \in Query \ {q} : NodeCosts(e)'[p] = NodeCosts(e)[p]
          /\ NodeCosts(e)[q] = 0 /\ NodeCosts(e)'[q] = Price[q]
      BY <1>1, <1>7 DEF NodeCosts
    <3>2. NodeCosts(e)[q] + Price[q] <= NodeCosts(e)'[q] /\ Price[q] \in Int
      BY <1>2, <3>1
    <3>3. RowBooked(e)'
      BY <1>1, <1>2, <1>5, <2>0, <2>1, <3>1, <3>2, RowChanges
    <3> QED
      BY <1>1, <2>1, <3>3
  <2>2. CASE f # e
    <3>1. \A p \in Query : NodeCosts(f)[p] <= NodeCosts(f)'[p]
      <4>1. \A p \in Query : NodeCosts(f)'[p] = NodeCosts(f)[p] /\ NodeCosts(f)[p] \in Nat
        BY <1>1, <1>7, <2>2, CostTypes DEF NodeCosts
      <4> QED
        BY <4>1
    <3> QED
      BY <1>4, <2>0, <2>2, <3>1, RowKept
  <2> QED
    BY <2>1, <2>2
<1>9. \A p \in Query : /\ nodePc[p] = "none" => nodePc'[p] = "none"
                       /\ nodePc[p] = "answered" => nodePc'[p] = "answered"
                       /\ nodePc'[p] = "debit" => nodePc[p] = "debit"
  BY <1>1, <1>2
<1>10. now <= now'
  BY <1>1, Types
<1>11. \A f \in Escrow :
         /\ escrows'[f] # None =>
              /\ escrows[f] # None
              /\ escrows'[f].allocated = escrows[f].allocated
              /\ escrows'[f].expirationDate = escrows[f].expirationDate
         /\ escrows[f] # None => escrows'[f] # None
  BY <1>1, <1>4, <1>5, <1>6
<1> QED
  BY <1>1, <1>3, <1>8, <1>9, <1>10, <1>11, EntriesOfDebit, NodeAccounts

LEMMA FailDebitAccounts ==
  ASSUME IInv, IInv', AccountsInv, NEW q \in Query, FailDebit(q)
  PROVE  AccountsInv'
<1>1. /\ UNCHANGED <<payer, tally, now, faults, escrows>>
      /\ UNCHANGED <<chosen, forgotten, clientPc>>
      /\ nodePc[q] = "debit" /\ nodePc' = [nodePc EXCEPT ![q] = "finalizeRejected"]
      /\ RememberDebit(chosen[q], q, QueryIdOf(q), Price[q])
  BY DEF FailDebit, NodeGoto, DebitFailed, payer, storage
<1>2. \A p \in Query : /\ nodePc[p] = "none" => nodePc'[p] = "none"
                       /\ nodePc[p] = "answered" => nodePc'[p] = "answered"
                       /\ nodePc'[p] = "debit" => nodePc[p] = "debit"
  BY <1>1, Types
<1>3. \A p \in Query : PayerCost(p)' = PayerCost(p) /\ NodeCost(p)' = NodeCost(p)
  BY <1>1, Types DEF PayerCost, NodeCost
<1>4. now <= now' /\ \A p \in Query : NodeCost(p) <= NodeCost(p)'
  BY <1>1, <1>3, Types, CostTypes, PriceType
<1>5. \A e \in Escrow : RowBooked(e)'
  BY <1>1, <1>4, RowsLeftAlone
<1> QED
  BY <1>1, <1>2, <1>3, <1>4, <1>5, EntriesOfDebit, NodeAccounts

\* Steps that change neither the table nor the entries.
LEMMA QuietNodeAccounts ==
  ASSUME IInv, IInv', AccountsInv, UNCHANGED <<payer, dbVars>>, now <= now',
         faults' = faults \/ faults' # 0,
         \A q \in Query : PayerCost(q)' = PayerCost(q) /\ NodeCost(q) <= NodeCost(q)',
         \A q \in Query : /\ nodePc[q] = "none" => nodePc'[q] = "none"
                          /\ nodePc[q] = "answered" => nodePc'[q] = "answered"
                          /\ nodePc'[q] = "debit" => nodePc[q] = "debit"
  PROVE  AccountsInv'
<1>1. UNCHANGED <<chosen, escrows, paymentIdByEscrowId>>
  BY DEF payer, dbVars
<1>2. \A e \in Escrow : RowBooked(e)'
  BY <1>1, RowsLeftAlone
<1>3. \A e \in Escrow, q \in Query :
        AlreadyDebited(e, q)' => paymentIdByEscrowId'[e][q].microgons = Price[q]
  BY <1>1 DEF AccountsInv, QueryInv, AlreadyDebited
<1> QED
  BY <1>1, <1>2, <1>3, NodeAccounts

LEMMA RunQueryAccounts ==
  ASSUME IInv, IInv', AccountsInv, NEW q \in Query, RunQuery(q)
  PROVE  AccountsInv'
<1>1. PICK microgons \in Tally[q] : tally' = [tally EXCEPT ![q] = microgons]
  BY DEF RunQuery
<1>2. /\ UNCHANGED <<payer, dbVars, now, faults>> /\ UNCHANGED <<chosen, forgotten, clientPc>>
      /\ nodePc[q] = "run" /\ nodePc' = [nodePc EXCEPT ![q] = "finalize"]
  BY DEF RunQuery, NodeGoto, payer, storage
<1>3. clientPc[q] # "done"
  BY <1>2 DEF AccountsInv, QueryInv
<1>4. \A p \in Query : PayerCost(p)' = PayerCost(p) /\ NodeCost(p)' = NodeCost(p)
  BY <1>1, <1>2, <1>3, Types DEF PayerCost, NodeCost
<1>5. now <= now' /\ \A p \in Query : NodeCost(p) <= NodeCost(p)'
  BY <1>2, <1>4, Types, CostTypes, PriceType
<1>6. \A p \in Query : /\ nodePc[p] = "none" => nodePc'[p] = "none"
                       /\ nodePc[p] = "answered" => nodePc'[p] = "answered"
                       /\ nodePc'[p] = "debit" => nodePc[p] = "debit"
  BY <1>2, Types
<1> QED
  BY <1>2, <1>4, <1>5, <1>6, QuietNodeAccounts

LEMMA NodeFinalizeThrowsAccounts ==
  ASSUME IInv, IInv', AccountsInv, NEW q \in Query, NodeFinalizeThrows(q)
  PROVE  AccountsInv'
<1>1. /\ UNCHANGED <<payer, dbVars, tally, now, faults>>
      /\ UNCHANGED <<chosen, forgotten, clientPc>>
      /\ nodePc[q] \in {"finalize", "finalizeRejected", "refinalize"}
      /\ nodePc' = [nodePc EXCEPT ![q] = IF nodePc[q] = "finalizeRejected" THEN "refinalize"
                                                                           ELSE "failed"]
  BY DEF NodeFinalizeThrows, NodeGoto, payer, storage
<1>2. \A p \in Query : PayerCost(p)' = PayerCost(p)
  BY <1>1 DEF PayerCost
<1>3. \A p \in Query : NodeCost(p) <= NodeCost(p)'
  BY <1>1, Types, PriceType DEF NodeCost
<1>4. now <= now'
  BY <1>1, Types
<1>5. \A p \in Query : /\ nodePc[p] = "none" => nodePc'[p] = "none"
                       /\ nodePc[p] = "answered" => nodePc'[p] = "answered"
                       /\ nodePc'[p] = "debit" => nodePc[p] = "debit"
  BY <1>1, Types
<1> QED
  BY <1>1, <1>2, <1>3, <1>4, <1>5, QuietNodeAccounts

LEMMA NodeFinalizeAccounts ==
  ASSUME IInv, IInv', AccountsInv, NEW q \in Query, NodeFinalize(q)
  PROVE  AccountsInv'
<1> DEFINE e == chosen[q]
           adjustment == Adjustment(e, q, tally[q])
<1>1. /\ UNCHANGED <<payer, tally, now, faults>> /\ UNCHANGED <<chosen, forgotten, clientPc>>
      /\ nodePc[q] \in {"finalize", "finalizeRejected", "refinalize"}
      /\ nodePc' = [nodePc EXCEPT ![q] = "answered"]
      /\ FinalizePayment(e, q, tally[q])
      /\ UNCHANGED paymentIdByEscrowId
  BY DEF NodeFinalize, NodeGoto, FinalizePayment, payer, storage
<1>2. /\ e \in Escrow /\ Price[q] \in Nat /\ tally[q] \in Nat /\ tally[q] <= Price[q]
      /\ nodePc \in [Query -> NodePc] /\ escrows \in Rows
  BY <1>1, Types, PriceType DEF IInv, QueriesHaveEscrows
<1>3. adjustment = Price[q] - tally[q]
  BY <1>1, <1>2
  DEF FinalizePayment, FinalizeSucceeds, Adjustment, AccountsInv, QueryInv
<1>4. \A p \in Query : PayerCost(p)' = PayerCost(p)
  BY <1>1 DEF PayerCost
<1>5. /\ NodeCost(q)' = tally[q] /\ NodeCost(q) <= Price[q] /\ NodeCost(q) \in Nat
      /\ \A p \in Query \ {q} : NodeCost(p)' = NodeCost(p)
  BY <1>1, <1>2, CostTypes DEF NodeCost
<1>6. /\ \A f \in Escrow \ {e} : escrows'[f] = escrows[f]
      /\ \/ escrows'[e] = escrows[e] /\ adjustment = 0
         \/ /\ escrows[e] # None /\ adjustment # 0
            /\ escrows[e].remaining + adjustment \in 0 .. escrows[e].allocated
            /\ escrows'[e] = [escrows[e] EXCEPT !.remaining = @ + adjustment]
  <2>1. CASE adjustment = 0
    BY <1>1, <2>1 DEF FinalizePayment
  <2>2. CASE adjustment # 0
    <3>1. /\ escrows' = [escrows EXCEPT ![e].remaining = @ + adjustment]
          /\ CanAdjust(e, adjustment)
      BY <1>1, <2>2 DEF FinalizePayment, FinalizeSucceeds
    <3> HIDE DEF adjustment
    <3> QED
      BY <1>2, <2>2, <3>1 DEF CanAdjust, Rows
  <2> QED
    BY <2>1, <2>2
<1> HIDE DEF adjustment
<1>7. escrows[e] = None \/
        /\ escrows[e] # None /\ escrows'[e] # None
        /\ escrows'[e].allocated = escrows[e].allocated
        /\ escrows'[e].remaining = escrows[e].remaining - (tally[q] - Price[q])
        /\ escrows'[e].expirationDate = escrows[e].expirationDate
  <2> SUFFICES ASSUME escrows[e] # None
               PROVE  /\ escrows'[e] # None
                      /\ escrows'[e].allocated = escrows[e].allocated
                      /\ escrows'[e].remaining = escrows[e].remaining - (tally[q] - Price[q])
                      /\ escrows'[e].expirationDate = escrows[e].expirationDate
    OBVIOUS
  <2>1. escrows[e] \in EscrowRow
    BY <1>2 DEF Rows
  <2>2. CASE adjustment = 0
    BY <1>2, <1>3, <1>6, <2>1, <2>2 DEF EscrowRow
  <2>3. CASE adjustment # 0
    <3>1. escrows[e].remaining + adjustment \in Nat
      BY <1>6, <2>1, <2>3 DEF EscrowRow
    <3>2. escrows'[e] = [escrows[e] EXCEPT !.remaining = @ + adjustment]
      BY <1>6, <2>3
    <3>3. escrows'[e] \in EscrowRow
      BY <2>1, <3>1, <3>2 DEF EscrowRow
    <3>4. escrows'[e] # None
      BY <3>3, NoneAssumption
    <3>5. /\ escrows'[e].allocated = escrows[e].allocated
          /\ escrows'[e].remaining = escrows[e].remaining + adjustment
          /\ escrows'[e].expirationDate = escrows[e].expirationDate
      BY <2>1, <3>2 DEF EscrowRow
    <3> QED
      BY <1>2, <1>3, <2>1, <3>4, <3>5 DEF EscrowRow
  <2> QED
    BY <2>2, <2>3
<1>8. ASSUME NEW f \in Escrow
      PROVE  RowBooked(f)'
  <2>0. RowBooked(f)
    BY Booked DEF AccountsInv
  <2>1. CASE f = e /\ escrows[e] # None
    <3>1. /\ \A p \in Query \ {q} : NodeCosts(f)'[p] = NodeCosts(f)[p]
          /\ NodeCosts(f)[q] = NodeCost(q) /\ NodeCosts(f)'[q] = tally[q]
      BY <1>1, <1>5, <2>1 DEF NodeCosts
    <3>2. /\ tally[q] - Price[q] \in Int
          /\ NodeCosts(f)[q] + (tally[q] - Price[q]) <= NodeCosts(f)'[q]
      BY <1>2, <1>5, <3>1
    <3>3. /\ escrows[f] # None
          /\ escrows'[f].allocated = escrows[f].allocated
          /\ escrows'[f].remaining = escrows[f].remaining - (tally[q] - Price[q])
      BY <1>7, <2>1
    <3> QED
      BY <2>0, <3>1, <3>2, <3>3, RowChanges
  <2>2. CASE f = e /\ escrows[e] = None
    BY <1>6, <2>2 DEF RowBooked
  <2>3. CASE f # e
    <3>1. \A p \in Query : NodeCosts(f)'[p] = NodeCosts(f)[p] /\ NodeCosts(f)[p] \in Nat
      BY <1>1, <1>5, <2>3, CostTypes DEF NodeCosts
    <3>2. \A p \in Query : NodeCosts(f)[p] <= NodeCosts(f)'[p]
      BY <3>1
    <3> QED
      BY <1>6, <2>0, <2>3, <3>2, RowKept
  <2> QED
    BY <2>1, <2>2, <2>3
<1>9. \A p \in Query : /\ nodePc[p] = "none" => nodePc'[p] = "none"
                       /\ nodePc[p] = "answered" => nodePc'[p] = "answered"
                       /\ nodePc'[p] = "debit" => nodePc[p] = "debit"
  BY <1>1, <1>2
<1>10. now <= now'
  BY <1>1, Types
<1>11. \A f \in Escrow :
         /\ escrows'[f] # None =>
              /\ escrows[f] # None
              /\ escrows'[f].allocated = escrows[f].allocated
              /\ escrows'[f].expirationDate = escrows[f].expirationDate
         /\ escrows[f] # None => escrows'[f] # None
  BY <1>6, <1>7
<1>12. \A f \in Escrow, p \in Query :
         AlreadyDebited(f, p)' => paymentIdByEscrowId'[f][p].microgons = Price[p]
  BY <1>1 DEF AccountsInv, QueryInv, AlreadyDebited
<1> QED
  BY <1>1, <1>4, <1>8, <1>9, <1>10, <1>11, <1>12, NodeAccounts

LEMMA NodeEnvironmentAccounts ==
  ASSUME IInv, IInv', AccountsInv, CleanupEscrows \/ NodeRestart \/ Tick
  PROVE  AccountsInv'
<1>1. /\ UNCHANGED <<payer, tally>> /\ UNCHANGED <<chosen, forgotten, clientPc>>
      /\ now \in Nat /\ now <= now'
      /\ faults' = faults \/ faults' # 0
  BY Types DEF CleanupEscrows, NodeRestart, Tick, node, payer, storage
<1>2. /\ \A q \in Query : PayerCost(q)' = PayerCost(q)
      /\ \A q \in Query : NodeCost(q) \in Nat
  BY <1>1, CostTypes, PriceType DEF PayerCost
<1>3. CASE CleanupEscrows
  <2>1. UNCHANGED <<nodePc, now>>
    BY <1>3 DEF CleanupEscrows
  <2>2. ASSUME NEW e \in Escrow
        PROVE  /\ escrows'[e] = IF Stale(e) THEN None ELSE escrows[e]
               /\ \A q \in Query : paymentIdByEscrowId'[e][q] \in {None, paymentIdByEscrowId[e][q]}
    BY <1>3 DEF CleanupEscrows, Cleanup, Query
  <2>3. ASSUME NEW e \in Escrow
        PROVE  escrows[e] # None => escrows'[e] # None \/ escrows[e].expirationDate < now'
    <3> SUFFICES ASSUME escrows[e] # None, Stale(e)
                 PROVE  escrows[e].expirationDate < now
      BY <2>1, <2>2
    <3>1. escrows[e] \in EscrowRow
      BY Types DEF Rows
    <3> QED
      BY <1>1, <3>1, CleanupDelayAssumption DEF Stale, EscrowRow
  <2>4. \A e \in Escrow : RowBooked(e)'
    <3> SUFFICES ASSUME NEW e \in Escrow PROVE RowBooked(e)'
      OBVIOUS
    <3>1. \A q \in Query : NodeCosts(e)'[q] = NodeCosts(e)[q] /\ NodeCosts(e)[q] \in Nat
      BY <1>1, <2>1, CostTypes DEF NodeCosts, NodeCost
    <3>2. \A q \in Query : NodeCosts(e)[q] <= NodeCosts(e)'[q]
      BY <3>1
    <3>3. RowBooked(e) /\ escrows'[e] \in {None, escrows[e]}
      BY <2>2, Booked DEF AccountsInv
    <3> QED
      BY <3>2, <3>3, RowKept
  <2>5. \A e \in Escrow, q \in Query :
          AlreadyDebited(e, q)' => paymentIdByEscrowId'[e][q].microgons = Price[q]
    BY <2>2 DEF AccountsInv, QueryInv, AlreadyDebited
  <2>6. \A e \in Escrow : escrows'[e] # None =>
          /\ escrows[e] # None
          /\ escrows'[e].allocated = escrows[e].allocated
          /\ escrows'[e].expirationDate = escrows[e].expirationDate
    BY <2>2
  <2> QED
    BY <1>1, <1>2, <2>1, <2>3, <2>4, <2>5, <2>6, NodeAccounts
<1>4. CASE NodeRestart
  <2>1. /\ UNCHANGED <<escrows, now>>
        /\ \A e \in Escrow, q \in Query : paymentIdByEscrowId'[e][q] = None
        /\ nodePc' = [q \in Query |-> IF nodePc[q] \in {"none", "answered", "failed"}
                                      THEN nodePc[q] ELSE "gone"]
    BY <1>4 DEF NodeRestart, ForgetPayments, Query
  <2>2. \A q \in Query : NodeCost(q) <= NodeCost(q)'
    <3> SUFFICES ASSUME NEW q \in Query PROVE NodeCost(q) <= NodeCost(q)'
      OBVIOUS
    <3>1. NodeCost(q)' = NodeCost(q) \/ NodeCost(q)' = Price[q]
      BY <1>1, <2>1 DEF NodeCost
    <3>2. NodeCost(q) \in Nat /\ Price[q] \in Nat /\ NodeCost(q) <= Price[q]
      BY CostTypes, PriceType
    <3> QED
      BY <3>1, <3>2
  <2>3. \A e \in Escrow : RowBooked(e)'
    BY <1>1, <2>1, <2>2, RowsLeftAlone
  <2>4. \A q \in Query : /\ nodePc[q] = "none" => nodePc'[q] = "none"
                         /\ nodePc[q] = "answered" => nodePc'[q] = "answered"
                         /\ nodePc'[q] = "debit" => nodePc[q] = "debit"
    BY <2>1
  <2>5. \A e \in Escrow, q \in Query : ~AlreadyDebited(e, q)'
    BY <2>1 DEF AlreadyDebited
  <2> QED
    BY <1>1, <1>2, <2>1, <2>3, <2>4, <2>5, NodeAccounts
<1>5. CASE Tick
  <2>1. UNCHANGED <<nodePc, dbVars>>
    BY <1>5 DEF Tick, node
  <2>2. \A q \in Query : NodeCost(q) <= NodeCost(q)'
    BY <1>1, <1>2, <2>1 DEF NodeCost
  <2> QED
    BY <1>1, <1>2, <2>1, <2>2, QuietNodeAccounts
<1> QED
  BY <1>3, <1>4, <1>5

LEMMA HandleAccounts ==
  ASSUME IInv, IInv', AccountsInv, NEW q \in Query, Handle(q)
  PROVE  AccountsInv'
BY AcceptDebitAccounts, FailDebitAccounts, RunQueryAccounts, NodeFinalizeAccounts,
   NodeFinalizeThrowsAccounts DEF Handle

-----------------------------------------------------------------------------
(* The payer *)

LEMMA NoneIsNoEscrow == None \notin Escrow /\ None \notin Balance /\ None \notin Opened
BY NoneIsNoBalance

\* Escrows that are opened stay so, and so do the rows, until they expire.
LEMMA OpenedKept ==
  ASSUME IInv, AccountsInv, UNCHANGED now,
         \A e \in Escrow : sourceEscrows[e] # None => sourceEscrows'[e] = sourceEscrows[e],
         \A e \in Escrow : escrows[e] # None => escrows'[e] = escrows[e],
         \A e \in Escrow : escrows'[e] # None =>
           escrows'[e] = escrows[e] \/ SameAsOpened(e, escrows[e])',
         \A e \in Escrow : balances'[e] # None => SameAsOpened(e, balances[e])',
         \A e \in Escrow : file'[e] # None => SameAsOpened(e, file[e])',
         \A e \in Escrow : Pays(e)' => Pays(e) \/ escrows'[e] # None
  PROVE  EscrowsAreOpened'
<1> SUFFICES ASSUME NEW e \in Escrow
             PROVE  /\ escrows'[e] # None => SameAsOpened(e, escrows[e])'
                    /\ Pays(e)' => escrows'[e] # None \/ sourceEscrows'[e].expirationDate < now'
  BY DEF EscrowsAreOpened
<1>1. /\ escrows[e] # None => SameAsOpened(e, escrows[e])
      /\ Pays(e) => escrows[e] # None \/ sourceEscrows[e].expirationDate < now
  BY DEF AccountsInv, EscrowsAreOpened
<1>2. Pays(e) => sourceEscrows[e] # None
  BY DEF Pays, SameAsOpened, AccountsInv, EscrowsAreOpened, QueryInv, Reserved
<1>3. escrows'[e] # None => SameAsOpened(e, escrows[e])'
  BY <1>1 DEF SameAsOpened
<1>4. Pays(e)' => escrows'[e] # None \/ sourceEscrows'[e].expirationDate < now'
  BY <1>1, <1>2
<1> QED
  BY <1>3, <1>4

\* A step that changes no cost, and nothing of an escrow.
LEMMA CostsStay ==
  ASSUME IInv, IInv', AccountsInv,
         UNCHANGED <<sourceEscrows, balances, file, chosen, settlement, target, recorded,
                     forgotten, escrows, now, faults, Reserved>>,
         \A q \in Query : PayerCost(q)' = PayerCost(q) /\ NodeCost(q)' = NodeCost(q),
         \A q \in Query : clientPc'[q] = "signing" => clientPc[q] = "signing",
         \A q \in Query : nodePc'[q] = "debit" => clientPc'[q] = "waiting" \/ faults # 0
  PROVE  CostsAreBooked' /\ EscrowsAreOpened' /\ SettledForAll'
<1>1. \A e \in Escrow : /\ PayerCosts(e)' = PayerCosts(e) /\ FileCosts(e)' = FileCosts(e)
                        /\ NodeCosts(e)' = NodeCosts(e)
  BY DEF PayerCosts, FileCosts, NodeCosts
<1>2. CostsAreBooked'
  BY <1>1 DEF AccountsInv, CostsAreBooked, Total
<1>3. EscrowsAreOpened'
  BY DEF AccountsInv, EscrowsAreOpened, Pays, SameAsOpened
<1>4. SettledForAll'
  <2> SUFFICES ASSUME faults' = 0 PROVE SettledForAll'
    BY DEF SettledForAll
  <2>1. \A q \in Reserved : chosen[q] \in Escrow
    BY Types DEF Reserved, AccountsInv, QueryInv
  <2>2. \A e \in Escrow : Total(PayerCosts(e))' = Total(PayerCosts(e))
    BY <1>1 DEF Total
  <2>3. \A q \in Reserved :
          Total(PayerCosts(chosen[q]))' = Total(PayerCosts(chosen[q]))
    <3> SUFFICES ASSUME NEW q \in Reserved
                 PROVE  Total(PayerCosts(chosen[q]))' = Total(PayerCosts(chosen[q]))
      OBVIOUS
    <3>1. PICK e \in Escrow : e = chosen[q]
      BY <2>1
    <3>2. Total(PayerCosts(chosen[q]))' = Total(PayerCosts(e))'
      BY <3>1 DEF Total, PayerCosts
    <3> QED
      BY <2>2, <3>1, <3>2
  <2> QED
    BY <2>3 DEF AccountsInv, SettledForAll
<1> QED
  BY <1>2, <1>3, <1>4

LEMMA SubmitAccounts ==
  ASSUME IInv, IInv', AccountsInv, NEW q \in Query, Submit(q)
  PROVE  AccountsInv'
<1>1. /\ clientPc[q] = "idle" /\ clientPc' = [clientPc EXCEPT ![q] = "queued"]
      /\ UNCHANGED <<sourceEscrows, balances, target, chosen, settlement, file, recorded,
                     forgotten, escrows, paymentIdByEscrowId, nodePc, tally, now, faults>>
  BY DEF Submit, ClientGoto, storage, node, dbVars
<1>2. clientPc \in [Query -> ClientPc]
  BY Types
<1>3. Reserved' = Reserved
  BY <1>1, <1>2 DEF Reserved
<1>4. \A p \in Query : PayerCost(p)' = PayerCost(p) /\ NodeCost(p)' = NodeCost(p)
  BY <1>1, <1>2 DEF PayerCost, NodeCost
<1>5. \A p \in Query : /\ clientPc'[p] = "signing" => clientPc[p] = "signing"
                       /\ nodePc'[p] = "debit" => clientPc'[p] = "waiting" \/ faults # 0
  BY <1>1, <1>2, Types DEF AccountsInv, SettledForAll
<1>6. CostsAreBooked' /\ EscrowsAreOpened' /\ SettledForAll'
  BY <1>1, <1>3, <1>4, <1>5, CostsStay
<1>7. ASSUME NEW p \in Query PROVE QueryInv(p)'
  <2>1. QueryInv(p)
    BY DEF AccountsInv
  <2>2. \/ clientPc'[p] = clientPc[p]
        \/ clientPc[p] = "idle" /\ clientPc'[p] = "queued"
    BY <1>1, <1>2
  <2> QED
    BY <1>1, <1>3, <2>1, <2>2 DEF QueryInv, AlreadyDebited
<1> QED
  BY <1>6, <1>7 DEF AccountsInv

LEMMA SendAccounts ==
  ASSUME IInv, IInv', AccountsInv, NEW q \in Query, Send(q)
  PROVE  AccountsInv'
<1>1. /\ clientPc[q] = "reserved" /\ clientPc' = [clientPc EXCEPT ![q] = "waiting"]
      /\ nodePc' = [nodePc EXCEPT ![q] = "debit"]
      /\ UNCHANGED <<sourceEscrows, balances, target, chosen, settlement, file, recorded,
                     forgotten, escrows, paymentIdByEscrowId, tally, now, faults>>
  BY DEF Send, ClientGoto, storage, dbVars
<1>2. clientPc \in [Query -> ClientPc] /\ nodePc \in [Query -> NodePc]
  BY Types
<1>3. nodePc[q] = "none"
  BY <1>1 DEF AccountsInv, QueryInv
<1>4. Reserved' = Reserved
  BY <1>1, <1>2 DEF Reserved
<1>5. \A p \in Query : PayerCost(p)' = PayerCost(p) /\ NodeCost(p)' = NodeCost(p)
  BY <1>1, <1>2, <1>3 DEF PayerCost, NodeCost
<1>6. \A p \in Query : /\ clientPc'[p] = "signing" => clientPc[p] = "signing"
                       /\ nodePc'[p] = "debit" => clientPc'[p] = "waiting" \/ faults # 0
  BY <1>1, <1>2, Types DEF AccountsInv, SettledForAll
<1>7. CostsAreBooked' /\ EscrowsAreOpened' /\ SettledForAll'
  BY <1>1, <1>4, <1>5, <1>6, CostsStay
<1>8. ASSUME NEW p \in Query PROVE QueryInv(p)'
  <2>1. QueryInv(p)
    BY DEF AccountsInv
  <2>2. \/ clientPc'[p] = clientPc[p] /\ nodePc'[p] = nodePc[p]
        \/ clientPc[p] = "reserved" /\ clientPc'[p] = "waiting" /\ nodePc'[p] = "debit"
    BY <1>1, <1>2
  <2> QED
    BY <1>1, <1>4, <2>1, <2>2 DEF QueryInv, AlreadyDebited
<1> QED
  BY <1>7, <1>8 DEF AccountsInv

LEMMA StutterAccounts ==
  ASSUME IInv, IInv', AccountsInv, UNCHANGED vars
  PROVE  AccountsInv'
<1>1. UNCHANGED <<sourceEscrows, balances, target, clientPc, chosen, settlement, file, recorded,
                  forgotten, escrows, paymentIdByEscrowId, nodePc, tally, now, faults>>
  BY DEF vars, payer, storage, node, dbVars
<1>2. Reserved' = Reserved
  BY <1>1 DEF Reserved
<1>3. \A q \in Query : PayerCost(q)' = PayerCost(q) /\ NodeCost(q)' = NodeCost(q)
  BY <1>1 DEF PayerCost, NodeCost
<1>4. \A q \in Query : nodePc'[q] = "debit" => clientPc'[q] = "waiting" \/ faults # 0
  BY <1>1, Types DEF AccountsInv, SettledForAll
<1>5. CostsAreBooked' /\ EscrowsAreOpened' /\ SettledForAll'
  BY <1>1, <1>2, <1>3, <1>4, CostsStay
<1>6. \A q \in Query : QueryInv(q)'
  BY <1>1, <1>2 DEF AccountsInv, QueryInv, AlreadyDebited
<1> QED
  BY <1>5, <1>6 DEF AccountsInv

\* The file becomes what the list is, and costs what the list costs.
LEMMA SaveAccounts ==
  ASSUME IInv, IInv', AccountsInv, Save
  PROVE  AccountsInv'
<1>1. /\ file' = balances /\ recorded' = Reserved
      /\ UNCHANGED <<sourceEscrows, balances, target, clientPc, chosen, settlement,
                     forgotten, escrows, paymentIdByEscrowId, nodePc, tally, now, faults>>
  BY DEF Save, node, dbVars
<1>2. Reserved' = Reserved
  BY <1>1 DEF Reserved
<1>3. \A q \in Query : /\ PayerCost(q)' = PayerCost(q) /\ NodeCost(q)' = NodeCost(q)
                       /\ q \notin Reserved => PayerCost(q) = 0
  BY <1>1 DEF PayerCost, NodeCost, Reserved
<1>4. \A e \in Escrow : /\ PayerCosts(e)' = PayerCosts(e) /\ FileCosts(e)' = PayerCosts(e)
                        /\ NodeCosts(e)' = NodeCosts(e)
  <2> SUFFICES ASSUME NEW e \in Escrow
               PROVE  /\ PayerCosts(e)' = PayerCosts(e) /\ FileCosts(e)' = PayerCosts(e)
                      /\ NodeCosts(e)' = NodeCosts(e)
    OBVIOUS
  <2>1. PayerCosts(e)' = PayerCosts(e) /\ NodeCosts(e)' = NodeCosts(e)
    BY <1>1, <1>3 DEF PayerCosts, NodeCosts
  <2>2. FileCosts(e)' = PayerCosts(e)
    BY <1>1, <1>3 DEF PayerCosts, FileCosts
  <2> QED
    BY <2>1, <2>2
<1>5. CostsAreBooked'
  BY <1>1, <1>4 DEF AccountsInv, CostsAreBooked, Total
<1>6. EscrowsAreOpened'
  BY <1>1, <1>2 DEF AccountsInv, EscrowsAreOpened, Pays, SameAsOpened
<1>7. \A q \in Query : QueryInv(q)'
  BY <1>1, <1>2 DEF AccountsInv, QueryInv, AlreadyDebited
<1>8. SettledForAll'
  <2>1. \A q \in Reserved : chosen[q] \in Escrow
    BY Types DEF Reserved, AccountsInv, QueryInv
  <2>2. \A q \in Reserved :
          Total(PayerCosts(chosen[q]))' = Total(PayerCosts(chosen[q]))
    <3> SUFFICES ASSUME NEW q \in Reserved
                 PROVE  Total(PayerCosts(chosen[q]))' = Total(PayerCosts(chosen[q]))
      OBVIOUS
    <3>1. PICK e \in Escrow : e = chosen[q]
      BY <2>1
    <3>2. /\ Total(PayerCosts(chosen[q]))' = Total(PayerCosts(e))'
          /\ Total(PayerCosts(e))' = Total(PayerCosts(e))
      BY <1>1, <1>4, <3>1 DEF Total, PayerCosts
    <3> QED
      BY <3>1, <3>2
  <2> QED
    BY <1>1, <1>2, <2>2 DEF AccountsInv, SettledForAll
<1> QED
  BY <1>5, <1>6, <1>7, <1>8 DEF AccountsInv

\* The list becomes what the file is: the reservations it does not have are forgotten.
LEMMA PayerRestartAccounts ==
  ASSUME IInv, IInv', AccountsInv, PayerRestart
  PROVE  AccountsInv'
<1>1. /\ faults' = faults + 1 /\ balances' = file /\ target' = 0
      /\ clientPc' = [q \in Query |-> Interrupted(clientPc[q])]
      /\ forgotten' = forgotten \cup (Reserved \ recorded)
      /\ UNCHANGED <<sourceEscrows, chosen, settlement, file, recorded, escrows,
                     paymentIdByEscrowId, nodePc, tally, now>>
  BY DEF PayerRestart, node, dbVars
<1>2. clientPc \in [Query -> ClientPc] /\ faults' # 0
  BY <1>1, Types
<1>3. \A q \in Query : QueryInv(q)
  BY DEF AccountsInv
<1>4. Reserved' = Reserved
  BY <1>1, <1>2 DEF Reserved, Interrupted, ClientPc
<1>5. ASSUME NEW q \in Query
      PROVE  /\ NodeCost(q)' = NodeCost(q)
             /\ q \in recorded => PayerCost(q)' = PayerCost(q)
             /\ q \notin recorded => PayerCost(q)' = 0
  <2>1. NodeCost(q)' = NodeCost(q)
    BY <1>1 DEF NodeCost
  <2>2. q \in recorded => q \in Reserved
    BY <1>3 DEF QueryInv
  <2>3. clientPc'[q] = Interrupted(clientPc[q])
    BY <1>1
  <2>4. q \in recorded => PayerCost(q)' = PayerCost(q)
    BY <1>1, <2>2, <2>3 DEF PayerCost, Reserved, Interrupted
  <2>5. q \notin recorded => PayerCost(q)' = 0
    BY <1>1, <1>2, <2>3 DEF PayerCost, Reserved, Interrupted, ClientPc
  <2> QED
    BY <2>1, <2>4, <2>5
<1>6. \A e \in Escrow : /\ PayerCosts(e)' = FileCosts(e) /\ FileCosts(e)' = FileCosts(e)
                        /\ NodeCosts(e)' = NodeCosts(e)
  BY <1>1, <1>5 DEF PayerCosts, FileCosts, NodeCosts
<1>7. CostsAreBooked'
  BY <1>1, <1>6 DEF AccountsInv, CostsAreBooked, Total
<1>8. EscrowsAreOpened'
  BY <1>1, <1>4 DEF AccountsInv, EscrowsAreOpened, Pays, SameAsOpened
<1>9. ASSUME NEW q \in Query PROVE QueryInv(q)'
  <2>1. QueryInv(q)
    BY <1>3
  <2>2. clientPc'[q] = Interrupted(clientPc[q])
    BY <1>1
  <2>3. /\ clientPc'[q] \in {"idle", "queued"} => clientPc[q] = "idle"
        /\ clientPc'[q] # "registering"
        /\ clientPc'[q] = "done" => clientPc[q] = "done"
        /\ clientPc[q] \in {"waiting", "done", "gaveUp", "threw", "lost"} =>
             clientPc'[q] \in {"waiting", "done", "gaveUp", "threw", "lost"}
        /\ q \in Reserved => clientPc'[q] \in {"done", "gaveUp", "threw", "lost"}
    BY <1>2, <2>2 DEF Interrupted, Reserved, ClientPc
  <2>4. q \in forgotten => q \in Reserved
    BY <2>1 DEF QueryInv, Reserved
  <2> QED
    BY <1>1, <1>4, <2>1, <2>3, <2>4 DEF QueryInv, AlreadyDebited
<1>10. SettledForAll'
  BY <1>2 DEF SettledForAll
<1> QED
  BY <1>7, <1>8, <1>9, <1>10 DEF AccountsInv

\* What is released goes back to the list, and is no longer a cost; the datastore's
\* row and its costs stay.
LEMMA FinalizeAccounts ==
  ASSUME IInv, IInv', AccountsInv, NEW q \in Query, clientPc[q] = "waiting",
         NEW microgons \in Nat, NEW label \in {"done", "gaveUp"},
         Finalize(q, microgons, label),
         microgons = (IF label = "done" THEN tally[q] ELSE 0),
         label = "done" => nodePc[q] = "answered",
         \A p \in Query \ {q} : nodePc'[p] = nodePc[p],
         nodePc'[q] = nodePc[q] \/ (nodePc[q] = "debit" /\ nodePc'[q] = "gone"),
         faults' # 0 \/ (faults' = faults /\ nodePc[q] # "debit")
  PROVE  AccountsInv'
<1>1. PICK pc \in {label, "threw"} :
        /\ clientPc' = [clientPc EXCEPT ![q] = pc]
        /\ IF pc = "threw" THEN balances[chosen[q]] = None /\ balances' = balances
           ELSE /\ balances[chosen[q]] # None
                /\ balances' = [balances EXCEPT ![chosen[q]] =
                     Charged(balances[chosen[q]], microgons - Price[q],
                             balances[chosen[q]].settledMilligons)]
  BY DEF Finalize, ClientGoto
<1>2. UNCHANGED <<sourceEscrows, target, chosen, settlement, file, recorded, forgotten,
                  escrows, paymentIdByEscrowId, tally, now>>
  BY DEF Finalize, dbVars
<1>3. /\ clientPc \in [Query -> ClientPc] /\ balances \in List /\ Price[q] \in Nat
      /\ tally[q] \in Nat /\ tally[q] <= Price[q] /\ microgons <= Price[q]
      /\ chosen[q] \in Escrow
  BY Types, PriceType DEF IInv, QueriesHaveEscrows
<1>4. Reserved' = Reserved
  BY <1>1, <1>3 DEF Reserved
<1>5. q \notin forgotten
  BY DEF AccountsInv, QueryInv
<1> DEFINE spent == IF pc = "threw" THEN 0 ELSE microgons - Price[q]
<1>6. /\ PayerCost(q) = Price[q] /\ PayerCost(q)' = Price[q] + spent
      /\ \A p \in Query \ {q} : PayerCost(p)' = PayerCost(p)
  BY <1>1, <1>2, <1>3, <1>5 DEF PayerCost
<1>7. spent \in Int /\ spent <= 0 /\ Price[q] + spent \in Nat
  BY <1>3
<1>8. \A e \in Escrow, p \in Query :
        /\ PayerCosts(e)'[p] =
             PayerCosts(e)[p] + (IF p = q /\ chosen[q] = e THEN spent ELSE 0)
        /\ PayerCosts(e)'[p] <= PayerCosts(e)[p]
  <2> SUFFICES ASSUME NEW e \in Escrow, NEW p \in Query
               PROVE  /\ PayerCosts(e)'[p] =
                           PayerCosts(e)[p] + (IF p = q /\ chosen[q] = e THEN spent ELSE 0)
                      /\ PayerCosts(e)'[p] <= PayerCosts(e)[p]
    OBVIOUS
  <2>1. PayerCosts(e)[p] \in Nat
    BY CostTypes
  <2>2. PayerCosts(e)'[p] = PayerCosts(e)[p] + (IF p = q /\ chosen[q] = e THEN spent ELSE 0)
    <3>1. CASE p = q
      BY <1>2, <1>6, <3>1 DEF PayerCosts
    <3>2. CASE p # q
      <4>1. PayerCosts(e)'[p] = PayerCosts(e)[p]
        BY <1>2, <1>6, <3>2 DEF PayerCosts
      <4> QED
        BY <2>1, <3>2, <4>1
    <3> QED
      BY <3>1, <3>2
  <2> QED
    BY <1>7, <2>1, <2>2
<1>9. ASSUME NEW e \in Escrow
      PROVE  ListBooked(e)' /\ FileBooked(e)' /\ RowBooked(e)'
  <2>1. ListBooked(e) /\ FileBooked(e) /\ RowBooked(e)
    BY Booked DEF AccountsInv
  <2>2. ListBooked(e)'
    <3>1. CASE balances[e] = None \/ pc = "threw" \/ e # chosen[q]
      <4>1. balances'[e] = balances[e]
        BY <1>1, <1>3, <3>1 DEF List
      <4> QED
        BY <1>8, <2>1, <4>1, ListKept
    <3>2. CASE balances[e] # None /\ pc # "threw" /\ e = chosen[q]
      <4>1. balances[e] \in Balance
        BY <1>3, <3>2 DEF List
      <4>2. /\ balances'[e].allocated = balances[e].allocated
            /\ balances'[e].remaining = balances[e].remaining - spent
        BY <1>1, <1>3, <3>2 DEF List, Charged
      <4>3. /\ \A p \in Query \ {q} : PayerCosts(e)'[p] = PayerCosts(e)[p]
            /\ PayerCosts(e)'[q] = PayerCosts(e)[q] + spent
        <5>1. \A p \in Query : PayerCosts(e)[p] \in Nat
          BY CostTypes
        <5> QED
          BY <1>8, <3>2, <5>1
      <4>4. balances[e].remaining + Total(PayerCosts(e)) <= balances[e].allocated
        BY <2>1, <3>2 DEF ListBooked
      <4> HIDE DEF spent
      <4> QED
        BY <1>7, <4>1, <4>2, <4>3, <4>4, ListChanges
    <3> QED
      BY <3>1, <3>2
  <2>3. FileBooked(e)'
    <3>1. \A p \in Query : FileCosts(e)'[p] <= FileCosts(e)[p]
      <4> SUFFICES ASSUME NEW p \in Query PROVE FileCosts(e)'[p] <= FileCosts(e)[p]
        OBVIOUS
      <4>1. /\ FileCosts(e)[p] = (IF p \in recorded THEN PayerCosts(e)[p] ELSE 0)
            /\ FileCosts(e)'[p] = (IF p \in recorded THEN PayerCosts(e)'[p] ELSE 0)
        BY <1>2 DEF FileCosts, PayerCosts
      <4> QED
        BY <1>8, <4>1
    <3> QED
      BY <1>2, <2>1, <3>1, FileKept
  <2>4. RowBooked(e)'
    <3>1. \A p \in Query : NodeCosts(e)[p] <= NodeCosts(e)'[p]
      <4> SUFFICES ASSUME NEW p \in Query PROVE NodeCosts(e)[p] <= NodeCosts(e)'[p]
        OBVIOUS
      <4>1. NodeCost(p)' = NodeCost(p) \/ (NodeCost(p) = 0 /\ NodeCost(p)' = Price[p])
        BY <1>2 DEF NodeCost
      <4>2. NodeCost(p) \in Nat /\ Price[p] \in Nat
        BY CostTypes, PriceType
      <4>3. NodeCost(p) <= NodeCost(p)'
        BY <4>1, <4>2
      <4>4. \/ NodeCosts(e)[p] = NodeCost(p) /\ NodeCosts(e)'[p] = NodeCost(p)'
            \/ NodeCosts(e)[p] = 0 /\ NodeCosts(e)'[p] = 0
        BY <1>2 DEF NodeCosts
      <4> QED
        BY <4>3, <4>4
    <3> QED
      BY <1>2, <2>1, <3>1, RowKept
  <2> QED
    BY <2>2, <2>3, <2>4
<1>10. CostsAreBooked'
  BY <1>9 DEF CostsAreBooked, ListBooked, FileBooked, RowBooked
<1>11. \A e \in Escrow :
         /\ balances'[e] = None <=> balances[e] = None
         /\ balances[e] # None =>
              /\ balances'[e].allocated = balances[e].allocated
              /\ balances'[e].expirationDate = balances[e].expirationDate
              /\ balances'[e].settledMilligons = balances[e].settledMilligons
  <2> SUFFICES ASSUME NEW e \in Escrow
               PROVE  /\ balances'[e] = None <=> balances[e] = None
                      /\ balances[e] # None =>
                           /\ balances'[e].allocated = balances[e].allocated
                           /\ balances'[e].expirationDate = balances[e].expirationDate
                           /\ balances'[e].settledMilligons = balances[e].settledMilligons
    OBVIOUS
  <2>1. CASE pc = "threw" \/ e # chosen[q]
    BY <1>1, <1>3, <2>1 DEF List
  <2>2. CASE pc # "threw" /\ e = chosen[q]
    <3>1. /\ balances[e] # None
          /\ balances'[e] = Charged(balances[e], microgons - Price[q],
                                    balances[e].settledMilligons)
      BY <1>1, <1>3, <2>2 DEF List
    <3>2. balances[e] \in Balance /\ Covered(balances[e]) /\ microgons - Price[q] <= 0
          /\ microgons - Price[q] \in Int
      BY <1>3, <3>1 DEF List, IInv, SignedCoversReserved
    <3>3. balances'[e] # None
      BY <3>1, <3>2, ReleasedIsCovered, NoneIsNoEscrow
    <3> QED
      BY <3>1, <3>3 DEF Charged
  <2> QED
    BY <2>1, <2>2
<1>12. EscrowsAreOpened'
  <2>1. \A e \in Escrow : /\ balances'[e] # None => SameAsOpened(e, balances[e])'
                          /\ file'[e] # None => SameAsOpened(e, file[e])'
                          /\ Pays(e)' => Pays(e)
    BY <1>2, <1>4, <1>11 DEF AccountsInv, EscrowsAreOpened, SameAsOpened, Pays
  <2> QED
    BY <1>2, <2>1, OpenedKept
<1>13. ASSUME NEW p \in Query PROVE QueryInv(p)'
  <2>1. QueryInv(p)
    BY DEF AccountsInv
  <2>2. CASE p # q
    <3>1. clientPc'[p] = clientPc[p] /\ nodePc'[p] = nodePc[p]
      BY <1>1, <1>3, <2>2
    <3>2. clientPc[p] = "registering" =>
            (balances'[chosen[p]] = None <=> balances[chosen[p]] = None)
      BY <1>11 DEF IInv, QueriesHaveEscrows
    <3> QED
      BY <1>2, <1>4, <2>1, <3>1, <3>2 DEF QueryInv, AlreadyDebited
  <2>3. CASE p = q
    <3>1. clientPc'[p] = pc /\ (pc = "done" => nodePc'[p] = "answered")
      BY <1>1, <1>3, <2>3
    <3>2. /\ chosen[q] \in Escrow /\ p \in Reserved
      BY <1>3, <2>3 DEF Reserved
    <3> QED
      BY <1>2, <1>4, <2>1, <2>3, <3>1, <3>2, NoneIsNoEscrow DEF QueryInv, AlreadyDebited
  <2> QED
    BY <2>2, <2>3
<1>14. SettledForAll'
  <2> SUFFICES ASSUME faults' = 0 PROVE SettledForAll'
    BY DEF SettledForAll
  <2>1. /\ faults = 0 /\ SettledForAll /\ nodePc[q] # "debit"
    BY DEF AccountsInv
  <2>2. forgotten' = {}
    BY <1>2, <2>1 DEF SettledForAll
  <2>3. \A p \in Query : nodePc'[p] = "debit" => clientPc'[p] = "waiting"
    BY <1>1, <1>3, <2>1 DEF SettledForAll
  <2>4. ASSUME NEW p \in Query, chosen'[p] # None, balances'[chosen'[p]] # None
        PROVE  /\ settlement'[p] <= balances'[chosen'[p]].settledMilligons
               /\ clientPc'[p] = "signing" =>
                    balances'[chosen'[p]].settledMilligons <= target'
    <3>1. chosen[p] \in Escrow /\ chosen'[p] = chosen[p]
      BY <1>2, <2>4, Types
    <3>2. clientPc'[p] = "signing" => clientPc[p] = "signing"
      BY <1>1, <1>3
    <3> QED
      BY <1>2, <1>11, <2>1, <2>4, <3>1, <3>2 DEF SettledForAll
  <2>5. ASSUME NEW p \in Reserved
        PROVE  \E r \in Query :
                 /\ chosen'[r] = chosen'[p]
                 /\ balances'[chosen'[p]] # None =>
                      settlement'[r] = balances'[chosen'[p]].settledMilligons
                 /\ Total(PayerCosts(chosen[p]))' <= settlement'[r] * MicrogonsPerMilligon
                 /\ settlement'[r] <= sourceEscrows'[chosen'[p]].milligons
    <3>1. PICK e \in Escrow : e = chosen[p]
      BY Types DEF Reserved, AccountsInv, QueryInv
    <3>2. PICK r \in Query :
            /\ chosen[r] = chosen[p]
            /\ balances[e] # None => settlement[r] = balances[e].settledMilligons
            /\ Total(PayerCosts(e)) <= settlement[r] * MicrogonsPerMilligon
            /\ settlement[r] <= sourceEscrows[e].milligons
      BY <2>1, <3>1 DEF SettledForAll
    <3>3. /\ Total(PayerCosts(e)') <= Total(PayerCosts(e))
          /\ Total(PayerCosts(e)') \in Nat /\ Total(PayerCosts(e)) \in Nat
      BY <1>8, CostTypes, CostTypesNext, TotalGrows, TotalType
    <3>4. settlement[r] * MicrogonsPerMilligon \in Nat
      BY Types, MicrogonsPerMilligonAssumption
    <3>5. Total(PayerCosts(e)') <= settlement[r] * MicrogonsPerMilligon
      BY <3>2, <3>3, <3>4
    <3>6. Total(PayerCosts(chosen[p]))' = Total(PayerCosts(e)')
      BY <1>2, <3>1 DEF Total, PayerCosts
    <3> QED
      BY <1>2, <1>11, <3>1, <3>2, <3>5, <3>6
  <2> QED
    BY <1>4, <2>2, <2>3, <2>4, <2>5 DEF SettledForAll
<1> QED
  BY <1>10, <1>12, <1>13, <1>14 DEF AccountsInv

\* What is not released stays a cost of the payer.
LEMMA CallbackThrowsAccounts ==
  ASSUME IInv, AccountsInv, NEW q \in Query, clientPc[q] = "waiting",
         nodePc[q] = "answered", CallbackThrows(q), UNCHANGED <<nodePc, faults>>
  PROVE  AccountsInv'
<1>1. /\ clientPc' = [clientPc EXCEPT ![q] = "threw"]
      /\ UNCHANGED <<sourceEscrows, balances, target, chosen, settlement, file, recorded,
                     forgotten, escrows, paymentIdByEscrowId, tally, now, nodePc, faults>>
  BY DEF CallbackThrows, ClientGoto, storage, dbVars
<1>2. \A p \in Query : clientPc'[p] = clientPc[p] \/ (p = q /\ clientPc'[p] = "threw")
  BY <1>1, Types
<1>3. Reserved' = Reserved
  BY <1>1, <1>2 DEF Reserved
<1>4. \A p \in Query : PayerCost(p)' = PayerCost(p) /\ NodeCost(p)' = NodeCost(p)
  BY <1>1, <1>2 DEF PayerCost, NodeCost
<1>5. \A e \in Escrow : /\ PayerCosts(e)' = PayerCosts(e) /\ FileCosts(e)' = FileCosts(e)
                        /\ NodeCosts(e)' = NodeCosts(e)
  BY <1>1, <1>4 DEF PayerCosts, FileCosts, NodeCosts
<1>6. CostsAreBooked'
  BY <1>1, <1>5 DEF AccountsInv, CostsAreBooked, Total
<1>7. EscrowsAreOpened'
  BY <1>1, <1>3 DEF AccountsInv, EscrowsAreOpened, Pays, SameAsOpened
<1>8. ASSUME NEW p \in Query PROVE QueryInv(p)'
  <2>1. QueryInv(p)
    BY DEF AccountsInv
  <2>2. p = q => clientPc'[p] = "threw"
    BY <1>1, Types
  <2> QED
    BY <1>1, <1>2, <1>3, <2>1, <2>2 DEF QueryInv, AlreadyDebited
<1>9. SettledForAll'
  <2> SUFFICES ASSUME faults' = 0 PROVE SettledForAll'
    BY DEF SettledForAll
  <2>1. SettledForAll /\ faults = 0
    BY <1>1 DEF AccountsInv
  <2>2. /\ forgotten' = {}
        /\ \A p \in Query : nodePc'[p] = "debit" => clientPc'[p] = "waiting"
    BY <1>1, <1>2, <2>1 DEF SettledForAll
  <2>3. \A p \in Query : clientPc'[p] = "signing" => clientPc[p] = "signing"
    BY <1>2
  <2>4. \A p \in Reserved :
          Total(PayerCosts(chosen[p]))' = Total(PayerCosts(chosen[p]))
    <3> SUFFICES ASSUME NEW p \in Reserved
                 PROVE  Total(PayerCosts(chosen[p]))' = Total(PayerCosts(chosen[p]))
      OBVIOUS
    <3>1. PICK e \in Escrow : e = chosen[p]
      BY Types DEF Reserved, AccountsInv, QueryInv
    <3> QED
      BY <1>1, <1>5, <3>1 DEF Total, PayerCosts
  <2> QED
    BY <1>1, <1>3, <2>1, <2>2, <2>3, <2>4 DEF SettledForAll
<1> QED
  BY <1>6, <1>7, <1>8, <1>9 DEF AccountsInv

LEMMA AnswerAccounts ==
  ASSUME IInv, IInv', AccountsInv, NEW q \in Query,
         Answer(q) \/ ErrorAnswer(q) \/ ConnectionLost(q)
  PROVE  AccountsInv'
<1>1. tally[q] \in Nat /\ faults \in Nat /\ nodePc \in [Query -> NodePc]
  BY Types
<1>2. CASE Answer(q)
  <2>1. CASE Finalize(q, tally[q], "done")
    BY <1>1, <1>2, <2>1, FinalizeAccounts DEF Answer
  <2>2. CASE CallbackThrows(q)
    BY <1>2, <2>2, CallbackThrowsAccounts DEF Answer
  <2> QED
    BY <1>2, <2>1, <2>2 DEF Answer
<1>3. CASE ErrorAnswer(q)
  BY <1>1, <1>3, FinalizeAccounts DEF ErrorAnswer
<1>4. CASE ConnectionLost(q)
  <2>1. /\ clientPc[q] = "waiting" /\ faults' # 0 /\ Finalize(q, 0, "gaveUp")
        /\ \/ nodePc' = nodePc
           \/ nodePc[q] = "debit" /\ nodePc' = [nodePc EXCEPT ![q] = "gone"]
    BY <1>1, <1>4 DEF ConnectionLost
  <2>2. /\ \A p \in Query \ {q} : nodePc'[p] = nodePc[p]
        /\ nodePc'[q] = nodePc[q] \/ (nodePc[q] = "debit" /\ nodePc'[q] = "gone")
    BY <1>1, <2>1
  <2> QED
    BY <2>1, <2>2, FinalizeAccounts
<1> QED
  BY <1>2, <1>3, <1>4

(* A turn of the queue: the query q goes to label with the escrow e, or none.  The
   list without what is dropped, and with what is registered, is list; the price
   is charged under a settlement of milligons if q is now reserved. *)

\* The balance or the row has what was locked for it.
LockedIn(opened, balance) ==
  /\ opened # None
  /\ balance.allocated = opened.milligons * MicrogonsPerMilligon
  /\ balance.expirationDate = opened.expirationDate

LEMMA LockedIsSame ==
  ASSUME NEW e \in Escrow
  PROVE  /\ SameAsOpened(e, balances[e])' <=> LockedIn(sourceEscrows'[e], balances'[e])
         /\ SameAsOpened(e, file[e])' <=> LockedIn(sourceEscrows'[e], file'[e])
         /\ SameAsOpened(e, escrows[e])' <=> LockedIn(sourceEscrows'[e], escrows'[e])
BY DEF SameAsOpened, LockedIn

\* What is on the list was on it, or is the escrow that q registers.
TurnList(q, e, list) ==
  \A f \in Escrow : list[f] # None =>
    \/ list[f] = balances[f]
    \/ /\ f = e /\ clientPc[q] = "registering"
       /\ list[f].remaining = list[f].allocated
       /\ LockedIn(sourceEscrows'[f], list[f])
       /\ escrows'[f] # None

TurnRows ==
  \A f \in Escrow :
    /\ sourceEscrows[f] # None => sourceEscrows'[f] = sourceEscrows[f]
    /\ escrows[f] # None => escrows'[f] = escrows[f]
    /\ escrows'[f] = escrows[f] \/ ( /\ LockedIn(sourceEscrows'[f], escrows'[f])
                                     /\ escrows'[f].remaining = escrows'[f].allocated )

TurnPayment(q, e, list, label, milligons) ==
  IF label = "reserved"
  THEN /\ e \in Escrow /\ list[e] # None
       /\ Price[q] <= list[e].remaining
       /\ faults' = 0 => list[e].settledMilligons <= milligons
       /\ balances' = [list EXCEPT ![e] = Charged(list[e], Price[q], milligons)]
       /\ settlement' = PaymentsOf(q, e, milligons)
  ELSE /\ balances' = list /\ settlement' = settlement

TurnLabel(q, e, list, label) ==
  \/ label = "registering" /\ clientPc[q] = "queued" /\ e \in Escrow /\ sourceEscrows[e] = None
  \/ label = "signing" /\ clientPc[q] # "signing" /\ list[e].settledMilligons <= target'
  \/ label \in {"reserved", "failed"}

TurnStep(q, e, list, label, milligons) ==
  /\ clientPc[q] \in {"queued", "registering", "signing"} /\ queue \in {None, q}
  /\ clientPc' = [clientPc EXCEPT ![q] = label]
  /\ chosen[q] \in {None, e} /\ chosen' = [chosen EXCEPT ![q] = e]
  /\ e # None => e \in Escrow /\ sourceEscrows'[e] # None
  /\ UNCHANGED <<file, recorded, forgotten, nodePc, tally, now, paymentIdByEscrowId>>
  /\ faults' = faults \/ faults' # 0
  /\ TurnRows
  /\ TurnList(q, e, list)
  /\ TurnPayment(q, e, list, label, milligons)
  /\ TurnLabel(q, e, list, label)

\* What the turn takes from the escrow f.
TurnPrice(q, e, label, f) == IF label = "reserved" /\ f = e THEN Price[q] ELSE 0

\* Before its turn a query costs nothing.
LEMMA TurnOfQuery ==
  ASSUME IInv, AccountsInv, NEW q \in Query,
         clientPc[q] \in {"queued", "registering", "signing"}, queue \in {None, q}
  PROVE  /\ q \notin Reserved /\ q \notin recorded /\ q \notin forgotten
         /\ nodePc[q] = "none" /\ PayerCost(q) = 0 /\ NodeCost(q) = 0
         /\ \A p \in Query \ {q} : clientPc[p] \notin {"registering", "signing"}
<1>1. QueryInv(q)
  BY DEF AccountsInv
<1>2. q \notin Reserved
  BY DEF Reserved
<1>3. q \notin recorded /\ q \notin forgotten /\ nodePc[q] = "none"
  BY <1>1, <1>2 DEF QueryInv
<1>4. PayerCost(q) = 0 /\ NodeCost(q) = 0
  BY <1>3 DEF PayerCost, NodeCost
<1>5. \A p \in Query : p # None
  BY NoneAssumption DEF Query
<1>6. \A p \in Query \ {q} : clientPc[p] \notin {"registering", "signing"}
  BY <1>5 DEF IInv, QueueMovesOn
<1> QED
  BY <1>2, <1>3, <1>4, <1>6

LEMMA TurnClients ==
  ASSUME IInv, AccountsInv, NEW q \in Query, NEW e \in Escrow \cup {None}, NEW list \in List,
         NEW label, NEW milligons \in Nat, TurnStep(q, e, list, label, milligons)
  PROVE  /\ clientPc'[q] = label /\ chosen'[q] = e
         /\ \A p \in Query \ {q} : clientPc'[p] = clientPc[p] /\ chosen'[p] = chosen[p]
         /\ Reserved' = IF label = "reserved" THEN Reserved \cup {q} ELSE Reserved
         /\ label \in {"registering", "signing", "reserved", "failed"}
<1>1. /\ clientPc' = [clientPc EXCEPT ![q] = label] /\ chosen' = [chosen EXCEPT ![q] = e]
      /\ label \in {"registering", "signing", "reserved", "failed"}
      /\ q \notin Reserved
  BY TurnOfQuery DEF TurnStep, TurnLabel
<1>2. /\ clientPc'[q] = label /\ chosen'[q] = e
      /\ \A p \in Query \ {q} : clientPc'[p] = clientPc[p] /\ chosen'[p] = chosen[p]
  BY <1>1, Types
<1>3. Reserved' = IF label = "reserved" THEN Reserved \cup {q} ELSE Reserved
  BY <1>1, <1>2 DEF Reserved
<1> QED
  BY <1>1, <1>2, <1>3

\* An escrow that is registered is of no other query.
LEMMA TurnListNew ==
  ASSUME IInv, AccountsInv, NEW q \in Query, NEW e \in Escrow \cup {None}, NEW list \in List,
         NEW label, NEW milligons \in Nat, TurnStep(q, e, list, label, milligons),
         NEW f \in Escrow, list[f] # None, list[f] # balances[f]
  PROVE  /\ f = e /\ balances[f] = None /\ chosen[q] = f
         /\ settlement[q] = 0
         /\ \A p \in Query \ {q} : chosen[p] # f
         /\ list[f].remaining = list[f].allocated
         /\ LockedIn(sourceEscrows'[f], list[f])
         /\ escrows'[f] # None
<1>1. /\ f = e /\ clientPc[q] = "registering" /\ chosen[q] \in {None, e}
      /\ list[f].remaining = list[f].allocated
      /\ LockedIn(sourceEscrows'[f], list[f])
      /\ escrows'[f] # None
  BY DEF TurnStep, TurnList
<1>2. chosen[q] = f
  BY <1>1, NoneIsNoEscrow DEF IInv, QueriesHaveEscrows
<1>3. QueryInv(q)
  BY DEF AccountsInv
<1>4. balances[f] = None /\ settlement[q] = 0 /\ \A p \in Query \ {q} : chosen[p] # f
  BY <1>1, <1>2, <1>3 DEF QueryInv
<1> QED
  BY <1>1, <1>2, <1>4

LEMMA TurnCosts ==
  ASSUME IInv, AccountsInv, NEW q \in Query, NEW e \in Escrow \cup {None}, NEW list \in List,
         NEW label, NEW milligons \in Nat, TurnStep(q, e, list, label, milligons),
         NEW f \in Escrow
  PROVE  /\ FileCosts(f)' = FileCosts(f) /\ NodeCosts(f)' = NodeCosts(f)
         /\ \A p \in Query \ {q} : PayerCosts(f)'[p] = PayerCosts(f)[p]
         /\ PayerCosts(f)[q] = 0
         /\ PayerCosts(f)'[q] = TurnPrice(q, e, label, f)
<1>1. /\ UNCHANGED <<recorded, forgotten, nodePc, tally>>
      /\ q \notin recorded /\ q \notin forgotten /\ nodePc[q] = "none" /\ PayerCost(q) = 0
      /\ NodeCost(q) = 0
  BY TurnOfQuery DEF TurnStep
<1>2. /\ clientPc'[q] = label /\ chosen'[q] = e
      /\ \A p \in Query \ {q} : clientPc'[p] = clientPc[p] /\ chosen'[p] = chosen[p]
      /\ label \in {"registering", "signing", "reserved", "failed"}
  BY TurnClients
<1>3. /\ \A p \in Query : NodeCost(p)' = NodeCost(p)
      /\ \A p \in Query \ {q} : PayerCost(p)' = PayerCost(p)
      /\ PayerCost(q)' = IF label = "reserved" THEN Price[q] ELSE 0
  BY <1>1, <1>2 DEF NodeCost, PayerCost
<1>4. FileCosts(f)' = FileCosts(f)
  BY <1>1, <1>2, <1>3 DEF FileCosts
<1>5. NodeCosts(f)' = NodeCosts(f)
  BY <1>1, <1>2, <1>3 DEF NodeCosts
<1>6. /\ \A p \in Query \ {q} : PayerCosts(f)'[p] = PayerCosts(f)[p]
      /\ PayerCosts(f)[q] = 0
      /\ PayerCosts(f)'[q] = TurnPrice(q, e, label, f)
  BY <1>1, <1>2, <1>3 DEF PayerCosts, TurnPrice
<1> QED
  BY <1>4, <1>5, <1>6

\* What the list has left before the price is taken from it.
LEMMA TurnListBooked ==
  ASSUME IInv, AccountsInv, NEW q \in Query, NEW e \in Escrow \cup {None}, NEW list \in List,
         NEW label, NEW milligons \in Nat, TurnStep(q, e, list, label, milligons),
         NEW f \in Escrow, list[f] # None
  PROVE  list[f].remaining + Total(PayerCosts(f)) <= list[f].allocated
<1>1. CASE list[f] = balances[f]
  BY <1>1 DEF AccountsInv, CostsAreBooked
<1>2. CASE list[f] # balances[f]
  <2>1. list[f].remaining = list[f].allocated /\ \A p \in Query \ {q} : chosen[p] # f
    BY <1>2, TurnListNew
  <2>2. PayerCost(q) = 0
    BY TurnOfQuery DEF TurnStep
  <2>3. \A p \in Query : PayerCosts(f)[p] = 0
    BY <2>1, <2>2 DEF PayerCosts
  <2>4. Total(PayerCosts(f)) = 0
    BY <2>3, QueriesAssumption, SumOfZeros DEF Total
  <2>5. list[f] \in Balance
    BY DEF List
  <2> QED
    BY <2>1, <2>4, <2>5 DEF Balance
<1> QED
  BY <1>1, <1>2

\* The list after it.
LEMMA TurnBalances ==
  ASSUME NEW q \in Query, NEW e \in Escrow \cup {None}, NEW list \in List,
         NEW label, NEW milligons \in Nat, TurnStep(q, e, list, label, milligons),
         NEW f \in Escrow
  PROVE  /\ balances'[f] = None <=> list[f] = None
         /\ list[f] # None =>
              /\ balances'[f].allocated = list[f].allocated
              /\ balances'[f].expirationDate = list[f].expirationDate
              /\ balances'[f].remaining = list[f].remaining - TurnPrice(q, e, label, f)
              /\ label = "reserved" /\ f = e => balances'[f].settledMilligons = milligons
              /\ ~(label = "reserved" /\ f = e) =>
                   balances'[f].settledMilligons = list[f].settledMilligons
<1>1. CASE label = "reserved" /\ f = e
  <2>1. /\ list[f] # None /\ Price[q] <= list[f].remaining
        /\ balances'[f] = Charged(list[f], Price[q], milligons)
    BY <1>1 DEF TurnStep, TurnPayment, List
  <2>2. list[f] \in Balance /\ Price[q] \in Nat
    BY <2>1, PriceType DEF List
  <2>3. list[f].remaining - Price[q] \in Nat
    BY <2>1, <2>2 DEF Balance
  <2>4. balances'[f] \in Balance
    BY <2>1, <2>2, <2>3 DEF Charged, Balance
  <2>5. balances'[f] # None
    BY <2>4, NoneIsNoEscrow
  <2> QED
    BY <1>1, <2>1, <2>5 DEF Charged, TurnPrice
<1>2. CASE ~(label = "reserved" /\ f = e)
  <2>1. balances'[f] = list[f]
    BY <1>2 DEF TurnStep, TurnPayment, List
  <2>2. list[f] # None => list[f] \in Balance
    BY DEF List
  <2> QED
    BY <1>2, <2>1, <2>2 DEF Balance, TurnPrice
<1> QED
  BY <1>1, <1>2

LEMMA TurnBooked ==
  ASSUME IInv, IInv', AccountsInv, NEW q \in Query, NEW e \in Escrow \cup {None},
         NEW list \in List, NEW label, NEW milligons \in Nat,
         TurnStep(q, e, list, label, milligons)
  PROVE  CostsAreBooked'
<1>1. ASSUME NEW f \in Escrow
      PROVE  ListBooked(f)' /\ FileBooked(f)' /\ RowBooked(f)'
  <2> DEFINE spent == TurnPrice(q, e, label, f)
  <2>1. /\ ListBooked(f) /\ FileBooked(f) /\ RowBooked(f)
        /\ file'[f] = file[f]
        /\ \/ escrows'[f] \in {None, escrows[f]}
           \/ escrows'[f].remaining = escrows'[f].allocated
    BY Booked DEF AccountsInv, TurnStep, TurnRows
  <2>2. /\ FileCosts(f)' = FileCosts(f) /\ NodeCosts(f)' = NodeCosts(f)
        /\ \A p \in Query \ {q} : PayerCosts(f)'[p] = PayerCosts(f)[p]
        /\ PayerCosts(f)[q] = 0 /\ PayerCosts(f)'[q] = spent
    BY TurnCosts
  <2>0. spent \in Int
    BY PriceType DEF TurnPrice
  <2>3. ListBooked(f)'
    <3>1. CASE list[f] = None
      <4>1. balances'[f] = None
        BY <3>1, TurnBalances
      <4> QED
        BY <4>1 DEF ListBooked
    <3>2. CASE list[f] # None
      <4>1. list[f] \in Balance
        BY <3>2 DEF List
      <4>2. list[f].remaining + Total(PayerCosts(f)) <= list[f].allocated
        BY <3>2, TurnListBooked
      <4>3. /\ balances'[f].allocated = list[f].allocated
            /\ balances'[f].remaining = list[f].remaining - spent
        BY <3>2, TurnBalances, Z3T(30)
      <4> HIDE DEF spent
      <4>4. PayerCosts(f)'[q] = PayerCosts(f)[q] + spent
        BY <2>0, <2>2
      <4> QED
        BY <2>0, <2>2, <4>1, <4>2, <4>3, <4>4, ListChanges
    <3> QED
      BY <3>1, <3>2
  <2>4. FileBooked(f)'
    <3>1. \A p \in Query : FileCosts(f)[p] \in Nat
      BY CostTypes
    <3>2. \A p \in Query : FileCosts(f)'[p] <= FileCosts(f)[p]
      BY <2>2, <3>1
    <3> QED
      BY <2>1, <3>2, FileKept
  <2>5. RowBooked(f)'
    <3>1. \A p \in Query : NodeCosts(f)[p] \in Nat
      BY CostTypes
    <3>2. \A p \in Query : NodeCosts(f)[p] <= NodeCosts(f)'[p]
      BY <2>2, <3>1
    <3> QED
      BY <2>1, <3>2, RowKept
  <2> QED
    BY <2>3, <2>4, <2>5
<1> QED
  BY <1>1 DEF CostsAreBooked, ListBooked, FileBooked, RowBooked

LEMMA TurnOpened ==
  ASSUME IInv, IInv', AccountsInv, NEW q \in Query, NEW e \in Escrow \cup {None},
         NEW list \in List, NEW label, NEW milligons \in Nat,
         TurnStep(q, e, list, label, milligons)
  PROVE  EscrowsAreOpened'
<1>1. /\ UNCHANGED <<now, file>> /\ TurnRows
  BY DEF TurnStep
<1>2. ASSUME NEW f \in Escrow
      PROVE  /\ escrows'[f] # None =>
                  escrows'[f] = escrows[f] \/ SameAsOpened(f, escrows[f])'
             /\ balances'[f] # None => SameAsOpened(f, balances[f])'
             /\ file'[f] # None => SameAsOpened(f, file[f])'
             /\ Pays(f)' => Pays(f) \/ escrows'[f] # None
  <2>1. escrows'[f] # None => escrows'[f] = escrows[f] \/ SameAsOpened(f, escrows[f])'
    BY <1>1, LockedIsSame DEF TurnRows
  <2>2. list[f] # None =>
          LockedIn(sourceEscrows'[f], list[f]) /\ (Pays(f) \/ escrows'[f] # None)
    <3>1. CASE list[f] # None /\ list[f] = balances[f]
      <4>1. SameAsOpened(f, balances[f])
        BY <3>1 DEF AccountsInv, EscrowsAreOpened
      <4>2. sourceEscrows'[f] = sourceEscrows[f]
        BY <1>1, <4>1 DEF SameAsOpened, TurnRows
      <4>3. LockedIn(sourceEscrows'[f], list[f])
        BY <3>1, <4>1, <4>2 DEF SameAsOpened, LockedIn
      <4> QED
        BY <3>1, <4>3 DEF Pays
    <3>2. CASE list[f] # None /\ list[f] # balances[f]
      BY <3>2, TurnListNew, Z3T(30)
    <3> QED
      BY <3>1, <3>2
  <2>3. balances'[f] # None => SameAsOpened(f, balances[f])'
    <3>1. balances'[f] # None => LockedIn(sourceEscrows'[f], balances'[f])
      BY <2>2, TurnBalances DEF LockedIn
    <3> QED
      BY <3>1, LockedIsSame
  <2>4. file'[f] # None => SameAsOpened(f, file[f])'
    BY <1>1 DEF AccountsInv, EscrowsAreOpened, SameAsOpened, TurnRows
  <2>5. Pays(f)' => Pays(f) \/ escrows'[f] # None
    <3> SUFFICES ASSUME Pays(f)' PROVE Pays(f) \/ escrows'[f] # None
      OBVIOUS
    <3>1. CASE balances'[f] # None
      BY <2>2, <3>1, TurnBalances
    <3>2. CASE file'[f] # None
      BY <1>1, <3>2 DEF Pays
    <3>3. CASE balances'[f] = None /\ \E p \in Reserved' : chosen'[p] = f
      <4>1. PICK p \in Reserved' : chosen'[p] = f
        BY <3>3
      <4>2. CASE p = q
        <5>1. label = "reserved" /\ f = e
          BY <4>1, <4>2, TurnClients, TurnOfQuery DEF TurnStep
        <5>2. list[f] # None
          BY <5>1 DEF TurnStep, TurnPayment
        <5> QED
          BY <2>2, <5>2
      <4>3. CASE p # q
        <5>1. p \in Reserved /\ chosen[p] = f
          BY <4>1, <4>3, TurnClients DEF Reserved
        <5> QED
          BY <5>1 DEF Pays
      <4> QED
        BY <4>2, <4>3
    <3> QED
      BY <3>1, <3>2, <3>3 DEF Pays
  <2> QED
    BY <2>1, <2>3, <2>4, <2>5
<1> QED
  BY <1>1, <1>2, OpenedKept DEF TurnRows

LEMMA TurnQueries ==
  ASSUME IInv, IInv', AccountsInv, NEW q \in Query, NEW e \in Escrow \cup {None},
         NEW list \in List, NEW label, NEW milligons \in Nat,
         TurnStep(q, e, list, label, milligons), NEW p \in Query
  PROVE  QueryInv(p)'
<1>1. /\ clientPc'[q] = label /\ chosen'[q] = e
      /\ \A r \in Query \ {q} : clientPc'[r] = clientPc[r] /\ chosen'[r] = chosen[r]
      /\ Reserved' = IF label = "reserved" THEN Reserved \cup {q} ELSE Reserved
      /\ label \in {"registering", "signing", "reserved", "failed"}
  BY TurnClients
<1>2. /\ UNCHANGED <<file, recorded, forgotten, nodePc, paymentIdByEscrowId>>
      /\ TurnRows /\ TurnPayment(q, e, list, label, milligons)
      /\ TurnLabel(q, e, list, label)
      /\ e # None => e \in Escrow /\ sourceEscrows'[e] # None
  BY DEF TurnStep
<1>3. QueryInv(p)
  BY DEF AccountsInv
<1>4. \A f \in Escrow : AlreadyDebited(f, p)' => paymentIdByEscrowId'[f][p].microgons = Price[p]
  BY <1>2, <1>3 DEF QueryInv, AlreadyDebited
<1>5. CASE p # q
  <2>1. /\ clientPc'[p] = clientPc[p] /\ chosen'[p] = chosen[p]
        /\ clientPc[p] # "registering"
        /\ p \in Reserved' <=> p \in Reserved
    BY <1>1, <1>5, TurnOfQuery DEF TurnStep
  <2>2. clientPc[p] \in {"idle", "queued"} => settlement'[p] = settlement[p]
    BY <1>2, <1>5 DEF TurnPayment, PaymentsOf
  <2>3. chosen[p] # None => chosen[p] \in Escrow /\ sourceEscrows'[chosen[p]] # None
    BY <1>2, <1>3 DEF QueryInv, TurnRows
  <2> QED
    BY <1>2, <1>3, <1>4, <2>1, <2>2, <2>3 DEF QueryInv
<1>6. CASE p = q
  <2>1. /\ q \notin recorded /\ q \notin forgotten /\ nodePc[q] = "none"
    BY TurnOfQuery DEF TurnStep
  <2>2. label = "reserved" => e # None
    BY <1>2, NoneIsNoEscrow DEF TurnPayment
  <2>3. q \in Reserved' => label = "reserved"
    BY <1>1, TurnOfQuery DEF TurnStep
  <2>4. CASE label # "registering"
    BY <1>1, <1>2, <1>4, <1>6, <2>1, <2>2, <2>3, <2>4 DEF QueryInv
  <2>5. CASE label = "registering"
    <3>1. /\ clientPc[q] = "queued" /\ e \in Escrow /\ sourceEscrows[e] = None
          /\ settlement'[q] = settlement[q] /\ balances' = list
      BY <1>2, <2>5 DEF TurnLabel, TurnPayment
    <3>2. settlement'[q] = 0
      BY <1>3, <1>6, <3>1 DEF QueryInv
    <3>3. balances[e] = None /\ file[e] = None
      BY <3>1 DEF AccountsInv, EscrowsAreOpened, SameAsOpened
    <3>4. list[e] = None
      BY <3>1, <3>3 DEF TurnStep, TurnList
    <3>5. \A r \in Query : chosen[r] # e
      BY <3>1, NoneIsNoEscrow DEF AccountsInv, QueryInv
    <3>6. \A r \in Query \ {q} : chosen'[r] # e
      BY <1>1, <3>5
    <3> QED
      BY <1>1, <1>2, <1>4, <1>6, <2>1, <2>3, <2>5, <3>1, <3>2, <3>3, <3>4, <3>6 DEF QueryInv
  <2> QED
    BY <2>4, <2>5
<1> QED
  BY <1>5, <1>6

\* The settlement of a charge covers all that the escrow pays.
LEMMA TurnCovers ==
  ASSUME IInv, IInv', AccountsInv, NEW q \in Query, NEW e \in Escrow,
         NEW list \in List, NEW milligons \in Nat,
         TurnStep(q, e, list, "reserved", milligons)
  PROVE  /\ balances'[e] # None /\ balances'[e].settledMilligons = milligons
         /\ settlement'[q] = milligons
         /\ Total(PayerCosts(e)') <= milligons * MicrogonsPerMilligon
         /\ milligons <= sourceEscrows'[e].milligons
<1> DEFINE k == MicrogonsPerMilligon
           signed == milligons * k
           opened == sourceEscrows'[e]
<1>1. /\ balances' = [list EXCEPT ![e] = Charged(list[e], Price[q], milligons)]
      /\ settlement' = PaymentsOf(q, e, milligons) /\ list[e] # None
  BY DEF TurnStep, TurnPayment
<1>2. balances'[e] # None
  BY <1>1, TurnBalances
<1>3. balances'[e].settledMilligons = milligons /\ settlement'[q] = milligons
  BY <1>1 DEF List, Charged, PaymentsOf
<1>4. balances'[e] \in Balance /\ Covered(balances'[e])
  BY <1>2 DEF IInv, TypeOK, SignedCoversReserved
<1>5. CostsAreBooked' /\ EscrowsAreOpened'
  BY TurnBooked, TurnOpened
<1>6. balances'[e].remaining + Total(PayerCosts(e)') <= balances'[e].allocated
  BY <1>2, <1>5 DEF CostsAreBooked, Total
<1>7. opened \in Opened /\ balances'[e].allocated = opened.milligons * k
  BY <1>2, <1>5 DEF EscrowsAreOpened, SameAsOpened, IInv, TypeOK
<1>8. /\ balances'[e].allocated - balances'[e].remaining <= signed
      /\ signed <= balances'[e].allocated
  BY <1>3, <1>4 DEF Covered, CoveredBy
<1>9. k \in Nat /\ k > 0 /\ signed \in Nat /\ opened.milligons \in Nat
  BY <1>7, MicrogonsPerMilligonAssumption DEF Opened
<1>10. Total(PayerCosts(e)') <= signed
  <2>1. Total(PayerCosts(e)') \in Nat
    BY CostTypesNext, TotalType
  <2> HIDE DEF signed
  <2> QED
    BY <1>4, <1>6, <1>8, <1>9, <2>1 DEF Balance
<1>11. milligons <= opened.milligons
  <2>1. milligons * k <= opened.milligons * k
    BY <1>7, <1>8
  <2> HIDE DEF opened
  <2>2. ASSUME opened.milligons < milligons
        PROVE  FALSE
    <3>1. opened.milligons + 1 <= milligons
      BY <1>9, <2>2
    <3>2. (opened.milligons + 1) * k <= milligons * k
      BY <1>9, <3>1, SMTT(30)
    <3>3. opened.milligons * k + k <= milligons * k
      BY <1>9, <3>2, SMTT(30)
    <3> QED
      BY <1>9, <2>1, <3>3, SMTT(30)
  <2> QED
    BY <1>9, <2>2
<1> QED
  BY <1>2, <1>3, <1>10, <1>11

LEMMA TurnSettled ==
  ASSUME IInv, IInv', AccountsInv, NEW q \in Query, NEW e \in Escrow \cup {None},
         NEW list \in List, NEW label, NEW milligons \in Nat,
         TurnStep(q, e, list, label, milligons)
  PROVE  SettledForAll'
<1> SUFFICES ASSUME faults' = 0 PROVE SettledForAll'
  BY DEF SettledForAll
<1>1. /\ faults = 0 /\ UNCHANGED <<forgotten, nodePc>>
      /\ chosen[q] \in {None, e} /\ (e # None => e \in Escrow)
      /\ TurnRows /\ TurnPayment(q, e, list, label, milligons)
      /\ TurnLabel(q, e, list, label)
      /\ clientPc[q] \in {"queued", "registering", "signing"}
      /\ nodePc[q] = "none" /\ q \notin Reserved
      /\ \A p \in Query \ {q} : clientPc[p] \notin {"registering", "signing"}
  BY TurnOfQuery DEF TurnStep
<1>2. /\ clientPc'[q] = label /\ chosen'[q] = e
      /\ \A p \in Query \ {q} : clientPc'[p] = clientPc[p] /\ chosen'[p] = chosen[p]
      /\ Reserved' = IF label = "reserved" THEN Reserved \cup {q} ELSE Reserved
      /\ label \in {"registering", "signing", "reserved", "failed"}
  BY TurnClients
<1>3. SettledForAll /\ \A p \in Query : QueryInv(p)
  BY DEF AccountsInv
<1>4. forgotten' = {} /\ \A p \in Query : nodePc'[p] = "debit" => clientPc'[p] = "waiting"
  BY <1>1, <1>2, <1>3 DEF SettledForAll
<1>5. /\ settlement \in [Query -> Nat] /\ chosen \in [Query -> Escrow \cup {None}]
  BY Types
<1>6. ASSUME NEW f \in Escrow, NEW p \in Query \ {q}, chosen[p] = f, list[f] # None
      PROVE  list[f] = balances[f]
  BY <1>6, TurnListNew
<1>7. ASSUME NEW f \in Escrow
      PROVE  /\ FileCosts(f)' = FileCosts(f) /\ NodeCosts(f)' = NodeCosts(f)
             /\ \A p \in Query \ {q} : PayerCosts(f)'[p] = PayerCosts(f)[p]
             /\ PayerCosts(f)[q] = 0
             /\ PayerCosts(f)'[q] = TurnPrice(q, e, label, f)
  BY TurnCosts
<1>8. ASSUME NEW p \in Query, NEW f \in Escrow, chosen'[p] = f, balances'[f] # None
      PROVE  /\ settlement'[p] <= balances'[f].settledMilligons
             /\ clientPc'[p] = "signing" => balances'[f].settledMilligons <= target'
  <2>1. list[f] # None
    BY <1>8, TurnBalances
  <2>2. list[f].settledMilligons \in Nat
    BY <2>1 DEF List, Balance
  <2>3. CASE p # q
    <3>1. clientPc'[p] # "signing" /\ chosen[p] = f
      BY <1>1, <1>2, <1>8, <2>3
    <3>2. list[f] = balances[f]
      BY <1>6, <2>1, <2>3, <3>1
    <3>3. settlement[p] <= list[f].settledMilligons
      BY <1>1, <1>3, <2>1, <3>1, <3>2, NoneIsNoEscrow DEF SettledForAll
    <3>4. CASE label = "reserved" /\ f = e
      <4>1. /\ list[f].settledMilligons <= milligons
            /\ balances'[f].settledMilligons = milligons
        BY <1>1, <3>4 DEF TurnPayment, List, Charged
      <4>2. settlement'[p] \in {milligons, settlement[p]}
        BY <1>1, <3>4 DEF TurnPayment, PaymentsOf
      <4> QED
        BY <1>5, <2>2, <3>1, <3>3, <4>1, <4>2
    <3>5. CASE ~(label = "reserved" /\ f = e)
      <4>1. settlement'[p] = settlement[p]
        BY <1>1, <2>3, <3>1, <3>5 DEF TurnPayment, PaymentsOf
      <4>2. balances'[f] = list[f]
        BY <1>1, <3>5 DEF TurnPayment, List
      <4> QED
        BY <3>1, <3>3, <4>1, <4>2
    <3> QED
      BY <3>4, <3>5
  <2>4. CASE p = q
    <3>1. f = e
      BY <1>2, <1>8, <2>4
    <3>2. CASE label = "reserved"
      <4>1. balances'[f].settledMilligons = milligons /\ settlement'[q] = milligons
        BY <1>1, <3>1, <3>2 DEF TurnPayment, PaymentsOf, List, Charged
      <4> QED
        BY <1>2, <2>4, <3>2, <4>1
    <3>3. CASE label # "reserved"
      <4>1. balances' = list /\ settlement'[q] = settlement[q]
        BY <1>1, <3>3 DEF TurnPayment
      <4>2. settlement[q] <= list[f].settledMilligons
        <5>1. CASE clientPc[q] # "signing"
          <6>1. settlement[q] = 0
            BY <1>1, <1>3, <5>1 DEF QueryInv
          <6> QED
            BY <2>2, <6>1
        <5>2. CASE clientPc[q] = "signing"
          <6>1. chosen[q] = f /\ chosen[q] # None
            BY <1>1, <3>1, <5>2, NoneIsNoEscrow DEF IInv, QueriesHaveEscrows
          <6>2. list[f] = balances[f]
            BY <2>1, <5>2 DEF TurnStep, TurnList
          <6> QED
            BY <1>1, <1>3, <2>1, <6>1, <6>2 DEF SettledForAll
        <5> QED
          BY <5>1, <5>2
      <4>3. clientPc'[q] = "signing" => list[f].settledMilligons <= target'
        BY <1>1, <1>2, <3>1 DEF TurnLabel
      <4> QED
        BY <2>4, <4>1, <4>2, <4>3
    <3> QED
      BY <3>2, <3>3
  <2> QED
    BY <2>3, <2>4
<1>9. ASSUME NEW p \in Reserved', NEW f \in Escrow, chosen'[p] = f
      PROVE  \E r \in Query :
               /\ chosen'[r] = f
               /\ balances'[f] # None => settlement'[r] = balances'[f].settledMilligons
               /\ Total(PayerCosts(f)') <= settlement'[r] * MicrogonsPerMilligon
               /\ settlement'[r] <= sourceEscrows'[f].milligons
  <2>1. CASE label = "reserved" /\ f = e
    <3>1. TurnStep(q, f, list, "reserved", milligons)
      BY <2>1
    <3>2. /\ balances'[f].settledMilligons = milligons /\ settlement'[q] = milligons
          /\ Total(PayerCosts(f)') <= milligons * MicrogonsPerMilligon
          /\ milligons <= sourceEscrows'[f].milligons
      BY <3>1, TurnCovers
    <3> QED
      BY <1>2, <2>1, <3>2
  <2>2. CASE ~(label = "reserved" /\ f = e)
    <3>1. p \in Reserved /\ p \in Query /\ p # q /\ chosen[p] = f
      BY <1>1, <1>2, <1>9, <2>2 DEF Reserved
    <3>2. PICK r \in Query :
            /\ chosen[r] = f
            /\ balances[f] # None => settlement[r] = balances[f].settledMilligons
            /\ Total(PayerCosts(f)) <= settlement[r] * MicrogonsPerMilligon
            /\ settlement[r] <= sourceEscrows[f].milligons
      BY <1>1, <1>3, <3>1 DEF SettledForAll
    <3>3. f # None /\ (r = q => f = e)
      BY <1>1, <3>2, NoneIsNoEscrow
    <3>4. chosen'[r] = f
      BY <1>2, <3>2, <3>3
    <3>5. settlement'[r] = settlement[r]
      BY <1>1, <2>2, <3>2, <3>3 DEF TurnPayment, PaymentsOf
    <3>6. balances'[f] # None => balances'[f] = balances[f]
      <4>1. balances'[f] = list[f]
        BY <1>1, <2>2 DEF TurnPayment, List
      <4> QED
        BY <1>6, <3>1, <4>1
    <3>7. sourceEscrows'[f] = sourceEscrows[f]
      BY <1>1, <1>3, <3>1, <3>3 DEF QueryInv, TurnRows
    <3>8. Total(PayerCosts(f)') <= settlement'[r] * MicrogonsPerMilligon
      <4>1. /\ \A s \in Query \ {q} : PayerCosts(f)'[s] = PayerCosts(f)[s]
            /\ PayerCosts(f)'[q] = 0 /\ PayerCosts(f)[q] = 0
        <5>1. TurnPrice(q, e, label, f) = 0
          BY <2>2 DEF TurnPrice
        <5> QED
          BY <1>7, <5>1
      <4>2. \A s \in Query : PayerCosts(f)'[s] <= PayerCosts(f)[s]
        <5>1. \A s \in Query : PayerCosts(f)'[s] = PayerCosts(f)[s] /\ PayerCosts(f)[s] \in Nat
          BY <4>1, CostTypes
        <5> QED
          BY <5>1
      <4>3. /\ Total(PayerCosts(f)') <= Total(PayerCosts(f))
            /\ Total(PayerCosts(f)') \in Nat /\ Total(PayerCosts(f)) \in Nat
        BY <4>2, CostTypes, CostTypesNext, TotalGrows, TotalType
      <4>4. settlement[r] * MicrogonsPerMilligon \in Nat
        BY <1>5, MicrogonsPerMilligonAssumption
      <4> QED
        BY <3>2, <3>5, <4>3, <4>4
    <3> QED
      BY <3>2, <3>4, <3>5, <3>6, <3>7, <3>8
  <2> QED
    BY <2>1, <2>2
<1>10. ASSUME NEW p \in Query, chosen'[p] # None, balances'[chosen'[p]] # None
      PROVE  /\ settlement'[p] <= balances'[chosen'[p]].settledMilligons
             /\ clientPc'[p] = "signing" => balances'[chosen'[p]].settledMilligons <= target'
  <2>1. PICK f \in Escrow : f = chosen'[p]
    BY <1>10 DEF IInv, TypeOK
  <2> QED
    BY <1>8, <1>10, <2>1
<1>11. ASSUME NEW p \in Reserved'
       PROVE  \E r \in Query :
                /\ chosen'[r] = chosen'[p]
                /\ balances'[chosen'[p]] # None =>
                     settlement'[r] = balances'[chosen'[p]].settledMilligons
                /\ Total(PayerCosts(chosen[p]))' <= settlement'[r] * MicrogonsPerMilligon
                /\ settlement'[r] <= sourceEscrows'[chosen'[p]].milligons
  <2>1. p \in Query /\ QueryInv(p)'
    BY TurnQueries DEF Reserved
  <2>2. PICK f \in Escrow : f = chosen'[p]
    BY <2>1 DEF QueryInv
  <2>3. Total(PayerCosts(chosen[p]))' = Total(PayerCosts(f)')
    BY <2>2 DEF Total, PayerCosts
  <2> QED
    BY <1>9, <2>2, <2>3
<1> QED
  BY <1>4, <1>10, <1>11 DEF SettledForAll

LEMMA TurnAccounts ==
  ASSUME IInv, IInv', AccountsInv, NEW q \in Query, NEW e \in Escrow \cup {None},
         NEW list \in List, NEW label, NEW milligons \in Nat,
         TurnStep(q, e, list, label, milligons)
  PROVE  AccountsInv'
<1>1. \A p \in Query : QueryInv(p)'
  BY TurnQueries
<1> QED
  BY <1>1, TurnBooked, TurnOpened, TurnSettled DEF AccountsInv

\* Each step of the queue is such a turn.
LEMMA BeginChargeTurns ==
  ASSUME IInv, NEW q \in Query, NEW e \in Escrow, NEW list \in List, list[e] # None,
         NEW open, BeginCharge(q, e, list, open)
  PROVE  \E label \in {"reserved", "signing", "failed"}, milligons \in Nat :
           /\ clientPc' = [clientPc EXCEPT ![q] = label]
           /\ TurnPayment(q, e, list, label, milligons)
           /\ label = "signing" => list[e].settledMilligons <= target'
<1> DEFINE owed == list[e].allocated - list[e].remaining + Price[q]
           milligons == SettlementFor(list[e], Price[q])
           signed == milligons * MicrogonsPerMilligon
           settled == list[e].settledMilligons
<1>1. /\ list[e] \in Balance /\ Price[q] \in Nat /\ settled \in Nat
      /\ list[e].allocated \in Nat /\ list[e].remaining \in Nat
  BY PriceType DEF List, Balance
<1>2. milligons \in Int /\ owed <= signed
  BY <1>1, CeilCovers DEF SettlementFor, CoveredBy
<1>3. signed \in Int
  BY <1>2, MicrogonsPerMilligonAssumption
<1>4. CanRelease(list[e], milligons) => Price[q] <= list[e].remaining
  <2> SUFFICES ASSUME CanRelease(list[e], milligons) PROVE Price[q] <= list[e].remaining
    OBVIOUS
  <2>1. signed <= list[e].allocated
    BY DEF CanRelease
  <2> HIDE DEF signed
  <2> QED
    BY <1>1, <1>2, <1>3, <2>1
<1>5. \/ EndTurn(q, "failed") /\ balances' = list /\ UNCHANGED settlement
      \/ CanRelease(list[e], milligons) /\ Charge(q, e, list, settled)
      \/ /\ milligons > settled /\ target' = milligons
         /\ ClientGoto(q, "signing") /\ balances' = list /\ UNCHANGED settlement
  BY DEF BeginCharge
<1> HIDE DEF milligons, signed, owed
<1>6. CASE EndTurn(q, "failed") /\ balances' = list /\ UNCHANGED settlement
  BY <1>6 DEF EndTurn, ClientGoto, TurnPayment
<1>7. CASE CanRelease(list[e], milligons) /\ Charge(q, e, list, settled)
  <2>1. /\ clientPc' = [clientPc EXCEPT ![q] = "reserved"]
        /\ balances' = [list EXCEPT ![e] = Charged(list[e], Price[q], settled)]
        /\ settlement' = PaymentsOf(q, e, settled)
    BY <1>7 DEF Charge, EndTurn, ClientGoto
  <2>2. settled <= settled
    BY <1>1
  <2>3. TurnPayment(q, e, list, "reserved", settled)
    BY <1>4, <1>7, <2>1, <2>2 DEF TurnPayment
  <2> QED
    BY <1>1, <2>1, <2>3
<1>8. CASE /\ milligons > settled /\ target' = milligons
           /\ ClientGoto(q, "signing") /\ balances' = list /\ UNCHANGED settlement
  <2>1. settled <= target'
    BY <1>1, <1>2, <1>8
  <2> QED
    BY <1>8, <2>1 DEF ClientGoto, TurnPayment
<1> QED
  BY <1>5, <1>6, <1>7, <1>8

LEMMA KeptTurns ==
  ASSUME IInv, NEW q \in Query, NEW e, NEW list, list = Kept
  PROVE  list \in List /\ TurnList(q, e, list)
         /\ \A f \in Escrow : list[f] # None => list[f] = balances[f]
BY KeptType DEF Kept, TurnList

LEMMA RowsStay ==
  ASSUME UNCHANGED <<sourceEscrows, escrows>>
  PROVE  TurnRows
BY DEF TurnRows

LEMMA RowCreated ==
  ASSUME IInv, NEW q \in Query, clientPc[q] = "registering", CreateRow(q),
         UNCHANGED sourceEscrows
  PROVE  /\ TurnRows /\ UNCHANGED paymentIdByEscrowId
         /\ escrows'[chosen[q]] # None
<1>1. PICK e \in Escrow : e = chosen[q]
  BY DEF IInv, QueriesHaveEscrows
<1>2. sourceEscrows[e] # None /\ sourceEscrows[e] \in Opened
  BY <1>1, Types DEF IInv, RegisteringAtMinimum
<1> DEFINE row == [allocated |-> sourceEscrows[e].milligons * MicrogonsPerMilligon,
                   remaining |-> sourceEscrows[e].milligons * MicrogonsPerMilligon,
                   expirationDate |-> sourceEscrows[e].expirationDate]
<1>3. escrows[e] = None /\ escrows' = [escrows EXCEPT ![e] = row] /\ UNCHANGED paymentIdByEscrowId
  BY <1>1 DEF CreateRow, CreateEscrow
<1>4. escrows'[e] = row /\ \A f \in Escrow \ {e} : escrows'[f] = escrows[f]
  BY <1>3, Types DEF Rows
<1>5. row \in EscrowRow
  <2>1. sourceEscrows[e].milligons * MicrogonsPerMilligon \in Nat
    BY <1>2, MicrogonsPerMilligonAssumption DEF Opened
  <2> QED
    BY <1>2, <2>1 DEF Opened, EscrowRow
<1>6. row # None
  BY <1>5, NoneAssumption
<1>7. LockedIn(sourceEscrows[e], row) /\ row.remaining = row.allocated
  BY <1>2 DEF LockedIn
<1> HIDE DEF row
<1>8. ASSUME NEW f \in Escrow
      PROVE  /\ sourceEscrows[f] # None => sourceEscrows'[f] = sourceEscrows[f]
             /\ escrows[f] # None => escrows'[f] = escrows[f]
             /\ escrows'[f] = escrows[f] \/ ( /\ LockedIn(sourceEscrows'[f], escrows'[f])
                                              /\ escrows'[f].remaining = escrows'[f].allocated )
  BY <1>3, <1>4, <1>7
<1> QED
  BY <1>1, <1>3, <1>4, <1>6, <1>8 DEF TurnRows

TurnTaken(q) ==
  \E e \in Escrow \cup {None}, list \in List, milligons \in Nat :
    \E label \in {"registering", "signing", "reserved", "failed"} :
      TurnStep(q, e, list, label, milligons)

LEMMA TurnTakenBy ==
  ASSUME NEW q \in Query, NEW e \in Escrow \cup {None}, NEW list \in List,
         NEW label \in {"registering", "signing", "reserved", "failed"},
         NEW milligons \in Nat, TurnStep(q, e, list, label, milligons)
  PROVE  TurnTaken(q)
BY DEF TurnTaken

LEMMA TakeOptionTurns ==
  ASSUME IInv, AccountsInv, NEW q \in Query, TakeOption(q)
  PROVE  TurnTaken(q)
<1>1. PICK list \in List : list = Kept
  BY KeptType
<1>2. PICK e \in Options(q) : /\ chosen' = [chosen EXCEPT ![q] = e]
                              /\ BeginCharge(q, e, list, openEscrows)
  BY <1>1 DEF TakeOption
<1>3. /\ e \in Escrow /\ list[e] # None /\ list[e] = balances[e]
      /\ TurnList(q, e, list)
  BY <1>1, <1>2, KeptTurns DEF Options
<1>4. /\ clientPc[q] = "queued" /\ queue = None
      /\ UNCHANGED <<sourceEscrows, file, recorded, forgotten, escrows, paymentIdByEscrowId,
                     nodePc, tally, now, faults>>
  BY DEF TakeOption, TurnOf, node, dbVars
<1>5. chosen[q] = None
  BY <1>4 DEF AccountsInv, QueryInv
<1>6. PICK label \in {"reserved", "signing", "failed"}, milligons \in Nat :
        /\ clientPc' = [clientPc EXCEPT ![q] = label]
        /\ TurnPayment(q, e, list, label, milligons)
        /\ label = "signing" => list[e].settledMilligons <= target'
  BY <1>2, <1>3, BeginChargeTurns
<1>7. TurnRows
  BY <1>4, RowsStay
<1>8. e # None => e \in Escrow /\ sourceEscrows'[e] # None
  BY <1>3, <1>4 DEF AccountsInv, EscrowsAreOpened, SameAsOpened
<1>9. TurnLabel(q, e, list, label)
  BY <1>4, <1>6 DEF TurnLabel
<1>10. TurnStep(q, e, list, label, milligons)
  BY <1>2, <1>3, <1>4, <1>5, <1>6, <1>7, <1>8, <1>9 DEF TurnStep
<1> QED
  BY <1>3, <1>10, TurnTakenBy

LEMMA OpenEscrowTurns ==
  ASSUME IInv, AccountsInv, NEW q \in Query, OpenEscrow(q)
  PROVE  TurnTaken(q)
<1> DEFINE opened == [milligons |-> EscrowMilligons(Price[q]), expirationDate |-> now + Lifetime]
<1>1. PICK list \in List : list = Kept
  BY KeptType
<1>2. PICK e \in Escrow : /\ sourceEscrows[e] = None
                          /\ sourceEscrows' = [sourceEscrows EXCEPT ![e] = opened]
                          /\ chosen' = [chosen EXCEPT ![q] = e]
  BY DEF OpenEscrow
<1>3. /\ clientPc[q] = "queued" /\ queue = None
      /\ clientPc' = [clientPc EXCEPT ![q] = "registering"]
      /\ balances' = list
      /\ UNCHANGED <<settlement, file, recorded, forgotten, escrows, paymentIdByEscrowId,
                     nodePc, tally, now, faults>>
  BY <1>1 DEF OpenEscrow, TurnOf, ClientGoto, storage, node, dbVars
<1>4. chosen[q] = None
  BY <1>3 DEF AccountsInv, QueryInv
<1>5. opened \in Opened
  BY PriceType, EscrowMilligonsType, BoundsAssumption, Types DEF Opened
<1> HIDE DEF opened
<1>6. /\ sourceEscrows'[e] # None
      /\ \A f \in Escrow \ {e} : sourceEscrows'[f] = sourceEscrows[f]
  BY <1>2, <1>5, Types, NoneIsNoEscrow
<1>7. TurnRows
  BY <1>2, <1>3, <1>6 DEF TurnRows
<1>8. TurnList(q, e, list)
  BY <1>1, KeptTurns
<1>9. TurnStep(q, e, list, "registering", 0)
  BY <1>2, <1>3, <1>4, <1>6, <1>7, <1>8 DEF TurnStep, TurnPayment, TurnLabel
<1> QED
  BY <1>9, TurnTakenBy

LEMMA FailToOpenTurns ==
  ASSUME IInv, AccountsInv, NEW q \in Query, FailToOpen(q)
  PROVE  TurnTaken(q)
<1>1. PICK list \in List : list = Kept
  BY KeptType
<1>2. /\ clientPc[q] = "queued" /\ queue = None
      /\ clientPc' = [clientPc EXCEPT ![q] = "failed"]
      /\ balances' = list
      /\ UNCHANGED <<sourceEscrows, chosen, settlement, file, recorded, forgotten, escrows,
                     paymentIdByEscrowId, nodePc, tally, now, faults>>
  BY <1>1 DEF FailToOpen, TurnOf, EndTurn, ClientGoto, storage, node, dbVars
<1>3. chosen[q] = None
  BY <1>2 DEF AccountsInv, QueryInv
<1>4. chosen' = [chosen EXCEPT ![q] = None]
  BY <1>2, <1>3, Types
<1>5. TurnRows
  BY <1>2, RowsStay
<1>6. TurnList(q, None, list)
  BY <1>1, KeptTurns
<1>7. TurnStep(q, None, list, "failed", 0)
  BY <1>2, <1>3, <1>4, <1>5, <1>6 DEF TurnStep, TurnPayment, TurnLabel
<1> QED
  BY <1>7, TurnTakenBy

LEMMA RegisterTurns ==
  ASSUME IInv, AccountsInv, NEW q \in Query, Register(q)
  PROVE  TurnTaken(q)
<1>1. /\ clientPc[q] = "registering" /\ CreateRow(q)
      /\ UNCHANGED <<sourceEscrows, chosen, file, recorded, forgotten, nodePc, tally, now,
                     faults>>
  BY DEF Register
<1>2. PICK e \in Escrow : e = chosen[q]
  BY <1>1 DEF IInv, QueriesHaveEscrows
<1>3. /\ sourceEscrows[e] # None /\ MinimumSettlement <= sourceEscrows[e].milligons
      /\ sourceEscrows[e] \in Opened
  BY <1>1, <1>2, Types DEF IInv, RegisteringAtMinimum
<1>4. NewBalance(sourceEscrows[e]) \in Balance
  BY <1>3, NewIsCovered
<1>5. PICK list \in List : list = [balances EXCEPT ![e] = NewBalance(sourceEscrows[e])]
  BY <1>4, Types DEF List
<1>6. /\ list[e] = NewBalance(sourceEscrows[e]) /\ list[e] # None
      /\ \A f \in Escrow \ {e} : list[f] = balances[f]
  BY <1>4, <1>5, Types, NoneIsNoEscrow DEF List
<1>7. BeginCharge(q, e, list, openEscrows \cup {e})
  BY <1>2, <1>5 DEF Register
<1>8. TurnRows /\ UNCHANGED paymentIdByEscrowId /\ escrows'[e] # None
  BY <1>1, <1>2, RowCreated
<1>9. queue \in {None, q}
  BY <1>1 DEF IInv, QueueMovesOn
<1>10. PICK label \in {"reserved", "signing", "failed"}, milligons \in Nat :
         /\ clientPc' = [clientPc EXCEPT ![q] = label]
         /\ TurnPayment(q, e, list, label, milligons)
         /\ label = "signing" => list[e].settledMilligons <= target'
  BY <1>6, <1>7, BeginChargeTurns
<1>11. TurnList(q, e, list)
  <2>1. /\ list[e].remaining = list[e].allocated
        /\ LockedIn(sourceEscrows'[e], list[e])
    BY <1>1, <1>3, <1>6 DEF NewBalance, LockedIn
  <2> QED
    BY <1>1, <1>6, <1>8, <2>1 DEF TurnList
<1>12. TurnLabel(q, e, list, label)
  BY <1>1, <1>10 DEF TurnLabel
<1>13. chosen' = [chosen EXCEPT ![q] = e]
  BY <1>1, <1>2, Types
<1>14. TurnStep(q, e, list, label, milligons)
  BY <1>1, <1>2, <1>3, <1>8, <1>9, <1>10, <1>11, <1>12, <1>13 DEF TurnStep
<1> QED
  BY <1>14, TurnTakenBy

LEMMA RegistrationLostTurns ==
  ASSUME IInv, AccountsInv, NEW q \in Query, RegistrationLost(q)
  PROVE  TurnTaken(q)
<1>1. /\ clientPc[q] = "registering" /\ (CreateRow(q) \/ UNCHANGED dbVars)
      /\ faults' # 0 /\ clientPc' = [clientPc EXCEPT ![q] = "failed"]
      /\ UNCHANGED <<sourceEscrows, balances, chosen, settlement, file, recorded, forgotten,
                     nodePc, tally, now>>
  BY Types DEF RegistrationLost, EndTurn, ClientGoto, storage
<1>2. PICK e \in Escrow : e = chosen[q] /\ sourceEscrows[e] # None
  BY DEF RegistrationLost, IInv, QueriesHaveEscrows, RegisteringAtMinimum
<1>3. TurnRows /\ UNCHANGED paymentIdByEscrowId
  <2>1. CASE CreateRow(q)
    BY <1>1, <2>1, RowCreated DEF RegistrationLost
  <2>2. CASE UNCHANGED dbVars
    BY <1>1, <2>2, RowsStay DEF dbVars
  <2> QED
    BY <1>1, <2>1, <2>2
<1>4. PICK list \in List : list = balances
  BY Types
<1>5. TurnList(q, e, list)
  BY <1>4 DEF TurnList
<1>6. clientPc[q] = "registering" /\ queue \in {None, q}
  BY DEF RegistrationLost, IInv, QueueMovesOn
<1>7. chosen' = [chosen EXCEPT ![q] = e]
  BY <1>1, <1>2, Types
<1>8. TurnStep(q, e, list, "failed", 0)
  BY <1>1, <1>2, <1>3, <1>4, <1>5, <1>6, <1>7 DEF TurnStep, TurnPayment, TurnLabel
<1> QED
  BY <1>8, TurnTakenBy

LEMMA SignTurns ==
  ASSUME IInv, AccountsInv, NEW q \in Query, Sign(q) \/ SignFails(q)
  PROVE  TurnTaken(q)
<1>1. /\ clientPc[q] = "signing"
      /\ UNCHANGED <<sourceEscrows, chosen, file, recorded, forgotten, escrows,
                     paymentIdByEscrowId, nodePc, tally, now>>
      /\ faults' = faults \/ faults' # 0
  BY Types DEF Sign, SignFails, storage, node, dbVars
<1>2. PICK e \in Escrow : e = chosen[q]
  BY <1>1 DEF IInv, QueriesHaveEscrows
<1>3. PICK list \in List : list = balances
  BY Types
<1>4. list[e] # None /\ Signable(list[e], Price[q], target) /\ target \in Nat
  BY <1>1, <1>2, <1>3, Types DEF IInv, SigningIsCovered
<1>5. TurnList(q, e, list) /\ TurnRows /\ queue \in {None, q}
  BY <1>1, <1>3, RowsStay DEF TurnList, IInv, QueueMovesOn
<1>6. chosen' = [chosen EXCEPT ![q] = e]
  BY <1>1, <1>2, Types
<1>7. e # None => e \in Escrow /\ sourceEscrows'[e] # None
  BY <1>1, <1>3, <1>4 DEF AccountsInv, EscrowsAreOpened, SameAsOpened
<1>8. CASE SignFails(q)
  <2>1. /\ clientPc' = [clientPc EXCEPT ![q] = "failed"]
        /\ balances' = list /\ settlement' = settlement
    BY <1>3, <1>8 DEF SignFails, EndTurn, ClientGoto
  <2>2. TurnStep(q, e, list, "failed", 0)
    BY <1>1, <1>2, <1>5, <1>6, <1>7, <2>1 DEF TurnStep, TurnPayment, TurnLabel
  <2> QED
    BY <2>2, TurnTakenBy
<1>9. CASE Sign(q)
  <2>1. /\ clientPc' = [clientPc EXCEPT ![q] = "reserved"]
        /\ balances' = [list EXCEPT ![e] = Charged(list[e], Price[q], target)]
        /\ settlement' = PaymentsOf(q, e, target) /\ faults' = faults
    BY <1>2, <1>3, <1>9 DEF Sign, Charge, EndTurn, ClientGoto
  <2>2. Price[q] <= list[e].remaining
    <3> DEFINE signed == target * MicrogonsPerMilligon
    <3>1. /\ list[e] \in Balance /\ Price[q] \in Nat /\ signed \in Nat
      BY <1>4, PriceType, MicrogonsPerMilligonAssumption DEF List
    <3>2. /\ list[e].allocated - list[e].remaining + Price[q] <= signed
          /\ signed <= list[e].allocated
      BY <1>4 DEF Signable, CoveredBy, CanRelease
    <3> HIDE DEF signed
    <3> QED
      BY <3>1, <3>2 DEF Balance
  <2>3. faults' = 0 => list[e].settledMilligons <= target
    BY <1>1, <1>2, <1>3, <1>4, <2>1, NoneIsNoEscrow DEF AccountsInv, SettledForAll
  <2>4. TurnPayment(q, e, list, "reserved", target)
    BY <1>4, <2>1, <2>2, <2>3 DEF TurnPayment
  <2>5. TurnStep(q, e, list, "reserved", target)
    BY <1>1, <1>2, <1>5, <1>6, <1>7, <2>1, <2>4 DEF TurnStep, TurnLabel
  <2> QED
    BY <1>4, <2>5, TurnTakenBy
<1> QED
  BY <1>8, <1>9

LEMMA TurnsAreTaken ==
  ASSUME IInv, AccountsInv, NEW q \in Query,
         Turn(q) \/ Register(q) \/ Sign(q) \/ SignFails(q) \/ RegistrationLost(q)
  PROVE  TurnTaken(q)
BY TakeOptionTurns, OpenEscrowTurns, FailToOpenTurns, RegisterTurns, RegistrationLostTurns,
   SignTurns DEF Turn

LEMMA TurnTakenAccounts ==
  ASSUME IInv, IInv', AccountsInv, NEW q \in Query, TurnTaken(q)
  PROVE  AccountsInv'
<1>1. PICK e \in Escrow \cup {None}, list \in List, milligons \in Nat,
           label \in {"registering", "signing", "reserved", "failed"} :
        TurnStep(q, e, list, label, milligons)
  BY DEF TurnTaken
<1> QED
  BY <1>1, TurnAccounts

-----------------------------------------------------------------------------
(* The accounts hold *)

LEMMA InitAccounts == Init => AccountsInv
<1> SUFFICES ASSUME Init PROVE AccountsInv
  OBVIOUS
<1>1. /\ \A e \in Escrow : balances[e] = None /\ file[e] = None /\ escrows[e] = None
      /\ \A q \in Query : /\ clientPc[q] = "idle" /\ chosen[q] = None /\ settlement[q] = 0
                            /\ nodePc[q] = "none"
      /\ recorded = {} /\ forgotten = {} /\ Reserved = {}
      /\ \A e \in Escrow, q \in Query : ~AlreadyDebited(e, q)
  BY DEF Init, DbInit, Query, Reserved, AlreadyDebited
<1>2. CostsAreBooked
  BY <1>1 DEF CostsAreBooked
<1>3. EscrowsAreOpened
  BY <1>1 DEF EscrowsAreOpened, Pays
<1>4. \A q \in Query : QueryInv(q)
  BY <1>1 DEF QueryInv
<1>5. SettledForAll
  BY <1>1 DEF SettledForAll
<1> QED
  BY <1>2, <1>3, <1>4, <1>5 DEF AccountsInv

LEMMA NextAccounts ==
  ASSUME IInv, IInv', AccountsInv, [Next]_vars
  PROVE  AccountsInv'
<1>1. ASSUME NEW q \in Query, Turn(q) \/ Register(q) \/ Sign(q) \/ SignFails(q)
                                 \/ RegistrationLost(q)
      PROVE  AccountsInv'
  BY <1>1, TurnsAreTaken, TurnTakenAccounts
<1>2. ASSUME NEW q \in Query, Submit(q) \/ Send(q)
      PROVE  AccountsInv'
  BY <1>2, SubmitAccounts, SendAccounts
<1>3. ASSUME NEW q \in Query, Answer(q) \/ ErrorAnswer(q) \/ ConnectionLost(q)
      PROVE  AccountsInv'
  BY <1>3, AnswerAccounts
<1>4. ASSUME NEW q \in Query, Handle(q)
      PROVE  AccountsInv'
  BY <1>4, HandleAccounts
<1>5. CASE Save \/ PayerRestart \/ CleanupEscrows \/ NodeRestart \/ Tick
  BY <1>5, SaveAccounts, PayerRestartAccounts, NodeEnvironmentAccounts
<1>6. CASE UNCHANGED vars
  BY <1>6, StutterAccounts
<1> QED
  BY <1>1, <1>2, <1>3, <1>4, <1>5, <1>6 DEF Next, Client

LEMMA AccountsHold == Spec => [](IInv /\ AccountsInv)
<1>1. Init => IInv /\ AccountsInv
  BY InitInv, InitAccounts
<1>2. IInv /\ AccountsInv /\ [Next]_vars => (IInv /\ AccountsInv)'
  BY NextInv, NextAccounts
<1> QED
  BY <1>1, <1>2, PTL DEF Spec

-----------------------------------------------------------------------------
(* What the payer may spend *)

\* The payer counts what the datastore does, but for the disputed queries.
LEMMA PayerCounts ==
  ASSUME IInv, AccountsInv, NEW e \in Escrow, NEW q \in Query \ Disputed(e)
  PROVE  NodeCosts(e)[q] <= PayerCosts(e)[q]
<1>1. CASE chosen[q] = e
  <2>1. q \notin forgotten /\ clientPc[q] # "gaveUp" /\ QueryInv(q)
    BY <1>1 DEF Disputed, AccountsInv
  <2>2. /\ nodePc[q] = "none" \/ clientPc[q] \in {"waiting", "done", "threw", "lost"}
        /\ clientPc[q] = "done" => nodePc[q] = "answered"
    BY <2>1 DEF QueryInv
  <2>3. /\ NodeCost(q) \in Nat /\ NodeCost(q) <= Price[q] /\ PayerCost(q) \in Nat
        /\ Price[q] \in Nat /\ tally[q] \in Nat
    BY CostTypes, PriceType, Types
  <2>4. NodeCost(q) = 0 \/ PayerCost(q) = Price[q] \/ NodeCost(q) = PayerCost(q)
    BY <2>1, <2>2 DEF NodeCost, PayerCost
  <2>5. NodeCost(q) <= PayerCost(q)
    BY <2>3, <2>4
  <2> QED
    BY <1>1, <2>5 DEF NodeCosts, PayerCosts
<1>2. CASE chosen[q] # e
  BY <1>2 DEF NodeCosts, PayerCosts
<1> QED
  BY <1>1, <1>2

LEMMA PayerCountsTotal ==
  ASSUME IInv, AccountsInv, NEW e \in Escrow
  PROVE  /\ Total(NodeCosts(e)) <= Total(PayerCosts(e)) + SumFunctionOnSet(Price, Disputed(e))
         /\ SumFunctionOnSet(Price, Disputed(e)) \in Nat
<1> DEFINE D == Disputed(e)
           rest == Query \ D
           f == NodeCosts(e)
           g == PayerCosts(e)
<1>1. /\ D \subseteq Query /\ rest \subseteq Query /\ D \cap rest = {} /\ D \cup rest = Query
  BY DEF Disputed
<1>2. IsFiniteSet(Query) /\ IsFiniteSet(D) /\ IsFiniteSet(rest)
  BY <1>1, QueriesAssumption, FS_Subset
<1>3. /\ f \in [Query -> Nat] /\ g \in [Query -> Nat]
      /\ \A q \in Query : Price[q] \in Nat /\ f[q] <= Price[q]
      /\ \A q \in rest : f[q] <= g[q]
  <2>1. f \in [Query -> Nat] /\ g \in [Query -> Nat]
    BY CostTypes
  <2>2. ASSUME NEW q \in Query PROVE Price[q] \in Nat /\ f[q] <= Price[q]
    <3>1. Price[q] \in Nat /\ NodeCost(q) \in 0 .. Price[q]
      BY CostTypes, PriceType
    <3>2. f[q] = NodeCost(q) \/ f[q] = 0
      BY DEF NodeCosts
    <3> HIDE DEF f
    <3> QED
      BY <3>1, <3>2
  <2>3. \A q \in rest : f[q] <= g[q]
    BY PayerCounts
  <2> QED
    BY <2>1, <2>2, <2>3
<1> HIDE DEF D, rest, f, g
<1>4. SumFunctionOnSet(f, Query) = SumFunctionOnSet(f, D) + SumFunctionOnSet(f, rest)
  BY <1>1, <1>2, <1>3, SumOfUnion
<1>5. SumFunctionOnSet(f, D) <= SumFunctionOnSet(Price, D)
  BY <1>1, <1>2, <1>3, SumMonotone
<1>6. SumFunctionOnSet(f, rest) <= SumFunctionOnSet(g, Query)
  BY <1>1, <1>2, <1>3, SumMonotone
<1>7. /\ SumFunctionOnSet(f, D) \in Nat /\ SumFunctionOnSet(f, rest) \in Nat
      /\ SumFunctionOnSet(Price, D) \in Nat /\ SumFunctionOnSet(g, Query) \in Nat
  BY <1>1, <1>2, <1>3, SumType
<1>8. Total(f) <= Total(g) + SumFunctionOnSet(Price, D)
  BY <1>4, <1>5, <1>6, <1>7 DEF Total
<1> QED
  BY <1>7, <1>8 DEF D, f, g

\* What an escrow that the payer knows of has at the datastore, before it expires.
LEMMA RowOfEscrow ==
  ASSUME IInv, AccountsInv, NEW e \in Escrow, Pays(e), sourceEscrows[e].expirationDate >= now
  PROVE  /\ sourceEscrows[e] \in Opened /\ escrows[e] # None /\ escrows[e] \in EscrowRow
         /\ escrows[e].allocated = sourceEscrows[e].milligons * MicrogonsPerMilligon
         /\ escrows[e].expirationDate = sourceEscrows[e].expirationDate
         /\ escrows[e].allocated <= escrows[e].remaining + Total(NodeCosts(e))
<1>1. sourceEscrows[e] # None
  BY DEF Pays, SameAsOpened, AccountsInv, EscrowsAreOpened, QueryInv, Reserved
<1>2. sourceEscrows[e] \in Opened /\ sourceEscrows[e].expirationDate \in Nat /\ now \in Nat
  BY <1>1, Types DEF Opened
<1>3. escrows[e] # None
  BY <1>2 DEF AccountsInv, EscrowsAreOpened
<1>4. SameAsOpened(e, escrows[e])
  BY <1>3 DEF AccountsInv, EscrowsAreOpened
<1>5. escrows[e] \in EscrowRow
  BY <1>3, Types DEF Rows
<1>6. escrows[e].allocated <= escrows[e].remaining + Total(NodeCosts(e))
  BY <1>3 DEF AccountsInv, CostsAreBooked
<1> QED
  BY <1>2, <1>3, <1>4, <1>5, <1>6 DEF SameAsOpened

LEMMA AccountsBack ==
  ASSUME IInv, AccountsInv
  PROVE  PayerBalanceIsBacked
<1> SUFFICES ASSUME NEW e \in Escrow, balances[e] # None, balances[e].expirationDate >= now
             PROVE  /\ escrows[e] # None
                    /\ balances[e].remaining
                         <= escrows[e].remaining + SumFunctionOnSet(Price, Disputed(e))
  BY DEF PayerBalanceIsBacked
<1>1. SameAsOpened(e, balances[e]) /\ Pays(e)
  BY DEF AccountsInv, EscrowsAreOpened, Pays
<1>2. /\ escrows[e] # None /\ escrows[e] \in EscrowRow
      /\ escrows[e].allocated = balances[e].allocated
      /\ escrows[e].allocated <= escrows[e].remaining + Total(NodeCosts(e))
  BY <1>1, RowOfEscrow DEF SameAsOpened
<1>3. /\ balances[e] \in Balance
      /\ balances[e].remaining + Total(PayerCosts(e)) <= balances[e].allocated
  BY Types DEF List, AccountsInv, CostsAreBooked
<1>4. /\ Total(NodeCosts(e)) <= Total(PayerCosts(e)) + SumFunctionOnSet(Price, Disputed(e))
      /\ SumFunctionOnSet(Price, Disputed(e)) \in Nat
      /\ Total(NodeCosts(e)) \in Nat /\ Total(PayerCosts(e)) \in Nat
  BY PayerCountsTotal, CostTypes, TotalType
<1>5. balances[e].remaining <= escrows[e].remaining + SumFunctionOnSet(Price, Disputed(e))
  BY <1>2, <1>3, <1>4 DEF Balance, EscrowRow
<1> QED
  BY <1>2, <1>5

\* ArgonReserver and DatastoreEscrowsDb: of an escrow that has not expired, the payer
\* never believes it may spend more than the datastore has for it, but for the
\* prices of the queries it gave up or forgot, after any losses and restarts.
THEOREM PayerBalanceAlwaysBacked == Spec => []PayerBalanceIsBacked
<1>1. IInv /\ AccountsInv => PayerBalanceIsBacked
  BY AccountsBack
<1> QED
  BY <1>1, AccountsHold, PTL

-----------------------------------------------------------------------------
(* Why the datastore refuses *)

\* The payments of an escrow stay with it, and are only settled for more; those that
\* were sent stay as they are.
PaymentsGrow ==
  \A p \in Query :
    /\ chosen[p] # None => chosen'[p] = chosen[p] /\ settlement[p] <= settlement'[p]
    /\ nodePc[p] # "none" => settlement'[p] = settlement[p]
    /\ clientPc[p] = "gaveUp" => clientPc'[p] = "gaveUp"

EscrowsAge ==
  /\ \A e \in Escrow : sourceEscrows[e] # None => sourceEscrows'[e] = sourceEscrows[e]
  /\ now <= now'

LEMMA TurnsGrow ==
  ASSUME IInv, AccountsInv, faults = 0, faults' = 0, NEW q \in Query, TurnTaken(q)
  PROVE  PaymentsGrow /\ EscrowsAge /\ UNCHANGED nodePc
<1>1. PICK e \in Escrow \cup {None}, list \in List, milligons \in Nat,
           label \in {"registering", "signing", "reserved", "failed"} :
        TurnStep(q, e, list, label, milligons)
  BY DEF TurnTaken
<1>2. /\ UNCHANGED <<nodePc, now>> /\ TurnRows /\ chosen[q] \in {None, e}
      /\ TurnPayment(q, e, list, label, milligons)
      /\ clientPc[q] \in {"queued", "registering", "signing"}
      /\ nodePc[q] = "none"
  BY <1>1, TurnOfQuery DEF TurnStep
<1>3. /\ clientPc'[q] = label /\ chosen'[q] = e
      /\ \A p \in Query \ {q} : clientPc'[p] = clientPc[p] /\ chosen'[p] = chosen[p]
  BY <1>1, TurnClients
<1>4. settlement \in [Query -> Nat] /\ now \in Nat
  BY Types
<1>5. \A p \in Query : QueryInv(p)
  BY DEF AccountsInv
<1>6. EscrowsAge
  BY <1>2, <1>4 DEF EscrowsAge, TurnRows
<1>7. ASSUME NEW p \in Query, chosen[p] # None
      PROVE  settlement[p] <= settlement'[p]
  <2>1. CASE settlement'[p] = settlement[p]
    BY <1>4, <2>1
  <2>2. CASE settlement'[p] # settlement[p]
    <3>1. /\ label = "reserved" /\ e \in Escrow /\ list[e] # None
          /\ list[e].settledMilligons <= milligons
          /\ settlement' = PaymentsOf(q, e, milligons)
      BY <1>2, <2>2 DEF TurnPayment
    <3>2. settlement'[p] = milligons /\ (p = q \/ (clientPc[p] = "reserved" /\ chosen[p] = e))
      BY <2>2, <3>1 DEF PaymentsOf
    <3>3. chosen[p] = e
      BY <1>2, <1>7, <3>2
    <3>4. list[e].settledMilligons \in Nat
      BY <3>1 DEF List, Balance
    <3>5. settlement[p] = 0 \/ settlement[p] <= list[e].settledMilligons
      <4>1. CASE list[e] = balances[e]
        BY <1>7, <3>1, <3>3, <4>1 DEF AccountsInv, SettledForAll
      <4>2. CASE list[e] # balances[e]
        <5>1. settlement[q] = 0 /\ \A r \in Query \ {q} : chosen[r] # e
          BY <1>1, <3>1, <4>2, TurnListNew
        <5> QED
          BY <3>3, <5>1
      <4> QED
        BY <4>1, <4>2
    <3> QED
      BY <1>4, <3>1, <3>2, <3>4, <3>5
  <2> QED
    BY <2>1, <2>2
<1>8. ASSUME NEW p \in Query, chosen[p] # None
      PROVE  chosen'[p] = chosen[p]
  BY <1>2, <1>3, <1>8
<1>9. ASSUME NEW p \in Query, nodePc[p] # "none"
      PROVE  settlement'[p] = settlement[p]
  <2>1. p # q /\ clientPc[p] # "reserved"
    BY <1>2, <1>5, <1>9 DEF QueryInv
  <2> QED
    BY <1>2, <2>1 DEF TurnPayment, PaymentsOf
<1>10. \A p \in Query : clientPc[p] = "gaveUp" => clientPc'[p] = "gaveUp"
  BY <1>2, <1>3
<1> QED
  BY <1>2, <1>6, <1>7, <1>8, <1>9, <1>10 DEF PaymentsGrow

\* The other steps leave the payments alone.
LEMMA StepsGrow ==
  ASSUME IInv, AccountsInv, faults = 0, faults' = 0, [Next]_vars
  PROVE  /\ PaymentsGrow /\ EscrowsAge
         /\ \A q \in Query : nodePc'[q] = "finalizeRejected" =>
              nodePc[q] = "finalizeRejected" \/ FailDebit(q)
<1>1. /\ settlement \in [Query -> Nat] /\ now \in Nat /\ clientPc \in [Query -> ClientPc]
      /\ nodePc \in [Query -> NodePc]
  BY Types
<1> DEFINE Refused == \A q \in Query : nodePc'[q] = "finalizeRejected" =>
                         nodePc[q] = "finalizeRejected" \/ FailDebit(q)
<1>2. ASSUME UNCHANGED <<sourceEscrows, chosen, settlement>>, now <= now',
             \A p \in Query : clientPc[p] = "gaveUp" => clientPc'[p] = "gaveUp"
      PROVE  PaymentsGrow /\ EscrowsAge
  BY <1>1, <1>2 DEF PaymentsGrow, EscrowsAge
<1>3. ASSUME NEW q \in Query, Turn(q) \/ Register(q) \/ Sign(q) \/ SignFails(q)
                                 \/ RegistrationLost(q)
      PROVE  PaymentsGrow /\ EscrowsAge /\ Refused
  <2>1. TurnTaken(q)
    BY <1>3, TurnsAreTaken
  <2> QED
    BY <2>1, TurnsGrow
<1>4. ASSUME NEW q \in Query, Submit(q) \/ Send(q)
      PROVE  PaymentsGrow /\ EscrowsAge /\ Refused
  <2>1. /\ UNCHANGED <<sourceEscrows, chosen, settlement, now>>
        /\ clientPc[q] # "gaveUp"
        /\ \E label \in ClientPc : clientPc' = [clientPc EXCEPT ![q] = label]
        /\ nodePc' = nodePc \/ nodePc' = [nodePc EXCEPT ![q] = "debit"]
    BY <1>4 DEF Submit, Send, ClientGoto, node, ClientPc
  <2>2. \A p \in Query : clientPc[p] = "gaveUp" => clientPc'[p] = "gaveUp"
    BY <1>1, <2>1
  <2>3. Refused
    BY <1>1, <2>1
  <2> QED
    BY <1>1, <1>2, <2>1, <2>2, <2>3
<1>5. ASSUME NEW q \in Query, Answer(q) \/ ErrorAnswer(q) \/ ConnectionLost(q)
      PROVE  PaymentsGrow /\ EscrowsAge /\ Refused
  <2>1. /\ UNCHANGED <<sourceEscrows, chosen, settlement, now>>
        /\ clientPc[q] = "waiting"
        /\ \E label : clientPc' = [clientPc EXCEPT ![q] = label]
        /\ nodePc' = nodePc \/ nodePc' = [nodePc EXCEPT ![q] = "gone"]
    BY <1>5 DEF Answer, ErrorAnswer, ConnectionLost, Finalize, CallbackThrows,
                ClientGoto
  <2>2. \A p \in Query : clientPc[p] = "gaveUp" => clientPc'[p] = "gaveUp"
    BY <1>1, <2>1
  <2>3. Refused
    BY <1>1, <2>1
  <2> QED
    BY <1>1, <1>2, <2>1, <2>2, <2>3
<1>6. ASSUME NEW q \in Query, Handle(q)
      PROVE  PaymentsGrow /\ EscrowsAge /\ Refused
  <2>1. UNCHANGED <<sourceEscrows, chosen, settlement, clientPc, now>>
    BY <1>6 DEF Handle, AcceptDebit, FailDebit, RunQuery, NodeFinalize, NodeFinalizeThrows, payer
  <2>2. \/ FailDebit(q) /\ nodePc' = [nodePc EXCEPT ![q] = "finalizeRejected"]
        \/ \E label : /\ label # "finalizeRejected"
                      /\ nodePc' = [nodePc EXCEPT ![q] = label]
    BY <1>6 DEF Handle, AcceptDebit, FailDebit, RunQuery, NodeFinalize, NodeFinalizeThrows,
                NodeGoto
  <2>3. Refused
    BY <1>1, <2>2
  <2> QED
    BY <1>1, <1>2, <2>1, <2>3
<1>7. CASE Save \/ CleanupEscrows \/ NodeRestart \/ Tick \/ PayerRestart \/ UNCHANGED vars
  <2>1. ~PayerRestart /\ ~NodeRestart
    BY Types DEF PayerRestart, NodeRestart
  <2>2. /\ UNCHANGED <<sourceEscrows, chosen, settlement, clientPc, nodePc>>
        /\ now' \in {now, now + 1}
    BY <1>7, <2>1 DEF Save, CleanupEscrows, Tick, vars, payer, node
  <2>3. now <= now'
    BY <1>1, <2>2
  <2> QED
    BY <1>2, <2>2, <2>3
<1> QED
  BY <1>3, <1>4, <1>5, <1>6, <1>7 DEF Next, Client

\* A payment that is not overtaken is debited, while nothing is lost.
LEMMA DebitFailsOvertaken ==
  ASSUME IInv, AccountsInv, faults = 0, NEW q \in Query, FailDebit(q)
  PROVE  \/ \E p \in Query :
              chosen[p] = chosen[q] /\ (settlement[p] > settlement[q] \/ clientPc[p] = "gaveUp")
         \/ sourceEscrows[chosen[q]].expirationDate < now
<1>1. /\ nodePc[q] = "debit"
      /\ ~CanDebit(chosen[q], Price[q], settlement[q])
  BY DEF FailDebit, DebitFailed
<1>2. PICK e \in Escrow : e = chosen[q]
  BY <1>1 DEF IInv, QueriesHaveEscrows
<1> SUFFICES ASSUME \A p \in Query : chosen[p] = e =>
                      ~(settlement[p] > settlement[q]) /\ clientPc[p] # "gaveUp",
                    ~(sourceEscrows[e].expirationDate < now)
             PROVE  FALSE
  BY <1>2
<1>3. clientPc[q] = "waiting" /\ forgotten = {} /\ q \in Reserved
  BY <1>1 DEF AccountsInv, SettledForAll, Reserved
<1>4. Pays(e) /\ sourceEscrows[e] # None
  BY <1>2, <1>3, NoneIsNoEscrow DEF Pays, AccountsInv, QueryInv
<1>5. sourceEscrows[e].expirationDate >= now /\ now \in Nat
  BY <1>4, Types DEF Opened
<1>6. /\ escrows[e] # None /\ escrows[e] \in EscrowRow
      /\ escrows[e].allocated = sourceEscrows[e].milligons * MicrogonsPerMilligon
      /\ escrows[e].expirationDate = sourceEscrows[e].expirationDate
      /\ escrows[e].allocated <= escrows[e].remaining + Total(NodeCosts(e))
      /\ sourceEscrows[e] \in Opened
  BY <1>4, <1>5, RowOfEscrow
<1>7. PICK p \in Query :
        /\ chosen[p] = e
        /\ Total(PayerCosts(e)) <= settlement[p] * MicrogonsPerMilligon
        /\ settlement[p] <= sourceEscrows[e].milligons
  BY <1>2, <1>3 DEF AccountsInv, SettledForAll
<1>8. /\ settlement[p] \in Nat /\ settlement[q] \in Nat /\ settlement[p] <= settlement[q]
      /\ sourceEscrows[e].milligons \in Nat
  BY <1>6, <1>7, Types DEF Opened
<1> DEFINE k == MicrogonsPerMilligon
           signed == settlement[p] * k
           sent == settlement[q] * k
           locked == sourceEscrows[e].milligons * k
<1>9. signed <= sent /\ signed <= locked /\ signed \in Nat /\ sent \in Nat /\ locked \in Nat
  <2>1. k \in Nat
    BY MicrogonsPerMilligonAssumption
  <2>2. \A a \in Nat, b \in Nat : a <= b => a * k <= b * k /\ a * k \in Nat /\ b * k \in Nat
    BY <2>1, SMTT(30)
  <2> HIDE DEF k
  <2> QED
    BY <1>7, <1>8, <2>2
<1>10. Total(NodeCosts(e)) + Price[q] <= Total(PayerCosts(e))
  <2> DEFINE g == [NodeCosts(e) EXCEPT ![q] = Price[q]]
  <2>1. /\ NodeCosts(e) \in [Query -> Nat] /\ PayerCosts(e) \in [Query -> Nat]
        /\ Price[q] \in Nat
    BY CostTypes, PriceType
  <2>2. g \in [Query -> Nat] /\ g[q] = Price[q] /\ \A r \in Query \ {q} : g[r] = NodeCosts(e)[r]
    BY <2>1
  <2>3. NodeCosts(e)[q] = 0 /\ PayerCosts(e)[q] = Price[q]
    BY <1>1, <1>2, <1>3 DEF NodeCosts, PayerCosts, NodeCost, PayerCost
  <2>4. \A r \in Query \ {q} : NodeCosts(e)[r] <= PayerCosts(e)[r]
    <3> SUFFICES ASSUME NEW r \in Query \ {q} PROVE NodeCosts(e)[r] <= PayerCosts(e)[r]
      OBVIOUS
    <3>1. r \notin Disputed(e)
      BY <1>3 DEF Disputed
    <3> QED
      BY <3>1, PayerCounts
  <2> HIDE DEF g
  <2>5. \A r \in Query : g[r] <= PayerCosts(e)[r]
    <3> SUFFICES ASSUME NEW r \in Query PROVE g[r] <= PayerCosts(e)[r]
      OBVIOUS
    <3>1. CASE r = q
      BY <2>1, <2>2, <2>3, <3>1
    <3>2. CASE r # q
      BY <2>2, <2>4, <3>2
    <3> QED
      BY <3>1, <3>2
  <2>6. Total(g) <= Total(PayerCosts(e))
    BY <2>1, <2>2, <2>5, TotalGrows
  <2>7. Total(g) = Total(NodeCosts(e)) + g[q] - NodeCosts(e)[q]
    BY <2>1, <2>2, TotalChanges
  <2>8. Total(NodeCosts(e)) \in Nat
    BY <2>1, TotalType
  <2> QED
    BY <2>1, <2>2, <2>3, <2>6, <2>7, <2>8
<1>11. Total(NodeCosts(e)) \in Nat /\ Total(PayerCosts(e)) \in Nat /\ Price[q] \in Nat
  BY CostTypes, TotalType, PriceType
<1>12. /\ Total(PayerCosts(e)) <= signed /\ escrows[e].allocated = locked
  BY <1>6, <1>7
<1> HIDE DEF signed, sent, locked
<1>13. /\ Price[q] <= escrows[e].remaining
       /\ escrows[e].allocated - escrows[e].remaining + Price[q] <= sent
  BY <1>6, <1>9, <1>10, <1>11, <1>12 DEF EscrowRow
<1>14. now <= escrows[e].expirationDate
  BY <1>5, <1>6 DEF EscrowRow
<1>15. CanDebit(e, Price[q], settlement[q])
  BY <1>6, <1>13, <1>14 DEF CanDebit, CoveredBy, Spent, sent
<1> QED
  BY <1>1, <1>2, <1>15

\* A failure is counted for good.
LEMMA FaultsStay ==
  ASSUME IInv, [Next]_vars, faults' = 0
  PROVE  faults = 0
<1>1. faults \in Nat
  BY Types
<1>2. ASSUME NEW q \in Query, Turn(q) PROVE faults' = faults
  BY <1>2 DEF Turn, TakeOption, OpenEscrow, FailToOpen
<1>3. ASSUME NEW q \in Query, Submit(q) \/ Client(q) PROVE faults' = faults
  BY <1>3 DEF Submit, Client, Register, Sign, Send, Answer, ErrorAnswer
<1>4. ASSUME NEW q \in Query, Handle(q) PROVE faults' = faults
  BY <1>4 DEF Handle, AcceptDebit, FailDebit, RunQuery, NodeFinalize, NodeFinalizeThrows
<1>5. ASSUME NEW q \in Query, RegistrationLost(q) \/ SignFails(q) \/ ConnectionLost(q)
      PROVE  faults' = faults + 1
  BY <1>5 DEF RegistrationLost, SignFails, ConnectionLost
<1>6. CASE PayerRestart \/ NodeRestart
  <2>1. faults' = faults + 1
    BY <1>6 DEF PayerRestart, NodeRestart
  <2> QED
    BY <1>1, <2>1
<1>7. CASE Save \/ CleanupEscrows \/ Tick
  BY <1>7 DEF Save, CleanupEscrows, Tick
<1>8. CASE UNCHANGED vars
  BY <1>8 DEF vars
<1> QED
  BY <1>1, <1>2, <1>3, <1>4, <1>5, <1>6, <1>7, <1>8 DEF Next

LEMMA NextRefused ==
  ASSUME IInv, IInv', AccountsInv, RefusedIsOvertaken, [Next]_vars
  PROVE  RefusedIsOvertaken'
<1> SUFFICES ASSUME faults' = 0, NEW q \in Query, nodePc'[q] = "finalizeRejected"
             PROVE  \/ \E p \in Query : /\ chosen'[p] = chosen'[q]
                                        /\ settlement'[p] > settlement'[q] \/ clientPc'[p] = "gaveUp"
                    \/ sourceEscrows'[chosen'[q]].expirationDate < now'
  BY DEF RefusedIsOvertaken
<1>1. faults = 0
  BY FaultsStay
<1>2. /\ PaymentsGrow /\ EscrowsAge
      /\ nodePc[q] = "finalizeRejected" \/ FailDebit(q)
  BY <1>1, StepsGrow
<1>3. nodePc[q] # "none"
  BY <1>2 DEF FailDebit
<1>4. chosen[q] \in Escrow /\ chosen[q] # None /\ sourceEscrows[chosen[q]] # None
  <2>1. chosen[q] \in Escrow
    BY <1>3 DEF IInv, QueriesHaveEscrows
  <2> QED
    BY <2>1, NoneIsNoEscrow DEF AccountsInv, QueryInv
<1>5. \/ \E p \in Query :
           chosen[p] = chosen[q] /\ (settlement[p] > settlement[q] \/ clientPc[p] = "gaveUp")
      \/ sourceEscrows[chosen[q]].expirationDate < now
  BY <1>1, <1>2, DebitFailsOvertaken DEF RefusedIsOvertaken
<1>6. /\ chosen'[q] = chosen[q] /\ settlement'[q] = settlement[q]
      /\ sourceEscrows'[chosen[q]] = sourceEscrows[chosen[q]]
  BY <1>2, <1>3, <1>4 DEF PaymentsGrow, EscrowsAge
<1>7. CASE sourceEscrows[chosen[q]].expirationDate < now
  <2>1. sourceEscrows[chosen[q]].expirationDate \in Nat /\ now \in Nat /\ now' \in Nat
    BY <1>4, Types DEF Opened, IInv, TypeOK, DbTypeOK
  <2>2. now <= now'
    BY <1>2 DEF EscrowsAge
  <2> QED
    BY <1>6, <1>7, <2>1, <2>2
<1>8. ASSUME NEW p \in Query, chosen[p] = chosen[q],
             settlement[p] > settlement[q] \/ clientPc[p] = "gaveUp"
      PROVE  /\ chosen'[p] = chosen'[q]
             /\ settlement'[p] > settlement'[q] \/ clientPc'[p] = "gaveUp"
  <2>1. /\ chosen'[p] = chosen[p] /\ settlement[p] <= settlement'[p]
        /\ clientPc[p] = "gaveUp" => clientPc'[p] = "gaveUp"
    BY <1>2, <1>4, <1>8 DEF PaymentsGrow
  <2>2. settlement[p] \in Nat /\ settlement[q] \in Nat /\ settlement'[p] \in Nat
    BY Types DEF IInv, TypeOK
  <2> QED
    BY <1>6, <1>8, <2>1, <2>2
<1> QED
  BY <1>5, <1>7, <1>8

\* DatastoreEscrowsDb.debit and ArgonReserver: while nothing is lost, the datastore
\* refuses a payment that the payer reserved only if another payment of the escrow was
\* settled for more, or was given up, or the escrow expired.
THEOREM RefusedAlwaysOvertaken == Spec => []RefusedIsOvertaken
<1>1. Init => RefusedIsOvertaken
  BY DEF Init, RefusedIsOvertaken
<1>2. /\ IInv /\ IInv' /\ AccountsInv /\ RefusedIsOvertaken /\ [Next]_vars
      => RefusedIsOvertaken'
  BY NextRefused
<1> QED
  BY <1>1, <1>2, AccountsHold, PTL DEF Spec

-----------------------------------------------------------------------------
(* Payer and datastore implement the ledger: amounts *)

LEMMA InitAmounts == Init => AmountsInv
BY DEF Init, DbInit, AmountsInv, LockedForQueries, SettledWithin, RowsWithin

\* The steps that lock and settle nothing, and make no row.
LEMMA AmountsKept ==
  ASSUME IInv, AmountsInv, UNCHANGED <<sourceEscrows, chosen, settlement>>,
         \A q \in Query : clientPc'[q] = "registering" => clientPc[q] = "registering",
         \A e \in Escrow : escrows'[e] # None =>
           escrows[e] # None /\ escrows'[e].remaining <= escrows'[e].allocated
  PROVE  AmountsInv'
<1>1. LockedForQueries' /\ SettledWithin'
  BY DEF AmountsInv, LockedForQueries, SettledWithin
<1>2. ASSUME NEW q \in Query, clientPc'[q] = "registering"
      PROVE  escrows'[chosen'[q]] = None
  <2>1. chosen[q] \in Escrow /\ escrows[chosen[q]] = None
    BY <1>2 DEF IInv, QueriesHaveEscrows, AmountsInv, RowsWithin
  <2> QED
    BY <2>1
<1> QED
  BY <1>1, <1>2 DEF AmountsInv, RowsWithin

\* Only an escrow that is opened is locked, and only one that is registered has a row.
LEMMA TurnLocks ==
  ASSUME IInv, LockedForQueries, NEW q \in Query,
         Turn(q) \/ Register(q) \/ Sign(q) \/ SignFails(q) \/ RegistrationLost(q)
  PROVE  LockedForQueries' /\ (escrows' = escrows \/ clientPc[q] = "registering")
<1>1. CASE OpenEscrow(q)
  <2>1. PICK e \in Escrow :
          sourceEscrows' = [sourceEscrows EXCEPT ![e] =
            [milligons |-> EscrowMilligons(Price[q]), expirationDate |-> now + Lifetime]]
    BY <1>1 DEF OpenEscrow
  <2>2. /\ sourceEscrows'[e].milligons = EscrowMilligons(Price[q])
        /\ \A f \in Escrow \ {e} : sourceEscrows'[f] = sourceEscrows[f]
    BY <2>1, Types
  <2>3. escrows' = escrows
    BY <1>1 DEF OpenEscrow, node, dbVars
  <2> QED
    BY <2>2, <2>3 DEF LockedForQueries
<1>2. CASE TakeOption(q) \/ FailToOpen(q) \/ Sign(q) \/ SignFails(q)
  <2>1. UNCHANGED <<sourceEscrows, escrows>>
    BY <1>2 DEF TakeOption, FailToOpen, Sign, SignFails, node, dbVars
  <2> QED
    BY <2>1 DEF LockedForQueries
<1>3. CASE Register(q) \/ RegistrationLost(q)
  <2>1. UNCHANGED sourceEscrows /\ clientPc[q] = "registering"
    BY <1>3 DEF Register, RegistrationLost
  <2> QED
    BY <2>1 DEF LockedForQueries
<1> QED
  BY <1>1, <1>2, <1>3 DEF Turn

\* A charge is settled for no more than is locked.
LEMMA TurnSettledWithin ==
  ASSUME IInv, IInv', AccountsInv, AmountsInv, NEW q \in Query, TurnTaken(q)
  PROVE  SettledWithin'
<1>1. PICK e \in Escrow \cup {None}, list \in List, milligons \in Nat,
           label \in {"registering", "signing", "reserved", "failed"} :
        TurnStep(q, e, list, label, milligons)
  BY DEF TurnTaken
<1>2. /\ TurnRows /\ TurnPayment(q, e, list, label, milligons) /\ chosen[q] \in {None, e}
      /\ e # None => e \in Escrow /\ sourceEscrows'[e] # None
      /\ clientPc[q] \in {"queued", "registering", "signing"}
  BY <1>1 DEF TurnStep
<1>3. /\ chosen'[q] = e
      /\ \A p \in Query \ {q} : chosen'[p] = chosen[p]
  BY <1>1, TurnClients
<1> SUFFICES ASSUME NEW p \in Query, chosen'[p] # None
             PROVE  settlement'[p] <= sourceEscrows'[chosen'[p]].milligons
  BY DEF SettledWithin
<1>4. QueryInv(p) /\ SettledWithin
  BY DEF AccountsInv, AmountsInv
<1>5. CASE chosen[p] = chosen'[p] /\ settlement'[p] = settlement[p]
  <2>1. chosen[p] \in Escrow /\ sourceEscrows[chosen[p]] # None
    BY <1>4, <1>5 DEF QueryInv
  <2>2. sourceEscrows'[chosen[p]] = sourceEscrows[chosen[p]]
    BY <1>2, <2>1 DEF TurnRows
  <2> QED
    BY <1>4, <1>5, <2>2 DEF SettledWithin
<1>6. CASE chosen[p] # chosen'[p] /\ settlement'[p] = settlement[p]
  <2>1. p = q /\ chosen[p] = None /\ chosen'[p] = e
    BY <1>2, <1>3, <1>6
  <2>2. clientPc[p] = "queued"
    BY <1>2, <2>1, NoneIsNoEscrow DEF IInv, QueriesHaveEscrows
  <2>3. settlement[p] = 0
    BY <1>4, <2>2 DEF QueryInv
  <2>4. sourceEscrows'[e].milligons \in Nat
    BY <1>2, <2>1 DEF IInv, TypeOK, Opened
  <2> QED
    BY <1>6, <2>1, <2>3, <2>4
<1>7. CASE settlement'[p] # settlement[p]
  <2>1. /\ label = "reserved" /\ e \in Escrow
        /\ settlement' = PaymentsOf(q, e, milligons)
    BY <1>2, <1>7 DEF TurnPayment
  <2>2. settlement'[p] = milligons /\ (p = q \/ chosen[p] = e)
    BY <1>7, <2>1 DEF PaymentsOf
  <2>3. chosen'[p] = e
    BY <1>3, <2>2
  <2>4. TurnStep(q, e, list, "reserved", milligons)
    BY <1>1, <2>1
  <2>5. milligons <= sourceEscrows'[e].milligons
    BY <2>1, <2>4, TurnCovers
  <2> QED
    BY <2>2, <2>3, <2>5
<1> QED
  BY <1>5, <1>6, <1>7

LEMMA TurnAmounts ==
  ASSUME IInv, IInv', AccountsInv, AmountsInv, NEW q \in Query,
         Turn(q) \/ Register(q) \/ Sign(q) \/ SignFails(q) \/ RegistrationLost(q)
  PROVE  AmountsInv'
<1>1. TurnTaken(q)
  BY TurnsAreTaken
<1>2. LockedForQueries' /\ (escrows' = escrows \/ clientPc[q] = "registering")
  BY TurnLocks DEF AmountsInv
<1>3. SettledWithin'
  BY <1>1, TurnSettledWithin
<1>4. PICK e \in Escrow \cup {None}, list \in List, milligons \in Nat,
           label \in {"registering", "signing", "reserved", "failed"} :
        TurnStep(q, e, list, label, milligons)
  BY <1>1 DEF TurnTaken
<1>5. /\ TurnRows /\ TurnLabel(q, e, list, label)
      /\ clientPc[q] \in {"queued", "registering", "signing"} /\ queue \in {None, q}
      /\ clientPc'[q] = label /\ chosen'[q] = e
      /\ \A p \in Query \ {q} : clientPc'[p] = clientPc[p]
  BY <1>4, TurnClients DEF TurnStep
<1>6. ASSUME NEW p \in Query, clientPc'[p] = "registering"
      PROVE  escrows'[chosen'[p]] = None
  <2>1. \A r \in Query \ {q} : clientPc[r] # "registering"
    BY <1>5, TurnOfQuery
  <2>2. p = q /\ label = "registering"
    BY <1>5, <1>6, <2>1
  <2>3. clientPc[q] = "queued" /\ e \in Escrow /\ sourceEscrows[e] = None
    BY <1>5, <2>2 DEF TurnLabel
  <2>4. escrows[e] = None
    BY <2>3 DEF AccountsInv, EscrowsAreOpened, SameAsOpened
  <2>5. escrows' = escrows
    BY <1>2, <2>3
  <2> QED
    BY <1>5, <2>2, <2>4, <2>5
<1>7. ASSUME NEW f \in Escrow, escrows'[f] # None
      PROVE  escrows'[f].remaining <= escrows'[f].allocated
  <2>1. escrows'[f].allocated \in Nat
    BY <1>7 DEF IInv, TypeOK, DbTypeOK, EscrowRow
  <2>2. escrows'[f] = escrows[f] \/ escrows'[f].remaining = escrows'[f].allocated
    BY <1>5 DEF TurnRows
  <2> QED
    BY <1>7, <2>1, <2>2 DEF AmountsInv, RowsWithin
<1> QED
  BY <1>2, <1>3, <1>6, <1>7 DEF AmountsInv, RowsWithin

\* A row keeps what was locked, and gets back no more.
LEMMA NodeAmounts ==
  ASSUME IInv, IInv', AmountsInv, NEW q \in Query, Handle(q)
  PROVE  AmountsInv'
<1>1. UNCHANGED <<sourceEscrows, chosen, settlement, clientPc>>
  BY DEF Handle, AcceptDebit, FailDebit, RunQuery, NodeFinalize, NodeFinalizeThrows, payer
<1>2. escrows \in Rows /\ escrows' \in Rows
  BY DEF IInv, TypeOK, DbTypeOK, Rows
<1>3. \A e \in Escrow : escrows[e] # None => escrows[e].remaining <= escrows[e].allocated
  BY DEF AmountsInv, RowsWithin
<1>4. nodePc[q] # "none" /\ chosen[q] \in Escrow
  BY DEF Handle, AcceptDebit, FailDebit, RunQuery, NodeFinalize, NodeFinalizeThrows,
         IInv, QueriesHaveEscrows
<1>5. PICK e \in Escrow : e = chosen[q]
  BY <1>4
<1>6. CASE escrows' = escrows
  BY <1>1, <1>3, <1>6, AmountsKept
<1>7. ASSUME NEW remaining \in Int, escrows[e] # None, remaining <= escrows[e].allocated,
             escrows' = [escrows EXCEPT ![e].remaining = remaining]
      PROVE  AmountsInv'
  <2>1. /\ escrows'[e].remaining = remaining /\ escrows'[e].allocated = escrows[e].allocated
        /\ \A f \in Escrow \ {e} : escrows'[f] = escrows[f]
    BY <1>2, <1>7 DEF Rows, EscrowRow
  <2>2. \A f \in Escrow : escrows'[f] # None =>
          escrows[f] # None /\ escrows'[f].remaining <= escrows'[f].allocated
    BY <1>3, <1>7, <2>1
  <2> QED
    BY <1>1, <2>2, AmountsKept
<1>8. CASE AcceptDebit(q)
  <2>1. /\ escrows[e] # None
        /\ escrows' = [escrows EXCEPT ![e].remaining = @ - Price[q]]
    BY <1>5, <1>8 DEF AcceptDebit, DebitAccepted, CanDebit
  <2>2. /\ escrows[e].remaining \in Nat /\ escrows[e].allocated \in Nat /\ Price[q] \in Nat
        /\ escrows[e].remaining <= escrows[e].allocated
    BY <1>2, <1>3, <2>1, PriceType DEF Rows, EscrowRow
  <2>3. /\ escrows[e].remaining - Price[q] \in Int
        /\ escrows[e].remaining - Price[q] <= escrows[e].allocated
    BY <2>2
  <2>4. escrows' = [escrows EXCEPT ![e].remaining = escrows[e].remaining - Price[q]]
    BY <2>1
  <2> QED
    BY <1>7, <2>1, <2>3, <2>4
<1>9. CASE NodeFinalize(q)
  <2> DEFINE adjustment == Adjustment(e, q, tally[q])
  <2>1. FinalizePayment(e, q, tally[q])
    BY <1>5, <1>9 DEF NodeFinalize
  <2>2. CASE adjustment = 0
    BY <1>6, <2>1, <2>2 DEF FinalizePayment
  <2>3. CASE adjustment # 0
    <3>1. /\ escrows[e] # None /\ escrows[e].remaining + adjustment \in 0 .. escrows[e].allocated
          /\ escrows' = [escrows EXCEPT ![e].remaining = @ + adjustment]
      BY <2>1, <2>3 DEF FinalizePayment, FinalizeSucceeds, CanAdjust
    <3> HIDE DEF adjustment
    <3>2. escrows[e].remaining + adjustment \in Int
          /\ escrows[e].remaining + adjustment <= escrows[e].allocated
      BY <1>2, <3>1 DEF Rows, EscrowRow
    <3> QED
      BY <1>7, <3>1, <3>2
  <2> QED
    BY <2>2, <2>3
<1>10. CASE FailDebit(q) \/ RunQuery(q) \/ NodeFinalizeThrows(q)
  <2>1. escrows' = escrows
    BY <1>10 DEF FailDebit, DebitFailed, RunQuery, NodeFinalizeThrows, dbVars
  <2> QED
    BY <1>6, <2>1
<1> QED
  BY <1>8, <1>9, <1>10 DEF Handle

LEMMA NextAmounts ==
  ASSUME IInv, IInv', AccountsInv, AmountsInv, [Next]_vars
  PROVE  AmountsInv'
<1>1. \A e \in Escrow : escrows[e] # None => escrows[e].remaining <= escrows[e].allocated
  BY DEF AmountsInv, RowsWithin
<1>2. ASSUME NEW q \in Query, Turn(q) \/ Register(q) \/ Sign(q) \/ SignFails(q)
                                 \/ RegistrationLost(q)
      PROVE  AmountsInv'
  BY <1>2, TurnAmounts
<1>3. ASSUME NEW q \in Query, Submit(q) \/ Send(q)
      PROVE  AmountsInv'
  <2>1. /\ UNCHANGED <<sourceEscrows, chosen, settlement, escrows>>
        /\ clientPc' = [clientPc EXCEPT ![q] = "queued"]
             \/ clientPc' = [clientPc EXCEPT ![q] = "waiting"]
    BY <1>3 DEF Submit, Send, ClientGoto, node, dbVars
  <2>2. \A p \in Query : clientPc'[p] = "registering" => clientPc[p] = "registering"
    BY <2>1, Types
  <2> QED
    BY <1>1, <2>1, <2>2, AmountsKept
<1>4. ASSUME NEW q \in Query, Answer(q) \/ ErrorAnswer(q) \/ ConnectionLost(q)
      PROVE  AmountsInv'
  <2>1. /\ UNCHANGED <<sourceEscrows, chosen, settlement, escrows>>
        /\ \E label \in {"done", "gaveUp", "threw"} : clientPc' = [clientPc EXCEPT ![q] = label]
    BY <1>4 DEF Answer, ErrorAnswer, ConnectionLost, Finalize, CallbackThrows,
                ClientGoto, dbVars
  <2>2. \A p \in Query : clientPc'[p] = "registering" => clientPc[p] = "registering"
    BY <2>1, Types
  <2> QED
    BY <1>1, <2>1, <2>2, AmountsKept
<1>5. ASSUME NEW q \in Query, Handle(q)
      PROVE  AmountsInv'
  BY <1>5, NodeAmounts
<1>6. CASE Save \/ NodeRestart \/ Tick \/ UNCHANGED vars
  <2>1. UNCHANGED <<sourceEscrows, chosen, settlement, escrows, clientPc>>
    BY <1>6 DEF Save, NodeRestart, ForgetPayments, Tick, vars, payer, node, dbVars
  <2> QED
    BY <1>1, <2>1, AmountsKept
<1>7. CASE PayerRestart
  <2>1. /\ UNCHANGED <<sourceEscrows, chosen, settlement, escrows>>
        /\ clientPc' = [q \in Query |-> Interrupted(clientPc[q])]
    BY <1>7 DEF PayerRestart, node, dbVars
  <2>2. \A p \in Query : clientPc'[p] = "registering" => clientPc[p] = "registering"
    BY <2>1 DEF Interrupted
  <2> QED
    BY <1>1, <2>1, <2>2, AmountsKept
<1>8. CASE CleanupEscrows
  <2>1. /\ UNCHANGED <<sourceEscrows, chosen, settlement, clientPc>>
        /\ \A e \in Escrow : escrows'[e] = None \/ escrows'[e] = escrows[e]
    BY <1>8 DEF CleanupEscrows, Cleanup, payer
  <2>2. \A e \in Escrow : escrows'[e] # None =>
          escrows[e] # None /\ escrows'[e].remaining <= escrows'[e].allocated
    BY <1>1, <2>1
  <2> QED
    BY <2>1, <2>2, AmountsKept
<1> QED
  BY <1>2, <1>3, <1>4, <1>5, <1>6, <1>7, <1>8 DEF Next, Client

LEMMA AmountsHold == Spec => [](IInv /\ AccountsInv /\ AmountsInv)
<1>1. IInv /\ IInv' /\ AccountsInv /\ AmountsInv /\ [Next]_vars => AmountsInv'
  BY NextAmounts
<1> QED
  BY <1>1, InitAmounts, AccountsHold, PTL DEF Spec

-----------------------------------------------------------------------------
(* Payer and datastore implement the ledger: what is signed *)

\* A set of bounded numbers has a largest one.
LEMMA MaxOf ==
  ASSUME NEW S \in SUBSET Nat, S # {}, NEW bound \in Nat, \A x \in S : x <= bound
  PROVE  Max(S) \in S /\ \A x \in S : x <= Max(S)
<1> DEFINE bounds == {b \in Nat : \A x \in S : x <= b}
<1>1. bounds \subseteq Nat /\ bounds # {}
  OBVIOUS
<1> HIDE DEF bounds
<1>2. PICK b \in bounds : \A c \in bounds : ~ (<<c, b>> \in OpToRel(<, Nat))
  BY <1>1, NatLessThanWellFounded, WFMin
<1>3. ASSUME NEW c \in bounds
      PROVE  b <= c
  <2>1. b \in Nat /\ c \in Nat
    BY <1>1
  <2>2. ~ (<<c, b>> \in OpToRel(<, Nat))
    BY <1>2
  <2>3. ~ (c < b)
    BY <2>1, <2>2 DEF OpToRel
  <2> QED
    BY <2>1, <2>3
<1>4. b \in Nat /\ \A x \in S : x <= b
  BY <1>2 DEF bounds
<1>5. b \in S
  <2> SUFFICES ASSUME b \notin S PROVE FALSE
    OBVIOUS
  <2>1. \A x \in S : x < b
    BY <1>4
  <2>2. PICK x \in S : x \in Nat
    OBVIOUS
  <2>3. b - 1 \in Nat
    BY <1>4, <2>1, <2>2
  <2>4. \A y \in S : y \in Nat /\ y <= b - 1
    BY <1>4, <2>1
  <2>5. b - 1 \in bounds
    BY <2>3, <2>4 DEF bounds
  <2> QED
    BY <1>3, <1>4, <2>5
<1> QED
  BY <1>4, <1>5 DEF Max

Largest(s, T) == Max({0} \cup {s[q] : q \in T})

LEMMA LargestOf ==
  ASSUME NEW T \in SUBSET Query, NEW s \in [Query -> Nat], NEW bound \in Nat,
         \A q \in T : s[q] <= bound
  PROVE  /\ Largest(s, T) \in Nat /\ Largest(s, T) <= bound
         /\ \A q \in T : s[q] <= Largest(s, T)
         /\ Largest(s, T) = 0 \/ \E q \in T : s[q] = Largest(s, T)
<1> DEFINE S == {0} \cup {s[q] : q \in T}
<1>1. S \in SUBSET Nat /\ S # {} /\ \A x \in S : x <= bound
  OBVIOUS
<1>2. \A q \in T : s[q] \in S
  OBVIOUS
<1>3. \A x \in S : x = 0 \/ \E q \in T : s[q] = x
  OBVIOUS
<1>4. PICK m : m = Largest(s, T) /\ m = Max(S)
  BY DEF Largest
<1> HIDE DEF S
<1>5. m \in S /\ \A x \in S : x <= m
  BY <1>1, <1>4, MaxOf
<1> QED
  BY <1>1, <1>2, <1>3, <1>4, <1>5

\* The settlement the datastore was sent for an escrow: the largest one.
IsSigned(e, m) ==
  /\ m \in Nat
  /\ \A q \in Sent(e) : settlement[q] <= m
  /\ m = 0 \/ \E q \in Sent(e) : settlement[q] = m
  /\ sourceEscrows[e] # None => m <= sourceEscrows[e].milligons

LEMMA SentIsLocked ==
  ASSUME IInv, AccountsInv, AmountsInv, NEW e \in Escrow, NEW q \in Sent(e)
  PROVE  q \in Query /\ sourceEscrows[e] # None /\ settlement[q] <= sourceEscrows[e].milligons
<1>1. q \in Query /\ chosen[q] = e
  BY DEF Sent
<1>2. chosen[q] # None
  BY <1>1, NoneIsNoEscrow
<1> QED
  BY <1>1, <1>2 DEF AccountsInv, QueryInv, AmountsInv, SettledWithin

LEMMA SignedType ==
  IInv /\ AccountsInv /\ AmountsInv => \A e \in Escrow : IsSigned(e, Signed(e))
<1> SUFFICES ASSUME IInv, AccountsInv, AmountsInv, NEW e \in Escrow
             PROVE  IsSigned(e, Signed(e))
  OBVIOUS
<1> DEFINE bound == IF sourceEscrows[e] = None THEN 0 ELSE sourceEscrows[e].milligons
<1>1. Sent(e) \in SUBSET Query /\ settlement \in [Query -> Nat]
  BY Types DEF Sent
<1>2. bound \in Nat
  BY Types DEF Opened
<1>3. \A q \in Sent(e) : settlement[q] <= bound
  BY SentIsLocked
<1>4. Signed(e) = Largest(settlement, Sent(e))
  BY DEF Signed, Largest
<1>5. PICK T \in SUBSET Query, s \in [Query -> Nat] : T = Sent(e) /\ s = settlement
  BY <1>1
<1>6. sourceEscrows[e] # None => bound = sourceEscrows[e].milligons
  OBVIOUS
<1> HIDE DEF bound
<1>7. \A q \in T : s[q] <= bound
  BY <1>3, <1>5
<1>8. /\ Largest(s, T) \in Nat /\ Largest(s, T) <= bound
      /\ \A q \in T : s[q] <= Largest(s, T)
      /\ Largest(s, T) = 0 \/ \E q \in T : s[q] = Largest(s, T)
  BY <1>2, <1>7, LargestOf
<1>9. PICK m : m = Largest(s, T) /\ m = Signed(e)
  BY <1>4, <1>5
<1> QED
  BY <1>5, <1>6, <1>8, <1>9 DEF IsSigned

\* The same in the next state.
LEMMA SignedTypeNext ==
  IInv' /\ AccountsInv' /\ AmountsInv' => \A e \in Escrow : IsSigned(e, Signed(e))'
<1>1. IInv' /\ AccountsInv' /\ AmountsInv' => (\A e \in Escrow : IsSigned(e, Signed(e)))'
  BY SignedType, PTL
<1> QED
  BY <1>1

-----------------------------------------------------------------------------
(* Payer and datastore implement the ledger: its steps *)

LEMMA TimesMonotone ==
  ASSUME NEW a \in Nat, NEW b \in Nat, a <= b
  PROVE  /\ a * MicrogonsPerMilligon \in Nat /\ b * MicrogonsPerMilligon \in Nat
         /\ a * MicrogonsPerMilligon <= b * MicrogonsPerMilligon
         /\ a < b => a * MicrogonsPerMilligon < b * MicrogonsPerMilligon
<1> DEFINE k == MicrogonsPerMilligon
<1>1. PICK d \in Nat : b = a + d
  <2>1. b - a \in Nat /\ b = a + (b - a)
    OBVIOUS
  <2> QED
    BY <2>1
<1>2. k \in Nat /\ k > 0
  BY MicrogonsPerMilligonAssumption
<1> HIDE DEF k
<1>3. a * k \in Nat /\ d * k \in Nat /\ (d > 0 => d * k > 0)
  BY <1>1, <1>2, SMTT(30)
<1>4. b * k = a * k + d * k
  BY <1>1, <1>2, SMTT(30)
<1> DEFINE before == a * k
           more == d * k
           after == b * k
<1>5. before \in Nat /\ more \in Nat /\ (d > 0 => more > 0) /\ after = before + more
  BY <1>3, <1>4
<1> HIDE DEF before, more, after
<1>6. after \in Nat /\ before <= after /\ (a < b => before < after)
  BY <1>1, <1>5
<1> QED
  BY <1>5, <1>6 DEF k, before, more, after

\* No more is held, signed or allocated than what a query needs.
LEMMA AmountsBelow ==
  ASSUME IInv, AmountsInv, NEW e \in Escrow, sourceEscrows[e] # None, NEW x \in Nat,
         x <= sourceEscrows[e].milligons * MicrogonsPerMilligon
  PROVE  x \in Amounts
<1>1. PICK q \in Query : sourceEscrows[e].milligons = EscrowMilligons(Price[q])
  BY DEF AmountsInv, LockedForQueries
<1>2. EscrowMilligons(Price[q]) * MicrogonsPerMilligon \in Nat
  BY PriceType, EscrowMilligonsType, MicrogonsPerMilligonAssumption
<1>3. x <= EscrowMilligons(Price[q]) * MicrogonsPerMilligon
  BY <1>1
<1>4. x \in 0 .. EscrowMilligons(Price[q]) * MicrogonsPerMilligon
  BY <1>2, <1>3
<1> QED
  BY <1>4 DEF Amounts

LEMMA SameAccount ==
  ASSUME NEW e \in Escrow, escrows'[e] = escrows[e],
         escrows[e] # None => Signed(e)' = Signed(e),
         escrows[e] = None => (Unopened(e)' <=> Unopened(e))
  PROVE  Account(e)' = Account(e)
BY DEF Account, Spent

\* One account changes.
LEMMA OneAccount ==
  ASSUME NEW e \in Escrow, \A f \in Escrow \ {e} : Account(f)' = Account(f)
  PROVE  Accounts' = [Accounts EXCEPT ![e] = Account(e)']
BY DEF Accounts

LEMMA AccountsClose ==
  ASSUME NEW dropped \in SUBSET Escrow,
         \A e \in dropped : Account(e)' = Ledger!Empty("closed"),
         \A e \in Escrow \ dropped : Account(e)' = Account(e)
  PROVE  Ledger!Next
<1>1. Accounts' = [e \in Escrow |-> IF e \in dropped THEN Ledger!Empty("closed")
                                                    ELSE Accounts[e]]
  BY DEF Accounts
<1>2. Ledger!Close(dropped)
  BY <1>1 DEF Ledger!Close
<1> QED
  BY <1>2 DEF Ledger!Next

\* What is sent of an escrow, and whether it may yet be opened, does not change.
LEMMA SentStays ==
  ASSUME UNCHANGED <<chosen, settlement>>,
         \A q \in Query : nodePc'[q] = "none" <=> nodePc[q] = "none",
         NEW e \in Escrow
  PROVE  Signed(e)' = Signed(e)
<1>1. Sent(e)' = Sent(e)
  BY DEF Sent
<1> QED
  BY <1>1 DEF Signed

LEMMA QuietSteps ==
  ASSUME UNCHANGED <<escrows, sourceEscrows, chosen, settlement>>,
         \A q \in Query : nodePc'[q] = "none" <=> nodePc[q] = "none",
         \A q \in Query : clientPc'[q] = "registering" <=> clientPc[q] = "registering"
  PROVE  UNCHANGED Accounts
<1>1. ASSUME NEW e \in Escrow
      PROVE  Account(e)' = Account(e)
  <2>1. Signed(e)' = Signed(e)
    BY SentStays
  <2>2. Unopened(e)' <=> Unopened(e)
    BY DEF Unopened
  <2> QED
    BY <2>1, <2>2, SameAccount
<1> QED
  BY <1>1 DEF Accounts

\* The payer's turns send nothing, and change no payment that was sent.
LEMMA TurnSigned ==
  ASSUME IInv, AccountsInv, NEW q \in Query, TurnTaken(q), NEW e \in Escrow
  PROVE  Signed(e)' = Signed(e)
<1>1. PICK f \in Escrow \cup {None}, list \in List, milligons \in Nat,
           label \in {"registering", "signing", "reserved", "failed"} :
        TurnStep(q, f, list, label, milligons)
  BY DEF TurnTaken
<1>2. /\ nodePc' = nodePc /\ nodePc[q] = "none"
      /\ \A p \in Query \ {q} : chosen'[p] = chosen[p]
  BY <1>1, TurnClients, TurnOfQuery DEF TurnStep
<1>3. Sent(e)' = Sent(e)
  BY <1>2 DEF Sent
<1>4. ASSUME NEW p \in Sent(e)
      PROVE  settlement'[p] = settlement[p]
  <2>1. p \in Query /\ p # q /\ clientPc[p] # "reserved"
    BY <1>2 DEF Sent, IInv, QueriesHaveEscrows
  <2>2. settlement' = settlement \/ settlement' = PaymentsOf(q, f, milligons)
    BY <1>1 DEF TurnStep, TurnPayment
  <2> QED
    BY <2>1, <2>2 DEF PaymentsOf
<1>5. {settlement'[p] : p \in Sent(e)} = {settlement[p] : p \in Sent(e)}
  BY <1>4
<1> QED
  BY <1>3, <1>5 DEF Signed

\* An escrow that is opened with the source may be opened with the datastore.
LEMMA TurnLedger ==
  ASSUME IInv, AccountsInv, NEW q \in Query,
         Turn(q) \/ Sign(q) \/ SignFails(q)
  PROVE  UNCHANGED Accounts
<1>1. TurnTaken(q)
  BY TurnsAreTaken
<1>2. PICK e \in Escrow \cup {None}, list \in List, milligons \in Nat,
           label \in {"registering", "signing", "reserved", "failed"} :
        TurnStep(q, e, list, label, milligons)
  BY <1>1 DEF TurnTaken
<1>3. /\ clientPc'[q] = label /\ chosen'[q] = e
      /\ \A p \in Query \ {q} : clientPc'[p] = clientPc[p] /\ chosen'[p] = chosen[p]
  BY <1>2, TurnClients
<1>4. clientPc[q] # "registering" /\ escrows' = escrows
  BY DEF Turn, TurnOf, TakeOption, OpenEscrow, FailToOpen, Sign, SignFails, node, dbVars
<1>5. ASSUME NEW f \in Escrow
      PROVE  Unopened(f)' <=> Unopened(f)
  <2>1. CASE OpenEscrow(q)
    <3>1. PICK g \in Escrow :
            /\ sourceEscrows[g] = None
            /\ sourceEscrows' = [sourceEscrows EXCEPT ![g] =
                 [milligons |-> EscrowMilligons(Price[q]), expirationDate |-> now + Lifetime]]
            /\ chosen' = [chosen EXCEPT ![q] = g]
      BY <2>1 DEF OpenEscrow
    <3>2. chosen'[q] = g /\ clientPc'[q] = "registering"
      BY <2>1, <3>1, Types DEF OpenEscrow, ClientGoto
    <3>3. CASE f = g
      BY <3>1, <3>2, <3>3 DEF Unopened
    <3>4. CASE f # g
      <4>1. sourceEscrows'[f] = sourceEscrows[f]
        BY <3>1, <3>4, Types
      <4>2. \A p \in Query : (clientPc'[p] = "registering" /\ chosen'[p] = f)
                               <=> (clientPc[p] = "registering" /\ chosen[p] = f)
        BY <1>3, <1>4, <3>2, <3>4
      <4> QED
        BY <4>1, <4>2 DEF Unopened
    <3> QED
      BY <3>3, <3>4
  <2>2. CASE ~OpenEscrow(q)
    <3>1. sourceEscrows' = sourceEscrows /\ clientPc'[q] # "registering"
      <4>1. CASE FailToOpen(q) \/ SignFails(q) \/ Sign(q)
        BY <4>1, Types DEF FailToOpen, SignFails, Sign, Charge, EndTurn, ClientGoto
      <4>2. CASE TakeOption(q)
        BY <4>2, Types
        DEF TakeOption, BeginCharge, Charge, EndTurn, ClientGoto
      <4> QED
        BY <2>2, <4>1, <4>2 DEF Turn
    <3>2. \A p \in Query : (clientPc'[p] = "registering" /\ chosen'[p] = f)
                             <=> (clientPc[p] = "registering" /\ chosen[p] = f)
      BY <1>3, <1>4, <3>1
    <3> QED
      BY <3>1, <3>2 DEF Unopened
  <2> QED
    BY <2>1, <2>2
<1>6. \A f \in Escrow : Account(f)' = Account(f)
  BY <1>1, <1>4, <1>5, TurnSigned, SameAccount
<1> QED
  BY <1>6 DEF Accounts

\* The row of an escrow that is registered opens its account.
LEMMA CreateRowLedger ==
  ASSUME IInv, IInv', AccountsInv, AmountsInv, NEW q \in Query,
         Register(q) \/ RegistrationLost(q), CreateRow(q)
  PROVE  Ledger!Next
<1>1. TurnTaken(q)
  BY TurnsAreTaken
<1>2. clientPc[q] = "registering" /\ UNCHANGED <<sourceEscrows, chosen, nodePc>>
  BY DEF Register, RegistrationLost
<1>3. PICK e \in Escrow : e = chosen[q] /\ sourceEscrows[e] # None
  BY <1>2 DEF IInv, QueriesHaveEscrows, RegisteringAtMinimum
<1> DEFINE allocated == sourceEscrows[e].milligons * MicrogonsPerMilligon
           row == [allocated |-> allocated, remaining |-> allocated,
                   expirationDate |-> sourceEscrows[e].expirationDate]
<1>4. /\ escrows[e] = None /\ escrows'[e] = row
      /\ \A f \in Escrow \ {e} : escrows'[f] = escrows[f]
  BY <1>3, Types DEF CreateRow, CreateEscrow, Rows
<1>5. allocated \in Nat /\ sourceEscrows[e].expirationDate \in Nat
  BY <1>3, Types, MicrogonsPerMilligonAssumption DEF Opened
<1>6. allocated \in Amounts
  BY <1>3, <1>5, AmountsBelow
<1> HIDE DEF allocated
<1>7. row \in EscrowRow /\ row # None
  BY <1>5, NoneAssumption DEF EscrowRow
<1>8. Signed(e)' = 0
  <2>1. nodePc[q] = "none"
    BY <1>2 DEF IInv, QueriesHaveEscrows
  <2>2. \A p \in Query \ {q} : chosen[p] # e
    BY <1>2, <1>3 DEF AccountsInv, QueryInv
  <2>3. Sent(e) = {}
    BY <2>1, <2>2 DEF Sent
  <2>4. IsSigned(e, Signed(e))
    BY SignedType
  <2>5. Signed(e) = 0
    BY <2>3, <2>4 DEF IsSigned
  <2> QED
    BY <1>1, <2>5, TurnSigned
<1>9. Account(e)' = [state |-> "open", allocated |-> allocated, spent |-> 0, signed |-> 0]
  <2>1. 0 * MicrogonsPerMilligon = 0
    BY MicrogonsPerMilligonAssumption
  <2>2. /\ escrows'[e] # None /\ escrows'[e].allocated = allocated
        /\ escrows'[e].remaining = allocated
    BY <1>4, <1>7
  <2>3. Spent(e)' = 0
    BY <1>5, <2>2 DEF Spent
  <2> QED
    BY <1>8, <2>1, <2>2, <2>3 DEF Account
<1>10. ASSUME NEW f \in Escrow \ {e}
       PROVE  Account(f)' = Account(f)
  <2>1. Signed(f)' = Signed(f)
    BY <1>1, TurnSigned
  <2>2. \A p \in Query \ {q} : clientPc'[p] = clientPc[p]
    BY <1>1, TurnClients DEF TurnTaken
  <2>3. Unopened(f)' <=> Unopened(f)
    BY <1>2, <1>3, <2>2 DEF Unopened
  <2> QED
    BY <1>4, <2>1, <2>3, SameAccount
<1>11. Accounts[e].state = "unopened"
  BY <1>2, <1>3, <1>4 DEF Accounts, Account, Unopened
<1>12. Account(e)' = [Ledger!Empty("open") EXCEPT !.allocated = allocated]
  BY <1>9 DEF Ledger!Empty
<1>13. Accounts' = [Accounts EXCEPT ![e] = Account(e)']
  BY <1>10, OneAccount
<1>14. Ledger!Open(e)
  BY <1>6, <1>11, <1>12, <1>13 DEF Ledger!Open
<1> QED
  BY <1>14 DEF Ledger!Next

\* An escrow without a row that no query registers any more is never opened.
LEMMA NeverOpened ==
  ASSUME NEW e \in Escrow, escrows'[e] = None, sourceEscrows'[e] # None,
         \A q \in Query : clientPc'[q] = "registering" => chosen'[q] # e
  PROVE  Account(e)' = Ledger!Empty("closed")
BY DEF Account, Unopened, Ledger!Empty

LEMMA RegistrationLostLedger ==
  ASSUME IInv, AccountsInv, AmountsInv, NEW q \in Query,
         RegistrationLost(q), UNCHANGED dbVars
  PROVE  Ledger!Next
<1>1. TurnTaken(q)
  BY TurnsAreTaken
<1>2. /\ clientPc[q] = "registering" /\ UNCHANGED <<sourceEscrows, chosen, nodePc, escrows>>
      /\ clientPc' = [clientPc EXCEPT ![q] = "failed"] /\ queue \in {None, q}
  BY DEF RegistrationLost, EndTurn, ClientGoto, dbVars, IInv, QueueMovesOn
<1>3. PICK e \in Escrow : e = chosen[q] /\ sourceEscrows[e] # None /\ escrows[e] = None
  BY <1>2 DEF IInv, QueriesHaveEscrows, RegisteringAtMinimum, AmountsInv, RowsWithin
<1>4. /\ clientPc'[q] = "failed"
      /\ \A p \in Query \ {q} : clientPc'[p] = clientPc[p] /\ clientPc[p] # "registering"
  BY <1>2, Types, TurnOfQuery
<1>5. Account(e)' = Ledger!Empty("closed")
  BY <1>2, <1>3, <1>4, NeverOpened
<1>6. ASSUME NEW f \in Escrow \ {e}
      PROVE  Account(f)' = Account(f)
  <2>1. Signed(f)' = Signed(f)
    BY <1>1, TurnSigned
  <2>2. Unopened(f)' <=> Unopened(f)
    BY <1>2, <1>3, <1>4 DEF Unopened
  <2> QED
    BY <1>2, <2>1, <2>2, SameAccount
<1>7. PICK dropped \in SUBSET Escrow : dropped = {e}
  OBVIOUS
<1>8. \A f \in dropped : Account(f)' = Ledger!Empty("closed")
  BY <1>5, <1>7
<1>9. \A f \in Escrow \ dropped : Account(f)' = Account(f)
  BY <1>6, <1>7
<1> QED
  BY <1>8, <1>9, AccountsClose

\* A request brings the datastore the settlement of its payment.
LEMMA SendLedger ==
  ASSUME IInv, IInv', AccountsInv, AccountsInv', AmountsInv, AmountsInv',
         NEW q \in Query, Send(q)
  PROVE  [Ledger!Next]_Accounts
<1>1. /\ clientPc[q] = "reserved"
      /\ clientPc' = [clientPc EXCEPT ![q] = "waiting"]
      /\ nodePc' = [nodePc EXCEPT ![q] = "debit"]
      /\ UNCHANGED <<escrows, sourceEscrows, chosen, settlement>>
  BY DEF Send, ClientGoto, dbVars
<1>2. PICK e \in Escrow : e = chosen[q]
  BY <1>1 DEF IInv, QueriesHaveEscrows
<1>3. /\ nodePc'[q] = "debit" /\ \A p \in Query \ {q} : nodePc'[p] = nodePc[p]
      /\ \A p \in Query : clientPc'[p] = "registering" <=> clientPc[p] = "registering"
  BY <1>1, Types
<1>4. Sent(e) \subseteq Sent(e)' /\ \A f \in Escrow \ {e} : Sent(f)' = Sent(f)
  BY <1>1, <1>2, <1>3 DEF Sent
<1>5. \A f \in Escrow : Unopened(f)' <=> Unopened(f)
  BY <1>1, <1>3 DEF Unopened
<1>6. \A f \in Escrow \ {e} : Account(f)' = Account(f)
  <2>1. \A f \in Escrow \ {e} : Signed(f)' = Signed(f)
    BY <1>1, <1>4 DEF Signed
  <2> QED
    BY <1>1, <1>5, <2>1, SameAccount
<1>7. Accounts' = [Accounts EXCEPT ![e] = Account(e)']
  BY <1>6, OneAccount
<1>8. PICK before, after : before = Signed(e) /\ after = Signed(e)'
  OBVIOUS
<1>9. /\ before \in Nat /\ after \in Nat /\ before <= after
      /\ sourceEscrows[e] # None => after <= sourceEscrows[e].milligons
  <2>1. IsSigned(e, Signed(e)) /\ IsSigned(e, Signed(e))'
    BY SignedType, SignedTypeNext
  <2>2. /\ before \in Nat /\ (before = 0 \/ \E p \in Sent(e) : settlement[p] = before)
        /\ after \in Nat /\ \A p \in Sent(e)' : settlement'[p] <= after
        /\ sourceEscrows'[e] # None => after <= sourceEscrows'[e].milligons
    BY <1>8, <2>1 DEF IsSigned
  <2> QED
    BY <1>1, <1>4, <2>2
<1>10. CASE escrows[e] = None \/ before = after
  <2>1. Account(e)' = Account(e)
    BY <1>1, <1>5, <1>8, <1>10, SameAccount
  <2> QED
    BY <1>7, <2>1 DEF Accounts
<1>11. CASE escrows[e] # None /\ before # after
  <2>1. sourceEscrows[e] # None
    BY <1>11 DEF AccountsInv, EscrowsAreOpened, SameAsOpened
  <2>2. before < after
    BY <1>9, <1>11
  <2>3. /\ before * MicrogonsPerMilligon < after * MicrogonsPerMilligon
        /\ after * MicrogonsPerMilligon \in Nat
    BY <1>9, <2>2, TimesMonotone
  <2>4. after * MicrogonsPerMilligon <= sourceEscrows[e].milligons * MicrogonsPerMilligon
    <3>1. sourceEscrows[e].milligons \in Nat
      BY <2>1, Types DEF Opened
    <3> QED
      BY <1>9, <2>1, <3>1, TimesMonotone
  <2>5. after * MicrogonsPerMilligon \in Amounts
    BY <2>1, <2>3, <2>4, AmountsBelow
  <2>6. Accounts[e] = [state |-> "open", allocated |-> escrows[e].allocated,
                       spent |-> Spent(e), signed |-> before * MicrogonsPerMilligon]
    BY <1>8, <1>11 DEF Accounts, Account
  <2>7. Account(e)' = [state |-> "open", allocated |-> escrows[e].allocated,
                       spent |-> Spent(e), signed |-> after * MicrogonsPerMilligon]
    BY <1>1, <1>8, <1>11 DEF Account, Spent
  <2>8. PICK signed \in Amounts : signed = after * MicrogonsPerMilligon
    BY <2>5
  <2>9. Account(e)' = [Accounts[e] EXCEPT !.signed = signed]
    BY <2>6, <2>7, <2>8
  <2>10. Accounts[e].state = "open" /\ Accounts[e].signed < signed
    BY <2>3, <2>6, <2>8
  <2>11. Ledger!Sign(e)
    BY <1>7, <2>9, <2>10 DEF Ledger!Sign, Ledger!IsOpen
  <2> QED
    BY <2>11 DEF Ledger!Next
<1> QED
  BY <1>10, <1>11

\* More is spent of a row: a hold.  Less: a release.
LEMMA HoldOrRelease ==
  ASSUME IInv, IInv', AccountsInv, AmountsInv, NEW e \in Escrow, NEW remaining \in Nat,
         UNCHANGED sourceEscrows, Signed(e)' = Signed(e),
         \A f \in Escrow \ {e} : Account(f)' = Account(f),
         escrows[e] # None, remaining <= escrows[e].allocated,
         escrows' = [escrows EXCEPT ![e].remaining = remaining],
         remaining < escrows[e].remaining =>
           escrows[e].allocated - remaining <= Signed(e) * MicrogonsPerMilligon
  PROVE  [Ledger!Next]_Accounts
<1>1. PICK spent : spent = escrows[e].allocated - remaining
  OBVIOUS
<1>2. /\ escrows[e] \in EscrowRow /\ escrows[e].allocated \in Nat /\ escrows[e].remaining \in Nat
      /\ escrows'[e] = [escrows[e] EXCEPT !.remaining = remaining]
  BY Types DEF Rows, EscrowRow
<1>3. escrows'[e] # None
  <2>1. escrows'[e] \in EscrowRow
    BY <1>2 DEF EscrowRow
  <2> QED
    BY <2>1, NoneAssumption
<1>4. /\ escrows'[e].allocated = escrows[e].allocated /\ escrows'[e].remaining = remaining
  BY <1>2 DEF EscrowRow
<1>5. spent \in Nat /\ spent <= escrows[e].allocated /\ Spent(e) \in Int
  BY <1>1, <1>2 DEF Spent
<1>6. spent \in Amounts
  <2>1. sourceEscrows[e] # None
        /\ escrows[e].allocated = sourceEscrows[e].milligons * MicrogonsPerMilligon
    BY DEF AccountsInv, EscrowsAreOpened, SameAsOpened
  <2> QED
    BY <1>5, <2>1, AmountsBelow
<1>7. PICK signed : signed = Signed(e) * MicrogonsPerMilligon
  OBVIOUS
<1>8. Accounts[e] = [state |-> "open", allocated |-> escrows[e].allocated,
                     spent |-> Spent(e), signed |-> signed]
  BY <1>7 DEF Accounts, Account
<1>9. Account(e)' = [state |-> "open", allocated |-> escrows[e].allocated,
                     spent |-> spent, signed |-> signed]
  <2>1. Spent(e)' = spent
    BY <1>1, <1>4 DEF Spent
  <2>2. Signed(e)' * MicrogonsPerMilligon = signed
    BY <1>7
  <2> QED
    BY <1>3, <1>4, <2>1, <2>2 DEF Account
<1>10. Accounts' = [Accounts EXCEPT ![e] = Account(e)']
  BY OneAccount
<1>11. Account(e)' = [Accounts[e] EXCEPT !.spent = spent]
  BY <1>8, <1>9
<1>12. /\ Accounts[e].state = "open" /\ Accounts[e].spent = Spent(e)
       /\ Accounts[e].allocated = escrows[e].allocated /\ Accounts[e].signed = signed
  BY <1>8
<1>13. CASE spent = Spent(e)
  <2>1. Account(e)' = Accounts[e]
    BY <1>8, <1>9, <1>13
  <2> QED
    BY <1>10, <2>1 DEF Accounts
<1>14. CASE Spent(e) < spent
  <2>1. spent <= signed
    <3>1. remaining < escrows[e].remaining
      BY <1>1, <1>2, <1>14 DEF Spent
    <3> QED
      BY <1>1, <1>7, <3>1
  <2>2. Ledger!Hold(e)
    BY <1>5, <1>6, <1>10, <1>11, <1>12, <1>14, <2>1 DEF Ledger!Hold, Ledger!IsOpen
  <2> QED
    BY <2>2 DEF Ledger!Next
<1>15. CASE spent < Spent(e)
  <2>1. Ledger!Release(e)
    BY <1>6, <1>10, <1>11, <1>12, <1>15 DEF Ledger!Release, Ledger!IsOpen
  <2> QED
    BY <2>1 DEF Ledger!Next
<1> QED
  BY <1>5, <1>13, <1>14, <1>15

\* The datastore's own steps hold and release.
LEMMA HandleLedger ==
  ASSUME IInv, IInv', AccountsInv, AmountsInv, NEW q \in Query, Handle(q)
  PROVE  [Ledger!Next]_Accounts
<1>1. UNCHANGED <<sourceEscrows, chosen, settlement, clientPc>>
  BY DEF Handle, AcceptDebit, FailDebit, RunQuery, NodeFinalize, NodeFinalizeThrows, payer
<1>2. /\ nodePc[q] # "none"
      /\ \E label \in NodePc \ {"none"} : nodePc' = [nodePc EXCEPT ![q] = label]
  BY DEF Handle, AcceptDebit, FailDebit, RunQuery, NodeFinalize, NodeFinalizeThrows,
         NodeGoto, NodePc
<1>3. \A p \in Query : nodePc'[p] = "none" <=> nodePc[p] = "none"
  BY <1>2, Types
<1>4. PICK e \in Escrow : e = chosen[q]
  BY <1>2 DEF IInv, QueriesHaveEscrows
<1>5. CASE escrows' = escrows
  BY <1>1, <1>3, <1>5, QuietSteps
<1>6. Signed(e)' = Signed(e)
  BY <1>1, <1>3, SentStays
<1>7. ASSUME NEW remaining \in Nat, escrows[e] # None, remaining <= escrows[e].allocated,
             escrows' = [escrows EXCEPT ![e].remaining = remaining],
             remaining < escrows[e].remaining =>
               escrows[e].allocated - remaining <= Signed(e) * MicrogonsPerMilligon
      PROVE  [Ledger!Next]_Accounts
  <2>1. ASSUME NEW f \in Escrow \ {e}
        PROVE  Account(f)' = Account(f)
    <3>1. escrows'[f] = escrows[f]
      BY <1>7, Types DEF Rows
    <3>2. Signed(f)' = Signed(f)
      BY <1>1, <1>3, SentStays
    <3>3. Unopened(f)' <=> Unopened(f)
      BY <1>1 DEF Unopened
    <3> QED
      BY <3>1, <3>2, <3>3, SameAccount
  <2> QED
    BY <1>1, <1>6, <1>7, <2>1, HoldOrRelease
<1>8. CASE AcceptDebit(q)
  <2>1. /\ escrows[e] # None /\ Price[q] <= escrows[e].remaining
        /\ CoveredBy(Spent(e) + Price[q], settlement[q])
        /\ escrows' = [escrows EXCEPT ![e].remaining = @ - Price[q]]
    BY <1>4, <1>8 DEF AcceptDebit, DebitAccepted, CanDebit
  <2>2. /\ escrows[e].remaining \in Nat /\ escrows[e].allocated \in Nat /\ Price[q] \in Nat
        /\ escrows[e].remaining <= escrows[e].allocated
    BY <2>1, Types, PriceType DEF Rows, EscrowRow, AmountsInv, RowsWithin
  <2>3. PICK remaining : remaining = escrows[e].remaining - Price[q]
    OBVIOUS
  <2>4. /\ remaining \in Nat /\ remaining <= escrows[e].allocated
        /\ escrows' = [escrows EXCEPT ![e].remaining = remaining]
    BY <2>1, <2>2, <2>3
  <2>5. settlement[q] * MicrogonsPerMilligon <= Signed(e) * MicrogonsPerMilligon
        /\ settlement[q] * MicrogonsPerMilligon \in Nat
        /\ Signed(e) * MicrogonsPerMilligon \in Nat
    <3>1. q \in Sent(e)
      BY <1>2, <1>4 DEF Sent
    <3>2. settlement[q] \in Nat /\ settlement[q] <= Signed(e) /\ Signed(e) \in Nat
      BY <3>1, SignedType, Types DEF IsSigned
    <3> QED
      BY <3>2, TimesMonotone
  <2>6. escrows[e].allocated - remaining <= settlement[q] * MicrogonsPerMilligon
    <3>1. Spent(e) + Price[q] <= settlement[q] * MicrogonsPerMilligon
      BY <2>1 DEF CoveredBy
    <3>2. escrows[e].allocated - remaining = Spent(e) + Price[q]
      BY <2>2, <2>3 DEF Spent
    <3> QED
      BY <3>1, <3>2
  <2>7. escrows[e].allocated - remaining <= Signed(e) * MicrogonsPerMilligon
    BY <2>2, <2>4, <2>5, <2>6
  <2> QED
    BY <1>7, <2>1, <2>4, <2>7
<1>9. CASE NodeFinalize(q)
  <2>1. PICK adjustment : adjustment = Adjustment(e, q, tally[q])
    OBVIOUS
  <2>2. FinalizePayment(e, q, tally[q])
    BY <1>4, <1>9 DEF NodeFinalize
  <2>3. CASE adjustment = 0
    BY <1>5, <2>1, <2>2, <2>3 DEF FinalizePayment
  <2>4. CASE adjustment # 0
    <3>1. /\ escrows[e] # None /\ escrows[e].remaining + adjustment \in 0 .. escrows[e].allocated
          /\ escrows' = [escrows EXCEPT ![e].remaining = @ + adjustment]
      BY <2>1, <2>2, <2>4 DEF FinalizePayment, FinalizeSucceeds, CanAdjust
    <3>2. adjustment \in Nat
      <4>1. adjustment = Price[q] - tally[q]
        BY <2>1, <2>2 DEF FinalizePayment, FinalizeSucceeds, Adjustment, AccountsInv, QueryInv
      <4>2. tally[q] \in Nat /\ tally[q] <= Price[q] /\ Price[q] \in Nat
        BY Types, PriceType DEF IInv, QueriesHaveEscrows
      <4> QED
        BY <4>1, <4>2
    <3>3. PICK remaining : remaining = escrows[e].remaining + adjustment
      OBVIOUS
    <3>4. escrows[e].remaining \in Nat /\ escrows[e].allocated \in Nat
      BY <3>1, Types DEF Rows, EscrowRow
    <3>5. /\ remaining \in Nat /\ remaining <= escrows[e].allocated
          /\ escrows' = [escrows EXCEPT ![e].remaining = remaining]
          /\ ~ (remaining < escrows[e].remaining)
      BY <3>1, <3>2, <3>3, <3>4
    <3> QED
      BY <1>7, <3>1, <3>5
  <2> QED
    BY <2>3, <2>4
<1>10. CASE FailDebit(q) \/ RunQuery(q) \/ NodeFinalizeThrows(q)
  <2>1. escrows' = escrows
    BY <1>10 DEF FailDebit, DebitFailed, RunQuery, NodeFinalizeThrows, dbVars
  <2> QED
    BY <1>5, <2>1
<1> QED
  BY <1>8, <1>9, <1>10 DEF Handle

\* Restarts and the end of an escrow close accounts.
LEMMA CloseLedger ==
  ASSUME IInv, IInv', AccountsInv, AmountsInv, PayerRestart \/ CleanupEscrows
  PROVE  Ledger!Next
<1>1. /\ UNCHANGED <<sourceEscrows, chosen, settlement, nodePc>>
      /\ \A q \in Query : clientPc'[q] = "registering" => clientPc[q] = "registering"
  BY DEF PayerRestart, CleanupEscrows, payer, node, Interrupted
<1>2. \A e \in Escrow : Signed(e)' = Signed(e)
  BY <1>1, SentStays
<1>3. CASE PayerRestart
  <2>1. escrows' = escrows
    BY <1>3 DEF PayerRestart, node, dbVars
  <2>2. \A q \in Query : clientPc'[q] # "registering"
    BY <1>3 DEF PayerRestart, Interrupted
  <2>3. PICK dropped \in SUBSET Escrow :
          dropped = {e \in Escrow : \E q \in Query : clientPc[q] = "registering" /\ chosen[q] = e}
    OBVIOUS
  <2>4. ASSUME NEW e \in dropped
        PROVE  Account(e)' = Ledger!Empty("closed")
    <3>1. e \in Escrow /\ sourceEscrows[e] # None /\ escrows[e] = None
      BY <2>3 DEF IInv, RegisteringAtMinimum, AmountsInv, RowsWithin
    <3> QED
      BY <1>1, <2>1, <2>2, <3>1, NeverOpened
  <2>5. ASSUME NEW e \in Escrow \ dropped
        PROVE  Account(e)' = Account(e)
    <3>1. Unopened(e)' <=> Unopened(e)
      BY <1>1, <2>2, <2>3 DEF Unopened
    <3> QED
      BY <1>2, <2>1, <3>1, SameAccount
  <2> QED
    BY <2>4, <2>5, AccountsClose
<1>4. CASE CleanupEscrows
  <2>1. /\ escrows' = [e \in Escrow |-> IF Stale(e) THEN None ELSE escrows[e]]
        /\ UNCHANGED clientPc
    BY <1>4 DEF CleanupEscrows, Cleanup, payer
  <2>2. PICK dropped \in SUBSET Escrow : dropped = {e \in Escrow : Stale(e)}
    OBVIOUS
  <2>3. ASSUME NEW e \in dropped
        PROVE  Account(e)' = Ledger!Empty("closed")
    <3>1. e \in Escrow /\ escrows[e] # None /\ escrows'[e] = None
      BY <2>1, <2>2 DEF Stale
    <3>2. sourceEscrows[e] # None
      BY <3>1 DEF AccountsInv, EscrowsAreOpened, SameAsOpened
    <3>3. \A q \in Query : clientPc[q] = "registering" => chosen[q] # e
      BY <3>1 DEF AmountsInv, RowsWithin
    <3> QED
      BY <1>1, <2>1, <3>1, <3>2, <3>3, NeverOpened
  <2>4. ASSUME NEW e \in Escrow \ dropped
        PROVE  Account(e)' = Account(e)
    <3>1. escrows'[e] = escrows[e]
      BY <2>1, <2>2
    <3>2. Unopened(e)' <=> Unopened(e)
      BY <1>1, <2>1 DEF Unopened
    <3> QED
      BY <1>2, <3>1, <3>2, SameAccount
  <2> QED
    BY <2>3, <2>4, AccountsClose
<1> QED
  BY <1>3, <1>4

\* The other steps change no account.
LEMMA QuietLedger ==
  ASSUME IInv, IInv',
         \/ \E q \in Query : \/ Submit(q)
                             \/ Answer(q) \/ ErrorAnswer(q) \/ ConnectionLost(q)
         \/ Save \/ NodeRestart \/ Tick \/ UNCHANGED vars
  PROVE  UNCHANGED Accounts
<1>1. ASSUME NEW q \in Query, Submit(q)
      PROVE  UNCHANGED Accounts
  <2>1. /\ UNCHANGED <<escrows, sourceEscrows, chosen, settlement, nodePc>>
        /\ clientPc[q] = "idle" /\ clientPc' = [clientPc EXCEPT ![q] = "queued"]
    BY <1>1 DEF Submit, ClientGoto, node, dbVars
  <2>2. \A p \in Query : clientPc'[p] = "registering" <=> clientPc[p] = "registering"
    BY <2>1, Types
  <2> QED
    BY <2>1, <2>2, QuietSteps
<1>2. ASSUME NEW q \in Query, Answer(q) \/ ErrorAnswer(q) \/ ConnectionLost(q)
      PROVE  UNCHANGED Accounts
  <2>1. /\ UNCHANGED <<escrows, sourceEscrows, chosen, settlement>>
        /\ clientPc[q] = "waiting"
        /\ \E label \in {"done", "gaveUp", "threw"} : clientPc' = [clientPc EXCEPT ![q] = label]
    BY <1>2 DEF Answer, ErrorAnswer, ConnectionLost, Finalize, CallbackThrows,
                ClientGoto, dbVars
  <2>2. \A p \in Query : clientPc'[p] = "registering" <=> clientPc[p] = "registering"
    BY <2>1, Types
  <2>3. \/ nodePc' = nodePc
        \/ nodePc[q] = "debit" /\ nodePc' = [nodePc EXCEPT ![q] = "gone"]
    BY <1>2 DEF Answer, ErrorAnswer, ConnectionLost
  <2>4. \A p \in Query : nodePc'[p] = "none" <=> nodePc[p] = "none"
    BY <2>3, Types
  <2> QED
    BY <2>1, <2>2, <2>4, QuietSteps
<1>3. CASE Save \/ Tick \/ UNCHANGED vars
  <2>1. UNCHANGED <<escrows, sourceEscrows, chosen, settlement, nodePc, clientPc>>
    BY <1>3 DEF Save, Tick, vars, payer, node, dbVars
  <2> QED
    BY <2>1, QuietSteps
<1>4. CASE NodeRestart
  <2>1. /\ UNCHANGED <<escrows, sourceEscrows, chosen, settlement, clientPc>>
        /\ \A p \in Query : nodePc'[p] = "none" <=> nodePc[p] = "none"
    BY <1>4 DEF NodeRestart, ForgetPayments, payer
  <2> QED
    BY <2>1, QuietSteps
<1> QED
  BY <1>1, <1>2, <1>3, <1>4

LEMMA NextLedger ==
  ASSUME IInv, IInv', AccountsInv, AccountsInv', AmountsInv, AmountsInv', [Next]_vars
  PROVE  [Ledger!Next]_Accounts
<1>1. ASSUME NEW q \in Query, Register(q)
      PROVE  Ledger!Next
  BY <1>1, CreateRowLedger DEF Register
<1>2. ASSUME NEW q \in Query, RegistrationLost(q)
      PROVE  Ledger!Next
  BY <1>2, CreateRowLedger, RegistrationLostLedger DEF RegistrationLost
<1>3. ASSUME NEW q \in Query, Turn(q) \/ Sign(q) \/ SignFails(q)
      PROVE  UNCHANGED Accounts
  BY <1>3, TurnLedger
<1>4. ASSUME NEW q \in Query, Send(q)
      PROVE  [Ledger!Next]_Accounts
  BY <1>4, SendLedger
<1>5. ASSUME NEW q \in Query, Handle(q)
      PROVE  [Ledger!Next]_Accounts
  BY <1>5, HandleLedger
<1>6. ASSUME NEW q \in Query, Submit(q) \/ Answer(q) \/ ErrorAnswer(q) \/ ConnectionLost(q)
      PROVE  UNCHANGED Accounts
  BY <1>6, QuietLedger
<1>7. Save \/ NodeRestart \/ Tick \/ UNCHANGED vars => UNCHANGED Accounts
  BY QuietLedger
<1>8. PayerRestart \/ CleanupEscrows => Ledger!Next
  BY CloseLedger
<1> QED
  BY <1>1, <1>2, <1>3, <1>4, <1>5, <1>6, <1>7, <1>8 DEF Next, Client

LEMMA InitLedger == Init => Ledger!Init
BY DEF Init, DbInit, Ledger!Init, Ledger!Empty, Accounts, Account, Unopened

\* Payer and datastore together implement the ledger, whatever is lost, restarted or
\* refused, and however the queries of the payer interleave: an escrow is opened at
\* most once, the datastore holds of it what a settlement that was sent covers and
\* what the escrow has, and what it releases it held.
THEOREM PaymentsImplementLedger == Spec => ImplementsLedger
<1>1. Init => Ledger!Init
  BY InitLedger
<1>2. /\ IInv /\ IInv' /\ AccountsInv /\ AccountsInv' /\ AmountsInv /\ AmountsInv'
      /\ [Next]_vars
      => [Ledger!Next]_Accounts
  BY NextLedger
<1>3. Spec => [](IInv /\ AccountsInv /\ AmountsInv)
  BY AmountsHold
<1> QED
  BY <1>1, <1>2, <1>3, PTL DEF Spec, ImplementsLedger, Ledger!Spec
=============================================================================
