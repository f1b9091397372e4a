------------------------ MODULE EscrowPayments_proofs ------------------------
(***************************************************************************)
(* Proofs about EscrowPayments, for any queries, prices, escrows, ratio of *)
(* microgons to milligons, strategy and number of faults: types, that what *)
(* the payer signed covers what it reserved, and that its queue moves on.  *)
(***************************************************************************)
EXTENDS EscrowPayments, TLAPS

IInv ==
  /\ TypeOK
  /\ SignedCoversReserved
  /\ QueueMovesOn
  /\ SavedIsCovered
  /\ QueriesHaveEscrows
  /\ RegisteringAtMinimum
  /\ SigningIsCovered

(* Arithmetic: rounding up covers, and charging and releasing keep covered
   what is covered. *)

LEMMA CeilCovers ==
  ASSUME NEW n \in Int
  PROVE  /\ CeilMilligons(n) \in Int
         /\ CoveredBy(n, CeilMilligons(n))
<1> DEFINE k == MicrogonsPerMilligon
           a == n + k - 1
           d == a \div k
<1>1. k \in Nat /\ k > 0 /\ a \in Int
  BY MicrogonsPerMilligonAssumption
<1>2. a = k * d + (a % k) /\ d \in Int /\ (a % k) \in 0 .. (k - 1)
  BY <1>1, SMTT(30)
<1>3. k * d = d * k
  BY <1>1, <1>2
<1> QED
  BY <1>1, <1>2, <1>3, SMTT(30) DEF CeilMilligons, CoveredBy

LEMMA ChargedIsCovered ==
  ASSUME NEW b \in Balance, NEW microgons \in Nat, NEW milligons \in Nat,
         Signable(b, microgons, milligons)
  PROVE  /\ Charged(b, microgons, milligons) \in Balance
         /\ Covered(Charged(b, microgons, milligons))
<1> DEFINE signed == milligons * MicrogonsPerMilligon
<1>1. signed \in Nat /\ b.allocated \in Nat /\ b.remaining \in Nat /\ b.expirationDate \in Nat
  BY MicrogonsPerMilligonAssumption DEF Balance
<1>2. b.allocated - b.remaining + microgons <= signed /\ signed <= b.allocated
  BY DEF Signable, CoveredBy, CanRelease
<1> HIDE DEF signed
<1>3. /\ b.remaining - microgons \in Nat
      /\ b.allocated - (b.remaining - microgons) <= signed
  BY <1>1, <1>2
<1> QED
  BY <1>1, <1>2, <1>3 DEF Charged, Covered, CoveredBy, Balance, signed

LEMMA ReleasedIsCovered ==
  ASSUME NEW b \in Balance, NEW microgons \in Int, microgons <= 0, Covered(b)
  PROVE  /\ Charged(b, microgons, b.settledMilligons) \in Balance
         /\ Covered(Charged(b, microgons, b.settledMilligons))
<1> DEFINE signed == b.settledMilligons * MicrogonsPerMilligon
<1>1. /\ signed \in Nat /\ b.allocated \in Nat /\ b.remaining \in Nat
      /\ b.expirationDate \in Nat /\ b.settledMilligons \in Nat
  BY MicrogonsPerMilligonAssumption DEF Balance
<1>2. b.allocated - b.remaining <= signed /\ signed <= b.allocated
  BY DEF Covered, CoveredBy
<1> HIDE DEF signed
<1>3. /\ b.remaining - microgons \in Nat
      /\ b.allocated - (b.remaining - microgons) <= signed
  BY <1>1, <1>2
<1> QED
  BY <1>1, <1>2, <1>3 DEF Charged, Covered, CoveredBy, Balance, signed

LEMMA ReleasedIsSignable ==
  ASSUME NEW b \in Balance, NEW released \in Int, released <= 0,
         NEW microgons \in Nat, NEW milligons \in Nat,
         Signable(b, microgons, milligons)
  PROVE  Signable(Charged(b, released, b.settledMilligons), microgons, milligons)
<1> DEFINE signed == milligons * MicrogonsPerMilligon
           c == Charged(b, released, b.settledMilligons)
<1>1. signed \in Nat /\ b.allocated \in Nat /\ b.remaining \in Nat
  BY MicrogonsPerMilligonAssumption DEF Balance
<1>2. b.allocated - b.remaining + microgons <= signed /\ signed <= b.allocated
  BY DEF Signable, CoveredBy, CanRelease
<1>3. c.allocated = b.allocated /\ c.remaining = b.remaining - released
  BY DEF Charged
<1> HIDE DEF signed, c
<1>4. c.allocated - c.remaining + microgons <= signed
  BY <1>1, <1>2, <1>3
<1> QED
  BY <1>2, <1>3, <1>4 DEF Signable, CoveredBy, CanRelease, signed, c

LEMMA NewIsCovered ==
  ASSUME NEW o \in Opened, MinimumSettlement <= o.milligons
  PROVE  NewBalance(o) \in Balance /\ Covered(NewBalance(o))
<1> DEFINE k == MicrogonsPerMilligon
<1>1. /\ k \in Nat /\ MinimumSettlement \in Nat /\ o.milligons \in Nat
      /\ o.expirationDate \in Nat
  BY MicrogonsPerMilligonAssumption, BoundsAssumption DEF Opened
<1>2. /\ MinimumSettlement * k \in Nat /\ o.milligons * k \in Nat
      /\ MinimumSettlement * k <= o.milligons * k
  BY <1>1, SMTT(30)
<1> QED
  BY <1>1, <1>2 DEF NewBalance, Balance, Covered, CoveredBy

\* The allocation of a new escrow is at least the minimum.
LEMMA EscrowMilligonsType ==
  ASSUME NEW microgons \in Nat
  PROVE  EscrowMilligons(microgons) \in Nat /\ MinimumSettlement <= EscrowMilligons(microgons)
<1> DEFINE s == microgons * Strategy.size
           n == StrategyMilligons(microgons)
<1>1. s \in Nat /\ MicrogonsPerMilligon \in Nat \ {0} /\ MinimumSettlement \in Nat
  BY StrategyAssumption, MicrogonsPerMilligonAssumption, BoundsAssumption
<1>2. s \div MicrogonsPerMilligon \in Int
  BY <1>1
<1>3. n \in Int
  BY <1>1, <1>2, StrategyAssumption DEF StrategyMilligons
<1> HIDE DEF n
<1>4. IF n < MinimumSettlement THEN TRUE ELSE n \in Nat
  BY <1>1, <1>3
<1> QED
  BY <1>1, <1>3, <1>4 DEF EscrowMilligons, n

(* Reservations *)

List == [Escrow -> Balance \cup {None}]
ListCovered(list) == \A e \in Escrow : list[e] # None => Covered(list[e])

\* A turn that is over leaves no turn.
LEMMA TurnEnds ==
  ASSUME IInv, NEW q \in Query, queue \in {None, q}, NEW label \in ClientPc,
         label \notin {"registering", "signing"}, EndTurn(q, label)
  PROVE  /\ queue' \in Query \cup {None} /\ target' \in Nat
         /\ clientPc' \in [Query -> ClientPc]
         /\ QueueMovesOn'
         /\ \A p \in Query : clientPc'[p] \notin {"registering", "signing"}
<1> USE NoneAssumption DEF Query
<1>1. clientPc' = [clientPc EXCEPT ![q] = label] /\ queue' = None /\ target' = 0
  BY DEF EndTurn, ClientGoto
<1>2. clientPc \in [Query -> ClientPc]
  BY DEF IInv, TypeOK
<1>3. \A p \in Query : clientPc'[p] \notin {"registering", "signing"}
  BY <1>1, <1>2 DEF IInv, QueueMovesOn
<1>4. \A p \in Query : p # None
  OBVIOUS
<1> QED
  BY <1>1, <1>2, <1>3, <1>4 DEF QueueMovesOn

\* A turn that begins to wait is the only one.
LEMMA TurnWaits ==
  ASSUME IInv, NEW q \in Query, queue \in {None, q},
         NEW label \in {"registering", "signing"},
         queue' = q, clientPc' = [clientPc EXCEPT ![q] = label]
  PROVE  /\ queue' \in Query \cup {None}
         /\ clientPc' \in [Query -> ClientPc]
         /\ QueueMovesOn'
         /\ \A p \in Query : clientPc'[p] \in {"registering", "signing"} => p = q
<1> USE NoneAssumption DEF Query
<1>1. clientPc \in [Query -> ClientPc] /\ label \in ClientPc
  BY DEF IInv, TypeOK, ClientPc
<1>2. \A p \in Query : p # None
  OBVIOUS
<1>3. \A p \in Query : p # q => clientPc[p] \notin {"registering", "signing"}
  BY <1>2 DEF IInv, QueueMovesOn
<1> QED
  BY <1>1, <1>2, <1>3 DEF QueueMovesOn

LEMMA ChargeEffect ==
  ASSUME IInv, NEW q \in Query, queue \in {None, q}, NEW e \in Escrow,
         NEW list \in List, ListCovered(list), list[e] # None,
         NEW milligons \in Nat, Signable(list[e], Price[q], milligons),
         Charge(q, e, list, milligons)
  PROVE  /\ balances' \in List
         /\ SignedCoversReserved'
         /\ settlement' \in [Query -> Nat]
         /\ pending' \in SUBSET Query
         /\ needsSave' \in BOOLEAN
         /\ clientPc' = [clientPc EXCEPT ![q] = "reserved"]
         /\ queue' \in Query \cup {None} /\ target' \in Nat
         /\ clientPc' \in [Query -> ClientPc]
         /\ QueueMovesOn'
         /\ \A p \in Query : clientPc'[p] \notin {"registering", "signing"}
<1> DEFINE b == Charged(list[e], Price[q], milligons)
<1>1. list[e] \in Balance /\ Price[q] \in Nat
  BY PriceAssumption DEF List
<1>2. b \in Balance /\ Covered(b)
  BY <1>1, ChargedIsCovered
<1>3. balances' = [list EXCEPT ![e] = b]
  BY DEF Charge
<1> HIDE DEF b
<1>4. balances' \in List
  BY <1>2, <1>3 DEF List
<1>5. SignedCoversReserved'
  BY <1>2, <1>3 DEF List, ListCovered, SignedCoversReserved
<1>6. /\ settlement' \in [Query -> Nat]
      /\ pending' \in SUBSET Query
      /\ needsSave' \in BOOLEAN
  BY DEF Charge, PaymentsOf, IInv, TypeOK
<1>7. "reserved" \in ClientPc /\ EndTurn(q, "reserved")
  BY DEF Charge, ClientPc
<1>8. clientPc' = [clientPc EXCEPT ![q] = "reserved"]
  BY <1>7 DEF EndTurn, ClientGoto
<1> QED
  BY <1>4, <1>5, <1>6, <1>7, <1>8, TurnEnds

LEMMA BeginChargeEffect ==
  ASSUME IInv, NEW q \in Query, queue \in {None, q}, NEW e \in Escrow,
         NEW list \in List, ListCovered(list), list[e] # None,
         NEW open, BeginCharge(q, e, list, open)
  PROVE  /\ balances' \in List
         /\ SignedCoversReserved'
         /\ settlement' \in [Query -> Nat]
         /\ pending' \in SUBSET Query
         /\ needsSave' \in BOOLEAN
         /\ \E label \in {"failed", "reserved", "signing"} :
              clientPc' = [clientPc EXCEPT ![q] = label]
         /\ queue' \in Query \cup {None} /\ target' \in Nat
         /\ clientPc' \in [Query -> ClientPc]
         /\ QueueMovesOn'
         /\ \A p \in Query : clientPc'[p] # "registering"
         /\ \A p \in Query : clientPc'[p] = "signing" =>
              /\ p = q
              /\ balances'[e] # None
              /\ Signable(balances'[e], Price[q], target')
<1> DEFINE milligons == SettlementFor(list[e], Price[q])
           mustSign == milligons > list[e].settledMilligons
           throws == ~CanRelease(list[e], milligons) \/ (mustSign /\ e \notin open)
           owed == list[e].allocated - list[e].remaining + Price[q]
<1>1. /\ list[e] \in Balance /\ Price[q] \in Nat /\ owed \in Int
      /\ list[e].settledMilligons \in Nat
  BY PriceAssumption DEF List, Balance
<1>2. milligons \in Int /\ CoveredBy(owed, milligons)
  BY <1>1, CeilCovers DEF SettlementFor
<1>3. Covered(list[e])
  BY DEF ListCovered
<1>4. \/ throws /\ balances' = list /\ EndTurn(q, "failed")
         /\ UNCHANGED <<settlement, pending, needsSave>>
      \/ ~throws /\ ~mustSign /\ Charge(q, e, list, list[e].settledMilligons)
      \/ /\ ~throws /\ mustSign /\ balances' = list /\ queue' = q
         /\ target' = milligons /\ ClientGoto(q, "signing")
         /\ UNCHANGED <<settlement, pending, needsSave>>
  BY DEF BeginCharge
<1>5. ~throws => Signable(list[e], Price[q], milligons)
  BY <1>2 DEF Signable
<1> HIDE DEF milligons
<1>6. CASE throws /\ balances' = list /\ EndTurn(q, "failed")
           /\ UNCHANGED <<settlement, pending, needsSave>>
  <2>1. /\ queue' \in Query \cup {None} /\ target' \in Nat
        /\ clientPc' \in [Query -> ClientPc]
        /\ QueueMovesOn'
        /\ \A p \in Query : clientPc'[p] \notin {"registering", "signing"}
    <3>1. "failed" \in ClientPc
      BY DEF ClientPc
    <3> QED
      BY <1>6, <3>1, TurnEnds
  <2>2. clientPc' = [clientPc EXCEPT ![q] = "failed"]
    BY <1>6 DEF EndTurn, ClientGoto
  <2>3. SignedCoversReserved'
    BY <1>6 DEF ListCovered, SignedCoversReserved
  <2> QED
    BY <1>6, <2>1, <2>2, <2>3 DEF IInv, TypeOK
<1>7. CASE ~throws /\ ~mustSign /\ Charge(q, e, list, list[e].settledMilligons)
  <2>1. Signable(list[e], Price[q], list[e].settledMilligons)
    <3> DEFINE k == MicrogonsPerMilligon
               s == list[e].settledMilligons
    <3>1. k \in Nat /\ k > 0 /\ s \in Nat /\ milligons <= s
      BY <1>1, <1>2, <1>7, MicrogonsPerMilligonAssumption
    <3>2. milligons * k <= s * k /\ milligons * k \in Int /\ s * k \in Int
      BY <1>2, <3>1, SMTT(30)
    <3>3. owed <= milligons * k
      BY <1>2 DEF CoveredBy
    <3>4. s * k <= list[e].allocated
      BY <1>3 DEF Covered
    <3>5. owed <= s * k
      BY <1>1, <3>2, <3>3
    <3> QED
      BY <3>4, <3>5 DEF Signable, CoveredBy, CanRelease
  <2> QED
    BY <1>1, <1>7, <2>1, ChargeEffect
<1>8. CASE /\ ~throws /\ mustSign /\ balances' = list /\ queue' = q
           /\ target' = milligons /\ ClientGoto(q, "signing")
           /\ UNCHANGED <<settlement, pending, needsSave>>
  <2>1. clientPc' = [clientPc EXCEPT ![q] = "signing"]
    BY <1>8 DEF ClientGoto
  <2>2. /\ queue' \in Query \cup {None}
        /\ clientPc' \in [Query -> ClientPc]
        /\ QueueMovesOn'
        /\ \A p \in Query : clientPc'[p] \in {"registering", "signing"} => p = q
    BY <1>8, <2>1, TurnWaits
  <2>3. target' \in Nat
    BY <1>1, <1>2, <1>8
  <2>4. SignedCoversReserved'
    BY <1>8 DEF ListCovered, SignedCoversReserved
  <2>5. clientPc'[q] = "signing"
    BY <2>1 DEF IInv, TypeOK
  <2> QED
    BY <1>5, <1>8, <2>1, <2>2, <2>3, <2>4, <2>5 DEF IInv, TypeOK
<1> QED
  BY <1>4, <1>6, <1>7, <1>8

(* The table of the datastore *)

LEMMA CreateRowType ==
  ASSUME IInv, NEW q \in Query, clientPc[q] = "registering", CreateRow(q), UNCHANGED now
  PROVE  DbTypeOK'
<1> USE NoneAssumption DEF Query
<1> DEFINE o == sourceEscrows[chosen[q]]
<1>1. chosen[q] \in Escrow /\ o \in Opened
  BY DEF IInv, TypeOK, QueriesHaveEscrows, RegisteringAtMinimum
<1>2. /\ o.milligons * MicrogonsPerMilligon \in Nat
      /\ o.expirationDate \in Nat
  BY <1>1, MicrogonsPerMilligonAssumption DEF Opened
<1>3. [allocated |-> o.milligons * MicrogonsPerMilligon,
       remaining |-> o.milligons * MicrogonsPerMilligon,
       expirationDate |-> o.expirationDate] \in EscrowRow
  BY <1>2 DEF EscrowRow
<1>4. escrows' \in [Escrow -> EscrowRow \cup {None}]
  BY <1>1, <1>3 DEF CreateRow, CreateEscrow, IInv, TypeOK, DbTypeOK
<1> QED
  BY <1>4 DEF CreateRow, CreateEscrow, IInv, TypeOK, DbTypeOK

LEMMA DebitType ==
  ASSUME IInv, NEW q \in Query, nodePc[q] = "debit", UNCHANGED now,
         \/ DebitAccepted(chosen[q], q, QueryIdOf(q), Price[q], settlement[q])
         \/ DebitFailed(chosen[q], q, QueryIdOf(q), Price[q], settlement[q])
  PROVE  DbTypeOK'
<1> USE NoneAssumption DEF Query
<1> DEFINE e == chosen[q]
<1>1. e \in Escrow /\ Price[q] \in Nat /\ q \in Uuid
  BY PriceAssumption DEF IInv, QueriesHaveEscrows
<1>2. [microgons |-> Price[q], queryId |-> QueryIdOf(q)] \in Entry
  BY <1>1, QueryAssumption DEF Entry, QueryId, QueryIdOf
<1>3. RememberDebit(e, q, QueryIdOf(q), Price[q])
  BY DEF DebitAccepted, DebitFailed
<1>4. paymentIdByEscrowId' \in [Escrow -> [Uuid -> Entry \cup {None}]]
  <2>1. paymentIdByEscrowId \in [Escrow -> [Uuid -> Entry \cup {None}]]
    BY DEF IInv, TypeOK, DbTypeOK
  <2> QED
    BY <1>1, <1>2, <1>3, <2>1 DEF RememberDebit
<1>5. escrows' \in [Escrow -> EscrowRow \cup {None}]
  <2>1. CASE DebitFailed(e, q, QueryIdOf(q), Price[q], settlement[q])
    BY <2>1 DEF DebitFailed, IInv, TypeOK, DbTypeOK
  <2>2. CASE DebitAccepted(e, q, QueryIdOf(q), Price[q], settlement[q])
    <3>1. /\ escrows' = [escrows EXCEPT ![e].remaining = @ - Price[q]]
          /\ escrows[e] # None /\ Price[q] <= escrows[e].remaining
      BY <2>2 DEF DebitAccepted, CanDebit
    <3>2. escrows \in [Escrow -> EscrowRow \cup {None}] /\ escrows[e] \in EscrowRow
      BY <1>1, <3>1 DEF IInv, TypeOK, DbTypeOK
    <3>3. [escrows[e] EXCEPT !.remaining = @ - Price[q]] \in EscrowRow
      BY <1>1, <3>1, <3>2 DEF EscrowRow
    <3> QED
      BY <1>1, <3>1, <3>2, <3>3
  <2> QED
    BY <2>1, <2>2
<1> QED
  BY <1>4, <1>5 DEF IInv, TypeOK, DbTypeOK

LEMMA FinalizeType ==
  ASSUME IInv, NEW q \in Query, nodePc[q] # "none", UNCHANGED now,
         FinalizePayment(chosen[q], q, tally[q])
  PROVE  DbTypeOK'
<1> USE NoneAssumption DEF Query
<1> DEFINE e == chosen[q]
           adjustment == Adjustment(e, q, tally[q])
<1>1. e \in Escrow
  BY DEF IInv, QueriesHaveEscrows
<1>2. escrows \in [Escrow -> EscrowRow \cup {None}]
  BY DEF IInv, TypeOK, DbTypeOK
<1>3. escrows' \in [Escrow -> EscrowRow \cup {None}]
  <2>1. CASE adjustment = 0
    BY <1>2, <2>1 DEF FinalizePayment
  <2>2. CASE adjustment # 0
    <3>1. /\ escrows' = [escrows EXCEPT ![e].remaining = @ + adjustment]
          /\ CanAdjust(e, adjustment)
      BY <2>2 DEF FinalizePayment, FinalizeSucceeds
    <3> HIDE DEF adjustment
    <3>2. /\ escrows[e] \in EscrowRow
          /\ escrows[e].remaining + adjustment \in 0 .. escrows[e].allocated
      BY <1>1, <1>2, <3>1 DEF CanAdjust
    <3>3. escrows[e].remaining + adjustment \in Nat
      BY <3>2 DEF EscrowRow
    <3>4. [escrows[e] EXCEPT !.remaining = @ + adjustment] \in EscrowRow
      BY <3>2, <3>3 DEF EscrowRow
    <3> QED
      BY <1>1, <1>2, <3>1, <3>4
  <2> QED
    BY <2>1, <2>2
<1> QED
  BY <1>3 DEF FinalizePayment, IInv, TypeOK, DbTypeOK

(* The datastore *)

\* A step of the datastore leaves the payer alone.
LEMMA NodeStep ==
  ASSUME IInv, UNCHANGED payer, DbTypeOK', nodePc' \in [Query -> NodePc],
         tally' \in [Query -> Nat], faults' \in Nat,
         \A q \in Query : tally'[q] <= Price[q],
         \A q \in Query : nodePc[q] = "none" => nodePc'[q] = "none"
  PROVE  IInv'
<1>1. TypeOK'
  BY DEF IInv, TypeOK, payer, storage
<1>2. SignedCoversReserved' /\ QueueMovesOn' /\ SavedIsCovered'
  BY DEF IInv, SignedCoversReserved, QueueMovesOn, SavedIsCovered, payer, storage
<1>3. QueriesHaveEscrows'
  BY DEF IInv, QueriesHaveEscrows, payer
<1>4. RegisteringAtMinimum' /\ SigningIsCovered'
  BY DEF IInv, RegisteringAtMinimum, SigningIsCovered, payer
<1> QED
  BY <1>1, <1>2, <1>3, <1>4 DEF IInv

LEMMA HandleInv ==
  ASSUME IInv, NEW q \in Query, Handle(q)
  PROVE  IInv'
<1> DEFINE TalliesFit == \A p \in Query : tally[p] <= Price[p]
<1>1. /\ UNCHANGED <<payer, now, faults>> /\ TalliesFit
      /\ nodePc \in [Query -> NodePc] /\ tally \in [Query -> Nat] /\ faults \in Nat
  BY DEF Handle, AcceptDebit, FailDebit, RunQuery, NodeFinalize, NodeFinalizeThrows,
         IInv, TypeOK, QueriesHaveEscrows
<1>2. CASE AcceptDebit(q) \/ FailDebit(q)
  <2>1. PICK label \in {"run", "finalizeRejected"} :
          nodePc' = [nodePc EXCEPT ![q] = label] /\ nodePc[q] = "debit" /\ tally' = tally
    BY <1>2 DEF AcceptDebit, FailDebit, NodeGoto
  <2>2. DbTypeOK'
    BY <1>1, <1>2, DebitType DEF AcceptDebit, FailDebit
  <2> QED
    BY <1>1, <2>1, <2>2, NodeStep DEF NodePc
<1>3. CASE RunQuery(q)
  <2>1. PICK microgons \in Tally[q] : tally' = [tally EXCEPT ![q] = microgons]
    BY <1>3 DEF RunQuery
  <2>2. microgons \in Nat /\ microgons <= Price[q]
    BY <2>1, PriceAssumption
  <2>3. tally' \in [Query -> Nat] /\ \A p \in Query : tally'[p] <= Price[p]
    BY <1>1, <2>1, <2>2
  <2>4. /\ nodePc' = [nodePc EXCEPT ![q] = "finalize"] /\ nodePc[q] = "run"
        /\ DbTypeOK'
    BY <1>3 DEF RunQuery, NodeGoto, dbVars, IInv, TypeOK, DbTypeOK
  <2> QED
    BY <1>1, <2>3, <2>4, NodeStep DEF NodePc
<1>4. CASE NodeFinalize(q)
  <2>1. nodePc' = [nodePc EXCEPT ![q] = "answered"] /\ nodePc[q] # "none" /\ tally' = tally
    BY <1>4 DEF NodeFinalize, NodeGoto
  <2>2. DbTypeOK'
    BY <1>1, <1>4, <2>1, FinalizeType DEF NodeFinalize
  <2> QED
    BY <1>1, <2>1, <2>2, NodeStep DEF NodePc
<1>5. CASE NodeFinalizeThrows(q)
  <2>1. PICK label \in {"refinalize", "failed"} :
          nodePc' = [nodePc EXCEPT ![q] = label] /\ nodePc[q] # "none" /\ tally' = tally
    BY <1>5 DEF NodeFinalizeThrows, NodeGoto
  <2>2. DbTypeOK'
    BY <1>5 DEF NodeFinalizeThrows, dbVars, IInv, TypeOK, DbTypeOK
  <2> QED
    BY <1>1, <2>1, <2>2, NodeStep DEF NodePc
<1> QED
  BY <1>2, <1>3, <1>4, <1>5 DEF Handle

LEMMA EnvironmentInv ==
  ASSUME IInv, CleanupEscrows \/ NodeRestart \/ Tick
  PROVE  IInv'
<1>1. /\ UNCHANGED payer /\ UNCHANGED tally /\ now \in Nat
      /\ escrows \in [Escrow -> EscrowRow \cup {None}]
      /\ paymentIdByEscrowId \in [Escrow -> [Uuid -> Entry \cup {None}]]
      /\ nodePc \in [Query -> NodePc] /\ tally \in [Query -> Nat] /\ faults \in Nat
      /\ \A p \in Query : tally[p] <= Price[p]
  BY DEF CleanupEscrows, NodeRestart, Tick, node, IInv, TypeOK, DbTypeOK, QueriesHaveEscrows
<1>2. CASE CleanupEscrows
  <2>1. DbTypeOK'
    BY <1>1, <1>2 DEF CleanupEscrows, Cleanup, DbTypeOK
  <2> QED
    BY <1>1, <1>2, <2>1, NodeStep DEF CleanupEscrows
<1>3. CASE NodeRestart
  <2>1. DbTypeOK' /\ faults' \in Nat
    BY <1>1, <1>3 DEF NodeRestart, ForgetPayments, DbTypeOK
  <2>2. /\ nodePc' \in [Query -> NodePc]
        /\ \A q \in Query : nodePc[q] = "none" => nodePc'[q] = "none"
    BY <1>1, <1>3 DEF NodeRestart, NodePc
  <2> QED
    BY <1>1, <2>1, <2>2, NodeStep
<1>4. CASE Tick
  <2>1. DbTypeOK' /\ UNCHANGED <<nodePc, faults>>
    BY <1>1, <1>4 DEF Tick, node, dbVars, DbTypeOK
  <2> QED
    BY <1>1, <2>1, NodeStep
<1> QED
  BY <1>2, <1>3, <1>4

(* The payer *)

LEMMA InitInv == Init => IInv
<1> SUFFICES ASSUME Init PROVE IInv
  OBVIOUS
<1> USE NoneAssumption, NoneIsNoBalance DEF Init, Query
<1>1. DbTypeOK
  BY DEF DbInit, DbTypeOK
<1>2. clientPc \in [Query -> ClientPc] /\ nodePc \in [Query -> NodePc]
  BY DEF ClientPc, NodePc
<1>3. /\ sourceEscrows \in [Escrow -> Opened \cup {None}]
      /\ balances \in [Escrow -> Balance \cup {None}]
      /\ file \in [Escrow -> Balance \cup {None}]
      /\ chosen \in [Query -> Escrow \cup {None}]
      /\ settlement \in [Query -> Nat] /\ tally \in [Query -> Nat]
  OBVIOUS
<1>4. TypeOK
  BY <1>1, <1>2, <1>3 DEF TypeOK
<1>5. SignedCoversReserved /\ SavedIsCovered
  BY DEF SignedCoversReserved, SavedIsCovered
<1>6. QueueMovesOn /\ RegisteringAtMinimum /\ SigningIsCovered
  BY DEF QueueMovesOn, RegisteringAtMinimum, SigningIsCovered
<1>7. QueriesHaveEscrows
  BY PriceAssumption DEF QueriesHaveEscrows
<1> QED
  BY <1>4, <1>5, <1>6, <1>7 DEF IInv

LEMMA SubmitInv ==
  ASSUME IInv, NEW q \in Query, Submit(q)
  PROVE  IInv'
<1> USE NoneAssumption DEF Query
<1>1. /\ clientPc[q] = "idle" /\ clientPc' = [clientPc EXCEPT ![q] = "queued"]
      /\ UNCHANGED <<sourceEscrows, balances, openEscrows, pending, queue, target,
                     chosen, settlement, storage, node, now, faults>>
  BY DEF Submit, ClientGoto
<1>2. clientPc \in [Query -> ClientPc] /\ clientPc' \in [Query -> ClientPc]
  BY <1>1 DEF IInv, TypeOK, ClientPc
<1>3. TypeOK'
  BY <1>1, <1>2 DEF IInv, TypeOK, DbTypeOK, storage, node, dbVars
<1>4. SignedCoversReserved' /\ SavedIsCovered'
  BY <1>1 DEF IInv, SignedCoversReserved, SavedIsCovered, storage
<1>5. QueueMovesOn'
  BY <1>1, <1>2 DEF IInv, QueueMovesOn
<1>6. QueriesHaveEscrows'
  BY <1>1, <1>2 DEF IInv, QueriesHaveEscrows, node
<1>7. RegisteringAtMinimum' /\ SigningIsCovered'
  BY <1>1, <1>2 DEF IInv, RegisteringAtMinimum, SigningIsCovered
<1> QED
  BY <1>3, <1>4, <1>5, <1>6, <1>7 DEF IInv

\* The list of a turn that begins.
LEMMA KeptType == ASSUME IInv PROVE Kept \in List /\ ListCovered(Kept)
<1>1. balances \in List
  BY DEF IInv, TypeOK, List
<1> QED
  BY <1>1 DEF Kept, List, ListCovered, IInv, SignedCoversReserved

\* What a turn that charges, or asks for a signature, keeps.
LEMMA ChargingStep ==
  ASSUME IInv, NEW q \in Query, queue \in {None, q}, NEW e \in Escrow,
         chosen' = [chosen EXCEPT ![q] = e], nodePc[q] = "none",
         NEW list \in List, ListCovered(list), list[e] # None,
         NEW open, BeginCharge(q, e, list, open),
         DbTypeOK', openEscrows' \in SUBSET Escrow,
         UNCHANGED <<sourceEscrows, file, recorded, forgotten, nodePc, tally, now, faults>>
  PROVE  IInv'
<1>1. PICK label \in {"failed", "reserved", "signing"} :
        clientPc' = [clientPc EXCEPT ![q] = label]
  BY BeginChargeEffect
<1>2. /\ balances' \in List /\ SignedCoversReserved'
      /\ settlement' \in [Query -> Nat] /\ pending' \in SUBSET Query
      /\ needsSave' \in BOOLEAN
      /\ queue' \in Query \cup {None} /\ target' \in Nat
      /\ clientPc' \in [Query -> ClientPc]
      /\ QueueMovesOn'
      /\ \A p \in Query : clientPc'[p] # "registering"
      /\ \A p \in Query : clientPc'[p] = "signing" =>
           /\ p = q
           /\ balances'[e] # None
           /\ Signable(balances'[e], Price[q], target')
  BY BeginChargeEffect
<1>3. chosen \in [Query -> Escrow \cup {None}] /\ chosen'[q] = e
  BY DEF IInv, TypeOK
<1>4. TypeOK'
  BY <1>2, <1>3 DEF IInv, TypeOK, List
<1>5. SavedIsCovered' /\ RegisteringAtMinimum'
  BY <1>2 DEF IInv, SavedIsCovered, RegisteringAtMinimum
<1>6. SigningIsCovered'
  BY <1>2, <1>3 DEF SigningIsCovered
<1>7. QueriesHaveEscrows'
  <2>1. clientPc \in [Query -> ClientPc]
    BY DEF IInv, TypeOK
  <2> QED
    BY <1>1, <1>3, <2>1 DEF IInv, QueriesHaveEscrows
<1> QED
  BY <1>2, <1>4, <1>5, <1>6, <1>7 DEF IInv

LEMMA TakeOptionInv ==
  ASSUME IInv, NEW q \in Query, TakeOption(q)
  PROVE  IInv'
<1>1. /\ queue = None /\ clientPc[q] = "queued"
      /\ UNCHANGED <<sourceEscrows, openEscrows, file, recorded, forgotten, node, now, faults>>
  BY DEF TakeOption, TurnOf
<1>2. PICK e \in Options(q) :
        /\ chosen' = [chosen EXCEPT ![q] = e]
        /\ BeginCharge(q, e, Kept, openEscrows)
  BY DEF TakeOption
<1>3. e \in Escrow /\ Kept[e] # None
  BY <1>2 DEF Options
<1>4. nodePc[q] = "none"
  BY <1>1 DEF IInv, QueriesHaveEscrows
<1>5. DbTypeOK' /\ openEscrows' \in SUBSET Escrow /\ UNCHANGED <<nodePc, tally>>
  BY <1>1 DEF node, dbVars, IInv, TypeOK, DbTypeOK
<1> QED
  BY <1>1, <1>2, <1>3, <1>4, <1>5, KeptType, ChargingStep

LEMMA RegisterInv ==
  ASSUME IInv, NEW q \in Query, Register(q)
  PROVE  IInv'
<1> DEFINE e == chosen[q]
           o == sourceEscrows[e]
           list == [balances EXCEPT ![e] = NewBalance(o)]
<1>1. /\ clientPc[q] = "registering" /\ CreateRow(q)
      /\ openEscrows' = openEscrows \cup {e}
      /\ BeginCharge(q, e, list, openEscrows \cup {e})
      /\ UNCHANGED <<sourceEscrows, chosen, file, recorded, forgotten,
                     nodePc, tally, now, faults>>
  BY DEF Register
<1>2. /\ e \in Escrow /\ o \in Opened /\ MinimumSettlement <= o.milligons
      /\ queue = q /\ nodePc[q] = "none"
      /\ balances \in List /\ chosen \in [Query -> Escrow \cup {None}]
      /\ openEscrows \in SUBSET Escrow
  BY <1>1 DEF IInv, TypeOK, QueriesHaveEscrows, RegisteringAtMinimum, QueueMovesOn, List
<1>3. NewBalance(o) \in Balance /\ Covered(NewBalance(o)) /\ NewBalance(o) # None
  BY <1>2, NewIsCovered, NoneIsNoBalance
<1>4. list \in List /\ list[e] # None
  BY <1>2, <1>3 DEF List
<1>5. ListCovered(list)
  BY <1>2, <1>3 DEF ListCovered, List, IInv, SignedCoversReserved
<1>6. DbTypeOK'
  BY <1>1, CreateRowType
<1>7. chosen' = [chosen EXCEPT ![q] = e]
  BY <1>1, <1>2
<1>8. openEscrows' \in SUBSET Escrow
  BY <1>1, <1>2
<1> HIDE DEF list, o
<1> QED
  BY <1>1, <1>2, <1>4, <1>5, <1>6, <1>7, <1>8, ChargingStep

LEMMA OpenEscrowInv ==
  ASSUME IInv, NEW q \in Query, OpenEscrow(q)
  PROVE  IInv'
<1> USE NoneAssumption DEF Query
<1> DEFINE opened == [milligons |-> EscrowMilligons(Price[q]), expirationDate |-> now + Lifetime]
<1>1. PICK e \in Escrow : /\ sourceEscrows' = [sourceEscrows EXCEPT ![e] = opened]
                          /\ chosen' = [chosen EXCEPT ![q] = e]
  BY DEF OpenEscrow
<1>2. /\ queue = None /\ clientPc[q] = "queued" /\ balances' = Kept /\ queue' = q
      /\ clientPc' = [clientPc EXCEPT ![q] = "registering"]
      /\ UNCHANGED <<openEscrows, pending, target, settlement, storage, node, now, faults>>
  BY DEF OpenEscrow, TurnOf, ClientGoto
<1>3. opened \in Opened /\ MinimumSettlement <= opened.milligons /\ opened # None
  <2>1. EscrowMilligons(Price[q]) \in Nat /\ MinimumSettlement <= EscrowMilligons(Price[q])
    BY PriceAssumption, EscrowMilligonsType
  <2>2. now + Lifetime \in Nat /\ MinimumSettlement \in Nat
    BY BoundsAssumption DEF IInv, TypeOK, DbTypeOK
  <2> QED
    BY <2>1, <2>2, NoneIsNoBalance DEF Opened
<1> HIDE DEF opened
<1>4. /\ queue' \in Query \cup {None} /\ clientPc' \in [Query -> ClientPc]
      /\ QueueMovesOn'
      /\ \A p \in Query : clientPc'[p] \in {"registering", "signing"} => p = q
  BY <1>2, TurnWaits
<1>5. /\ sourceEscrows' \in [Escrow -> Opened \cup {None}] /\ sourceEscrows'[e] = opened
      /\ chosen' \in [Query -> Escrow \cup {None}] /\ chosen'[q] = e
      /\ clientPc'[q] = "registering"
  BY <1>1, <1>2, <1>3 DEF IInv, TypeOK
<1>6. balances' \in List /\ ListCovered(balances')
  BY <1>2, KeptType
<1>7. TypeOK'
  BY <1>2, <1>4, <1>5, <1>6 DEF IInv, TypeOK, DbTypeOK, storage, node, dbVars, List
<1>8. SignedCoversReserved' /\ SavedIsCovered'
  BY <1>2, <1>6 DEF IInv, SignedCoversReserved, ListCovered, SavedIsCovered, storage
<1>9. RegisteringAtMinimum' /\ SigningIsCovered'
  BY <1>3, <1>4, <1>5 DEF RegisteringAtMinimum, SigningIsCovered
<1>10. QueriesHaveEscrows'
  <2>1. chosen \in [Query -> Escrow \cup {None}] /\ clientPc \in [Query -> ClientPc]
    BY DEF IInv, TypeOK
  <2>2. nodePc' = nodePc /\ tally' = tally
    BY <1>2 DEF node
  <2> QED
    BY <1>1, <1>2, <1>5, <2>1, <2>2 DEF IInv, QueriesHaveEscrows
<1> QED
  BY <1>4, <1>7, <1>8, <1>9, <1>10 DEF IInv

\* A turn that fails leaves what was covered.
LEMMA FailingStep ==
  ASSUME IInv, NEW q \in Query, clientPc[q] \in {"queued", "registering", "signing"},
         queue \in {None, q}, EndTurn(q, "failed"),
         balances' \in List, ListCovered(balances'), DbTypeOK', faults' \in Nat,
         UNCHANGED <<sourceEscrows, openEscrows, pending, chosen, settlement, storage,
                     nodePc, tally>>
  PROVE  IInv'
<1>1. "failed" \in ClientPc
  BY DEF ClientPc
<1>2. /\ queue' \in Query \cup {None} /\ target' \in Nat
      /\ clientPc' \in [Query -> ClientPc]
      /\ QueueMovesOn'
      /\ \A p \in Query : clientPc'[p] \notin {"registering", "signing"}
  BY <1>1, TurnEnds
<1>3. clientPc' = [clientPc EXCEPT ![q] = "failed"] /\ clientPc \in [Query -> ClientPc]
  BY DEF EndTurn, ClientGoto, IInv, TypeOK
<1>4. TypeOK'
  BY <1>2 DEF IInv, TypeOK, storage, List
<1>5. SignedCoversReserved' /\ SavedIsCovered'
  BY DEF IInv, SignedCoversReserved, ListCovered, SavedIsCovered, storage
<1>6. RegisteringAtMinimum' /\ SigningIsCovered'
  BY <1>2 DEF RegisteringAtMinimum, SigningIsCovered
<1>7. QueriesHaveEscrows'
  BY <1>3 DEF IInv, QueriesHaveEscrows
<1> QED
  BY <1>2, <1>4, <1>5, <1>6, <1>7 DEF IInv

LEMMA FailureInv ==
  ASSUME IInv, NEW q \in Query, FailToOpen(q) \/ RegistrationLost(q) \/ SignFails(q)
  PROVE  IInv'
<1>1. ListCovered(balances) /\ balances \in List /\ DbTypeOK /\ faults \in Nat
  BY DEF IInv, TypeOK, SignedCoversReserved, ListCovered, List
<1>2. CASE FailToOpen(q)
  <2>1. /\ clientPc[q] = "queued" /\ queue = None /\ EndTurn(q, "failed")
        /\ balances' = Kept
        /\ UNCHANGED <<sourceEscrows, openEscrows, pending, chosen, settlement, storage,
                       node, now, faults>>
    BY <1>2 DEF FailToOpen, TurnOf
  <2>2. DbTypeOK' /\ UNCHANGED <<nodePc, tally>>
    BY <1>1, <2>1 DEF node, dbVars, DbTypeOK
  <2> QED
    BY <1>1, <2>1, <2>2, KeptType, FailingStep
<1>3. CASE RegistrationLost(q)
  <2>1. /\ clientPc[q] = "registering" /\ EndTurn(q, "failed") /\ faults' = faults + 1
        /\ CreateRow(q) \/ UNCHANGED dbVars
        /\ UNCHANGED <<sourceEscrows, balances, openEscrows, pending, chosen,
                       settlement, storage, nodePc, tally, now>>
    BY <1>3 DEF RegistrationLost
  <2>2. DbTypeOK'
    <3>1. CASE CreateRow(q)
      BY <2>1, <3>1, CreateRowType
    <3>2. CASE UNCHANGED dbVars
      BY <1>1, <2>1, <3>2 DEF dbVars, DbTypeOK
    <3> QED
      BY <2>1, <3>1, <3>2
  <2>3. queue = q /\ ListCovered(balances') /\ balances' \in List /\ faults' \in Nat
    BY <1>1, <2>1 DEF IInv, QueueMovesOn
  <2> QED
    BY <2>1, <2>2, <2>3, FailingStep
<1>4. CASE SignFails(q)
  <2>1. /\ clientPc[q] = "signing" /\ EndTurn(q, "failed") /\ faults' = faults + 1
        /\ UNCHANGED <<sourceEscrows, balances, openEscrows, pending, chosen,
                       settlement, storage, node, now>>
    BY <1>4 DEF SignFails
  <2>2. /\ DbTypeOK' /\ UNCHANGED <<nodePc, tally>>
        /\ queue = q /\ ListCovered(balances') /\ balances' \in List /\ faults' \in Nat
    BY <1>1, <2>1 DEF IInv, QueueMovesOn, node, dbVars, DbTypeOK
  <2> QED
    BY <2>1, <2>2, FailingStep
<1> QED
  BY <1>2, <1>3, <1>4

LEMMA SignInv ==
  ASSUME IInv, NEW q \in Query, Sign(q)
  PROVE  IInv'
<1> USE NoneAssumption DEF Query
<1> DEFINE e == chosen[q]
<1>1. /\ clientPc[q] = "signing" /\ Charge(q, e, balances, target)
      /\ UNCHANGED <<sourceEscrows, openEscrows, chosen, file, recorded, forgotten,
                     node, now, faults>>
  BY DEF Sign
<1>2. /\ e \in Escrow /\ queue = q /\ balances[e] # None
      /\ Signable(balances[e], Price[q], target)
      /\ balances \in List /\ ListCovered(balances) /\ target \in Nat
      /\ clientPc \in [Query -> ClientPc]
  BY <1>1 DEF IInv, TypeOK, QueriesHaveEscrows, QueueMovesOn, SigningIsCovered,
              SignedCoversReserved, ListCovered, List
<1>3. /\ balances' \in List
      /\ SignedCoversReserved'
      /\ settlement' \in [Query -> Nat]
      /\ pending' \in SUBSET Query
      /\ needsSave' \in BOOLEAN
      /\ clientPc' = [clientPc EXCEPT ![q] = "reserved"]
      /\ queue' \in Query \cup {None} /\ target' \in Nat
      /\ clientPc' \in [Query -> ClientPc]
      /\ QueueMovesOn'
      /\ \A p \in Query : clientPc'[p] \notin {"registering", "signing"}
  BY <1>1, <1>2, ChargeEffect
<1>4. TypeOK'
  BY <1>1, <1>3 DEF IInv, TypeOK, DbTypeOK, node, dbVars, List
<1>5. SavedIsCovered' /\ RegisteringAtMinimum' /\ SigningIsCovered'
  BY <1>1, <1>3 DEF IInv, SavedIsCovered, RegisteringAtMinimum, SigningIsCovered
<1>6. QueriesHaveEscrows'
  BY <1>1, <1>2, <1>3 DEF IInv, QueriesHaveEscrows, node
<1> QED
  BY <1>3, <1>4, <1>5, <1>6 DEF IInv

\* What is released of a payment that is finalized.
LEMMA FinalizeEffect ==
  ASSUME IInv, NEW q \in Query, clientPc[q] = "waiting",
         NEW microgons \in Nat, microgons <= Price[q],
         NEW label \in {"done", "gaveUp"}, Finalize(q, microgons, label),
         nodePc' \in [Query -> NodePc],
         \A p \in Query : nodePc[p] = "none" => nodePc'[p] = "none",
         faults' \in Nat
  PROVE  IInv'
<1> USE NoneAssumption DEF Query
<1> DEFINE e == chosen[q]
           released == microgons - Price[q]
           b == Charged(balances[e], released, balances[e].settledMilligons)
<1>1. /\ e \in Escrow /\ balances \in List /\ Price[q] \in Nat /\ tally \in [Query -> Nat]
      /\ clientPc \in [Query -> ClientPc]
  BY PriceAssumption DEF IInv, TypeOK, QueriesHaveEscrows, List
<1>2. released \in Int /\ released <= 0
  BY <1>1
<1> HIDE DEF released
<1>3. /\ pending' = pending \ {q}
      /\ UNCHANGED <<sourceEscrows, openEscrows, queue, target, chosen, settlement,
                     file, recorded, forgotten, dbVars, tally, now>>
  BY DEF Finalize
<1>4. \/ /\ balances[e] # None /\ balances' = [balances EXCEPT ![e] = b] /\ needsSave' = TRUE
         /\ clientPc' = [clientPc EXCEPT ![q] = label]
      \/ /\ balances' = balances /\ needsSave' = needsSave
         /\ clientPc' = [clientPc EXCEPT ![q] = "threw"]
  BY DEF Finalize, ClientGoto, released
<1>5. PICK to \in {"done", "gaveUp", "threw"} : clientPc' = [clientPc EXCEPT ![q] = to]
  BY <1>4
<1>6. clientPc' \in [Query -> ClientPc] /\ needsSave' \in BOOLEAN
  BY <1>1, <1>4, <1>5 DEF ClientPc, IInv, TypeOK
<1>7. balances[e] # None => b \in Balance /\ Covered(b) /\ b # None
  <2>1. SUFFICES ASSUME balances[e] # None
                 PROVE  b \in Balance /\ Covered(b) /\ b # None
    OBVIOUS
  <2>2. balances[e] \in Balance /\ Covered(balances[e])
    BY <1>1, <2>1 DEF List, IInv, SignedCoversReserved
  <2> QED
    BY <1>2, <2>2, ReleasedIsCovered, NoneIsNoBalance
<1>8. /\ balances' \in List /\ SignedCoversReserved'
      /\ \A f \in Escrow : \/ balances'[f] = balances[f]
                           \/ f = e /\ balances[e] # None /\ balances'[f] = b
  BY <1>1, <1>4, <1>7 DEF List, IInv, SignedCoversReserved
<1>9. TypeOK'
  BY <1>3, <1>6, <1>8 DEF IInv, TypeOK, DbTypeOK, dbVars, List
<1>10. QueueMovesOn' /\ RegisteringAtMinimum' /\ SavedIsCovered'
  BY <1>1, <1>3, <1>5 DEF IInv, QueueMovesOn, RegisteringAtMinimum, SavedIsCovered
<1>11. QueriesHaveEscrows'
  BY <1>1, <1>3, <1>5 DEF IInv, QueriesHaveEscrows
<1>12. SigningIsCovered'
  <2> SUFFICES ASSUME NEW p \in Query, clientPc'[p] = "signing"
               PROVE  balances'[chosen[p]] # None
                      /\ Signable(balances'[chosen[p]], Price[p], target)
    BY <1>3 DEF SigningIsCovered
  <2>1. clientPc[p] = "signing"
    BY <1>1, <1>5
  <2>2. /\ chosen[p] \in Escrow /\ target \in Nat /\ Price[p] \in Nat
        /\ balances[chosen[p]] # None
        /\ Signable(balances[chosen[p]], Price[p], target)
    BY <2>1, PriceAssumption DEF IInv, TypeOK, QueriesHaveEscrows, SigningIsCovered
  <2>3. CASE balances'[chosen[p]] = balances[chosen[p]]
    BY <2>2, <2>3
  <2>4. CASE chosen[p] = e /\ balances'[chosen[p]] = b
    <3>1. balances[e] \in Balance /\ Signable(balances[e], Price[p], target)
      BY <1>1, <2>2, <2>4 DEF List
    <3>2. Signable(b, Price[p], target)
      BY <1>2, <2>2, <3>1, ReleasedIsSignable
    <3>3. b # None
      BY <1>7, <2>2, <2>4
    <3> HIDE DEF b
    <3> QED
      BY <2>4, <3>2, <3>3
  <2> QED
    BY <1>8, <2>2, <2>3, <2>4
<1> QED
  BY <1>8, <1>9, <1>10, <1>11, <1>12 DEF IInv

\* A callback that throws leaves the payment pending.
LEMMA CallbackThrowsInv ==
  ASSUME IInv, NEW q \in Query, clientPc[q] = "waiting", CallbackThrows(q),
         UNCHANGED <<nodePc, faults>>
  PROVE  IInv'
<1> USE DEF Query
<1>1. /\ clientPc' = [clientPc EXCEPT ![q] = "threw"]
      /\ UNCHANGED <<sourceEscrows, balances, openEscrows, pending, queue, target, chosen,
                     settlement, storage, dbVars, tally, now, nodePc, faults>>
  BY DEF CallbackThrows, ClientGoto
<1>2. /\ clientPc \in [Query -> ClientPc] /\ clientPc' \in [Query -> ClientPc]
      /\ \A p \in Query : clientPc'[p] = clientPc[p] \/ (p = q /\ clientPc'[p] = "threw")
  BY <1>1 DEF IInv, TypeOK, ClientPc
<1>3. TypeOK'
  BY <1>1, <1>2 DEF IInv, TypeOK, DbTypeOK, dbVars, storage
<1>4. SignedCoversReserved' /\ SavedIsCovered'
  BY <1>1 DEF IInv, SignedCoversReserved, SavedIsCovered, storage
<1>5. QueueMovesOn' /\ RegisteringAtMinimum' /\ SigningIsCovered'
  BY <1>1, <1>2 DEF IInv, QueueMovesOn, RegisteringAtMinimum, SigningIsCovered
<1>6. QueriesHaveEscrows'
  BY <1>1, <1>2 DEF IInv, QueriesHaveEscrows
<1> QED
  BY <1>3, <1>4, <1>5, <1>6 DEF IInv

LEMMA AnswerInv ==
  ASSUME IInv, NEW q \in Query, Answer(q) \/ ErrorAnswer(q) \/ ConnectionLost(q)
  PROVE  IInv'
<1>1. /\ tally[q] \in Nat /\ tally[q] <= Price[q] /\ Price[q] \in Nat /\ faults \in Nat
      /\ nodePc \in [Query -> NodePc] /\ "gone" \in NodePc
  BY PriceAssumption DEF IInv, TypeOK, QueriesHaveEscrows, NodePc
<1>2. CASE Answer(q)
  <2>1. CASE Finalize(q, tally[q], "done")
    BY <1>1, <1>2, <2>1, FinalizeEffect DEF Answer
  <2>2. CASE CallbackThrows(q)
    BY <1>2, <2>2, CallbackThrowsInv DEF Answer
  <2> QED
    BY <1>2, <2>1, <2>2 DEF Answer
<1>3. CASE ErrorAnswer(q)
  <2>1. 0 \in Nat /\ 0 <= Price[q]
    BY <1>1
  <2> QED
    BY <1>1, <1>3, <2>1, FinalizeEffect DEF ErrorAnswer
<1>4. CASE ConnectionLost(q)
  <2>1. 0 \in Nat /\ 0 <= Price[q] /\ faults' \in Nat
    BY <1>1, <1>4 DEF ConnectionLost
  <2>2. /\ nodePc' \in [Query -> NodePc]
        /\ \A p \in Query : nodePc[p] = "none" => nodePc'[p] = "none"
    BY <1>1, <1>4 DEF ConnectionLost
  <2>3. clientPc[q] = "waiting" /\ Finalize(q, 0, "gaveUp")
    BY <1>4 DEF ConnectionLost
  <2> QED
    BY <2>1, <2>2, <2>3, FinalizeEffect
<1> QED
  BY <1>2, <1>3, <1>4

LEMMA SendInv ==
  ASSUME IInv, NEW q \in Query, Send(q)
  PROVE  IInv'
<1> USE NoneAssumption DEF Query
<1>1. /\ clientPc[q] = "reserved" /\ clientPc' = [clientPc EXCEPT ![q] = "waiting"]
      /\ nodePc' = [nodePc EXCEPT ![q] = "debit"]
      /\ UNCHANGED <<sourceEscrows, balances, openEscrows, pending, queue, target,
                     chosen, settlement, storage, dbVars, tally, now, faults>>
  BY DEF Send, ClientGoto
<1>2. /\ clientPc \in [Query -> ClientPc] /\ clientPc' \in [Query -> ClientPc]
      /\ nodePc \in [Query -> NodePc] /\ nodePc' \in [Query -> NodePc]
  BY <1>1 DEF IInv, TypeOK, ClientPc, NodePc
<1>3. TypeOK'
  BY <1>1, <1>2 DEF IInv, TypeOK, DbTypeOK, storage, dbVars
<1>4. SignedCoversReserved' /\ SavedIsCovered'
  BY <1>1 DEF IInv, SignedCoversReserved, SavedIsCovered, storage
<1>5. QueueMovesOn' /\ RegisteringAtMinimum' /\ SigningIsCovered'
  BY <1>1, <1>2 DEF IInv, QueueMovesOn, RegisteringAtMinimum, SigningIsCovered
<1>6. QueriesHaveEscrows'
  BY <1>1, <1>2 DEF IInv, QueriesHaveEscrows
<1> QED
  BY <1>3, <1>4, <1>5, <1>6 DEF IInv

LEMMA SaveInv ==
  ASSUME IInv, Save
  PROVE  IInv'
<1>1. /\ needsSave' = FALSE /\ file' = balances /\ recorded' \in SUBSET Query
      /\ UNCHANGED <<sourceEscrows, balances, openEscrows, pending, queue, target,
                     clientPc, chosen, settlement, forgotten, node, now, faults>>
  BY DEF Save, Reserved
<1>2. TypeOK'
  BY <1>1 DEF IInv, TypeOK, DbTypeOK, node, dbVars
<1>3. SignedCoversReserved' /\ SavedIsCovered'
  BY <1>1 DEF IInv, SignedCoversReserved, SavedIsCovered
<1>4. QueueMovesOn' /\ RegisteringAtMinimum' /\ SigningIsCovered'
  BY <1>1 DEF IInv, QueueMovesOn, RegisteringAtMinimum, SigningIsCovered
<1>5. QueriesHaveEscrows'
  BY <1>1 DEF IInv, QueriesHaveEscrows, node
<1> QED
  BY <1>2, <1>3, <1>4, <1>5 DEF IInv

LEMMA PayerRestartInv ==
  ASSUME IInv, PayerRestart
  PROVE  IInv'
<1> USE NoneAssumption DEF Query
<1>1. /\ faults' = faults + 1 /\ balances' = file /\ openEscrows' = {} /\ pending' = {}
      /\ needsSave' = FALSE /\ queue' = None /\ target' = 0
      /\ clientPc' = [q \in Query |-> Interrupted(clientPc[q])]
      /\ forgotten' \in SUBSET Query
      /\ UNCHANGED <<sourceEscrows, chosen, settlement, file, recorded, node, now>>
  BY DEF PayerRestart, Reserved, IInv, TypeOK
<1>2. \A q \in Query :
        /\ clientPc'[q] \in ClientPc
        /\ clientPc'[q] \notin {"queued", "registering", "signing", "reserved", "waiting"}
        /\ clientPc'[q] = "idle" => clientPc[q] = "idle"
  BY <1>1 DEF Interrupted, IInv, TypeOK, ClientPc
<1>3. clientPc' \in [Query -> ClientPc]
  BY <1>1, <1>2
<1>4. TypeOK'
  <2>1. DbTypeOK'
    BY <1>1 DEF IInv, TypeOK, DbTypeOK, node, dbVars
  <2>2. /\ file' \in [Escrow -> Balance \cup {None}]
        /\ balances' \in [Escrow -> Balance \cup {None}]
        /\ nodePc' \in [Query -> NodePc] /\ tally' \in [Query -> Nat]
    BY <1>1 DEF IInv, TypeOK, node
  <2>3. faults' \in Nat
    BY <1>1 DEF IInv, TypeOK
  <2> QED
    BY <1>1, <1>3, <2>1, <2>2, <2>3 DEF IInv, TypeOK
<1>5. SignedCoversReserved' /\ SavedIsCovered'
  BY <1>1 DEF IInv, SignedCoversReserved, SavedIsCovered
<1>6. QueueMovesOn' /\ RegisteringAtMinimum' /\ SigningIsCovered'
  BY <1>1, <1>2 DEF QueueMovesOn, RegisteringAtMinimum, SigningIsCovered
<1>7. QueriesHaveEscrows'
  BY <1>1, <1>2 DEF IInv, QueriesHaveEscrows, node
<1> QED
  BY <1>4, <1>5, <1>6, <1>7 DEF IInv

LEMMA StutterInv ==
  ASSUME IInv, UNCHANGED vars
  PROVE  IInv'
<1>1. UNCHANGED payer /\ UNCHANGED <<dbVars, nodePc, tally, now, faults>>
  BY DEF vars, node
<1>2. DbTypeOK'
  BY <1>1 DEF dbVars, IInv, TypeOK, DbTypeOK
<1>3. /\ nodePc \in [Query -> NodePc] /\ tally \in [Query -> Nat] /\ faults \in Nat
      /\ \A q \in Query : tally[q] <= Price[q]
  BY DEF IInv, TypeOK, QueriesHaveEscrows
<1> QED
  BY <1>1, <1>2, <1>3, NodeStep

LEMMA NextInv == IInv /\ [Next]_vars => IInv'
<1> SUFFICES ASSUME IInv, Next \/ UNCHANGED vars PROVE IInv'
  OBVIOUS
<1>1. ASSUME NEW q \in Query, Turn(q) \/ RegistrationLost(q) \/ SignFails(q)
      PROVE  IInv'
  BY <1>1, TakeOptionInv, OpenEscrowInv, FailureInv DEF Turn
<1>2. ASSUME NEW q \in Query, Submit(q) \/ Client(q) \/ ConnectionLost(q)
      PROVE  IInv'
  BY <1>2, SubmitInv, RegisterInv, SignInv, SendInv, AnswerInv DEF Client
<1>3. ASSUME NEW q \in Query, Handle(q)
      PROVE  IInv'
  BY <1>3, HandleInv
<1>4. CASE Save \/ PayerRestart \/ CleanupEscrows \/ NodeRestart \/ Tick
  BY <1>4, SaveInv, PayerRestartInv, EnvironmentInv
<1>5. CASE UNCHANGED vars
  BY <1>5, StutterInv
<1> QED
  BY <1>1, <1>2, <1>3, <1>4, <1>5 DEF Next

\* The invariant holds in every behavior.
THEOREM IInvHolds == Spec => []IInv
<1> QED
  BY InitInv, NextInv, PTL DEF Spec

\* Every variable keeps its type: the payer never reserves more than an escrow has
\* left, so that `remaining` is never negative, and neither is the datastore's.
THEOREM TypeCorrect == Spec => []TypeOK
<1>1. IInv => TypeOK
  BY DEF IInv
<1> QED
  BY <1>1, IInvHolds, PTL

\* ArgonReserver.updateSettlement: what the payer has signed covers what it has
\* reserved and spent of an escrow, and is at most the escrow, whatever happens
\* while a signature is awaited, and after a restart.
THEOREM SignedAlwaysCoversReserved == Spec => []SignedCoversReserved
<1>1. IInv => SignedCoversReserved
  BY DEF IInv
<1> QED
  BY <1>1, IInvHolds, PTL

\* ArgonReserver.reserve: the queue is held by the query that opens an escrow or
\* awaits a signature, and by no other, also when these fail.
THEOREM QueueAlwaysMovesOn == Spec => []QueueMovesOn
<1>1. IInv => QueueMovesOn
  BY DEF IInv
<1> QED
  BY <1>1, IInvHolds, PTL
=============================================================================
