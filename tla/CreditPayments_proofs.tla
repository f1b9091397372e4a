------------------------ MODULE CreditPayments_proofs ------------------------
(***************************************************************************)
(* Proofs about CreditPayments, for any queries, credits, prices, tallies  *)
(* and numbers of versions and faults: types, that no credit is overdrawn  *)
(* on either side, the account of each version, and that the payer's       *)
(* balance is backed and what it reserves is accepted while there is one.  *)
(***************************************************************************)
EXTENDS CreditPayments, Sums_proofs, TLAPS

IInv ==
  /\ TypeOK
  /\ QueriesAreChosen
  /\ SavesAreOfWallets
  /\ CreditsNeverOverdrawn

LEMMA InitInv == Init => IInv
<1> SUFFICES ASSUME Init PROVE IInv
  OBVIOUS
<1> USE NoneAssumption, BoundAssumption, PriceAssumption DEF Init
<1>1. TypeOK
  <2>1. choice \in [Query -> [credit : Credit \cup {None}, version : Version \cup {0}]]
    BY DEF NoChoice
  <2>2. /\ credits \in [Version -> [Credit -> Row \cup {None}]]
        /\ latest \in Version
        /\ wallet \in [Credit -> Nat \cup {None}]
        /\ file \in [Credit -> Nat \cup {None}]
        /\ opening \in [Version -> [Credit -> Int]]
        /\ tally \in [Query -> Nat]
    BY DEF Version
  <2>3. /\ clientPc \in [Query -> ClientPc] /\ nodePc \in [Query -> NodePc]
        /\ save \in [Credit -> {"none", "keep", "mayDelete"}]
        /\ debited \in [Query -> BOOLEAN] /\ storageDebited \in [Query -> BOOLEAN]
    BY DEF ClientPc, NodePc
  <2> QED
    BY <2>1, <2>2, <2>3 DEF TypeOK
<1>2. QueriesAreChosen
  BY DEF QueriesAreChosen
<1>3. SavesAreOfWallets /\ CreditsNeverOverdrawn
  BY DEF SavesAreOfWallets, CreditsNeverOverdrawn
<1> QED
  BY <1>1, <1>2, <1>3 DEF IInv

(* The administrator and the owner *)

LEMMA CreateInv ==
  ASSUME IInv, NEW c \in Credit, NEW m \in 1 .. MaxMicrogons, Create(c, m)
  PROVE  IInv'
<1> USE NoneAssumption, BoundAssumption
<1> DEFINE row == [issued |-> m, remaining |-> m]
<1>1. row \in Row /\ row.remaining >= 0 /\ m \in Int
  BY DEF Row
<1>2. /\ credits' = [credits EXCEPT ![latest][c] = row]
      /\ opening' = [opening EXCEPT ![latest][c] = m]
      /\ UNCHANGED <<payer, nodePc, debited, storageDebited, tally, latest, clientPc, choice, faults>>
  BY DEF Create
<1> HIDE DEF row
<1>3. /\ credits' \in [Version -> [Credit -> Row \cup {None}]]
      /\ opening' \in [Version -> [Credit -> Int]]
  BY <1>1, <1>2 DEF IInv, TypeOK
<1>4. TypeOK'
  BY <1>2, <1>3 DEF IInv, TypeOK, payer
<1>5. CreditsNeverOverdrawn'
  BY <1>1, <1>2 DEF IInv, TypeOK, CreditsNeverOverdrawn
<1>6. QueriesAreChosen' /\ SavesAreOfWallets'
  BY <1>2 DEF IInv, QueriesAreChosen, SavesAreOfWallets, payer
<1> QED
  BY <1>4, <1>5, <1>6 DEF IInv

LEMMA MigrateInv ==
  ASSUME IInv, Migrate
  PROVE  IInv'
<1> USE NoneAssumption, BoundAssumption
<1>1. latest + 1 \in Version
  BY DEF Migrate, IInv, TypeOK, Version
<1>2. credits' = [credits EXCEPT ![latest + 1] = credits[latest]]
  BY DEF Migrate, Carried, IInv, TypeOK
<1>3. opening' \in [Version -> [Credit -> Int]]
  BY <1>1 DEF Migrate, IInv, TypeOK, Row
<1>4. TypeOK'
  BY <1>1, <1>2, <1>3 DEF Migrate, IInv, TypeOK, payer
<1>5. CreditsNeverOverdrawn'
  BY <1>1, <1>2 DEF IInv, TypeOK, CreditsNeverOverdrawn
<1>6. QueriesAreChosen' /\ SavesAreOfWallets'
  BY DEF Migrate, IInv, QueriesAreChosen, SavesAreOfWallets, payer
<1> QED
  BY <1>4, <1>5, <1>6 DEF IInv

LEMMA AttachInv ==
  ASSUME IInv, NEW c \in Credit, Attach(c)
  PROVE  IInv'
<1> USE NoneAssumption
<1>1. credits[latest][c].remaining \in Nat
  BY DEF Attach, IInv, TypeOK, CreditsNeverOverdrawn, Row
<1>2. TypeOK'
  BY <1>1 DEF Attach, IInv, TypeOK, node
<1>3. QueriesAreChosen' /\ SavesAreOfWallets'
  BY <1>1 DEF Attach, IInv, TypeOK, QueriesAreChosen, SavesAreOfWallets, node
<1>4. CreditsNeverOverdrawn'
  BY DEF Attach, IInv, CreditsNeverOverdrawn, node
<1> QED
  BY <1>2, <1>3, <1>4 DEF IInv

(* The payer *)

LEMMA SubmitInv ==
  ASSUME IInv, NEW q \in Query, Submit(q)
  PROVE  IInv'
<1>1. UNCHANGED <<payer, node, latest, faults, opening>> /\ clientPc[q] = "idle"
  BY DEF Submit
<1>2. PICK c \in Credit \cup {None}, v \in Version \cup {0}, label \in {"reserve", "failed"} :
        /\ clientPc' = [clientPc EXCEPT ![q] = label]
        /\ \/ choice' = [choice EXCEPT ![q] = [credit |-> c, version |-> v]]
              /\ c \in Credit /\ v \in Version
           \/ choice' = choice /\ label = "failed"
  <2>1. CASE \A c \in Credit : ~HasBalance(c, Price[q])
    BY <2>1 DEF Submit
  <2>2. CASE ~ \A c \in Credit : ~HasBalance(c, Price[q])
    <3>1. PICK c \in Credit, v \in 1 .. latest :
            /\ choice' = [choice EXCEPT ![q] = [credit |-> c, version |-> v]]
            /\ clientPc' = [clientPc EXCEPT ![q] = "reserve"]
      BY <2>2 DEF Submit
    <3>2. v \in Version
      BY BoundAssumption DEF IInv, TypeOK, Version
    <3> QED
      BY <3>1, <3>2
  <2> QED
    BY <2>1, <2>2
<1>3. choice' \in [Query -> [credit : Credit \cup {None}, version : Version \cup {0}]]
  <2>1. [credit |-> c, version |-> v] \in [credit : Credit \cup {None}, version : Version \cup {0}]
    OBVIOUS
  <2>2. choice \in [Query -> [credit : Credit \cup {None}, version : Version \cup {0}]]
    BY DEF IInv, TypeOK
  <2> QED
    BY <1>2, <2>1, <2>2
<1>4. TypeOK'
  BY <1>1, <1>2, <1>3 DEF IInv, TypeOK, ClientPc, payer, node
<1>5. QueriesAreChosen'
  BY <1>1, <1>2 DEF IInv, TypeOK, QueriesAreChosen, payer, node
<1>6. SavesAreOfWallets' /\ CreditsNeverOverdrawn'
  BY <1>1 DEF IInv, SavesAreOfWallets, CreditsNeverOverdrawn, payer, node
<1> QED
  BY <1>4, <1>5, <1>6 DEF IInv

LEMMA ReserveInv ==
  ASSUME IInv, NEW q \in Query, Reserve(q)
  PROVE  IInv'
<1> DEFINE c == choice[q].credit
<1> USE NoneAssumption, PriceAssumption
<1>1. /\ clientPc[q] = "reserve" /\ c \in Credit /\ Price[q] \in Nat
      /\ UNCHANGED <<file, givenUp, node, latest, choice, faults, opening>>
  BY DEF Reserve, IInv, QueriesAreChosen
<1>2. CreditsNeverOverdrawn'
  BY <1>1 DEF IInv, CreditsNeverOverdrawn, node
<1>3. CASE CanReserve(c, Price[q])
  <2>1. /\ wallet' = [wallet EXCEPT ![c] = @ - Price[q]]
        /\ save' = [save EXCEPT ![c] = "keep"]
        /\ pending' = pending \cup {q}
        /\ clientPc' = [clientPc EXCEPT ![q] = "waiting"]
    BY <1>3 DEF Reserve
  <2>2. wallet[c] \in Nat /\ wallet[c] >= Price[q]
    BY <1>1, <1>3 DEF CanReserve, HasBalance, IInv, TypeOK
  <2>3. wallet[c] - Price[q] \in Nat
    BY <1>1, <2>2
  <2>4. TypeOK'
    BY <1>1, <2>1, <2>3 DEF IInv, TypeOK, ClientPc, node
  <2>5. QueriesAreChosen' /\ SavesAreOfWallets'
    BY <1>1, <2>1, <2>3 DEF IInv, TypeOK, QueriesAreChosen, SavesAreOfWallets, node
  <2> QED
    BY <1>2, <2>4, <2>5 DEF IInv
<1>4. CASE ~CanReserve(c, Price[q])
  <2>1. /\ UNCHANGED <<wallet, save, pending>>
        /\ clientPc' = [clientPc EXCEPT ![q] = "failed"]
    BY <1>4 DEF Reserve
  <2>2. TypeOK'
    BY <1>1, <2>1 DEF IInv, TypeOK, ClientPc, node
  <2>3. QueriesAreChosen' /\ SavesAreOfWallets'
    BY <1>1, <2>1 DEF IInv, TypeOK, QueriesAreChosen, SavesAreOfWallets, node
  <2> QED
    BY <1>2, <2>2, <2>3 DEF IInv
<1> QED
  BY <1>3, <1>4

\* A payment that is finalized at no more than its price leaves a balance.
LEMMA FinalizeInv ==
  ASSUME IInv, NEW q \in Query, NEW microgons \in Nat, microgons <= Price[q],
         Finalize(q, microgons), clientPc[q] = "waiting",
         clientPc' = [clientPc EXCEPT ![q] = "done"],
         UNCHANGED <<file, node, latest, choice, opening>>,
         faults' \in Nat, givenUp' \in SUBSET Query
  PROVE  IInv'
<1> DEFINE c == choice[q].credit
<1> USE NoneAssumption, PriceAssumption
<1>1. CreditsNeverOverdrawn'
  BY DEF IInv, CreditsNeverOverdrawn, node
<1>2. CASE q \in pending
  <2>1. /\ pending' = pending \ {q}
        /\ wallet' = [wallet EXCEPT ![c] = @ + Price[q] - microgons]
        /\ save' = [save EXCEPT ![c] = "mayDelete"]
    BY <1>2 DEF Finalize
  <2>2. c \in Credit /\ wallet[c] \in Nat /\ Price[q] \in Nat
    BY <1>2 DEF IInv, TypeOK, QueriesAreChosen
  <2>3. wallet[c] + Price[q] - microgons \in Nat
    BY <2>2
  <2>4. TypeOK'
    BY <2>1, <2>3 DEF IInv, TypeOK, ClientPc, node
  <2>5. QueriesAreChosen' /\ SavesAreOfWallets'
    BY <2>1, <2>2, <2>3 DEF IInv, TypeOK, QueriesAreChosen, SavesAreOfWallets, node
  <2> QED
    BY <1>1, <2>4, <2>5 DEF IInv
<1>3. CASE q \notin pending
  <2>1. UNCHANGED <<pending, wallet, save>>
    BY <1>3 DEF Finalize
  <2>2. TypeOK'
    BY <2>1 DEF IInv, TypeOK, ClientPc, node
  <2>3. QueriesAreChosen' /\ SavesAreOfWallets'
    BY <1>3, <2>1 DEF IInv, TypeOK, QueriesAreChosen, SavesAreOfWallets, node
  <2> QED
    BY <1>1, <2>2, <2>3 DEF IInv
<1> QED
  BY <1>2, <1>3

LEMMA AnswerInv ==
  ASSUME IInv, NEW q \in Query,
         Answer(q) \/ NodeGone(q) \/ ConnectionLost(q)
  PROVE  IInv'
<1>1. CASE Answer(q)
  <2>1. /\ tally[q] \in Nat /\ tally[q] <= Price[q] /\ faults' \in Nat /\ givenUp' \in SUBSET Query
        /\ clientPc[q] = "waiting" /\ UNCHANGED <<file, givenUp, node, latest, choice, faults, opening>>
    BY <1>1 DEF IInv, TypeOK, QueriesAreChosen, Answer
  <2>2. CASE Finalize(q, tally[q]) /\ clientPc' = [clientPc EXCEPT ![q] = "done"]
    BY <2>1, <2>2, FinalizeInv
  <2>3. CASE /\ clientPc' = [clientPc EXCEPT ![q] = "threw"]
             /\ UNCHANGED <<wallet, pending, save>>
    <3>1. TypeOK'
      BY <2>1, <2>3 DEF IInv, TypeOK, ClientPc, node
    <3>2. QueriesAreChosen'
      BY <2>1, <2>3 DEF IInv, TypeOK, QueriesAreChosen, node
    <3>3. SavesAreOfWallets' /\ CreditsNeverOverdrawn'
      BY <2>1, <2>3 DEF IInv, SavesAreOfWallets, CreditsNeverOverdrawn, node
    <3> QED
      BY <3>1, <3>2, <3>3 DEF IInv
  <2> QED
    BY <1>1, <2>2, <2>3 DEF Answer
<1>2. CASE NodeGone(q) \/ ConnectionLost(q)
  <2>1. GiveUp(q) /\ faults' \in Nat /\ 0 <= Price[q] /\ givenUp' \in SUBSET Query
    BY <1>2, PriceAssumption DEF NodeGone, ConnectionLost, GiveUp, IInv, TypeOK
  <2> QED
    BY <2>1, FinalizeInv DEF GiveUp
<1> QED
  BY <1>1, <1>2

LEMMA SaveInv ==
  ASSUME IInv, NEW c \in Credit, Save(c)
  PROVE  IInv'
<1> USE NoneAssumption
<1>1. wallet[c] \in Nat
  BY DEF Save, IInv, TypeOK, SavesAreOfWallets
<1>2. TypeOK'
  BY <1>1 DEF Save, IInv, TypeOK, node
<1>3. QueriesAreChosen' /\ SavesAreOfWallets' /\ CreditsNeverOverdrawn'
  BY DEF Save, IInv, TypeOK, QueriesAreChosen, SavesAreOfWallets, CreditsNeverOverdrawn, node
<1> QED
  BY <1>2, <1>3 DEF IInv

LEMMA PayerRestartInv ==
  ASSUME IInv, PayerRestart
  PROVE  IInv'
<1> USE NoneAssumption
<1>1. clientPc' \in [Query -> ClientPc]
      /\ \A q \in Query : clientPc'[q] \in {"reserve", "waiting", "done", "threw", "lost"}
           => clientPc[q] \in {"reserve", "waiting", "done", "threw", "lost"}
  BY DEF PayerRestart, IInv, TypeOK, ClientPc
<1>2. TypeOK'
  BY <1>1 DEF PayerRestart, IInv, TypeOK, node
<1>3. QueriesAreChosen'
  BY <1>1 DEF PayerRestart, IInv, QueriesAreChosen, node
<1>4. SavesAreOfWallets' /\ CreditsNeverOverdrawn'
  BY DEF PayerRestart, IInv, SavesAreOfWallets, CreditsNeverOverdrawn, node
<1> QED
  BY <1>2, <1>3, <1>4 DEF IInv

(* The datastore *)

\* A step of the datastore that does not touch a row.
LEMMA RowsUntouched ==
  ASSUME IInv, NEW q \in Query, NEW label \in NodePc, NEW microgons \in Nat,
         microgons <= Price[q],
         clientPc[q] \in {"waiting", "done", "lost"} \/ nodePc[q] # "none",
         NodeGoto(q, label), NodeOnly(q),
         UNCHANGED <<credits, debited, storageDebited>>,
         tally' = [tally EXCEPT ![q] = microgons]
  PROVE  IInv'
<1>1. TypeOK'
  BY DEF IInv, TypeOK, NodeGoto, NodeOnly, payer
<1>2. QueriesAreChosen'
  BY DEF IInv, TypeOK, QueriesAreChosen, NodeGoto, NodeOnly, payer
<1>3. SavesAreOfWallets' /\ CreditsNeverOverdrawn'
  BY DEF IInv, SavesAreOfWallets, CreditsNeverOverdrawn, NodeOnly, payer
<1> QED
  BY <1>1, <1>2, <1>3 DEF IInv

\* A step of the datastore that sets what remains of a credit.
LEMMA RowSet ==
  ASSUME IInv, NEW q \in Query, NEW label \in NodePc, NEW remaining \in Nat,
         nodePc[q] # "none", RowOf(q) # None,
         SetRemaining(q, remaining),
         NodeGoto(q, label), NodeOnly(q),
         UNCHANGED tally, debited' \in [Query -> BOOLEAN],
         storageDebited' \in [Query -> BOOLEAN]
  PROVE  IInv'
<1> DEFINE c == choice[q].credit
           v == choice[q].version
           row == [RowOf(q) EXCEPT !.remaining = remaining]
<1> USE NoneAssumption
<1>1. c \in Credit /\ v \in Version
  BY DEF IInv, QueriesAreChosen
<1>2. RowOf(q) \in Row
  BY <1>1 DEF RowOf, IInv, TypeOK
<1>3. row \in Row /\ row.remaining = remaining /\ row.remaining >= 0
  BY <1>2 DEF Row
<1>4. credits' = [credits EXCEPT ![v] = [credits[v] EXCEPT ![c] = row]]
  BY <1>1 DEF SetRemaining, RowOf, IInv, TypeOK
<1> HIDE DEF c, v, row
<1>5. TypeOK'
  BY <1>1, <1>3, <1>4 DEF IInv, TypeOK, NodeGoto, NodeOnly, payer
<1>6. CreditsNeverOverdrawn'
  BY <1>1, <1>3, <1>4 DEF IInv, TypeOK, CreditsNeverOverdrawn
<1>7. QueriesAreChosen'
  BY DEF IInv, TypeOK, QueriesAreChosen, NodeGoto, NodeOnly, payer
<1>8. SavesAreOfWallets'
  BY DEF IInv, SavesAreOfWallets, NodeOnly, payer
<1> QED
  BY <1>5, <1>6, <1>7, <1>8 DEF IInv

LEMMA HandleInv ==
  ASSUME IInv, NEW q \in Query, Handle(q)
  PROVE  IInv'
<1> USE PriceAssumption
<1>1. /\ tally[q] \in Nat /\ tally[q] <= Price[q] /\ Price[q] \in Nat
      /\ tally = [tally EXCEPT ![q] = tally[q]]
      /\ debited \in [Query -> BOOLEAN] /\ storageDebited \in [Query -> BOOLEAN]
  BY DEF IInv, TypeOK, QueriesAreChosen
<1>2. CASE DebitSelect(q)
  <2>1. /\ clientPc[q] \in {"waiting", "done", "lost"}
        /\ NodeOnly(q) /\ UNCHANGED <<credits, debited, storageDebited, tally>>
    BY <1>2 DEF DebitSelect
  <2>2. PICK label \in {"update", "finalize"} : NodeGoto(q, label)
    BY <1>2 DEF DebitSelect
  <2>3. label \in NodePc
    BY DEF NodePc
  <2> QED
    BY <1>1, <2>1, <2>2, <2>3, RowsUntouched
<1>3. CASE DebitUpdate(q)
  <2>1. nodePc[q] # "none" /\ NodeOnly(q) /\ UNCHANGED <<storageDebited, tally>>
        /\ "finalize" \in NodePc /\ "run" \in NodePc
    BY <1>3 DEF DebitUpdate, NodePc
  <2>2. CASE CanUpdate(q)
    <3>1. choice[q].credit \in Credit /\ choice[q].version \in Version
      BY <2>1 DEF IInv, QueriesAreChosen
    <3>2. RowOf(q) # None /\ RowOf(q).remaining - Price[q] \in Nat
      BY <1>1, <2>2, <3>1 DEF CanUpdate, Covers, RowOf, IInv, TypeOK, Row
    <3>3. /\ SetRemaining(q, RowOf(q).remaining - Price[q]) /\ NodeGoto(q, "run")
          /\ debited' \in [Query -> BOOLEAN]
      BY <1>1, <1>3, <2>2 DEF DebitUpdate
    <3> QED
      BY <1>1, <2>1, <3>2, <3>3, RowSet
  <2>3. CASE ~CanUpdate(q)
    <3>1. NodeGoto(q, "finalize") /\ UNCHANGED <<credits, debited>>
      BY <1>3, <2>3 DEF DebitUpdate
    <3> QED
      BY <1>1, <2>1, <3>1, RowsUntouched
  <2> QED
    BY <2>2, <2>3
<1>4. CASE RunQuery(q)
  <2>1. /\ nodePc[q] # "none" /\ NodeOnly(q)
        /\ UNCHANGED <<credits, debited, storageDebited>> /\ TablePrice[q] \in Nat
    BY <1>4 DEF RunQuery
  <2>2. PICK label \in {"storage", "finalize"}, microgons \in Tally[q] :
          /\ NodeGoto(q, label)
          /\ \/ tally' = [tally EXCEPT ![q] = microgons]
             \/ tally' = [tally EXCEPT ![q] = microgons + TablePrice[q]]
    BY <1>4 DEF RunQuery
  <2>3. microgons \in Nat /\ microgons + TablePrice[q] <= Price[q]
    OBVIOUS
  <2>4. PICK charged \in Nat : charged <= Price[q] /\ tally' = [tally EXCEPT ![q] = charged]
    BY <1>1, <2>1, <2>2, <2>3
  <2>5. label \in NodePc
    BY DEF NodePc
  <2> QED
    BY <2>1, <2>2, <2>4, <2>5, RowsUntouched
<1>6. CASE StorageSelect(q)
  <2>1. /\ nodePc[q] # "none"
        /\ NodeOnly(q) /\ UNCHANGED <<credits, debited, storageDebited, tally>>
    BY <1>6 DEF StorageSelect
  <2>2. PICK label \in {"storageUpdate", "finalize"} : NodeGoto(q, label)
    BY <1>6 DEF StorageSelect
  <2>3. label \in NodePc
    BY DEF NodePc
  <2> QED
    BY <1>1, <2>1, <2>2, <2>3, RowsUntouched
<1>7. CASE StorageUpdate(q)
  <2>1. /\ nodePc[q] # "none" /\ NodeOnly(q) /\ UNCHANGED <<debited, tally>>
        /\ NodeGoto(q, "finalize") /\ "finalize" \in NodePc
    BY <1>7 DEF StorageUpdate, NodePc
  <2>2. CASE CanUpdate(q)
    <3>1. choice[q].credit \in Credit /\ choice[q].version \in Version
      BY <2>1 DEF IInv, QueriesAreChosen
    <3>2. RowOf(q) # None /\ RowOf(q).remaining - Price[q] \in Nat
      BY <1>1, <2>2, <3>1 DEF CanUpdate, Covers, RowOf, IInv, TypeOK, Row
    <3>3. /\ SetRemaining(q, RowOf(q).remaining - Price[q])
          /\ storageDebited' \in [Query -> BOOLEAN]
      BY <1>1, <1>7, <2>2 DEF StorageUpdate
    <3> QED
      BY <1>1, <2>1, <3>2, <3>3, RowSet
  <2>3. CASE ~CanUpdate(q)
    <3>1. UNCHANGED <<credits, storageDebited>>
      BY <1>7, <2>3 DEF StorageUpdate
    <3> QED
      BY <1>1, <2>1, <3>1, RowsUntouched
  <2> QED
    BY <2>2, <2>3
<1>5. CASE NodeFinalize(q)
  <2>1. /\ nodePc[q] # "none" /\ NodeGoto(q, "answered") /\ NodeOnly(q)
        /\ UNCHANGED <<debited, storageDebited, tally>> /\ "answered" \in NodePc
    BY <1>5 DEF NodeFinalize, NodePc
  <2>2. CASE RowOf(q) # None
    <3>1. choice[q].credit \in Credit /\ choice[q].version \in Version
      BY <2>1 DEF IInv, QueriesAreChosen
    <3>2. RowOf(q).remaining + Refund(q) \in Nat
      BY <1>1, <2>2, <3>1 DEF Refund, RowOf, IInv, TypeOK, CreditsNeverOverdrawn, Row
    <3>3. SetRemaining(q, RowOf(q).remaining + Refund(q))
      BY <1>5, <2>2 DEF NodeFinalize
    <3> QED
      BY <1>1, <2>1, <2>2, <3>2, <3>3, RowSet
  <2>3. CASE RowOf(q) = None
    <3>1. UNCHANGED credits
      BY <1>5, <2>3 DEF NodeFinalize
    <3> QED
      BY <1>1, <2>1, <3>1, RowsUntouched
  <2> QED
    BY <2>2, <2>3
<1> QED
  BY <1>2, <1>3, <1>4, <1>5, <1>6, <1>7 DEF Handle

LEMMA NodeRestartInv ==
  ASSUME IInv, NodeRestart
  PROVE  IInv'
<1>1. /\ nodePc' \in [Query -> NodePc]
      /\ \A q \in Query : nodePc'[q] # "none" => nodePc[q] # "none"
  BY DEF NodeRestart, IInv, TypeOK, NodePc
<1>2. TypeOK'
  BY <1>1 DEF NodeRestart, IInv, TypeOK, payer
<1>3. QueriesAreChosen'
  BY <1>1 DEF NodeRestart, IInv, QueriesAreChosen, payer
<1>4. SavesAreOfWallets' /\ CreditsNeverOverdrawn'
  BY DEF NodeRestart, IInv, SavesAreOfWallets, CreditsNeverOverdrawn, payer
<1> QED
  BY <1>2, <1>3, <1>4 DEF IInv

LEMMA NextInv == IInv /\ [Next]_vars => IInv'
<1> SUFFICES ASSUME IInv, [Next]_vars PROVE IInv'
  OBVIOUS
<1>1. ASSUME NEW c \in Credit,
             \/ \E microgons \in 1 .. MaxMicrogons : Create(c, microgons)
             \/ Attach(c) \/ Save(c)
      PROVE  IInv'
  BY <1>1, CreateInv, AttachInv, SaveInv
<1>2. ASSUME NEW q \in Query,
             Submit(q) \/ Client(q) \/ ConnectionLost(q) \/ Handle(q)
      PROVE  IInv'
  BY <1>2, SubmitInv, ReserveInv, AnswerInv, HandleInv DEF Client
<1>3. CASE Migrate \/ PayerRestart \/ NodeRestart
  BY <1>3, MigrateInv, PayerRestartInv, NodeRestartInv
<1>4. CASE UNCHANGED vars
  BY <1>4
  DEF IInv, TypeOK, QueriesAreChosen, SavesAreOfWallets, CreditsNeverOverdrawn, vars, payer, node
<1> QED
  BY <1>1, <1>2, <1>3, <1>4 DEF Next

LEMMA IInvHolds == Spec => []IInv
<1> QED
  BY InitInv, NextInv, PTL DEF Spec

(* What a credit was spent for: the account of each version and credit.      *)

AccountInv ==
  /\ OnlyIssuedIsUsed
  /\ DebitsPrecedeCalls
  /\ CreditsAreExplained

Account(v, c) ==
  credits[v][c] # None =>
    credits[v][c].remaining
      = opening[v][c] - PriceOf(Holding(v, c)) - TallyOf(Charged(v, c))
          - PriceOf(StorageCharged(v, c)) + PriceOf(Refused(v, c))

LEMMA SetsFinite ==
  ASSUME NEW v, NEW c
  PROVE  /\ Holding(v, c) \subseteq Query /\ IsFiniteSet(Holding(v, c))
         /\ Charged(v, c) \subseteq Query /\ IsFiniteSet(Charged(v, c))
         /\ Refused(v, c) \subseteq Query /\ IsFiniteSet(Refused(v, c))
         /\ StorageCharged(v, c) \subseteq Query /\ IsFiniteSet(StorageCharged(v, c))
<1>1. /\ Holding(v, c) \subseteq Query /\ Charged(v, c) \subseteq Query
      /\ Refused(v, c) \subseteq Query /\ StorageCharged(v, c) \subseteq Query
  BY DEF Holding, Charged, Refused, StorageCharged, QueriesOf
<1> QED
  BY <1>1, QueriesAssumption, FS_Subset

LEMMA PricesAndTallies ==
  ASSUME TypeOK
  PROVE  \A q \in Query : Price[q] \in Nat /\ tally[q] \in Nat
BY PriceAssumption DEF TypeOK

LEMMA AccountsAreNatural ==
  ASSUME TypeOK, NEW v, NEW c
  PROVE  /\ PriceOf(Holding(v, c)) \in Nat
         /\ TallyOf(Charged(v, c)) \in Nat
         /\ PriceOf(Refused(v, c)) \in Nat
         /\ PriceOf(StorageCharged(v, c)) \in Nat
BY SetsFinite, PricesAndTallies, SumType DEF PriceOf, TallyOf

LEMMA InitAccount == Init => AccountInv
<1> SUFFICES ASSUME Init PROVE AccountInv
  OBVIOUS
<1>1. OnlyIssuedIsUsed
  BY DEF Init, OnlyIssuedIsUsed, Issued, NoChoice, Version
<1>2. DebitsPrecedeCalls
  BY DEF Init, DebitsPrecedeCalls
<1>3. CreditsAreExplained
  BY BoundAssumption DEF Init, CreditsAreExplained, Version
<1> QED
  BY <1>1, <1>2, <1>3 DEF AccountInv

\* An account depends on what was debited and answered, not on who waits for it.
LEMMA AccountKept ==
  ASSUME TypeOK, NEW v \in Version, NEW c \in Credit, Account(v, c),
         \A q \in Query : q \in QueriesOf(v, c)' <=> q \in QueriesOf(v, c),
         \A q \in QueriesOf(v, c) :
           /\ debited'[q] = debited[q] /\ storageDebited'[q] = storageDebited[q]
           /\ nodePc'[q] = "answered" <=> nodePc[q] = "answered"
           /\ nodePc[q] = "answered" => tally'[q] = tally[q],
         credits'[v][c] = credits[v][c], opening'[v][c] = opening[v][c]
  PROVE  Account(v, c)'
<1>1. /\ Holding(v, c)' = Holding(v, c)
      /\ Charged(v, c)' = Charged(v, c)
      /\ Refused(v, c)' = Refused(v, c)
      /\ StorageCharged(v, c)' = StorageCharged(v, c)
  BY DEF Holding, Charged, Refused, StorageCharged, QueriesOf
<1>2. TallyOf(Charged(v, c))' = TallyOf(Charged(v, c))
  <2>1. \A q \in Charged(v, c) : tally[q] \in Nat /\ tally[q] = tally'[q]
    BY PricesAndTallies, SetsFinite DEF Charged
  <2> QED
    BY <1>1, <2>1, SetsFinite, SumAgrees DEF TallyOf
<1>3. /\ PriceOf(Holding(v, c))' = PriceOf(Holding(v, c))
      /\ PriceOf(Refused(v, c))' = PriceOf(Refused(v, c))
      /\ PriceOf(StorageCharged(v, c))' = PriceOf(StorageCharged(v, c))
  BY <1>1 DEF PriceOf
<1> QED
  BY <1>2, <1>3 DEF Account

\* Steps that leave the rows alone, and the answers that were given.
LEMMA RowsUntouchedAccount ==
  ASSUME IInv, AccountInv, UNCHANGED <<credits, choice, latest, opening, debited, storageDebited>>,
         \A q \in Query :
           /\ nodePc'[q] = "answered" <=> nodePc[q] = "answered"
           /\ nodePc[q] = "answered" => tally'[q] = tally[q]
  PROVE  CreditsAreExplained'
<1> SUFFICES ASSUME NEW v \in 1 .. latest, NEW c \in Credit PROVE Account(v, c)'
  BY DEF CreditsAreExplained, Account
<1>1. v \in Version /\ Account(v, c) /\ TypeOK
  BY BoundAssumption DEF AccountInv, CreditsAreExplained, Account, IInv, TypeOK, Version
<1>2. QueriesOf(v, c)' = QueriesOf(v, c) /\ QueriesOf(v, c) \subseteq Query
  BY DEF QueriesOf
<1> QED
  BY <1>1, <1>2, AccountKept

LEMMA PayerAccount ==
  ASSUME IInv, AccountInv,
         \/ \E c \in Credit : Attach(c) \/ Save(c)
         \/ \E q \in Query : Client(q) \/ ConnectionLost(q)
         \/ PayerRestart
  PROVE  AccountInv'
<1>1. /\ UNCHANGED <<node, choice, latest, opening>>
      /\ \A q \in Query : clientPc'[q] = "idle" => clientPc[q] = "idle"
  BY DEF Attach, Save, Client, Reserve, Answer, NodeGone, GiveUp, ConnectionLost,
         PayerRestart, IInv, TypeOK
<1>2. CreditsAreExplained'
  BY <1>1, RowsUntouchedAccount DEF node
<1>3. DebitsPrecedeCalls'
  BY <1>1 DEF AccountInv, DebitsPrecedeCalls, node
<1>4. ASSUME NEW c \in Credit, wallet'[c] # None \/ file'[c] # None
      PROVE  Issued(c)
  <2>1. CASE wallet[c] # None \/ file[c] # None
    BY <2>1 DEF AccountInv, OnlyIssuedIsUsed
  <2>2. CASE credits[latest][c] # None
    BY <2>2 DEF Issued, IInv, TypeOK
  <2>3. CASE wallet[c] = None /\ file[c] = None /\ credits[latest][c] = None
    <3>1. CASE \E d \in Credit : Attach(d) \/ Save(d)
      BY <1>4, <2>3, <3>1 DEF Attach, Save, IInv, TypeOK, SavesAreOfWallets
    <3>2. CASE PayerRestart
      BY <1>4, <2>3, <3>2 DEF PayerRestart
    <3>3. ASSUME NEW q \in Query, Reserve(q)
          PROVE  wallet'[c] = None /\ file'[c] = None
      BY <2>3, <3>3 DEF Reserve, CanReserve, HasBalance, IInv, TypeOK
    <3>4. ASSUME NEW q \in Query, NEW microgons, Finalize(q, microgons), file' = file
          PROVE  wallet'[c] = None /\ file'[c] = None
      BY <2>3, <3>4 DEF Finalize, IInv, TypeOK, QueriesAreChosen
    <3>5. ASSUME NEW q \in Query, Answer(q)
          PROVE  wallet'[c] = None /\ file'[c] = None
      BY <2>3, <3>4, <3>5 DEF Answer
    <3>6. ASSUME NEW q \in Query, NodeGone(q) \/ ConnectionLost(q)
          PROVE  wallet'[c] = None /\ file'[c] = None
      BY <3>4, <3>6 DEF NodeGone, ConnectionLost, GiveUp
    <3> QED
      BY <1>4, <3>1, <3>2, <3>3, <3>5, <3>6 DEF Client
  <2> QED
    BY <2>1, <2>2, <2>3
<1>5. OnlyIssuedIsUsed'
  BY <1>1, <1>4 DEF AccountInv, OnlyIssuedIsUsed, Issued, node
<1> QED
  BY <1>2, <1>3, <1>5 DEF AccountInv

\* A query that is submitted was not debited yet.
LEMMA SubmitAccount ==
  ASSUME IInv, AccountInv, NEW q \in Query, Submit(q)
  PROVE  AccountInv'
<1>1. /\ UNCHANGED <<payer, node, latest, opening>> /\ clientPc[q] = "idle"
      /\ \A p \in Query : clientPc'[p] = "idle" => p # q /\ clientPc[p] = "idle"
      /\ \A p \in Query \ {q} : choice'[p] = choice[p]
      /\ choice'[q] # choice[q] =>
           /\ choice'[q].version <= latest /\ choice'[q].credit \in Credit
           /\ wallet[choice'[q].credit] # None
  BY DEF Submit, HasBalance, IInv, TypeOK, Version
<1>2. nodePc[q] = "none" /\ ~debited[q] /\ ~storageDebited[q]
  BY <1>1 DEF AccountInv, DebitsPrecedeCalls
<1>3. OnlyIssuedIsUsed'
  BY <1>1 DEF AccountInv, OnlyIssuedIsUsed, Issued, payer, node
<1>4. DebitsPrecedeCalls'
  BY <1>1 DEF AccountInv, DebitsPrecedeCalls, node
<1>5. ASSUME NEW v \in 1 .. latest, NEW c \in Credit
      PROVE  Account(v, c)'
  <2>1. Account(v, c) /\ v \in Version /\ TypeOK
    BY BoundAssumption DEF AccountInv, CreditsAreExplained, Account, IInv, TypeOK, Version
  <2>2. /\ Holding(v, c)' = Holding(v, c)
        /\ Charged(v, c)' = Charged(v, c)
        /\ Refused(v, c)' = Refused(v, c)
        /\ StorageCharged(v, c)' = StorageCharged(v, c)
    BY <1>1, <1>2 DEF Holding, Charged, Refused, StorageCharged, QueriesOf, node
  <2> QED
    BY <1>1, <2>1, <2>2 DEF Account, PriceOf, TallyOf, node
<1>6. CreditsAreExplained'
  BY <1>1, <1>5 DEF CreditsAreExplained, Account
<1> QED
  BY <1>3, <1>4, <1>6 DEF AccountInv

\* A credit that is new was not spent.
LEMMA CreateAccount ==
  ASSUME IInv, AccountInv, NEW c \in Credit, NEW m \in 1 .. MaxMicrogons, Create(c, m)
  PROVE  AccountInv'
<1> USE NoneAssumption, BoundAssumption
<1> DEFINE row == [issued |-> m, remaining |-> m]
<1>1. /\ credits' = [credits EXCEPT ![latest] = [credits[latest] EXCEPT ![c] = row]]
      /\ opening' = [opening EXCEPT ![latest] = [opening[latest] EXCEPT ![c] = m]]
      /\ UNCHANGED <<payer, nodePc, debited, storageDebited, tally, latest, clientPc, choice>>
      /\ ~Issued(c)
  BY DEF Create, Issued, IInv, TypeOK
<1>2. row \in Row /\ row # None /\ row.remaining = m
  BY DEF Row
<1> HIDE DEF row
<1>3. \A v \in Version, d \in Credit : credits[v][d] # None => credits'[v][d] # None
  BY <1>1, <1>2 DEF IInv, TypeOK
<1>4. OnlyIssuedIsUsed'
  <2>1. \A d \in Credit : Issued(d) => Issued(d)'
    BY <1>3 DEF Issued
  <2>2. \A v \in Version, d \in Credit : v > latest => credits'[v][d] = credits[v][d]
    BY <1>1 DEF IInv, TypeOK, Version
  <2>3. \A q \in Query : choice[q].credit # None => choice[q].credit \in Credit
    BY DEF IInv, TypeOK
  <2> QED
    BY <1>1, <2>1, <2>2, <2>3 DEF AccountInv, OnlyIssuedIsUsed, payer
<1>5. DebitsPrecedeCalls'
  BY <1>1 DEF AccountInv, DebitsPrecedeCalls
<1>6. ASSUME NEW v \in 1 .. latest, NEW d \in Credit
      PROVE  Account(v, d)'
  <2>1. v \in Version /\ Account(v, d) /\ TypeOK
    BY DEF AccountInv, CreditsAreExplained, Account, IInv, TypeOK, Version
  <2>2. CASE v = latest /\ d = c
    <3>1. QueriesOf(v, d)' = {}
      BY <1>1, <2>2, NoneAssumption DEF AccountInv, OnlyIssuedIsUsed, QueriesOf
    <3>2. /\ Holding(v, d)' = {} /\ Charged(v, d)' = {} /\ Refused(v, d)' = {}
          /\ StorageCharged(v, d)' = {}
      BY <3>1 DEF Holding, Charged, Refused, StorageCharged
    <3>3. /\ PriceOf(Holding(v, d))' = 0 /\ TallyOf(Charged(v, d))' = 0
          /\ PriceOf(Refused(v, d))' = 0 /\ PriceOf(StorageCharged(v, d))' = 0
      BY <3>2, SumOfNothing DEF PriceOf, TallyOf
    <3>4. credits'[v][d].remaining = m /\ opening'[v][d] = m
      BY <1>1, <1>2, <2>2 DEF IInv, TypeOK
    <3> QED
      BY <3>3, <3>4 DEF Account
  <2>3. CASE ~(v = latest /\ d = c)
    <3>1. credits'[v][d] = credits[v][d] /\ opening'[v][d] = opening[v][d]
      BY <1>1, <2>1, <2>3 DEF IInv, TypeOK
    <3>2. QueriesOf(v, d)' = QueriesOf(v, d)
      BY <1>1 DEF QueriesOf
    <3> QED
      BY <1>1, <2>1, <3>1, <3>2, AccountKept
  <2> QED
    BY <2>2, <2>3
<1>7. CreditsAreExplained'
  BY <1>1, <1>6 DEF CreditsAreExplained, Account
<1> QED
  BY <1>4, <1>5, <1>7 DEF AccountInv

\* The account of a new version opens with what the one before had left.
LEMMA MigrateAccount ==
  ASSUME IInv, AccountInv, Migrate
  PROVE  AccountInv'
<1> USE NoneAssumption, BoundAssumption
<1>1. /\ latest + 1 \in Version /\ latest' = latest + 1 /\ latest \in Version
      /\ credits' = [credits EXCEPT ![latest + 1] = credits[latest]]
      /\ UNCHANGED <<payer, nodePc, debited, storageDebited, tally, clientPc, choice>>
  <2>1. latest + 1 \in Version
    BY DEF Migrate, IInv, TypeOK, Version
  <2>2. credits' = [credits EXCEPT ![latest + 1] = credits[latest]]
    BY DEF Migrate, Carried, IInv, TypeOK
  <2> QED
    BY <2>1, <2>2 DEF Migrate, IInv, TypeOK
<1>2. opening' = [opening EXCEPT ![latest + 1] =
                    [c \in Credit |-> IF credits[latest][c] = None THEN 0
                                      ELSE credits[latest][c].remaining]]
  BY DEF Migrate
<1>3. OnlyIssuedIsUsed'
  <2>1. ASSUME NEW d \in Credit, Issued(d) PROVE Issued(d)'
    <3>1. PICK v \in Version : credits[v][d] # None
      BY <2>1 DEF Issued
    <3>2. v # latest + 1
      BY <1>1, <3>1 DEF AccountInv, OnlyIssuedIsUsed, Version
    <3> QED
      BY <1>1, <3>1, <3>2 DEF Issued, IInv, TypeOK
  <2>2. \A v \in Version, d \in Credit : v > latest' => credits'[v][d] = None
    BY <1>1 DEF AccountInv, OnlyIssuedIsUsed, IInv, TypeOK, Version
  <2>3. \A q \in Query : choice[q].credit # None =>
          choice[q].credit \in Credit /\ choice[q].version <= latest + 1
    <3>1. \A q \in Query : choice[q].version \in Int /\ latest \in Int
      BY DEF IInv, TypeOK, Version
    <3>2. \A q \in Query : choice[q].credit # None => choice[q].credit \in Credit
      BY DEF IInv, TypeOK
    <3> QED
      BY <3>1, <3>2 DEF AccountInv, OnlyIssuedIsUsed
  <2> QED
    BY <1>1, <2>1, <2>2, <2>3 DEF AccountInv, OnlyIssuedIsUsed, payer
<1>4. DebitsPrecedeCalls'
  BY <1>1 DEF AccountInv, DebitsPrecedeCalls
<1>5. ASSUME NEW v \in 1 .. latest', NEW c \in Credit
      PROVE  Account(v, c)'
  <2>1. CASE v = latest + 1
    <3>1. QueriesOf(v, c)' = {}
      BY <1>1, <2>1 DEF AccountInv, OnlyIssuedIsUsed, QueriesOf, Version
    <3>2. /\ Holding(v, c)' = {} /\ Charged(v, c)' = {} /\ Refused(v, c)' = {}
          /\ StorageCharged(v, c)' = {}
      BY <3>1 DEF Holding, Charged, Refused, StorageCharged
    <3>3. /\ PriceOf(Holding(v, c))' = 0 /\ TallyOf(Charged(v, c))' = 0
          /\ PriceOf(Refused(v, c))' = 0 /\ PriceOf(StorageCharged(v, c))' = 0
      BY <3>2, SumOfNothing DEF PriceOf, TallyOf
    <3>4. CASE credits[latest][c] = None
      BY <1>1, <2>1, <3>4 DEF Account, IInv, TypeOK
    <3>5. CASE credits[latest][c] # None
      <4>1. credits[latest][c].remaining \in Int
        BY <1>1, <3>5 DEF IInv, TypeOK, Row
      <4>2. /\ credits'[v][c].remaining = credits[latest][c].remaining
            /\ opening'[v][c] = credits[latest][c].remaining
        BY <1>1, <1>2, <2>1, <3>5 DEF IInv, TypeOK
      <4> QED
        BY <3>3, <4>1, <4>2 DEF Account
    <3> QED
      BY <3>4, <3>5
  <2>2. CASE v # latest + 1
    <3>1. v \in Version /\ v \in 1 .. latest /\ TypeOK
      BY <1>1, <2>2 DEF Version, IInv
    <3>2. Account(v, c)
      BY <3>1 DEF AccountInv, CreditsAreExplained, Account
    <3>3. credits'[v][c] = credits[v][c] /\ opening'[v][c] = opening[v][c]
      BY <1>1, <1>2, <2>2, <3>1 DEF IInv, TypeOK
    <3>4. QueriesOf(v, c)' = QueriesOf(v, c)
      BY <1>1 DEF QueriesOf
    <3> QED
      BY <1>1, <3>1, <3>2, <3>3, <3>4, AccountKept
  <2> QED
    BY <2>1, <2>2
<1>6. CreditsAreExplained'
  BY <1>5 DEF CreditsAreExplained, Account
<1> QED
  BY <1>3, <1>4, <1>6 DEF AccountInv

\* A step of the datastore that sets what remains of a credit, to what explains
\* the account of that credit; the others are left alone.
LEMMA RowSetAccount ==
  ASSUME IInv, AccountInv, NEW q \in Query, NEW label, NEW remaining \in Int,
         nodePc[q] \notin {"none", "answered"}, RowOf(q) # None,
         SetRemaining(q, remaining),
         NodeGoto(q, label), label # "none", NodeOnly(q), UNCHANGED tally,
         \A p \in Query \ {q} :
           debited'[p] = debited[p] /\ storageDebited'[p] = storageDebited[p],
         NEW v \in Version, NEW c \in Credit,
         choice[q] = [credit |-> c, version |-> v],
         remaining = opening[v][c] - PriceOf(Holding(v, c))' - TallyOf(Charged(v, c))'
                       - PriceOf(StorageCharged(v, c))' + PriceOf(Refused(v, c))'
  PROVE  OnlyIssuedIsUsed' /\ CreditsAreExplained'
<1> DEFINE row == [RowOf(q) EXCEPT !.remaining = remaining]
<1> USE NoneAssumption, BoundAssumption
<1>1. choice[q].credit = c /\ choice[q].version = v
  OBVIOUS
<1>2. RowOf(q) \in Row
  BY <1>1 DEF RowOf, IInv, TypeOK
<1>3. row \in Row /\ row.remaining = remaining /\ row # None
  BY <1>2 DEF Row
<1>4. /\ credits' = [credits EXCEPT ![v] = [credits[v] EXCEPT ![c] = row]]
      /\ credits[v][c] # None
  BY <1>1 DEF SetRemaining, RowOf, IInv, TypeOK
<1>5. UNCHANGED <<payer, latest, choice, opening, tally>>
  BY DEF NodeOnly
<1> HIDE DEF row
<1>6. \A w \in Version, d \in Credit : credits'[w][d] = None <=> credits[w][d] = None
  BY <1>1, <1>3, <1>4 DEF IInv, TypeOK
<1>7. OnlyIssuedIsUsed'
  <2>1. \A d \in Credit : Issued(d)' <=> Issued(d)
    BY <1>6 DEF Issued
  <2>2. \A p \in Query : choice[p].credit # None => choice[p].credit \in Credit
    BY DEF IInv, TypeOK
  <2> QED
    BY <1>5, <1>6, <2>1, <2>2 DEF AccountInv, OnlyIssuedIsUsed, payer
<1>8. ASSUME NEW w \in 1 .. latest, NEW d \in Credit
      PROVE  Account(w, d)'
  <2>1. w \in Version /\ Account(w, d) /\ TypeOK
    <3>1. w \in Version /\ TypeOK
      BY DEF IInv, TypeOK, Version
    <3> QED
      BY <3>1 DEF AccountInv, CreditsAreExplained, Account
  <2>2. CASE w = v /\ d = c
    <3>1. credits'[v][c].remaining = remaining
      BY <1>1, <1>3, <1>4 DEF IInv, TypeOK
    <3> QED
      BY <1>5, <2>2, <3>1 DEF Account
  <2>3. CASE ~(w = v /\ d = c)
    <3>1. credits'[w][d] = credits[w][d] /\ opening'[w][d] = opening[w][d]
      BY <1>1, <1>4, <1>5, <2>1, <2>3 DEF IInv, TypeOK
    <3>2. /\ QueriesOf(w, d)' = QueriesOf(w, d)
          /\ q \notin QueriesOf(w, d) /\ QueriesOf(w, d) \subseteq Query
      BY <1>5, <2>3 DEF QueriesOf
    <3>3. \A p \in QueriesOf(w, d) :
            /\ debited'[p] = debited[p] /\ nodePc'[p] = nodePc[p] /\ tally'[p] = tally[p]
            /\ storageDebited'[p] = storageDebited[p]
      BY <1>5, <3>2 DEF NodeGoto, IInv, TypeOK
    <3> QED
      BY <2>1, <3>1, <3>2, <3>3, AccountKept
  <2> QED
    BY <2>2, <2>3
<1>9. CreditsAreExplained'
  BY <1>5, <1>8 DEF CreditsAreExplained, Account
<1> QED
  BY <1>7, <1>9

\* A query is of a version whose accounts are kept.
LEMMA AccountOfChoice ==
  ASSUME AccountInv, IInv, NEW q \in Query, NEW v \in Version, NEW c \in Credit,
         choice[q] = [credit |-> c, version |-> v]
  PROVE  Account(v, c)
<1>1. c # None
  BY NoneAssumption
<1>2. v <= latest
  BY <1>1 DEF AccountInv, OnlyIssuedIsUsed
<1>3. v \in 1 .. latest
  BY <1>2, BoundAssumption DEF IInv, TypeOK, Version
<1> QED
  BY <1>3 DEF AccountInv, CreditsAreExplained, Account

\* The datastore holds the price of what it debits.
LEMMA DebitAccount ==
  ASSUME IInv, AccountInv, NEW q \in Query, DebitUpdate(q), CanUpdate(q)
  PROVE  OnlyIssuedIsUsed' /\ CreditsAreExplained'
<1>1. /\ nodePc[q] = "update" /\ ~debited[q]
      /\ SetRemaining(q, RowOf(q).remaining - Price[q])
      /\ debited' = [debited EXCEPT ![q] = TRUE]
      /\ NodeGoto(q, "run") /\ NodeOnly(q) /\ UNCHANGED <<storageDebited, tally>>
  BY DEF DebitUpdate, AccountInv, DebitsPrecedeCalls
<1>2. PICK v \in Version, c \in Credit : choice[q] = [credit |-> c, version |-> v]
  BY <1>1 DEF IInv, TypeOK, QueriesAreChosen
<1>3. RowOf(q) = credits[v][c] /\ credits[v][c] # None /\ credits[v][c] \in Row
  BY <1>2 DEF RowOf, CanUpdate, Covers, IInv, TypeOK
<1>4. credits[v][c].remaining
        = opening[v][c] - PriceOf(Holding(v, c)) - TallyOf(Charged(v, c))
            - PriceOf(StorageCharged(v, c)) + PriceOf(Refused(v, c))
  BY <1>2, <1>3, AccountOfChoice DEF Account
<1>5. UNCHANGED choice /\ nodePc' = [nodePc EXCEPT ![q] = "run"]
  BY <1>1 DEF NodeOnly, NodeGoto
<1>6. /\ Holding(v, c)' = Holding(v, c) \cup {q} /\ q \notin Holding(v, c)
      /\ Charged(v, c)' = Charged(v, c)
      /\ Refused(v, c)' = Refused(v, c)
      /\ StorageCharged(v, c)' = StorageCharged(v, c)
  BY <1>1, <1>2, <1>5 DEF Holding, Charged, Refused, StorageCharged, QueriesOf, IInv, TypeOK
<1>7. PriceOf(Holding(v, c))' = PriceOf(Holding(v, c)) + Price[q]
  BY <1>6, SetsFinite, PricesAndTallies, SumWith DEF PriceOf, IInv
<1>8. /\ TallyOf(Charged(v, c))' = TallyOf(Charged(v, c))
      /\ PriceOf(Refused(v, c))' = PriceOf(Refused(v, c))
      /\ PriceOf(StorageCharged(v, c))' = PriceOf(StorageCharged(v, c))
  BY <1>1, <1>6 DEF PriceOf, TallyOf
<1>9. RowOf(q).remaining - Price[q]
        = opening[v][c] - PriceOf(Holding(v, c))' - TallyOf(Charged(v, c))'
            - PriceOf(StorageCharged(v, c))' + PriceOf(Refused(v, c))'
  BY <1>3, <1>4, <1>7, <1>8, AccountsAreNatural, PricesAndTallies DEF IInv, TypeOK
<1>10. /\ RowOf(q).remaining - Price[q] \in Int
       /\ \A p \in Query \ {q} :
            debited'[p] = debited[p] /\ storageDebited'[p] = storageDebited[p]
  BY <1>1, <1>3, PricesAndTallies DEF Row, IInv, TypeOK
<1> QED
  BY <1>1, <1>2, <1>3, <1>9, <1>10, RowSetAccount

\* And its storage call charges the price once more.
LEMMA StorageAccount ==
  ASSUME IInv, AccountInv, NEW q \in Query, StorageUpdate(q), CanUpdate(q)
  PROVE  OnlyIssuedIsUsed' /\ CreditsAreExplained'
<1>1. /\ nodePc[q] = "storageUpdate" /\ debited[q] /\ ~storageDebited[q]
      /\ SetRemaining(q, RowOf(q).remaining - Price[q])
      /\ storageDebited' = [storageDebited EXCEPT ![q] = TRUE]
      /\ NodeGoto(q, "finalize") /\ NodeOnly(q) /\ UNCHANGED <<debited, tally>>
  BY DEF StorageUpdate, AccountInv, DebitsPrecedeCalls
<1>2. PICK v \in Version, c \in Credit : choice[q] = [credit |-> c, version |-> v]
  BY <1>1 DEF IInv, TypeOK, QueriesAreChosen
<1>3. RowOf(q) = credits[v][c] /\ credits[v][c] # None /\ credits[v][c] \in Row
  BY <1>2 DEF RowOf, CanUpdate, Covers, IInv, TypeOK
<1>4. credits[v][c].remaining
        = opening[v][c] - PriceOf(Holding(v, c)) - TallyOf(Charged(v, c))
            - PriceOf(StorageCharged(v, c)) + PriceOf(Refused(v, c))
  BY <1>2, <1>3, AccountOfChoice DEF Account
<1>5. UNCHANGED choice /\ nodePc' = [nodePc EXCEPT ![q] = "finalize"]
  BY <1>1 DEF NodeOnly, NodeGoto
<1>6. /\ StorageCharged(v, c)' = StorageCharged(v, c) \cup {q} /\ q \notin StorageCharged(v, c)
      /\ Holding(v, c)' = Holding(v, c)
      /\ Charged(v, c)' = Charged(v, c)
      /\ Refused(v, c)' = Refused(v, c)
  BY <1>1, <1>2, <1>5 DEF Holding, Charged, Refused, StorageCharged, QueriesOf, IInv, TypeOK
<1>7. PriceOf(StorageCharged(v, c))' = PriceOf(StorageCharged(v, c)) + Price[q]
  BY <1>6, SetsFinite, PricesAndTallies, SumWith DEF PriceOf, IInv
<1>8. /\ PriceOf(Holding(v, c))' = PriceOf(Holding(v, c))
      /\ TallyOf(Charged(v, c))' = TallyOf(Charged(v, c))
      /\ PriceOf(Refused(v, c))' = PriceOf(Refused(v, c))
  BY <1>1, <1>6 DEF PriceOf, TallyOf
<1>9. RowOf(q).remaining - Price[q]
        = opening[v][c] - PriceOf(Holding(v, c))' - TallyOf(Charged(v, c))'
            - PriceOf(StorageCharged(v, c))' + PriceOf(Refused(v, c))'
  BY <1>3, <1>4, <1>7, <1>8, AccountsAreNatural, PricesAndTallies DEF IInv, TypeOK
<1>10. /\ RowOf(q).remaining - Price[q] \in Int
       /\ \A p \in Query \ {q} :
            debited'[p] = debited[p] /\ storageDebited'[p] = storageDebited[p]
  BY <1>1, <1>3, PricesAndTallies DEF Row, IInv, TypeOK
<1> QED
  BY <1>1, <1>2, <1>3, <1>9, <1>10, RowSetAccount

\* It charges the tally of what it debited, and returns the price of what it did not.
LEMMA FinalizeAccount ==
  ASSUME IInv, AccountInv, NEW q \in Query, NodeFinalize(q)
  PROVE  OnlyIssuedIsUsed' /\ CreditsAreExplained'
<1>1. /\ nodePc[q] = "finalize" /\ NodeGoto(q, "answered") /\ NodeOnly(q)
      /\ UNCHANGED <<debited, storageDebited, tally>>
      /\ UNCHANGED <<choice, latest, opening>>
  BY DEF NodeFinalize, NodeOnly
<1>2. PICK v \in Version, c \in Credit : choice[q] = [credit |-> c, version |-> v]
  BY <1>1 DEF IInv, TypeOK, QueriesAreChosen
<1>3. RowOf(q) = credits[v][c] /\ nodePc' = [nodePc EXCEPT ![q] = "answered"]
  BY <1>1, <1>2 DEF RowOf, NodeGoto
<1>4. /\ Price[q] \in Nat /\ tally[q] \in Nat /\ TypeOK
      /\ \A p \in Query : Price[p] \in Nat /\ tally[p] \in Nat
  BY PricesAndTallies DEF IInv
<1>5. CASE RowOf(q) # None
  <2>1. credits[v][c] \in Row
    BY <1>3, <1>5 DEF IInv, TypeOK
  <2>2. credits[v][c].remaining
          = opening[v][c] - PriceOf(Holding(v, c)) - TallyOf(Charged(v, c))
              - PriceOf(StorageCharged(v, c)) + PriceOf(Refused(v, c))
    BY <1>2, <1>3, <1>5, AccountOfChoice DEF Account
  <2>3. /\ PriceOf(Holding(v, c)) \in Nat /\ TallyOf(Charged(v, c)) \in Nat
        /\ PriceOf(Refused(v, c)) \in Nat /\ PriceOf(StorageCharged(v, c)) \in Nat
        /\ credits[v][c].remaining \in Int /\ opening[v][c] \in Int
    BY <1>4, <2>1, AccountsAreNatural DEF Row, TypeOK
  <2>4. SetRemaining(q, RowOf(q).remaining + Refund(q))
    BY <1>5 DEF NodeFinalize
  <2>5. RowOf(q).remaining + Refund(q)
          = opening[v][c] - PriceOf(Holding(v, c))' - TallyOf(Charged(v, c))'
              - PriceOf(StorageCharged(v, c))' + PriceOf(Refused(v, c))'
    <3>1. CASE debited[q]
      <4>1. /\ Holding(v, c)' = Holding(v, c) \ {q} /\ q \in Holding(v, c)
            /\ Charged(v, c)' = Charged(v, c) \cup {q} /\ q \notin Charged(v, c)
            /\ Refused(v, c)' = Refused(v, c)
            /\ StorageCharged(v, c)' = StorageCharged(v, c)
        BY <1>1, <1>2, <1>3, <3>1
        DEF Holding, Charged, Refused, StorageCharged, QueriesOf, IInv, TypeOK
      <4>2. PriceOf(Holding(v, c)) = Price[q] + PriceOf(Holding(v, c))'
        BY <1>4, <4>1, SetsFinite, SumWithout DEF PriceOf
      <4>3. TallyOf(Charged(v, c))' = TallyOf(Charged(v, c)) + tally[q]
        BY <1>1, <1>4, <4>1, SetsFinite, SumWith DEF TallyOf
      <4>4. /\ PriceOf(Refused(v, c))' = PriceOf(Refused(v, c))
            /\ PriceOf(StorageCharged(v, c))' = PriceOf(StorageCharged(v, c))
        BY <4>1 DEF PriceOf
      <4>5. PriceOf(Holding(v, c))' \in Nat
        BY <1>4, <4>1, SetsFinite, FS_RemoveElement, SumType DEF PriceOf
      <4> QED
        BY <1>3, <1>4, <2>2, <2>3, <4>2, <4>3, <4>4, <4>5 DEF Refund
    <3>2. CASE ~debited[q]
      <4>1. /\ Holding(v, c)' = Holding(v, c)
            /\ Charged(v, c)' = Charged(v, c)
            /\ Refused(v, c)' = Refused(v, c) \cup {q} /\ q \notin Refused(v, c)
            /\ StorageCharged(v, c)' = StorageCharged(v, c)
        BY <1>1, <1>2, <1>3, <3>2
        DEF Holding, Charged, Refused, StorageCharged, QueriesOf, IInv, TypeOK
      <4>2. PriceOf(Refused(v, c))' = PriceOf(Refused(v, c)) + Price[q]
        BY <1>4, <4>1, SetsFinite, SumWith DEF PriceOf
      <4>3. /\ PriceOf(Holding(v, c))' = PriceOf(Holding(v, c))
            /\ TallyOf(Charged(v, c))' = TallyOf(Charged(v, c))
            /\ PriceOf(StorageCharged(v, c))' = PriceOf(StorageCharged(v, c))
        BY <1>1, <4>1 DEF PriceOf, TallyOf
      <4>4. tally[q] = 0
        BY <3>2 DEF AccountInv, DebitsPrecedeCalls
      <4> QED
        BY <1>3, <1>4, <2>2, <2>3, <4>2, <4>3, <4>4 DEF Refund
    <3> QED
      BY <3>1, <3>2
  <2>6. RowOf(q).remaining + Refund(q) \in Int
    BY <1>3, <1>4, <2>3 DEF Refund
  <2> QED
    BY <1>1, <1>2, <1>5, <2>4, <2>5, <2>6, RowSetAccount
<1>6. CASE RowOf(q) = None
  <2>1. UNCHANGED <<credits, wallet, file>>
    BY <1>1, <1>6 DEF NodeFinalize, NodeOnly, payer
  <2>2. OnlyIssuedIsUsed'
    BY <1>1, <2>1 DEF AccountInv, OnlyIssuedIsUsed, Issued
  <2>3. ASSUME NEW w \in 1 .. latest, NEW d \in Credit
        PROVE  Account(w, d)'
    <3>1. w \in Version
      BY BoundAssumption DEF IInv, TypeOK, Version
    <3>2. Account(w, d)
      BY DEF AccountInv, CreditsAreExplained, Account
    <3>3. CASE w = v /\ d = c
      BY <1>3, <1>6, <2>1, <3>3 DEF Account
    <3>4. CASE ~(w = v /\ d = c)
      <4>1. /\ QueriesOf(w, d)' = QueriesOf(w, d)
            /\ q \notin QueriesOf(w, d) /\ QueriesOf(w, d) \subseteq Query
        BY <1>1, <1>2, <3>4 DEF QueriesOf
      <4>2. \A p \in QueriesOf(w, d) : nodePc'[p] = nodePc[p]
        BY <1>3, <4>1 DEF IInv, TypeOK
      <4> QED
        BY <1>1, <1>4, <2>1, <3>1, <3>2, <4>1, <4>2, AccountKept
    <3> QED
      BY <3>3, <3>4
  <2>4. CreditsAreExplained'
    BY <1>1, <2>3 DEF CreditsAreExplained, Account
  <2> QED
    BY <2>2, <2>4
<1> QED
  BY <1>5, <1>6

LEMMA HandleAccount ==
  ASSUME IInv, IInv', AccountInv, NEW q \in Query, Handle(q)
  PROVE  AccountInv'
<1>1. UNCHANGED <<payer, clientPc, choice, latest, opening>>
  BY DEF Handle, DebitSelect, DebitUpdate, RunQuery, StorageSelect, StorageUpdate, NodeFinalize,
         NodeOnly
<1>2. DebitsPrecedeCalls'
  <2>1. /\ nodePc[q] = "none" => clientPc[q] # "idle"
        /\ nodePc'[q] # "none"
        /\ nodePc'[q] = "update" => ~debited'[q]
        /\ nodePc'[q] \in {"run", "storage", "storageUpdate"} => debited'[q] /\ ~storageDebited'[q]
        /\ ~debited'[q] => tally'[q] = 0 /\ ~storageDebited'[q]
    <3> USE DEF NodeGoto, AccountInv, DebitsPrecedeCalls, IInv, TypeOK
    <3>1. CASE DebitSelect(q)
      BY <3>1 DEF DebitSelect
    <3>2. CASE DebitUpdate(q)
      BY <3>2 DEF DebitUpdate
    <3>3. CASE RunQuery(q)
      BY <3>3 DEF RunQuery
    <3>4. CASE NodeFinalize(q)
      BY <3>4 DEF NodeFinalize
    <3>5. CASE StorageSelect(q)
      BY <3>5 DEF StorageSelect
    <3>6. CASE StorageUpdate(q)
      BY <3>6 DEF StorageUpdate
    <3> QED
      BY <3>1, <3>2, <3>3, <3>4, <3>5, <3>6 DEF Handle
  <2>2. \A p \in Query \ {q} :
          /\ nodePc'[p] = nodePc[p] /\ debited'[p] = debited[p] /\ tally'[p] = tally[p]
          /\ storageDebited'[p] = storageDebited[p]
    BY DEF Handle, DebitSelect, DebitUpdate, RunQuery, StorageSelect, StorageUpdate,
           NodeFinalize, NodeGoto, IInv, TypeOK
  <2>3. clientPc[q] # "idle"
    BY <2>1 DEF AccountInv, DebitsPrecedeCalls
  <2> QED
    BY <1>1, <2>1, <2>2, <2>3 DEF AccountInv, DebitsPrecedeCalls
<1>3. CASE \/ DebitSelect(q) \/ RunQuery(q) \/ StorageSelect(q)
           \/ (DebitUpdate(q) \/ StorageUpdate(q)) /\ ~CanUpdate(q)
  <2>1. /\ UNCHANGED <<credits, debited, storageDebited>>
        /\ \A p \in Query : /\ nodePc'[p] = "answered" <=> nodePc[p] = "answered"
                            /\ nodePc[p] = "answered" => tally'[p] = tally[p]
    BY <1>3 DEF DebitSelect, RunQuery, StorageSelect, DebitUpdate, StorageUpdate, NodeGoto,
                IInv, TypeOK
  <2>2. CreditsAreExplained'
    BY <1>1, <2>1, RowsUntouchedAccount
  <2>3. OnlyIssuedIsUsed'
    BY <1>1, <2>1 DEF AccountInv, OnlyIssuedIsUsed, Issued, payer
  <2> QED
    BY <1>2, <2>2, <2>3 DEF AccountInv
<1> QED
  BY <1>2, <1>3, DebitAccount, StorageAccount, FinalizeAccount DEF Handle, AccountInv

LEMMA NodeRestartAccount ==
  ASSUME IInv, AccountInv, NodeRestart
  PROVE  AccountInv'
<1>1. /\ UNCHANGED <<payer, credits, debited, storageDebited, tally, latest, clientPc, choice,
                     opening>>
      /\ \A q \in Query : /\ nodePc'[q] = "answered" <=> nodePc[q] = "answered"
                          /\ nodePc'[q] \in {nodePc[q], "gone"}
                          /\ nodePc[q] = "none" => nodePc'[q] = "none"
  BY DEF NodeRestart
<1>2. CreditsAreExplained'
  BY <1>1, RowsUntouchedAccount
<1>3. OnlyIssuedIsUsed' /\ DebitsPrecedeCalls'
  BY <1>1 DEF AccountInv, OnlyIssuedIsUsed, DebitsPrecedeCalls, Issued, payer
<1> QED
  BY <1>2, <1>3 DEF AccountInv

LEMMA NextAccount == IInv /\ IInv' /\ AccountInv /\ [Next]_vars => AccountInv'
<1> SUFFICES ASSUME IInv, IInv', AccountInv, [Next]_vars PROVE AccountInv'
  OBVIOUS
<1>1. ASSUME NEW c \in Credit,
             \/ \E microgons \in 1 .. MaxMicrogons : Create(c, microgons)
             \/ Attach(c) \/ Save(c)
      PROVE  AccountInv'
  BY <1>1, CreateAccount, PayerAccount
<1>2. ASSUME NEW q \in Query,
             Submit(q) \/ Client(q) \/ ConnectionLost(q) \/ Handle(q)
      PROVE  AccountInv'
  BY <1>2, SubmitAccount, PayerAccount, HandleAccount
<1>3. CASE Migrate \/ PayerRestart \/ NodeRestart
  BY <1>3, MigrateAccount, PayerAccount, NodeRestartAccount
<1>4. CASE UNCHANGED vars
  <2>1. UNCHANGED <<credits, choice, latest, opening, debited, storageDebited, nodePc, tally,
                    wallet, file, clientPc>>
    BY <1>4 DEF vars, payer, node
  <2>2. CreditsAreExplained'
    BY <2>1, RowsUntouchedAccount
  <2>3. OnlyIssuedIsUsed' /\ DebitsPrecedeCalls'
    BY <2>1 DEF AccountInv, OnlyIssuedIsUsed, DebitsPrecedeCalls, Issued
  <2> QED
    BY <2>2, <2>3 DEF AccountInv
<1> QED
  BY <1>1, <1>2, <1>3, <1>4 DEF Next

LEMMA AccountHolds == Spec => []AccountInv
<1> QED
  BY InitAccount, NextAccount, IInvHolds, PTL DEF Spec

(* What the payer believes to have is backed by the datastore.  A step of a    *)
(* query moves its price between the sums of its credit, and leaves those of   *)
(* the others alone.                                                           *)

\* What the payer may take back of a query, as RefundOf sums it.
Rests == [q \in Query |-> Price[q] - tally[q]]

LEMMA InitBacked == Init => BackedInv
BY DEF Init, BackedInv, SidesAgree, Backed

LEMMA RestsAreNatural ==
  ASSUME IInv
  PROVE  \A q \in Query :
           /\ Price[q] \in Nat /\ tally[q] \in Nat
           /\ Rests[q] = Price[q] - tally[q] /\ Rests[q] \in Nat
BY PricesAndTallies DEF IInv, QueriesAreChosen, Rests

LEMMA SumsFinite ==
  ASSUME NEW c
  PROVE  /\ Reserved(c) \subseteq Query /\ IsFiniteSet(Reserved(c))
         /\ Returned(c) \subseteq Query /\ IsFiniteSet(Returned(c))
         /\ Unknown(c) \subseteq Query /\ IsFiniteSet(Unknown(c))
         /\ DebitedTwice(c) \subseteq Query /\ IsFiniteSet(DebitedTwice(c))
         /\ Debited(c) \subseteq Query /\ IsFiniteSet(Debited(c))
<1>1. /\ Reserved(c) \subseteq Query /\ Returned(c) \subseteq Query
      /\ Unknown(c) \subseteq Query /\ DebitedTwice(c) \subseteq Query
      /\ Debited(c) \subseteq Query
  BY DEF Reserved, Returned, Unknown, DebitedTwice, Debited
<1> QED
  BY <1>1, QueriesAssumption, FS_Subset

LEMMA SumsAreNatural ==
  ASSUME IInv, NEW c
  PROVE  /\ PriceOf(Reserved(c)) \in Nat /\ RefundOf(Returned(c)) \in Nat
         /\ PriceOf(Unknown(c)) \in Nat /\ PriceOf(DebitedTwice(c)) \in Nat
         /\ PriceOf(Debited(c)) \in Nat
<1>1. /\ PriceOf(Reserved(c)) \in Nat /\ PriceOf(Unknown(c)) \in Nat
      /\ PriceOf(DebitedTwice(c)) \in Nat /\ PriceOf(Debited(c)) \in Nat
  BY SumsFinite, RestsAreNatural, SumType DEF PriceOf
<1>2. SumFunctionOnSet(Rests, Returned(c)) \in Nat
  BY SumsFinite, RestsAreNatural, SumType
<1> QED
  BY <1>1, <1>2 DEF RefundOf, Rests

LEMMA RowsAreIntegers ==
  ASSUME IInv
  PROVE  \A c \in Credit : credits[1][c] # None => credits[1][c].remaining \in Int
<1>1. 1 \in Version
  BY BoundAssumption DEF Version
<1> QED
  BY <1>1 DEF IInv, TypeOK, Row

\* Two sums that agree but for one query.
LEMMA SumsAround ==
  ASSUME NEW f, NEW g, NEW S, NEW T, NEW q, IsFiniteSet(S), IsFiniteSet(T),
         S \ {q} = T \ {q},
         \A p \in S : f[p] \in Nat, \A p \in T : g[p] \in Nat,
         \A p \in S \ {q} : f[p] = g[p]
  PROVE  \E rest \in Nat :
           /\ SumFunctionOnSet(f, S) = rest + (IF q \in S THEN f[q] ELSE 0)
           /\ SumFunctionOnSet(g, T) = rest + (IF q \in T THEN g[q] ELSE 0)
<1> DEFINE rest == SumFunctionOnSet(f, S \ {q})
<1>1. IsFiniteSet(S \ {q}) /\ \A p \in S \ {q} : f[p] \in Nat /\ f[p] = g[p]
  BY FS_Subset
<1>2. rest \in Nat
  BY <1>1, SumType
<1>3. rest = SumFunctionOnSet(g, T \ {q})
  <2>1. SumFunctionOnSet(f, S \ {q}) = SumFunctionOnSet(g, S \ {q})
    BY <1>1, SumAgrees
  <2> QED
    BY <2>1
<1>4. SumFunctionOnSet(f, S) = rest + (IF q \in S THEN f[q] ELSE 0)
  <2>1. CASE q \in S
    <3>1. SumFunctionOnSet(f, S) = f[q] + rest
      BY <2>1, SumWithout
    <3> QED
      BY <1>2, <2>1, <3>1
  <2>2. CASE q \notin S
    <3>1. S \ {q} = S
      BY <2>2
    <3>2. SumFunctionOnSet(f, S) = rest
      BY <3>1, Zenon
    <3> HIDE DEF rest
    <3> QED
      BY <1>2, <2>2, <3>2
  <2> QED
    BY <2>1, <2>2
<1>5. SumFunctionOnSet(g, T) = rest + (IF q \in T THEN g[q] ELSE 0)
  <2>1. CASE q \in T
    <3>1. SumFunctionOnSet(g, T) = g[q] + SumFunctionOnSet(g, T \ {q})
      BY <2>1, SumWithout
    <3> QED
      BY <1>2, <1>3, <2>1, <3>1
  <2>2. CASE q \notin T
    <3>1. T \ {q} = T
      BY <2>2
    <3>2. SumFunctionOnSet(g, T) = rest
      BY <1>3, <3>1, Zenon
    <3> HIDE DEF rest
    <3> QED
      BY <1>2, <2>2, <3>2
  <2> QED
    BY <2>1, <2>2
<1> QED
  BY <1>2, <1>4, <1>5

\* A step of one query: what it does to the sums of its credit.
OthersAlone(q) ==
  /\ UNCHANGED choice
  /\ \A p \in Query \ {q} :
       /\ clientPc'[p] = clientPc[p] /\ nodePc'[p] = nodePc[p] /\ tally'[p] = tally[p]
       /\ debited'[p] = debited[p] /\ storageDebited'[p] = storageDebited[p]
       /\ p \in givenUp' <=> p \in givenUp

\* The part of a query in Claimed and Missed.
Part(q, queries) == IF q \in queries THEN Price[q] ELSE 0
ClaimedOf(q, c) ==
  Part(q, Reserved(c)) + (IF q \in Returned(c) THEN Price[q] - tally[q] ELSE 0)
    - Part(q, Unknown(c)) - Part(q, DebitedTwice(c))
MissedOf(q, c) == Part(q, Debited(c)) + Part(q, DebitedTwice(c))

LEMMA SumsOfStep ==
  ASSUME IInv, IInv', NEW q \in Query, OthersAlone(q), NEW c
  PROVE  /\ Claimed(c) \in Int /\ ClaimedOf(q, c) \in Int /\ ClaimedOf(q, c)' \in Int
         /\ Missed(c) \in Int /\ MissedOf(q, c) \in Int /\ MissedOf(q, c)' \in Int
         /\ Claimed(c)' = Claimed(c) + ClaimedOf(q, c)' - ClaimedOf(q, c)
         /\ Missed(c)' = Missed(c) + MissedOf(q, c)' - MissedOf(q, c)
<1>1. \A p \in Query : Price[p] \in Nat /\ Rests[p] \in Nat
  BY RestsAreNatural
<1>2. \A p \in Query : Rests'[p] \in Nat
  <2>1. \A p \in Query : tally'[p] \in Nat /\ tally'[p] <= Price[p]
    BY DEF IInv, TypeOK, QueriesAreChosen
  <2> QED
    BY <1>1, <2>1 DEF Rests
<1>3. /\ Reserved(c) \subseteq Query /\ Reserved(c)' \subseteq Query
      /\ Returned(c) \subseteq Query /\ Returned(c)' \subseteq Query
      /\ Unknown(c) \subseteq Query /\ Unknown(c)' \subseteq Query
      /\ DebitedTwice(c) \subseteq Query /\ DebitedTwice(c)' \subseteq Query
      /\ Debited(c) \subseteq Query /\ Debited(c)' \subseteq Query
  BY DEF Reserved, Returned, Unknown, DebitedTwice, Debited
<1>4. /\ IsFiniteSet(Reserved(c)) /\ IsFiniteSet(Reserved(c)')
      /\ IsFiniteSet(Returned(c)) /\ IsFiniteSet(Returned(c)')
      /\ IsFiniteSet(Unknown(c)) /\ IsFiniteSet(Unknown(c)')
      /\ IsFiniteSet(DebitedTwice(c)) /\ IsFiniteSet(DebitedTwice(c)')
      /\ IsFiniteSet(Debited(c)) /\ IsFiniteSet(Debited(c)')
  BY <1>3, QueriesAssumption, FS_Subset
<1>5. /\ Reserved(c) \ {q} = Reserved(c)' \ {q}
      /\ Returned(c) \ {q} = Returned(c)' \ {q}
      /\ Unknown(c) \ {q} = Unknown(c)' \ {q}
      /\ DebitedTwice(c) \ {q} = DebitedTwice(c)' \ {q}
      /\ Debited(c) \ {q} = Debited(c)' \ {q}
  BY DEF OthersAlone, Reserved, Returned, Unknown, DebitedTwice, Debited
<1>6. PICK reserved \in Nat :
        /\ SumFunctionOnSet(Price, Reserved(c))
             = reserved + (IF q \in Reserved(c) THEN Price[q] ELSE 0)
        /\ SumFunctionOnSet(Price, Reserved(c)')
             = reserved + (IF q \in Reserved(c)' THEN Price[q] ELSE 0)
  BY <1>1, <1>3, <1>4, <1>5, SumsAround
<1>7. PICK returned \in Nat :
        /\ SumFunctionOnSet(Rests, Returned(c))
             = returned + (IF q \in Returned(c) THEN Rests[q] ELSE 0)
        /\ SumFunctionOnSet(Rests', Returned(c)')
             = returned + (IF q \in Returned(c)' THEN Rests'[q] ELSE 0)
  <2>1. \A p \in Returned(c) \ {q} : Rests[p] = Rests'[p]
    BY <1>3 DEF OthersAlone, Rests
  <2> HIDE DEF Rests
  <2> QED
    BY <1>1, <1>2, <1>3, <1>4, <1>5, <2>1, SumsAround
<1>8. PICK unknown \in Nat :
        /\ SumFunctionOnSet(Price, Unknown(c))
             = unknown + (IF q \in Unknown(c) THEN Price[q] ELSE 0)
        /\ SumFunctionOnSet(Price, Unknown(c)')
             = unknown + (IF q \in Unknown(c)' THEN Price[q] ELSE 0)
  BY <1>1, <1>3, <1>4, <1>5, SumsAround
<1>9. PICK twice \in Nat :
        /\ SumFunctionOnSet(Price, DebitedTwice(c))
             = twice + (IF q \in DebitedTwice(c) THEN Price[q] ELSE 0)
        /\ SumFunctionOnSet(Price, DebitedTwice(c)')
             = twice + (IF q \in DebitedTwice(c)' THEN Price[q] ELSE 0)
  BY <1>1, <1>3, <1>4, <1>5, SumsAround
<1>10. PICK paid \in Nat :
        /\ SumFunctionOnSet(Price, Debited(c))
             = paid + (IF q \in Debited(c) THEN Price[q] ELSE 0)
        /\ SumFunctionOnSet(Price, Debited(c)')
             = paid + (IF q \in Debited(c)' THEN Price[q] ELSE 0)
  BY <1>1, <1>3, <1>4, <1>5, SumsAround
<1>11. /\ RefundOf(Returned(c))
            = returned + (IF q \in Returned(c) THEN Price[q] - tally[q] ELSE 0)
       /\ RefundOf(Returned(c))'
            = returned + (IF q \in Returned(c)' THEN Price[q] - tally'[q] ELSE 0)
  BY <1>7 DEF RefundOf, Rests
<1>12. /\ Part(q, Reserved(c)) \in Nat /\ Part(q, Reserved(c))' \in Nat
       /\ Part(q, Unknown(c)) \in Nat /\ Part(q, Unknown(c))' \in Nat
       /\ Part(q, DebitedTwice(c)) \in Nat /\ Part(q, DebitedTwice(c))' \in Nat
       /\ Part(q, Debited(c)) \in Nat /\ Part(q, Debited(c))' \in Nat
       /\ (IF q \in Returned(c) THEN Price[q] - tally[q] ELSE 0) \in Int
       /\ (IF q \in Returned(c)' THEN Price[q] - tally'[q] ELSE 0) \in Int
  <2>1. tally[q] \in Nat /\ tally'[q] \in Nat /\ Price[q] \in Nat
    BY <1>1 DEF IInv, TypeOK
  <2> QED
    BY <2>1 DEF Part
<1>13. /\ PriceOf(Reserved(c)) = reserved + Part(q, Reserved(c))
       /\ PriceOf(Reserved(c))' = reserved + Part(q, Reserved(c))'
       /\ PriceOf(Unknown(c)) = unknown + Part(q, Unknown(c))
       /\ PriceOf(Unknown(c))' = unknown + Part(q, Unknown(c))'
       /\ PriceOf(DebitedTwice(c)) = twice + Part(q, DebitedTwice(c))
       /\ PriceOf(DebitedTwice(c))' = twice + Part(q, DebitedTwice(c))'
       /\ PriceOf(Debited(c)) = paid + Part(q, Debited(c))
       /\ PriceOf(Debited(c))' = paid + Part(q, Debited(c))'
  BY <1>6, <1>8, <1>9, <1>10 DEF PriceOf, Part
<1>14. /\ Claimed(c) \in Int /\ ClaimedOf(q, c) \in Int /\ ClaimedOf(q, c)' \in Int
       /\ Claimed(c)' = Claimed(c) + ClaimedOf(q, c)' - ClaimedOf(q, c)
  BY <1>11, <1>12, <1>13 DEF Claimed, ClaimedOf
<1>15. /\ Missed(c) \in Int /\ MissedOf(q, c) \in Int /\ MissedOf(q, c)' \in Int
       /\ Missed(c)' = Missed(c) + MissedOf(q, c)' - MissedOf(q, c)
  BY <1>12, <1>13 DEF Missed, MissedOf
<1> QED
  BY <1>14, <1>15

\* A credit of which nothing moves.
LEMMA BackedKept ==
  ASSUME IInv, NEW c \in Credit, Backed(c),
         wallet'[c] = wallet[c], file'[c] = file[c], credits'[1][c] = credits[1][c],
         Reserved(c)' = Reserved(c), Returned(c)' = Returned(c), Unknown(c)' = Unknown(c),
         DebitedTwice(c)' = DebitedTwice(c), Debited(c)' = Debited(c),
         \A q \in Returned(c) : tally'[q] = tally[q]
  PROVE  Backed(c)'
<1>1. /\ PriceOf(Reserved(c))' = PriceOf(Reserved(c))
      /\ PriceOf(Unknown(c))' = PriceOf(Unknown(c))
      /\ PriceOf(DebitedTwice(c))' = PriceOf(DebitedTwice(c))
      /\ PriceOf(Debited(c))' = PriceOf(Debited(c))
  BY DEF PriceOf
<1>2. RefundOf(Returned(c))' = RefundOf(Returned(c))
  <2>1. \A q \in Returned(c) : Rests[q] \in Nat /\ Rests[q] = Rests'[q]
    BY SumsFinite, RestsAreNatural DEF Rests
  <2>2. SumFunctionOnSet(Rests, Returned(c)) = SumFunctionOnSet(Rests', Returned(c))
    BY <2>1, SumsFinite, SumAgrees
  <2> QED
    BY <2>2 DEF RefundOf, Rests
<1> QED
  BY <1>1, <1>2 DEF Backed, Claimed, Missed

\* The credits that a query is not of.
LEMMA OthersBacked ==
  ASSUME IInv, NEW q \in Query, OthersAlone(q), NEW c \in Credit, choice[q].credit # c,
         Backed(c), wallet'[c] = wallet[c], file'[c] = file[c],
         credits'[1][c] = credits[1][c]
  PROVE  Backed(c)'
<1>1. /\ Reserved(c)' = Reserved(c) /\ Returned(c)' = Returned(c)
      /\ Unknown(c)' = Unknown(c) /\ DebitedTwice(c)' = DebitedTwice(c)
      /\ Debited(c)' = Debited(c)
  BY DEF OthersAlone, Reserved, Returned, Unknown, DebitedTwice, Debited
<1>2. \A p \in Returned(c) : tally'[p] = tally[p]
  BY DEF OthersAlone, Returned
<1> QED
  BY <1>1, <1>2, BackedKept

\* The row of its credit grows by as much as what is claimed, at least.
LEMMA BackedAfter ==
  ASSUME IInv, IInv', NEW q \in Query, OthersAlone(q), NEW c \in Credit, Backed(c),
         NEW row \in Int, NEW balance \in Int, file'[c] = file[c],
         credits[1][c] # None =>
           /\ credits'[1][c] # None
           /\ credits'[1][c].remaining = credits[1][c].remaining + row,
         wallet'[c] # None => wallet[c] # None /\ wallet'[c] = wallet[c] + balance,
         wallet[c] # None => balance + ClaimedOf(q, c)' - ClaimedOf(q, c) <= row,
         0 <= row + MissedOf(q, c)' - MissedOf(q, c)
  PROVE  Backed(c)'
<1>1. /\ Claimed(c) \in Int /\ ClaimedOf(q, c) \in Int /\ ClaimedOf(q, c)' \in Int
      /\ Missed(c) \in Int /\ MissedOf(q, c) \in Int /\ MissedOf(q, c)' \in Int
      /\ Claimed(c)' = Claimed(c) + ClaimedOf(q, c)' - ClaimedOf(q, c)
      /\ Missed(c)' = Missed(c) + MissedOf(q, c)' - MissedOf(q, c)
  BY SumsOfStep
<1>2. credits[1][c] # None => credits[1][c].remaining \in Int
  BY RowsAreIntegers
<1>3. ASSUME wallet'[c] # None
      PROVE  credits'[1][c] # None /\ wallet'[c] + Claimed(c)' <= credits'[1][c].remaining
  <2>1. /\ wallet[c] # None /\ wallet[c] \in Int /\ wallet'[c] = wallet[c] + balance
        /\ credits[1][c] # None /\ wallet[c] + Claimed(c) <= credits[1][c].remaining
    BY <1>3 DEF Backed, IInv, TypeOK
  <2> QED
    BY <1>1, <1>2, <2>1
<1>4. ASSUME file'[c] # None
      PROVE  credits'[1][c] # None /\ file'[c] <= credits'[1][c].remaining + Missed(c)'
  <2>1. /\ file[c] \in Int /\ file'[c] = file[c]
        /\ credits[1][c] # None /\ file[c] <= credits[1][c].remaining + Missed(c)
    BY <1>4 DEF Backed, IInv, TypeOK
  <2> QED
    BY <1>1, <1>2, <2>1
<1> QED
  BY <1>3, <1>4 DEF Backed

LEMMA QueryBacked ==
  ASSUME IInv, \A c \in Credit : Backed(c), NEW q \in Query, OthersAlone(q), NEW c \in Credit,
         choice[q].credit = c, Backed(c)',
         \A d \in Credit \ {c} :
           wallet'[d] = wallet[d] /\ file'[d] = file[d] /\ credits'[1][d] = credits[1][d]
  PROVE  \A d \in Credit : Backed(d)'
BY OthersBacked

\* While there is one version, a query is of it.
LEMMA ChosenRow ==
  ASSUME IInv, AccountInv, latest = 1, NEW q \in Query,
         \/ clientPc[q] \in {"reserve", "waiting", "done", "threw", "lost"}
         \/ nodePc[q] # "none"
  PROVE  \E c \in Credit : /\ choice[q] = [credit |-> c, version |-> 1]
                           /\ RowOf(q) = credits[1][c]
                           /\ RowOf(q) \in Row \cup {None}
<1>1. PICK c \in Credit, v \in Version : choice[q] = [credit |-> c, version |-> v]
  BY DEF IInv, TypeOK, QueriesAreChosen
<1>2. v <= 1
  BY <1>1, NoneAssumption DEF AccountInv, OnlyIssuedIsUsed
<1>3. v = 1
  BY <1>2, BoundAssumption DEF Version
<1> QED
  BY <1>1, <1>3 DEF RowOf, IInv, TypeOK

LEMMA RowIsSet ==
  ASSUME IInv, NEW q \in Query, NEW c \in Credit, NEW m \in Int,
         choice[q] = [credit |-> c, version |-> 1],
         RowOf(q) # None, SetRemaining(q, m)
  PROVE  /\ credits'[1][c] # None /\ credits'[1][c].remaining = m
         /\ \A d \in Credit \ {c} : credits'[1][d] = credits[1][d]
<1>1. 1 \in Version
  BY BoundAssumption DEF Version
<1>2. RowOf(q) = credits[1][c] /\ credits[1][c] \in Row
  BY <1>1 DEF RowOf, IInv, TypeOK
<1>3. /\ credits'[1][c] = [credits[1][c] EXCEPT !.remaining = m]
      /\ \A d \in Credit \ {c} : credits'[1][d] = credits[1][d]
  BY <1>1, <1>2 DEF SetRemaining, IInv, TypeOK
<1>4. credits'[1][c] \in Row
  BY <1>2, <1>3 DEF Row
<1> QED
  BY <1>2, <1>3, <1>4, NoneAssumption DEF Row

(* The payer *)

LEMMA SidesAfterPayer ==
  ASSUME IInv, AccountInv, SidesAgree,
         \/ \E q \in Query : Submit(q) \/ Client(q) \/ ConnectionLost(q)
         \/ PayerRestart
  PROVE  SidesAgree'
<1>1. CASE PayerRestart
  BY <1>1 DEF PayerRestart, IInv, TypeOK, SidesAgree, ClientPc, node
<1>2. ASSUME NEW q \in Query, Submit(q) PROVE SidesAgree'
  <2>1. /\ clientPc[q] = "idle" /\ UNCHANGED <<pending, nodePc, givenUp>>
        /\ \/ clientPc' = [clientPc EXCEPT ![q] = "reserve"]
           \/ clientPc' = [clientPc EXCEPT ![q] = "failed"]
    BY <1>2 DEF Submit, node, payer
  <2>2. clientPc \in [Query -> ClientPc]
    BY DEF IInv, TypeOK
  <2> QED
    BY <2>1, <2>2 DEF SidesAgree
<1>3. ASSUME NEW q \in Query, Reserve(q) PROVE SidesAgree'
  <2>1. /\ clientPc[q] = "reserve" /\ UNCHANGED <<nodePc, givenUp>>
        /\ \/ clientPc' = [clientPc EXCEPT ![q] = "waiting"] /\ pending' = pending \cup {q}
           \/ clientPc' = [clientPc EXCEPT ![q] = "failed"] /\ pending' = pending
    BY <1>3 DEF Reserve, node
  <2>2. clientPc \in [Query -> ClientPc]
    BY DEF IInv, TypeOK
  <2> QED
    BY <2>1, <2>2 DEF SidesAgree
<1>4. ASSUME NEW q \in Query, Answer(q) PROVE SidesAgree'
  BY <1>4 DEF Answer, Finalize, IInv, TypeOK, SidesAgree, node
<1>5. ASSUME NEW q \in Query, GiveUp(q) PROVE SidesAgree'
  BY <1>5 DEF GiveUp, Finalize, IInv, TypeOK, SidesAgree, node
<1> QED
  BY <1>1, <1>2, <1>3, <1>4, <1>5 DEF Client, NodeGone, ConnectionLost

\* Reservations leave the balance for what is reserved.
LEMMA ReserveBacked ==
  ASSUME IInv, IInv', AccountInv, SidesAgree, \A c \in Credit : Backed(c), latest = 1,
         NEW q \in Query, Reserve(q)
  PROVE  \A c \in Credit : Backed(c)'
<1>1. /\ clientPc[q] = "reserve" /\ nodePc[q] = "none" /\ ~debited[q]
      /\ UNCHANGED <<file, givenUp, choice, credits, nodePc, debited, storageDebited, tally>>
  BY DEF Reserve, SidesAgree, AccountInv, DebitsPrecedeCalls, node
<1>2. PICK c \in Credit : choice[q] = [credit |-> c, version |-> 1]
  BY <1>1, ChosenRow
<1>3. PICK label \in {"waiting", "failed"} :
        /\ clientPc' = [clientPc EXCEPT ![q] = label]
        /\ wallet[c] \in Nat \cup {None}
        /\ \/ label = "waiting" /\ wallet[c] \in Nat
              /\ wallet' = [wallet EXCEPT ![c] = @ - Price[q]]
           \/ label = "failed" /\ wallet' = wallet
  BY <1>2 DEF Reserve, CanReserve, HasBalance, IInv, TypeOK
<1>4. OthersAlone(q)
  BY <1>1, <1>3 DEF OthersAlone, IInv, TypeOK
<1>5. /\ q \notin Reserved(c) /\ q \notin Returned(c) /\ q \notin Returned(c)'
      /\ q \in Reserved(c)' <=> label = "waiting"
      /\ q \notin Unknown(c) /\ q \notin Unknown(c)'
      /\ q \in DebitedTwice(c)' <=> q \in DebitedTwice(c)
      /\ q \notin Debited(c) /\ q \notin Debited(c)'
  BY <1>1, <1>2, <1>3 DEF Reserved, Returned, Unknown, DebitedTwice, Debited, IInv, TypeOK
<1>6. /\ Price[q] \in Nat
      /\ ClaimedOf(q, c)' - ClaimedOf(q, c) = IF label = "waiting" THEN Price[q] ELSE 0
      /\ MissedOf(q, c)' - MissedOf(q, c) = 0
  BY <1>5, RestsAreNatural DEF ClaimedOf, MissedOf, Part
<1>7. PICK balance \in Int :
        /\ balance = IF label = "waiting" THEN 0 - Price[q] ELSE 0
        /\ wallet'[c] # None => wallet[c] # None /\ wallet'[c] = wallet[c] + balance
  BY <1>3, <1>6, NoneAssumption DEF IInv, TypeOK
<1>8. credits[1][c] # None => credits[1][c].remaining \in Int
  BY RowsAreIntegers
<1>9. Backed(c)'
  <2>1. PICK row \in Int :
          /\ row = 0
          /\ credits[1][c] # None =>
               credits'[1][c] # None /\ credits'[1][c].remaining = credits[1][c].remaining + row
    BY <1>1, <1>8
  <2>2. /\ balance + ClaimedOf(q, c)' - ClaimedOf(q, c) <= row
        /\ 0 <= row + MissedOf(q, c)' - MissedOf(q, c)
    BY <1>4, <1>6, <1>7, <2>1, SumsOfStep
  <2>3. Backed(c) /\ file'[c] = file[c]
    BY <1>1
  <2> QED
    BY <1>4, <1>7, <2>1, <2>2, <2>3, BackedAfter
<1> QED
  BY <1>1, <1>2, <1>3, <1>4, <1>9, QueryBacked DEF IInv, TypeOK

\* An answer returns the rest of the price, or is lost on the caller.
LEMMA AnswerBacked ==
  ASSUME IInv, IInv', AccountInv, SidesAgree, \A c \in Credit : Backed(c), latest = 1,
         NEW q \in Query, Answer(q)
  PROVE  \A c \in Credit : Backed(c)'
<1>1. /\ clientPc[q] = "waiting" /\ nodePc[q] = "answered" /\ q \in pending /\ q \notin givenUp
      /\ UNCHANGED <<file, givenUp, choice, credits, nodePc, debited, storageDebited, tally>>
  BY DEF Answer, SidesAgree, node
<1>2. PICK c \in Credit : choice[q] = [credit |-> c, version |-> 1]
  BY <1>1, ChosenRow
<1>3. PICK label \in {"done", "threw"} :
        /\ clientPc' = [clientPc EXCEPT ![q] = label]
        /\ \/ wallet' = [wallet EXCEPT ![c] = @ + Price[q] - tally[q]]
           \/ wallet' = wallet
  BY <1>1, <1>2 DEF Answer, Finalize
<1>4. OthersAlone(q)
  BY <1>1, <1>3 DEF OthersAlone, IInv, TypeOK
<1>5. /\ q \notin Reserved(c) /\ q \notin Reserved(c)'
      /\ q \in Returned(c) /\ q \notin Returned(c)'
      /\ q \in Unknown(c)' <=> q \in Unknown(c)
      /\ q \in DebitedTwice(c)' <=> q \in DebitedTwice(c)
      /\ q \in Debited(c)' <=> q \in Debited(c)
  BY <1>1, <1>2, <1>3 DEF Reserved, Returned, Unknown, DebitedTwice, Debited, IInv, TypeOK
<1>6. /\ Price[q] - tally[q] \in Nat
      /\ ClaimedOf(q, c)' - ClaimedOf(q, c) = 0 - (Price[q] - tally[q])
      /\ MissedOf(q, c)' - MissedOf(q, c) = 0
  BY <1>5, RestsAreNatural DEF ClaimedOf, MissedOf, Part
<1>7. PICK balance \in Int :
        /\ balance <= Price[q] - tally[q]
        /\ wallet'[c] # None => wallet[c] # None /\ wallet'[c] = wallet[c] + balance
  <2>1. wallet[c] # None /\ wallet[c] \in Nat
    BY <1>1, <1>2 DEF IInv, TypeOK, QueriesAreChosen
  <2>2. wallet'[c] = wallet[c] + (Price[q] - tally[q]) \/ wallet'[c] = wallet[c] + 0
    BY <1>3, <1>6, <2>1, RestsAreNatural DEF IInv, TypeOK
  <2> QED
    BY <1>6, <2>1, <2>2
<1>8. credits[1][c] # None => credits[1][c].remaining \in Int
  BY RowsAreIntegers
<1>9. Backed(c)'
  <2>1. PICK row \in Int :
          /\ row = 0
          /\ credits[1][c] # None =>
               credits'[1][c] # None /\ credits'[1][c].remaining = credits[1][c].remaining + row
    BY <1>1, <1>8
  <2>2. /\ balance + ClaimedOf(q, c)' - ClaimedOf(q, c) <= row
        /\ 0 <= row + MissedOf(q, c)' - MissedOf(q, c)
    BY <1>4, <1>6, <1>7, <2>1, SumsOfStep
  <2>3. Backed(c) /\ file'[c] = file[c]
    BY <1>1
  <2> QED
    BY <1>4, <1>7, <2>1, <2>2, <2>3, BackedAfter
<1>10. \A d \in Credit \ {c} :
         wallet'[d] = wallet[d] /\ file'[d] = file[d] /\ credits'[1][d] = credits[1][d]
  BY <1>1, <1>3 DEF IInv, TypeOK
<1> QED
  BY <1>2, <1>4, <1>9, <1>10, QueryBacked

\* What is given up is taken back, whatever the datastore does with it.
LEMMA GiveUpBacked ==
  ASSUME IInv, IInv', AccountInv, SidesAgree, \A c \in Credit : Backed(c), latest = 1,
         NEW q \in Query, GiveUp(q)
  PROVE  \A c \in Credit : Backed(c)'
<1>1. /\ clientPc[q] = "waiting" /\ q \in pending /\ q \notin givenUp
      /\ UNCHANGED <<file, choice, credits, nodePc, debited, storageDebited, tally>>
      /\ givenUp' = givenUp \cup {q} /\ clientPc' = [clientPc EXCEPT ![q] = "done"]
  BY DEF GiveUp, SidesAgree, node
<1>2. PICK c \in Credit : choice[q] = [credit |-> c, version |-> 1]
  BY <1>1, ChosenRow
<1>3. wallet' = [wallet EXCEPT ![c] = @ + Price[q] - 0]
  BY <1>1, <1>2 DEF GiveUp, Finalize
<1>4. OthersAlone(q)
  BY <1>1 DEF OthersAlone, IInv, TypeOK
<1>5. /\ q \in Reserved(c) <=> ~debited[q] /\ nodePc[q] # "answered"
      /\ q \in Returned(c) <=> nodePc[q] = "answered"
      /\ q \notin Reserved(c)' /\ q \notin Returned(c)'
      /\ q \notin Unknown(c)
      /\ q \in Unknown(c)' <=> debited[q]
      /\ q \in DebitedTwice(c)' <=> q \in DebitedTwice(c)
      /\ q \in Debited(c)' <=> q \in Debited(c)
  BY <1>1, <1>2 DEF Reserved, Returned, Unknown, DebitedTwice, Debited, IInv, TypeOK
<1>6. /\ Price[q] \in Nat
      /\ ClaimedOf(q, c)' - ClaimedOf(q, c) <= 0 - Price[q]
      /\ MissedOf(q, c)' - MissedOf(q, c) = 0
  <2>1. ~debited[q] => tally[q] = 0
    BY DEF AccountInv, DebitsPrecedeCalls
  <2>2. debited[q] \in BOOLEAN /\ Price[q] \in Nat /\ Price[q] - tally[q] \in Nat
    BY RestsAreNatural DEF IInv, TypeOK
  <2>3. tally[q] \in Nat /\ tally'[q] = tally[q]
    BY <1>1, RestsAreNatural
  <2>4. ClaimedOf(q, c) = Part(q, Reserved(c)) - Part(q, DebitedTwice(c))
                            + (IF q \in Returned(c) THEN Price[q] - tally[q] ELSE 0)
    BY <1>5, <2>2, <2>3 DEF ClaimedOf, Part
  <2>5. /\ ClaimedOf(q, c)' = 0 - Part(q, Unknown(c))' - Part(q, DebitedTwice(c))
        /\ Part(q, DebitedTwice(c)) \in Nat
    BY <1>5, <2>2, <2>3 DEF ClaimedOf, Part
  <2>6. MissedOf(q, c)' - MissedOf(q, c) = 0
    BY <1>5, <2>2 DEF MissedOf, Part
  <2>7. CASE debited[q]
    BY <1>5, <2>2, <2>3, <2>4, <2>5, <2>6, <2>7 DEF Part
  <2>8. CASE ~debited[q] /\ nodePc[q] = "answered"
    BY <1>5, <2>1, <2>2, <2>3, <2>4, <2>5, <2>6, <2>8 DEF Part
  <2>9. CASE ~debited[q] /\ nodePc[q] # "answered"
    BY <1>5, <2>2, <2>3, <2>4, <2>5, <2>6, <2>9 DEF Part
  <2> QED
    BY <2>2, <2>7, <2>8, <2>9
<1>7. PICK balance \in Int :
        /\ balance = Price[q]
        /\ wallet'[c] # None => wallet[c] # None /\ wallet'[c] = wallet[c] + balance
  <2>1. wallet[c] # None /\ wallet[c] \in Nat
    BY <1>1, <1>2 DEF IInv, TypeOK, QueriesAreChosen
  <2>2. wallet'[c] = wallet[c] + Price[q]
    BY <1>3, <1>6, <2>1 DEF IInv, TypeOK
  <2> QED
    BY <1>6, <2>1, <2>2
<1>8. credits[1][c] # None => credits[1][c].remaining \in Int
  BY RowsAreIntegers
<1>9. Backed(c)'
  <2>1. PICK row \in Int :
          /\ row = 0
          /\ credits[1][c] # None =>
               credits'[1][c] # None /\ credits'[1][c].remaining = credits[1][c].remaining + row
    BY <1>1, <1>8
  <2>2. /\ balance + ClaimedOf(q, c)' - ClaimedOf(q, c) <= row
        /\ 0 <= row + MissedOf(q, c)' - MissedOf(q, c)
    BY <1>4, <1>6, <1>7, <2>1, SumsOfStep
  <2>3. Backed(c) /\ file'[c] = file[c]
    BY <1>1
  <2> QED
    BY <1>4, <1>7, <2>1, <2>2, <2>3, BackedAfter
<1>10. \A d \in Credit \ {c} :
         wallet'[d] = wallet[d] /\ file'[d] = file[d] /\ credits'[1][d] = credits[1][d]
  BY <1>1, <1>3 DEF IInv, TypeOK
<1> QED
  BY <1>2, <1>4, <1>9, <1>10, QueryBacked

\* A payer that restarts gave up all it sent, and its file is not ahead.
LEMMA PayerRestartBacked ==
  ASSUME IInv, IInv', AccountInv, SidesAgree, \A c \in Credit : Backed(c), PayerRestart
  PROVE  \A c \in Credit : Backed(c)'
<1> SUFFICES ASSUME NEW c \in Credit PROVE Backed(c)'
  OBVIOUS
<1>1. /\ UNCHANGED <<file, credits, choice, nodePc, debited, storageDebited, tally>>
      /\ wallet' = file
      /\ givenUp' = {q \in Query : clientPc[q] # "idle"}
      /\ \A q \in Query : clientPc'[q] # "waiting"
  BY DEF PayerRestart, node
<1>2. \A q \in Query : debited[q] => clientPc[q] # "idle"
  BY DEF AccountInv, DebitsPrecedeCalls
<1>3. /\ Reserved(c)' = {} /\ Returned(c)' = {}
      /\ Unknown(c)' = Debited(c) /\ Debited(c)' = Debited(c)
      /\ DebitedTwice(c)' = DebitedTwice(c)
  BY <1>1, <1>2 DEF Reserved, Returned, Unknown, Debited, DebitedTwice
<1>4. /\ PriceOf(Reserved(c))' = 0 /\ RefundOf(Returned(c))' = 0
      /\ PriceOf(Unknown(c))' = PriceOf(Debited(c))
      /\ PriceOf(Debited(c))' = PriceOf(Debited(c))
      /\ PriceOf(DebitedTwice(c))' = PriceOf(DebitedTwice(c))
  BY <1>3, SumOfNothing DEF PriceOf, RefundOf
<1>5. Claimed(c)' = 0 - Missed(c) /\ Missed(c)' = Missed(c) /\ Missed(c) \in Nat
  BY <1>4, SumsAreNatural DEF Claimed, Missed
<1>6. Backed(c) /\ file[c] \in Nat \cup {None}
      /\ (credits[1][c] # None => credits[1][c].remaining \in Int)
  BY RowsAreIntegers DEF IInv, TypeOK
<1> QED
  BY <1>1, <1>5, <1>6 DEF Backed

\* What is saved is not ahead either.
LEMMA SaveBacked ==
  ASSUME IInv, IInv', \A c \in Credit : Backed(c), NEW c \in Credit, Save(c)
  PROVE  \A d \in Credit : Backed(d)'
<1> SUFFICES ASSUME NEW d \in Credit PROVE Backed(d)'
  OBVIOUS
<1>1. /\ UNCHANGED <<wallet, givenUp, credits, clientPc, choice, nodePc, debited,
                     storageDebited, tally>>
      /\ file'[d] = file[d] \/ file'[d] = None \/ (d = c /\ file'[d] = wallet[d])
      /\ d = c => wallet[d] # None
  BY DEF Save, IInv, TypeOK, SavesAreOfWallets, node
<1>2. /\ Reserved(d)' = Reserved(d) /\ Returned(d)' = Returned(d)
      /\ Unknown(d)' = Unknown(d) /\ DebitedTwice(d)' = DebitedTwice(d)
      /\ Debited(d)' = Debited(d)
  BY <1>1 DEF Reserved, Returned, Unknown, Debited, DebitedTwice
<1>3. Claimed(d)' = Claimed(d) /\ Missed(d)' = Missed(d)
  BY <1>1, <1>2 DEF Claimed, Missed, PriceOf, RefundOf
<1>4. Claimed(d) \in Int /\ Missed(d) \in Int /\ 0 - Claimed(d) <= Missed(d)
  <2>1. Unknown(d) \subseteq Debited(d)
    BY DEF Unknown, Debited
  <2>2. PriceOf(Unknown(d)) <= PriceOf(Debited(d))
    BY <2>1, SumsFinite, RestsAreNatural, SumMonotone DEF PriceOf
  <2> QED
    BY <2>2, SumsAreNatural DEF Claimed, Missed
<1>5. /\ Backed(d) /\ file[d] \in Nat \cup {None} /\ wallet[d] \in Nat \cup {None}
      /\ (credits[1][d] # None => credits[1][d].remaining \in Int)
  BY RowsAreIntegers DEF IInv, TypeOK
<1> QED
  BY <1>1, <1>3, <1>4, <1>5 DEF Backed

\* Nothing is claimed of a credit that is yet to be attached.
LEMMA AttachBacked ==
  ASSUME IInv, IInv', SidesAgree, \A c \in Credit : Backed(c), latest = 1,
         NEW c \in Credit, Attach(c)
  PROVE  \A d \in Credit : Backed(d)'
<1> SUFFICES ASSUME NEW d \in Credit PROVE Backed(d)'
  OBVIOUS
<1>1. /\ UNCHANGED <<givenUp, credits, clientPc, choice, nodePc, debited, storageDebited, tally>>
      /\ wallet[c] = None /\ credits[1][c] # None
      /\ wallet' = [wallet EXCEPT ![c] = credits[1][c].remaining]
      /\ file' = [file EXCEPT ![c] = credits[1][c].remaining]
  BY DEF Attach, node
<1>2. /\ Reserved(d)' = Reserved(d) /\ Returned(d)' = Returned(d)
      /\ Unknown(d)' = Unknown(d) /\ DebitedTwice(d)' = DebitedTwice(d)
      /\ Debited(d)' = Debited(d)
  BY <1>1 DEF Reserved, Returned, Unknown, Debited, DebitedTwice
<1>3. CASE d # c
  BY <1>1, <1>2, <1>3, BackedKept DEF IInv, TypeOK
<1>4. CASE d = c
  <2>1. Reserved(c) = {} /\ Returned(c) = {}
    BY <1>1 DEF Reserved, Returned, SidesAgree, IInv, QueriesAreChosen
  <2>2. PriceOf(Reserved(c)) = 0 /\ RefundOf(Returned(c)) = 0
    BY <2>1, SumOfNothing DEF PriceOf, RefundOf
  <2>3. Claimed(c)' = Claimed(c) /\ Missed(c)' = Missed(c)
    BY <1>1, <1>2, <1>4 DEF Claimed, Missed, PriceOf, RefundOf
  <2>4. Claimed(c) \in Int /\ Claimed(c) <= 0 /\ Missed(c) \in Nat
    BY <2>2, SumsAreNatural DEF Claimed, Missed
  <2>5. credits[1][c].remaining \in Int
    BY <1>1, RowsAreIntegers
  <2> QED
    BY <1>1, <1>4, <2>3, <2>4, <2>5 DEF Backed, IInv, TypeOK
<1> QED
  BY <1>3, <1>4

\* A query that is not sent yet is in no sum.
LEMMA SubmitBacked ==
  ASSUME IInv, AccountInv, \A c \in Credit : Backed(c), NEW q \in Query, Submit(q)
  PROVE  \A d \in Credit : Backed(d)'
<1> SUFFICES ASSUME NEW d \in Credit PROVE Backed(d)'
  OBVIOUS
<1>1. /\ UNCHANGED <<wallet, file, givenUp, credits, nodePc, debited, storageDebited, tally>>
      /\ clientPc[q] = "idle" /\ clientPc'[q] \in {"reserve", "failed"}
      /\ \A p \in Query \ {q} : clientPc'[p] = clientPc[p] /\ choice'[p] = choice[p]
  BY DEF Submit, IInv, TypeOK, payer, node
<1>2. ~debited[q] /\ ~storageDebited[q]
  BY <1>1 DEF AccountInv, DebitsPrecedeCalls
<1>3. /\ Reserved(d)' = Reserved(d) /\ Returned(d)' = Returned(d)
      /\ Unknown(d)' = Unknown(d) /\ DebitedTwice(d)' = DebitedTwice(d)
      /\ Debited(d)' = Debited(d)
  BY <1>1, <1>2 DEF Reserved, Returned, Unknown, Debited, DebitedTwice
<1> QED
  BY <1>1, <1>3, BackedKept

\* A credit that is new is in no balance.
LEMMA CreateBacked ==
  ASSUME IInv, AccountInv, \A c \in Credit : Backed(c), latest = 1,
         NEW c \in Credit, NEW m \in 1 .. MaxMicrogons, Create(c, m)
  PROVE  \A d \in Credit : Backed(d)'
<1> SUFFICES ASSUME NEW d \in Credit PROVE Backed(d)'
  OBVIOUS
<1>1. /\ UNCHANGED <<wallet, file, givenUp, clientPc, choice, nodePc, debited, storageDebited,
                     tally>>
      /\ ~Issued(c)
  BY DEF Create, Issued, payer
<1>2. CASE d = c
  BY <1>1, <1>2 DEF AccountInv, OnlyIssuedIsUsed, Backed
<1>3. CASE d # c
  <2>1. credits'[1][d] = credits[1][d]
    BY <1>3, BoundAssumption DEF Create, IInv, TypeOK, Version
  <2>2. /\ Reserved(d)' = Reserved(d) /\ Returned(d)' = Returned(d)
        /\ Unknown(d)' = Unknown(d) /\ DebitedTwice(d)' = DebitedTwice(d)
        /\ Debited(d)' = Debited(d)
    BY <1>1 DEF Reserved, Returned, Unknown, Debited, DebitedTwice
  <2> QED
    BY <1>1, <2>1, <2>2, BackedKept
<1> QED
  BY <1>2, <1>3

(* The datastore *)

LEMMA SidesAfterNode ==
  ASSUME IInv, AccountInv, SidesAgree,
         (\E q \in Query : Handle(q)) \/ NodeRestart
  PROVE  SidesAgree'
<1>1. UNCHANGED <<clientPc, pending, givenUp>>
  BY DEF Handle, DebitSelect, DebitUpdate, RunQuery, StorageSelect, StorageUpdate,
         NodeFinalize, NodeOnly, NodeRestart, payer
<1>2. \A q \in Query :
        /\ nodePc[q] = "none" /\ nodePc'[q] # "none"
             => clientPc[q] \in {"waiting", "done", "lost"}
        /\ nodePc[q] = "answered" => nodePc'[q] = "answered"
  BY DEF Handle, DebitSelect, DebitUpdate, RunQuery, StorageSelect, StorageUpdate,
         NodeFinalize, NodeGoto, NodeRestart, IInv, TypeOK
<1> QED
  BY <1>1, <1>2 DEF SidesAgree

\* Steps that move nothing.
LEMMA AllKept ==
  ASSUME IInv, \A c \in Credit : Backed(c),
         UNCHANGED <<wallet, file, credits, choice, clientPc, debited, storageDebited, givenUp>>,
         \A q \in Query : /\ nodePc'[q] = "answered" <=> nodePc[q] = "answered"
                          /\ nodePc[q] = "answered" => tally'[q] = tally[q]
  PROVE  \A d \in Credit : Backed(d)'
<1> SUFFICES ASSUME NEW d \in Credit PROVE Backed(d)'
  OBVIOUS
<1>1. /\ Reserved(d)' = Reserved(d) /\ Returned(d)' = Returned(d)
      /\ Unknown(d)' = Unknown(d) /\ DebitedTwice(d)' = DebitedTwice(d)
      /\ Debited(d)' = Debited(d)
  BY DEF Reserved, Returned, Unknown, Debited, DebitedTwice
<1>2. \A q \in Returned(d) : tally'[q] = tally[q]
  BY DEF Returned
<1> QED
  BY <1>1, <1>2, BackedKept

\* A debit takes what was reserved, or given up meanwhile.
LEMMA DebitBacked ==
  ASSUME IInv, IInv', AccountInv, SidesAgree, \A c \in Credit : Backed(c), latest = 1,
         NEW q \in Query, DebitUpdate(q), CanUpdate(q)
  PROVE  \A c \in Credit : Backed(c)'
<1>1. /\ nodePc[q] = "update" /\ ~debited[q]
      /\ UNCHANGED <<wallet, file, givenUp, choice, clientPc, storageDebited, tally>>
      /\ SetRemaining(q, RowOf(q).remaining - Price[q])
      /\ debited' = [debited EXCEPT ![q] = TRUE]
      /\ nodePc' = [nodePc EXCEPT ![q] = "run"]
  BY DEF DebitUpdate, NodeOnly, NodeGoto, payer, AccountInv, DebitsPrecedeCalls
<1>2. PICK c \in Credit : choice[q] = [credit |-> c, version |-> 1] /\ RowOf(q) = credits[1][c]
  BY <1>1, ChosenRow
<1>3. OthersAlone(q)
  BY <1>1 DEF OthersAlone, IInv, TypeOK
<1>4. /\ clientPc[q] # "waiting" => q \in givenUp
      /\ clientPc[q] = "waiting" => q \notin givenUp
  BY <1>1 DEF SidesAgree, IInv, TypeOK, ClientPc
<1>5. /\ q \in Reserved(c) <=> clientPc[q] = "waiting"
      /\ q \notin Reserved(c)' /\ q \notin Returned(c) /\ q \notin Returned(c)'
      /\ q \notin Unknown(c)
      /\ q \in Unknown(c)' <=> clientPc[q] # "waiting"
      /\ q \in DebitedTwice(c)' <=> q \in DebitedTwice(c)
      /\ q \notin Debited(c) /\ q \in Debited(c)'
  BY <1>1, <1>2, <1>4 DEF Reserved, Returned, Unknown, DebitedTwice, Debited, IInv, TypeOK
<1>6. /\ Price[q] \in Nat
      /\ ClaimedOf(q, c)' - ClaimedOf(q, c) = 0 - Price[q]
      /\ MissedOf(q, c)' - MissedOf(q, c) = Price[q]
  BY <1>5, RestsAreNatural DEF ClaimedOf, MissedOf, Part
<1>7. /\ credits[1][c] # None /\ credits[1][c].remaining \in Int
      /\ credits'[1][c] # None
      /\ credits'[1][c].remaining = credits[1][c].remaining - Price[q]
      /\ \A d \in Credit \ {c} : credits'[1][d] = credits[1][d]
  <2>1. credits[1][c] # None /\ credits[1][c].remaining \in Int
    BY <1>2, RowsAreIntegers DEF CanUpdate, Covers
  <2>2. RowOf(q).remaining - Price[q] \in Int /\ RowOf(q) # None
    BY <1>2, <1>6, <2>1
  <2> QED
    BY <1>1, <1>2, <2>1, <2>2, RowIsSet
<1>8. PICK row \in Int, balance \in Int : row = 0 - Price[q] /\ balance = 0
  BY <1>6
<1>9. Backed(c)'
  <2>1. credits'[1][c].remaining = credits[1][c].remaining + row
    BY <1>6, <1>7, <1>8
  <2>2. /\ balance + ClaimedOf(q, c)' - ClaimedOf(q, c) <= row
        /\ 0 <= row + MissedOf(q, c)' - MissedOf(q, c)
    BY <1>3, <1>6, <1>8, SumsOfStep
  <2>3. wallet'[c] # None => wallet[c] # None /\ wallet'[c] = wallet[c] + balance
    BY <1>1, <1>8 DEF IInv, TypeOK
  <2>4. Backed(c) /\ file'[c] = file[c]
    BY <1>1
  <2> QED
    BY <1>3, <1>7, <2>1, <2>2, <2>3, <2>4, BackedAfter
<1> QED
  BY <1>1, <1>2, <1>3, <1>7, <1>9, QueryBacked

\* The second debit of a query is one the payer cannot know of.
LEMMA StorageBacked ==
  ASSUME IInv, IInv', AccountInv, SidesAgree, \A c \in Credit : Backed(c), latest = 1,
         NEW q \in Query, StorageUpdate(q), CanUpdate(q)
  PROVE  \A c \in Credit : Backed(c)'
<1>1. /\ nodePc[q] = "storageUpdate" /\ debited[q] /\ ~storageDebited[q]
      /\ UNCHANGED <<wallet, file, givenUp, choice, clientPc, debited, tally>>
      /\ SetRemaining(q, RowOf(q).remaining - Price[q])
      /\ storageDebited' = [storageDebited EXCEPT ![q] = TRUE]
      /\ nodePc' = [nodePc EXCEPT ![q] = "finalize"]
  BY DEF StorageUpdate, NodeOnly, NodeGoto, payer, AccountInv, DebitsPrecedeCalls
<1>2. PICK c \in Credit : choice[q] = [credit |-> c, version |-> 1] /\ RowOf(q) = credits[1][c]
  BY <1>1, ChosenRow
<1>3. OthersAlone(q)
  BY <1>1 DEF OthersAlone, IInv, TypeOK
<1>4. /\ q \notin Reserved(c) /\ q \notin Reserved(c)'
      /\ q \notin Returned(c) /\ q \notin Returned(c)'
      /\ q \in Unknown(c)' <=> q \in Unknown(c)
      /\ q \notin DebitedTwice(c) /\ q \in DebitedTwice(c)'
      /\ q \in Debited(c)' <=> q \in Debited(c)
  BY <1>1, <1>2 DEF Reserved, Returned, Unknown, DebitedTwice, Debited, IInv, TypeOK
<1>5. /\ Price[q] \in Nat
      /\ ClaimedOf(q, c)' - ClaimedOf(q, c) = 0 - Price[q]
      /\ MissedOf(q, c)' - MissedOf(q, c) = Price[q]
  BY <1>4, RestsAreNatural DEF ClaimedOf, MissedOf, Part
<1>6. /\ credits[1][c] # None /\ credits[1][c].remaining \in Int
      /\ credits'[1][c] # None
      /\ credits'[1][c].remaining = credits[1][c].remaining - Price[q]
      /\ \A d \in Credit \ {c} : credits'[1][d] = credits[1][d]
  <2>1. credits[1][c] # None /\ credits[1][c].remaining \in Int
    BY <1>2, RowsAreIntegers DEF CanUpdate, Covers
  <2>2. RowOf(q).remaining - Price[q] \in Int /\ RowOf(q) # None
    BY <1>2, <1>5, <2>1
  <2> QED
    BY <1>1, <1>2, <2>1, <2>2, RowIsSet
<1>7. PICK row \in Int, balance \in Int : row = 0 - Price[q] /\ balance = 0
  BY <1>5
<1>8. Backed(c)'
  <2>1. credits'[1][c].remaining = credits[1][c].remaining + row
    BY <1>5, <1>6, <1>7
  <2>2. /\ balance + ClaimedOf(q, c)' - ClaimedOf(q, c) <= row
        /\ 0 <= row + MissedOf(q, c)' - MissedOf(q, c)
    BY <1>3, <1>5, <1>7, SumsOfStep
  <2>3. wallet'[c] # None => wallet[c] # None /\ wallet'[c] = wallet[c] + balance
    BY <1>1, <1>7 DEF IInv, TypeOK
  <2>4. Backed(c) /\ file'[c] = file[c]
    BY <1>1
  <2> QED
    BY <1>3, <1>6, <2>1, <2>2, <2>3, <2>4, BackedAfter
<1> QED
  BY <1>1, <1>2, <1>3, <1>6, <1>8, QueryBacked

\* What is refunded can be claimed; a query that was refused had no tally.
LEMMA FinalizeBacked ==
  ASSUME IInv, IInv', AccountInv, SidesAgree, \A c \in Credit : Backed(c), latest = 1,
         NEW q \in Query, NodeFinalize(q)
  PROVE  \A c \in Credit : Backed(c)'
<1>1. /\ nodePc[q] = "finalize" /\ (~debited[q] => tally[q] = 0)
      /\ UNCHANGED <<wallet, file, givenUp, choice, clientPc, debited, storageDebited, tally>>
      /\ nodePc' = [nodePc EXCEPT ![q] = "answered"]
  BY DEF NodeFinalize, NodeOnly, NodeGoto, payer, AccountInv, DebitsPrecedeCalls
<1>2. PICK c \in Credit : choice[q] = [credit |-> c, version |-> 1] /\ RowOf(q) = credits[1][c]
  BY <1>1, ChosenRow
<1>3. OthersAlone(q)
  BY <1>1 DEF OthersAlone, IInv, TypeOK
<1>4. /\ q \in Reserved(c) <=> clientPc[q] = "waiting" /\ ~debited[q]
      /\ q \notin Reserved(c)' /\ q \notin Returned(c)
      /\ q \in Returned(c)' <=> clientPc[q] = "waiting"
      /\ q \in Unknown(c)' <=> q \in Unknown(c)
      /\ q \in DebitedTwice(c)' <=> q \in DebitedTwice(c)
      /\ q \in Debited(c)' <=> q \in Debited(c)
  BY <1>1, <1>2 DEF Reserved, Returned, Unknown, DebitedTwice, Debited, IInv, TypeOK
<1>5. /\ Price[q] - tally[q] \in Nat /\ Price[q] \in Nat /\ tally'[q] = tally[q]
      /\ ClaimedOf(q, c)' - ClaimedOf(q, c) <= Price[q] - tally[q]
      /\ clientPc[q] # "waiting" \/ ~debited[q] => ClaimedOf(q, c)' - ClaimedOf(q, c) <= 0
      /\ MissedOf(q, c)' - MissedOf(q, c) = 0
  <2>1. /\ Price[q] - tally[q] \in Nat /\ Price[q] \in Nat /\ tally[q] \in Nat
        /\ debited[q] \in BOOLEAN /\ tally'[q] = tally[q]
    BY <1>1, RestsAreNatural DEF IInv, TypeOK
  <2>2. MissedOf(q, c)' - MissedOf(q, c) = 0
    BY <1>4, <2>1 DEF MissedOf, Part
  <2>3. CASE clientPc[q] # "waiting"
    BY <1>4, <2>1, <2>2, <2>3 DEF ClaimedOf, Part
  <2>4. CASE clientPc[q] = "waiting" /\ debited[q]
    BY <1>4, <2>1, <2>2, <2>4 DEF ClaimedOf, Part
  <2>5. CASE clientPc[q] = "waiting" /\ ~debited[q]
    BY <1>1, <1>4, <2>1, <2>2, <2>5 DEF ClaimedOf, Part
  <2> QED
    BY <2>3, <2>4, <2>5
<1>6. CASE RowOf(q) # None
  <2>1. /\ credits[1][c] # None /\ credits[1][c].remaining \in Int
        /\ credits'[1][c] # None
        /\ credits'[1][c].remaining = credits[1][c].remaining + (Price[q] - tally[q])
        /\ \A d \in Credit \ {c} : credits'[1][d] = credits[1][d]
    <3>1. credits[1][c] # None /\ credits[1][c].remaining \in Int
      BY <1>2, <1>6, RowsAreIntegers
    <3>2. /\ RowOf(q).remaining + (Price[q] - tally[q]) \in Int
          /\ SetRemaining(q, RowOf(q).remaining + (Price[q] - tally[q]))
      BY <1>2, <1>5, <1>6, <3>1 DEF NodeFinalize, Refund
    <3> QED
      BY <1>2, <1>6, <3>1, <3>2, RowIsSet
  <2>2. PICK row \in Int, balance \in Int : row = Price[q] - tally[q] /\ balance = 0
    BY <1>5
  <2>3. Backed(c)'
    <3>1. /\ balance + ClaimedOf(q, c)' - ClaimedOf(q, c) <= row
          /\ 0 <= row + MissedOf(q, c)' - MissedOf(q, c)
      BY <1>3, <1>5, <2>2, SumsOfStep
    <3>2. wallet'[c] # None => wallet[c] # None /\ wallet'[c] = wallet[c] + balance
      BY <1>1, <2>2 DEF IInv, TypeOK
    <3>3. Backed(c) /\ file'[c] = file[c]
      BY <1>1
    <3> QED
      BY <1>3, <2>1, <2>2, <3>1, <3>2, <3>3, BackedAfter
  <2> QED
    BY <1>1, <1>2, <1>3, <2>1, <2>3, QueryBacked
<1>7. CASE RowOf(q) = None
  <2>1. credits' = credits /\ credits[1][c] = None
    BY <1>2, <1>7 DEF NodeFinalize
  <2>2. wallet[c] = None /\ file[c] = None
    BY <2>1 DEF Backed
  <2>3. Backed(c)'
    BY <1>1, <2>2 DEF Backed
  <2> QED
    BY <1>1, <1>2, <1>3, <2>1, <2>3, QueryBacked
<1> QED
  BY <1>6, <1>7

LEMMA HandleBacked ==
  ASSUME IInv, IInv', AccountInv, SidesAgree, \A c \in Credit : Backed(c), latest = 1,
         NEW q \in Query, Handle(q)
  PROVE  \A c \in Credit : Backed(c)'
<1>1. CASE \/ DebitSelect(q) \/ RunQuery(q) \/ StorageSelect(q)
           \/ ((DebitUpdate(q) \/ StorageUpdate(q)) /\ ~CanUpdate(q))
  <2>1. /\ UNCHANGED <<wallet, file, credits, choice, clientPc, debited, storageDebited, givenUp>>
        /\ \A p \in Query : /\ nodePc'[p] = "answered" <=> nodePc[p] = "answered"
                            /\ nodePc[p] = "answered" => tally'[p] = tally[p]
    BY <1>1 DEF DebitSelect, RunQuery, StorageSelect, DebitUpdate, StorageUpdate, NodeGoto,
                NodeOnly, payer, IInv, TypeOK
  <2> QED
    BY <2>1, AllKept
<1> QED
  BY <1>1, DebitBacked, StorageBacked, FinalizeBacked DEF Handle

\* Versions are never taken away.
LEMMA OneVersionBefore ==
  ASSUME IInv, [Next]_vars, latest' = 1
  PROVE  latest = 1
<1>1. latest \in Nat /\ latest >= 1
  BY BoundAssumption DEF IInv, TypeOK, Version
<1>2. latest' >= latest
  BY <1>1 DEF Next, vars, Create, Attach, Save, Migrate, Submit, Client, Reserve, Answer,
              NodeGone, GiveUp, ConnectionLost, Handle, DebitSelect, DebitUpdate, RunQuery,
              StorageSelect, StorageUpdate, NodeFinalize, NodeOnly, PayerRestart, NodeRestart
<1> QED
  BY <1>1, <1>2

LEMMA NextBacked == IInv /\ IInv' /\ AccountInv /\ BackedInv /\ [Next]_vars => BackedInv'
<1> SUFFICES ASSUME IInv, IInv', AccountInv, BackedInv, [Next]_vars PROVE BackedInv'
  OBVIOUS
<1>1. SidesAgree /\ (latest = 1 => \A c \in Credit : Backed(c))
  BY DEF BackedInv
<1>2. SidesAgree'
  <2>1. CASE UNCHANGED <<pending, clientPc, nodePc, givenUp>>
    BY <1>1, <2>1 DEF SidesAgree
  <2>2. CASE \/ Migrate \/ UNCHANGED vars
             \/ \E c \in Credit : \/ \E microgons \in 1 .. MaxMicrogons : Create(c, microgons)
                                  \/ Attach(c) \/ Save(c)
    <3>1. UNCHANGED <<pending, clientPc, nodePc, givenUp>>
      BY <2>2 DEF Migrate, vars, Create, Attach, Save, payer, node
    <3> QED
      BY <2>1, <3>1
  <2> QED
    BY <1>1, <2>2, SidesAfterPayer, SidesAfterNode DEF Next
<1>3. ASSUME latest' = 1 PROVE \A c \in Credit : Backed(c)'
  <2>1. latest = 1 /\ \A c \in Credit : Backed(c)
    BY <1>1, <1>3, OneVersionBefore
  <2>2. CASE UNCHANGED vars \/ NodeRestart
    <3>1. /\ UNCHANGED <<wallet, file, credits, choice, clientPc, debited, storageDebited, givenUp>>
          /\ \A p \in Query : /\ nodePc'[p] = "answered" <=> nodePc[p] = "answered"
                              /\ nodePc[p] = "answered" => tally'[p] = tally[p]
      BY <2>2 DEF vars, node, payer, NodeRestart
    <3> QED
      BY <2>1, <3>1, AllKept
  <2>3. CASE Migrate
    BY <1>3, <2>1, <2>3 DEF Migrate
  <2>4. CASE PayerRestart
    BY <1>1, <2>1, <2>4, PayerRestartBacked
  <2>5. ASSUME NEW c \in Credit,
               \/ \E microgons \in 1 .. MaxMicrogons : Create(c, microgons)
               \/ Attach(c) \/ Save(c)
        PROVE  \A d \in Credit : Backed(d)'
    BY <1>1, <2>1, <2>5, CreateBacked, AttachBacked, SaveBacked
  <2>6. ASSUME NEW q \in Query, Submit(q) \/ Client(q) \/ ConnectionLost(q) \/ Handle(q)
        PROVE  \A d \in Credit : Backed(d)'
    BY <1>1, <2>1, <2>6, SubmitBacked, ReserveBacked, AnswerBacked, GiveUpBacked, HandleBacked
    DEF Client, NodeGone, ConnectionLost
  <2> QED
    BY <2>2, <2>3, <2>4, <2>5, <2>6 DEF Next
<1> QED
  BY <1>2, <1>3 DEF BackedInv

LEMMA BackedHolds == Spec => []BackedInv
<1> QED
  BY InitBacked, NextBacked, IInvHolds, AccountHolds, PTL DEF Spec

(* Only a charge that the payer cannot know of lets what it reserved be refused. *)

\* What is covered of a credit without such charges.
LEMMA ReservedIsCovered ==
  ASSUME IInv, AccountInv, BackedInv, latest = 1, NEW q \in Query, clientPc[q] = "waiting",
         nodePc[q] \in {"none", "update"},
         Unknown(choice[q].credit) \cup DebitedTwice(choice[q].credit) = {}
  PROVE  Covers(RowOf(q), q)
<1>1. PICK c \in Credit : choice[q] = [credit |-> c, version |-> 1] /\ RowOf(q) = credits[1][c]
  BY ChosenRow
<1>2. /\ wallet[c] # None /\ wallet[c] \in Nat /\ Backed(c)
  BY <1>1 DEF BackedInv, SidesAgree, IInv, TypeOK, QueriesAreChosen
<1>3. q \in Reserved(c)
  BY <1>1 DEF Reserved, AccountInv, DebitsPrecedeCalls
<1>4. PriceOf(Reserved(c)) = Price[q] + SumFunctionOnSet(Price, Reserved(c) \ {q})
  BY <1>3, SumsFinite, RestsAreNatural, SumWithout DEF PriceOf
<1>5. SumFunctionOnSet(Price, Reserved(c) \ {q}) \in Nat
  BY SumsFinite, RestsAreNatural, FS_RemoveElement, SumType
<1>6. PriceOf(Unknown(c)) = 0 /\ PriceOf(DebitedTwice(c)) = 0
  <2>1. Unknown(c) = {} /\ DebitedTwice(c) = {}
    BY <1>1
  <2> QED
    BY <2>1, SumOfNothing DEF PriceOf
<1>7. Claimed(c) \in Int /\ Claimed(c) >= Price[q] /\ Price[q] \in Nat
  BY <1>4, <1>5, <1>6, SumsAreNatural, RestsAreNatural DEF Claimed
<1>8. credits[1][c] # None /\ credits[1][c].remaining \in Int
      /\ wallet[c] + Claimed(c) <= credits[1][c].remaining
  BY <1>2, RowsAreIntegers DEF Backed
<1> QED
  BY <1>1, <1>2, <1>7, <1>8 DEF Covers

\* Charges are not forgotten.
LEMMA ChargesStay ==
  ASSUME IInv, AccountInv, SidesAgree, [Next]_vars
  PROVE  \A q \in Query : /\ debited[q] => debited'[q]
                          /\ storageDebited[q] => storageDebited'[q]
                          /\ q \in givenUp => q \in givenUp'
                          /\ clientPc[q] # "idle" => choice'[q] = choice[q]
<1>1. CASE PayerRestart
  BY <1>1 DEF PayerRestart, SidesAgree, node
<1>2. CASE \E q \in Query : Submit(q)
  BY <1>2 DEF Submit, IInv, TypeOK, payer, node
<1>3. CASE \/ NodeRestart \/ Migrate \/ UNCHANGED vars
           \/ \E c \in Credit : \/ \E microgons \in 1 .. MaxMicrogons : Create(c, microgons)
                                \/ Attach(c) \/ Save(c)
  BY <1>3 DEF NodeRestart, Migrate, vars, Create, Attach, Save, payer, node
<1>4. ASSUME NEW p \in Query, Client(p) \/ ConnectionLost(p)
      PROVE  UNCHANGED <<debited, storageDebited, choice>> /\ givenUp \subseteq givenUp'
  BY <1>4 DEF Client, Reserve, Answer, NodeGone, GiveUp, ConnectionLost, node
<1>5. ASSUME NEW p \in Query, Handle(p)
      PROVE  /\ UNCHANGED <<givenUp, choice>>
             /\ \A q \in Query : /\ debited[q] => debited'[q]
                                 /\ storageDebited[q] => storageDebited'[q]
  <2>1. debited \in [Query -> BOOLEAN] /\ storageDebited \in [Query -> BOOLEAN]
    BY DEF IInv, TypeOK
  <2> QED
    BY <1>5, <2>1 DEF Handle, DebitSelect, DebitUpdate, RunQuery, StorageSelect,
       StorageUpdate, NodeFinalize, NodeOnly, payer
<1> QED
  BY <1>1, <1>2, <1>3, <1>4, <1>5 DEF Next

LEMMA InitAccepted == Init => ReservedIsAccepted
BY DEF Init, ReservedIsAccepted

LEMMA NextAccepted ==
  IInv /\ AccountInv /\ BackedInv /\ ReservedIsAccepted /\ [Next]_vars => ReservedIsAccepted'
<1> SUFFICES ASSUME IInv, AccountInv, BackedInv, ReservedIsAccepted, [Next]_vars, latest' = 1,
                    NEW q \in Query, q \notin givenUp',
                    nodePc'[q] \in {"finalize", "answered"}, ~debited'[q]
             PROVE  (Unknown(choice[q].credit) \cup DebitedTwice(choice[q].credit))' # {}
  BY DEF ReservedIsAccepted
<1>1. latest = 1 /\ SidesAgree
  BY OneVersionBefore DEF BackedInv
<1>2. q \notin givenUp /\ ~debited[q]
  BY <1>1, ChargesStay
<1>3. Unknown(choice[q].credit) \cup DebitedTwice(choice[q].credit) # {}
      /\ clientPc[q] # "idle"
  <2>1. CASE nodePc[q] \in {"finalize", "answered"}
    BY <1>1, <1>2, <2>1 DEF ReservedIsAccepted, SidesAgree
  <2>2. CASE nodePc[q] \notin {"finalize", "answered"}
    <3>1. \/ DebitSelect(q) /\ ~Covers(RowOf(q), q)
          \/ DebitUpdate(q) /\ ~CanUpdate(q)
      <4>1. nodePc'[q] # nodePc[q]
        BY <2>2
      <4>2. ASSUME NEW p \in Query, Handle(p) PROVE p = q
        BY <4>1, <4>2 DEF Handle, DebitSelect, DebitUpdate, RunQuery, StorageSelect,
           StorageUpdate, NodeFinalize, NodeGoto, IInv, TypeOK
      <4>3. Handle(q)
        <5>1. ~NodeRestart
          BY <2>2 DEF NodeRestart
        <5>2. ~Migrate /\ ~PayerRestart /\ ~UNCHANGED vars
          BY <4>1 DEF Migrate, PayerRestart, vars, node
        <5>3. \A c \in Credit : ~Attach(c) /\ ~Save(c)
                /\ \A microgons \in 1 .. MaxMicrogons : ~Create(c, microgons)
          BY <4>1 DEF Create, Attach, Save, node
        <5>4. \A p \in Query : ~Submit(p) /\ ~Client(p) /\ ~ConnectionLost(p)
          BY <4>1 DEF Submit, Client, Reserve, Answer, NodeGone, GiveUp, ConnectionLost, node
        <5> QED
          BY <4>2, <5>1, <5>2, <5>3, <5>4 DEF Next
      <4>4. nodePc[q] \notin {"run", "storage", "storageUpdate"}
        BY <1>2 DEF AccountInv, DebitsPrecedeCalls
      <4> QED
        BY <2>2, <4>3, <4>4 DEF Handle, DebitSelect, DebitUpdate, RunQuery, StorageSelect,
           StorageUpdate, NodeFinalize, NodeGoto, IInv, TypeOK
    <3>2. /\ nodePc[q] \in {"none", "update"} /\ ~Covers(RowOf(q), q)
          /\ nodePc[q] = "none" => clientPc[q] \in {"waiting", "done", "lost"}
      BY <3>1 DEF DebitSelect, DebitUpdate, CanUpdate
    <3>3. clientPc[q] = "waiting"
      BY <1>1, <1>2, <3>2 DEF SidesAgree, IInv, TypeOK, ClientPc
    <3> QED
      BY <1>1, <3>2, <3>3, ReservedIsCovered
  <2> QED
    BY <2>1, <2>2
<1>4. choice'[q] = choice[q]
  BY <1>1, <1>3, ChargesStay
<1>5. \A p \in Query : debited[p] \/ storageDebited[p] => clientPc[p] # "idle"
  BY DEF AccountInv, DebitsPrecedeCalls
<1>6. /\ Unknown(choice[q].credit) \subseteq Unknown(choice[q].credit)'
      /\ DebitedTwice(choice[q].credit) \subseteq DebitedTwice(choice[q].credit)'
  BY <1>1, <1>4, <1>5, ChargesStay DEF Unknown, DebitedTwice
<1> QED
  BY <1>3, <1>6

(* The theorems *)

\* Every variable keeps its type; in particular what a payer keeps of a credit
\* never goes below zero, although balances are checked before they are queued
\* for, and although restarts load a balance that was saved before.
THEOREM TypeCorrect == Spec => []TypeOK
<1> QED
  BY IInvHolds, PTL DEF IInv

\* No version of a datastore lets a credit be overdrawn: debits that were all
\* checked before the first of them was applied are refused by the UPDATE, those
\* of a storage call too.
THEOREM NeverOverdrawn == Spec => []CreditsNeverOverdrawn
<1> QED
  BY IInvHolds, PTL DEF IInv

\* What remains of a credit is what it was opened with, less what its queries
\* were charged or still hold and what their storage calls debited once more, and
\* with what was returned for queries it refused, on each version of the
\* datastore: whatever was repeated or lost in between, nothing else touches it.
THEOREM CreditsExplained == Spec => []CreditsAreExplained
<1> QED
  BY AccountHolds, PTL DEF AccountInv

\* While a datastore has one version, what a payer believes to have left and what
\* it reserved is backed by the datastore, but for charges it cannot know of: those
\* of queries it gave up or forgot in a restart, and those of storage calls.
THEOREM WalletAlwaysBacked == Spec => []WalletIsBacked
<1>1. IInv /\ BackedInv => WalletIsBacked
  <2> SUFFICES ASSUME IInv, BackedInv, latest = 1, NEW c \in Credit, wallet[c] # None
               PROVE  /\ credits[1][c] # None
                      /\ wallet[c] + PriceOf(Reserved(c))
                           <= credits[1][c].remaining + PriceOf(Unknown(c))
                                + PriceOf(DebitedTwice(c))
    BY DEF WalletIsBacked
  <2>1. /\ credits[1][c] # None /\ credits[1][c].remaining \in Int /\ wallet[c] \in Nat
        /\ wallet[c] + Claimed(c) <= credits[1][c].remaining
    BY RowsAreIntegers DEF BackedInv, Backed, IInv, TypeOK
  <2> QED
    BY <2>1, SumsAreNatural DEF Claimed
<1> QED
  BY <1>1, IInvHolds, BackedHolds, PTL

\* And it refuses no query that the payer reserved and did not give up, unless
\* there is such a charge.
THEOREM ReservedAccepted == Spec => []ReservedIsAccepted
<1> QED
  BY InitAccepted, NextAccepted, IInvHolds, AccountHolds, BackedHolds, PTL DEF Spec
=============================================================================
