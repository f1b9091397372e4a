------------------------ MODULE DatastoreInstalls_proofs ------------------------
(* Theorems about DatastoreInstalls: types, the cached list of versions, that what *)
(* was answered to be installed stays so, and that no failure leaves half of it.  *)
EXTENDS DatastoreInstalls, TLAPS

Reply == {"none", "installed", "duplicate", "error"}
Node == {"up", "stopping", "down", "starting"}

(* What is proved first, as every other fact needs it. *)
TypeInv == TypeOK /\ TargetsAreChosen /\ InstallersTakeTurns

-----------------------------------------------------------------------------
(* Types *)

\* How an installation ends: only its own reply, and the node for the disk's.
LEMMA EndFacts ==
  ASSUME TypeOK, NEW i \in Installer, NEW outcome \in Reply, End(i, outcome)
  PROVE  /\ pc' = [pc EXCEPT ![i] = "done"] /\ pc' \in [Installer -> Pc]
         /\ reply' \in [Package -> Reply] /\ node' \in Node
         /\ i # Disk => node' = node
         /\ i = Disk => reply' = reply /\ node' \in {node, "down"}
         /\ \A p \in Package : reply'[p] = "installed" =>
              reply[p] = "installed" \/ (p = i /\ outcome = "installed")
BY DEF TypeOK, End, Goto, Pc, Reply, Node, Installer

\* Steps that end no installation, and move one of them to another label.
LEMMA GotoFacts ==
  ASSUME TypeOK, NEW i \in Installer, NEW label \in Pc, Goto(i, label)
  PROVE  /\ pc' = [pc EXCEPT ![i] = label] /\ pc' \in [Installer -> Pc]
         /\ \A j \in Installer : j # i => pc'[j] = pc[j]
         /\ pc'[i] = label
BY DEF TypeOK, Goto

LEMMA InitTypeInv == Init => TypeInv
BY NoneAssumption, DiskAssumption
   DEF Init, TypeInv, TypeOK, TargetsAreChosen, InstallersTakeTurns, Busy, Installer, Pc, Version

\* Each step keeps types, targets and turns.
LEMMA NextTypeInv == TypeInv /\ [Next]_vars => TypeInv'
<1> SUFFICES ASSUME TypeInv, [Next]_vars PROVE TypeInv'
  OBVIOUS
<1> USE NoneAssumption, DiskAssumption DEF TypeInv
<1> USE DEF TargetsAreChosen, InstallersTakeTurns, Busy, Installer
<1>1. CASE UNCHANGED vars
  BY <1>1 DEF TypeOK, vars, disk, caches, uploads, history
<1>2. ASSUME NEW p \in Package, NEW v \in Version, Upload(p, v) PROVE TypeInv'
  BY <1>2 DEF TypeOK, Upload, Goto, disk, caches, Pc
<1>3. ASSUME NEW p \in Package, NEW v \in Version, CopyToDisk(p, v) PROVE TypeInv'
  BY <1>3 DEF TypeOK, CopyToDisk, Goto, caches, history, Pc
<1>4. ASSUME NEW i \in Installer, Install(i) PROVE TypeInv'
  <2>1. CASE Check(i)
    BY <2>1, EndFacts DEF Check, Goto, TypeOK, disk, caches, history, Pc, Reply, Node
  <2>2. CASE Reject(i)
    BY <2>2, EndFacts DEF Reject, GiveUp, Goto, TypeOK, disk, caches, history, Pc, Reply, Node
  <2>3. CASE Find(i)
    BY <2>3 DEF Find, Goto, TypeOK, disk, caches, history, Pc
  <2>4. CASE RemoveOld(i)
    BY <2>4, EndFacts DEF RemoveOld, GiveUp, Goto, TypeOK, disk, caches, history, Pc, Reply, Node
  <2>5. CASE Move(i)
    BY <2>5, EndFacts DEF Move, GiveUp, Goto, TypeOK, disk, caches, history, Pc, Reply, Node
  <2>6. CASE Save(i)
    BY <2>6 DEF Save, Found, Listed, Goto, TypeOK, history, Pc
  <2>7. CASE Load(i)
    BY <2>7 DEF Load, Goto, TypeOK, disk, caches, history, Pc
  <2>8. CASE CreateTables(i)
    BY <2>8, EndFacts DEF CreateTables, RollBack, Goto, TypeOK, caches, history, Pc, Reply, Node
  <2>9. CASE Migrate(i)
    BY <2>9, EndFacts DEF Migrate, TypeOK, caches, history, Pc, Reply, Node
  <2>10. CASE Throw(i)
    BY <2>10, EndFacts DEF Throw, RollBack, Goto, TypeOK, caches, history, Pc, Reply, Node
  <2>11. CASE RemoveNew(i)
    BY <2>11, EndFacts DEF RemoveNew, TypeOK, caches, history, Pc, Reply, Node
  <2> QED BY <1>4, <2>1, <2>2, <2>3, <2>4, <2>5, <2>6, <2>7, <2>8, <2>9, <2>10, <2>11 DEF Install
<1>5. ASSUME NEW p \in Package, Timeout(p) PROVE TypeInv'
  BY <1>5 DEF TypeOK, Timeout, disk, caches, history, Pc
<1>6. CASE Stop
  BY <1>6 DEF TypeOK, Stop, disk, caches, uploads, history
<1>7. CASE Shutdown \/ Crash
  BY <1>7 DEF TypeOK, Shutdown, Crash, Halt, disk, history, Pc
<1>8. CASE Start
  BY <1>8 DEF TypeOK, Start, disk, caches, uploads, history
<1>9. ASSUME NEW p \in Package, Unpack(p) PROVE TypeInv'
  BY <1>9 DEF TypeOK, Unpack, Starting, ToUnpack, caches, uploads, history
<1>10. ASSUME NEW v \in Version, InstallOnDisk(v) PROVE TypeInv'
  BY <1>10 DEF TypeOK, InstallOnDisk, Starting, Goto, disk, caches, history, Pc
<1>11. CASE Started
  BY <1>11 DEF TypeOK, Started, Starting, disk, caches, uploads, history
<1> QED
  BY <1>1, <1>2, <1>3, <1>4, <1>5, <1>6, <1>7, <1>8, <1>9, <1>10, <1>11 DEF Next, StartSteps

\* Every variable keeps its type.
THEOREM TypeCorrect == Spec => []TypeOK
<1>1. Spec => []TypeInv
  BY InitTypeInv, NextTypeInv, PTL DEF Spec
<1> QED BY <1>1, PTL DEF TypeInv

-----------------------------------------------------------------------------
(* The cached list of versions *)

\* A list that was loaded has a version before its row is saved, and rows are
\* saved nowhere else.
LEMMA NextVersionsAreListed ==
  TypeInv /\ VersionsAreListed /\ [Next]_vars => VersionsAreListed'
<1> SUFFICES ASSUME TypeInv, VersionsAreListed, [Next]_vars PROVE VersionsAreListed'
  OBVIOUS
<1> USE NoneAssumption DEF VersionsAreListed
<1>1. ASSUME NEW i \in Installer, Save(i) PROVE VersionsAreListed'
  BY <1>1 DEF Save, Listed
<1>2. ASSUME rows' \in SUBSET rows, versions' \in {versions, None} PROVE VersionsAreListed'
  BY <1>2
<1>3. CASE UNCHANGED vars
  BY <1>3 DEF vars, disk, caches
<1>4. ASSUME NEW p \in Package, NEW v \in Version, Upload(p, v) \/ CopyToDisk(p, v)
      PROVE  VersionsAreListed'
  BY <1>4 DEF Upload, CopyToDisk, disk, caches
<1>5. ASSUME NEW i \in Installer, Install(i), ~Save(i) PROVE VersionsAreListed'
  BY <1>5, <1>2 DEF Install, Check, Reject, GiveUp, Find, RemoveOld, Move, Load,
     CreateTables, Migrate, Throw, RollBack, RemoveNew, disk, caches
<1>6. ASSUME NEW p \in Package, Timeout(p) \/ Unpack(p) PROVE VersionsAreListed'
  BY <1>6 DEF Timeout, Unpack, disk, caches
<1>7. ASSUME NEW v \in Version, InstallOnDisk(v) PROVE VersionsAreListed'
  BY <1>7 DEF InstallOnDisk, disk, caches
<1>8. CASE Stop \/ Shutdown \/ Crash \/ Start \/ Started
  BY <1>8 DEF Stop, Shutdown, Crash, Halt, Start, Started, disk, caches
<1> QED
  BY <1>1, <1>3, <1>4, <1>5, <1>6, <1>7, <1>8 DEF Next, StartSteps, Installer

\* The list of versions, once it was asked for, misses no installed version.
THEOREM VersionsAreAlwaysListed == Spec => []VersionsAreListed
<1>1. Init => VersionsAreListed
  BY DEF Init, VersionsAreListed
<1>2. Spec => []TypeInv
  BY InitTypeInv, NextTypeInv, PTL DEF Spec
<1> QED BY <1>1, <1>2, NextVersionsAreListed, PTL DEF Spec

-----------------------------------------------------------------------------
(* Overlapping installations *)

\* A package that began keeps its target.
LEMMA TargetsStay ==
  ASSUME TypeInv, [Next]_vars
  PROVE  \A p \in Package : pc[p] # "idle" => target'[p] = target[p]
<1> USE NoneAssumption, DiskAssumption DEF TypeInv
<1>1. CASE UNCHANGED vars
  BY <1>1 DEF vars, uploads
<1>2. ASSUME NEW p \in Package, NEW v \in Version, Upload(p, v) \/ CopyToDisk(p, v)
      PROVE  \A q \in Package : pc[q] # "idle" => target'[q] = target[q]
  BY <1>2 DEF Upload, CopyToDisk, TypeOK, Installer
<1>3. ASSUME NEW i \in Installer, Install(i) PROVE target' = target
  BY <1>3 DEF Install, Check, Reject, GiveUp, Find, RemoveOld, Move, Save, Load,
     CreateTables, Migrate, Throw, RollBack, RemoveNew
<1>4. ASSUME NEW p \in Package, Timeout(p) \/ Unpack(p) PROVE target' = target
  BY <1>4 DEF Timeout, Unpack, uploads
<1>5. ASSUME NEW v \in Version, InstallOnDisk(v)
      PROVE  \A q \in Package : target'[q] = target[q]
  BY <1>5 DEF InstallOnDisk, TypeOK, Installer
<1>6. CASE Stop \/ Shutdown \/ Crash \/ Start \/ Started
  BY <1>6 DEF Stop, Shutdown, Crash, Halt, Start, Started, uploads
<1> QED
  BY <1>1, <1>2, <1>3, <1>4, <1>5, <1>6 DEF Next, StartSteps, Installer

\* What has met stays so.
LEMMA MeetingsStay == ASSUME TypeInv, [Next]_vars PROVE met \subseteq met'
<1>1. CASE UNCHANGED vars
  BY <1>1 DEF vars, history
<1>2. ASSUME NEW p \in Package, NEW v \in Version, Upload(p, v) \/ CopyToDisk(p, v)
      PROVE  met \subseteq met'
  BY <1>2 DEF Upload, CopyToDisk, history
<1>3. ASSUME NEW i \in Installer, Install(i) PROVE met' = met
  BY <1>3 DEF Install, Check, Reject, GiveUp, Find, RemoveOld, Move, Save, Load,
     CreateTables, Migrate, Throw, RollBack, RemoveNew, history
<1>4. ASSUME NEW p \in Package, Timeout(p) \/ Unpack(p) PROVE met' = met
  BY <1>4 DEF Timeout, Unpack, history
<1>5. ASSUME NEW v \in Version, InstallOnDisk(v) PROVE met' = met
  BY <1>5 DEF InstallOnDisk, history
<1>6. CASE Stop \/ Shutdown \/ Crash \/ Start \/ Started
  BY <1>6 DEF Stop, Shutdown, Crash, Halt, Start, Started, history
<1> QED
  BY <1>1, <1>2, <1>3, <1>4, <1>5, <1>6 DEF Next, StartSteps, Installer

\* So a version whose installations overlapped stays one.
LEMMA OverlapsStay ==
  ASSUME TypeInv, [Next]_vars, NEW v \in Version, Overlapped(v)
  PROVE  Overlapped(v)'
<1>1. PICK pair \in met : \A p \in pair : target[p] = v
  BY DEF Overlapped
<1>2. \A p \in pair : p \in Package /\ pc[p] # "idle"
  BY <1>1, NoneAssumption DEF TypeInv, TypeOK, TargetsAreChosen
<1> QED BY <1>1, <1>2, TargetsStay, MeetingsStay DEF Overlapped

-----------------------------------------------------------------------------
(* What a step may do to a version *)

\* Who touches the row, the directory and the storage of a version.
VersionsStay ==
  \A v \in Version :
    /\ files'[v] # files[v] =>
         \/ \E i \in Busy : target[i] = v /\ pc[i] \in {"removeOld", "move", "removeNew"}
         \/ files[v] = None /\ node \in {"down", "starting"}
    /\ v \in rows /\ v \notin rows' =>
         \E i \in Busy : target[i] = v /\ pc[i] \in Installing /\ pc'[i] \notin Installing
    /\ storage[v] = "created" => storage'[v] = "created"

\* How a package gets to a label, and to its answer.
PackagesAdvance ==
  \A p \in Package :
    /\ p \in Busy' => p \in Busy \/ (pc'[p] = "check" /\ \A q \in Busy' : q = p \/ {p, q} \in met')
    /\ pc'[p] = "save" => pc[p] = "save" \/ Move(p)
    /\ pc'[p] \in Installing => pc[p] \in Installing \/ Save(p)
    /\ reply'[p] = "installed" => reply[p] = "installed" \/ Migrate(p)
    /\ pc[p] = "done" => pc'[p] = "done"

\* An installer gets past the check only of a version without a row.
ChecksPass ==
  \A i \in Installer : i \in Busy' /\ pc'[i] # "check" =>
    /\ i \in Busy
    /\ target'[i] = target[i]
    /\ pc[i] = "check" => target[i] \notin rows

\* All three of every step.
LEMMA StepFacts ==
  ASSUME TypeInv, [Next]_vars PROVE VersionsStay /\ PackagesAdvance /\ ChecksPass
<1> DEFINE Facts == VersionsStay /\ PackagesAdvance /\ ChecksPass
<1> SUFFICES Facts
  OBVIOUS
<1> USE NoneAssumption, DiskAssumption DEF TypeInv
<1> USE DEF VersionsStay, PackagesAdvance, ChecksPass, Busy, Installing, TargetsAreChosen,
        InstallersTakeTurns, Installer
<1>1. CASE UNCHANGED vars
  BY <1>1 DEF TypeOK, vars, disk, uploads, caches, history
<1>2. ASSUME NEW p \in Package, NEW v \in Version, Upload(p, v) PROVE Facts
  BY <1>2 DEF TypeOK, Upload, Goto, disk
<1>3. ASSUME NEW p \in Package, NEW v \in Version, CopyToDisk(p, v) PROVE Facts
  BY <1>3 DEF TypeOK, CopyToDisk, Goto
<1>4. ASSUME NEW i \in Installer, Install(i) PROVE Facts
  <2>1. CASE Check(i)
    BY <2>1, EndFacts DEF Check, IsInstalled, Goto, TypeOK, disk, Pc, Reply
  <2>2. CASE Reject(i)
    BY <2>2, EndFacts DEF Reject, IsInstalled, GiveUp, Goto, TypeOK, disk, Pc, Reply
  <2>3. CASE Find(i)
    BY <2>3 DEF Find, Goto, TypeOK, disk
  <2>4. CASE RemoveOld(i)
    BY <2>4, EndFacts DEF RemoveOld, GiveUp, Goto, TypeOK, disk, Pc, Reply
  <2>5. CASE Move(i)
    BY <2>5, EndFacts DEF Move, GiveUp, Goto, TypeOK, disk, Pc, Reply
  <2>6. CASE Save(i)
    BY <2>6 DEF Save, Goto, TypeOK
  <2>7. CASE Load(i)
    BY <2>7 DEF Load, Goto, TypeOK, disk
  <2>8. CASE CreateTables(i)
    BY <2>8, EndFacts DEF CreateTables, RollBack, Goto, TypeOK, Pc, Reply
  <2>9. CASE Migrate(i)
    <3>1. VersionsStay
      BY <2>9 DEF Migrate, TypeOK
    <3>2. pc' = [pc EXCEPT ![i] = "done"] /\ target' = target
      BY <2>9, EndFacts DEF Migrate, Reply
    <3>3. PackagesAdvance
      <4>1. \A p \in Package : reply'[p] = "installed" => reply[p] = "installed" \/ p = i
        BY <2>9, EndFacts DEF Migrate, Reply
      <4> QED BY <2>9, <3>2, <4>1 DEF TypeOK
    <3>4. ChecksPass
      BY <2>9, <3>2 DEF Migrate, TypeOK
    <3> QED BY <3>1, <3>3, <3>4
  <2>10. CASE Throw(i)
    BY <2>10, EndFacts DEF Throw, RollBack, Goto, TypeOK, Pc, Reply
  <2>11. CASE RemoveNew(i)
    BY <2>11, EndFacts DEF RemoveNew, TypeOK, Pc, Reply
  <2> QED BY <1>4, <2>1, <2>2, <2>3, <2>4, <2>5, <2>6, <2>7, <2>8, <2>9, <2>10, <2>11 DEF Install
<1>5. ASSUME NEW p \in Package, Timeout(p) PROVE Facts
  BY <1>5 DEF TypeOK, Timeout, disk
<1>6. CASE Stop
  BY <1>6 DEF TypeOK, Stop, disk, uploads
<1>7. CASE Shutdown \/ Crash
  BY <1>7 DEF TypeOK, Shutdown, Crash, Halt, disk
<1>8. CASE Start
  BY <1>8 DEF TypeOK, Start, disk, uploads
<1>9. ASSUME NEW p \in Package, Unpack(p) PROVE Facts
  BY <1>9 DEF TypeOK, Unpack, Starting, ToUnpack, uploads
<1>10. ASSUME NEW v \in Version, InstallOnDisk(v) PROVE Facts
  BY <1>10 DEF TypeOK, InstallOnDisk, Starting, Goto, disk
<1>11. CASE Started
  BY <1>11 DEF TypeOK, Started, Starting, disk, uploads
<1> QED
  BY <1>1, <1>2, <1>3, <1>4, <1>5, <1>6, <1>7, <1>8, <1>9, <1>10, <1>11 DEF Next, StartSteps

-----------------------------------------------------------------------------
(* What was answered to be installed stays installed *)

(* Two installers of a version have met, or take turns; whoever touches a version  *)
(* is an installer of it, or finds no directory.  So an installation that did not  *)
(* overlap owns its version while it lasts, and afterwards a later one finds the   *)
(* row.                                                                            *)
IInv ==
  /\ TypeInv
  /\ BusyHaveMet
  /\ UploadsOwnTheirVersion
  /\ InstalledOnce
  /\ InstalledStaysInstalled

LEMMA InitIInv == Init => IInv
BY InitTypeInv, NoneAssumption, DiskAssumption
   DEF Init, IInv, BusyHaveMet, UploadsOwnTheirVersion, InstalledOnce,
       InstalledStaysInstalled, Busy, Installing, Installer

\* Two busy installers of one version have overlapped.
LEMMA RivalsOverlap ==
  ASSUME TypeInv, BusyHaveMet, NEW p \in Package, p \in Busy, NEW i \in Busy, i # p,
         target[i] = target[p]
  PROVE  Overlapped(target[p])
<1>1. i \in Package
  BY DEF TypeInv, InstallersTakeTurns, Busy, Installer
<1>2. {p, i} \in met
  BY <1>1 DEF BusyHaveMet
<1> QED BY <1>2 DEF Overlapped

LEMMA NextBusyHaveMet == TypeInv /\ BusyHaveMet /\ [Next]_vars => BusyHaveMet'
<1> SUFFICES ASSUME TypeInv, BusyHaveMet, [Next]_vars,
                    NEW p \in Package, NEW q \in Package, p # q,
                    p \in Busy', q \in Busy'
             PROVE  {p, q} \in met'
  BY DEF BusyHaveMet
<1>1. CASE p \in Busy /\ q \in Busy
  BY <1>1, MeetingsStay DEF BusyHaveMet
<1>2. CASE p \notin Busy
  BY <1>2, StepFacts DEF PackagesAdvance
<1>3. CASE q \notin Busy
  <2>1. {q, p} \in met'
    BY <1>3, StepFacts DEF PackagesAdvance
  <2> QED BY <2>1, {q, p} = {p, q}
<1> QED BY <1>1, <1>2, <1>3

\* Whoever may touch the version of a busy upload overlapped with it.
LEMMA NextUploadsOwnTheirVersion == IInv /\ [Next]_vars => UploadsOwnTheirVersion'
<1> SUFFICES ASSUME IInv, [Next]_vars, NEW p \in Package, ~Overlapped(target[p])'
             PROVE  /\ pc'[p] \in {"save"} \cup Installing => files'[target'[p]] = p
                    /\ pc'[p] \in Installing => target'[p] \in rows'
  BY DEF UploadsOwnTheirVersion
<1> DEFINE v == target[p]
<1>1. SUFFICES ASSUME pc'[p] \in {"save"} \cup Installing
               PROVE  /\ files'[target'[p]] = p
                      /\ pc'[p] \in Installing => target'[p] \in rows'
  OBVIOUS
<1>2. p \in Busy /\ v \in Version /\ target'[p] = v
  <2>1. p \in Busy'
    BY <1>1 DEF Installing, Busy, Installer
  <2> QED
    BY <1>1, <2>1, StepFacts DEF IInv, ChecksPass, Installing, Installer, Busy, TypeInv,
       TargetsAreChosen
<1>3. ~Overlapped(v)
  BY <1>2, OverlapsStay DEF IInv, Overlapped
<1>4. \A i \in Busy : target[i] = v => i = p
  BY <1>2, <1>3, RivalsOverlap DEF IInv
<1>5. files'[v] = p
  <2>1. CASE Move(p)
    BY <2>1, <1>1, <1>2, DiskAssumption, EndFacts
       DEF Move, GiveUp, End, Goto, IInv, TypeInv, TypeOK, Installer, Installing
  <2>2. CASE ~Move(p)
    <3>1. pc[p] \in {"save"} \cup Installing
      BY <1>1, <2>2, StepFacts DEF IInv, PackagesAdvance, Save
    <3>2. files[v] = p
      BY <3>1, <1>3 DEF IInv, UploadsOwnTheirVersion
    <3>3. node \in {"up", "stopping"}
      BY <1>2 DEF IInv, TypeInv, InstallersTakeTurns
    <3>4. \A i \in Busy : target[i] = v => pc[i] \notin {"removeOld", "move", "removeNew"}
      BY <3>1, <1>4 DEF Installing
    <3> QED BY <1>2, <3>2, <3>3, <3>4, StepFacts DEF IInv, VersionsStay
  <2> QED BY <2>1, <2>2
<1>6. ASSUME pc'[p] \in Installing PROVE v \in rows'
  <2>1. CASE Save(p)
    BY <2>1 DEF Save
  <2>2. CASE ~Save(p)
    <3>1. pc[p] \in Installing /\ v \in rows
      BY <1>6, <2>2, <1>3, StepFacts DEF IInv, PackagesAdvance, UploadsOwnTheirVersion
    <3> QED BY <3>1, <1>2, <1>4, <1>6, StepFacts DEF IInv, VersionsStay
  <2> QED BY <2>1, <2>2
<1> QED BY <1>2, <1>5, <1>6

\* A package that was installed, or is with this step, has what it installed.
LEMMA InstalledHere ==
  ASSUME IInv, [Next]_vars, NEW p \in Package, reply'[p] = "installed",
         ~Overlapped(target[p])'
  PROVE  /\ target[p] \in Version /\ target'[p] = target[p] /\ ~Overlapped(target[p])
         /\ pc'[p] = "done"
         /\ (reply[p] = "installed" /\ Installed(target[p], p)) \/ Migrate(p)
<1>1. reply[p] = "installed" \/ Migrate(p)
  BY StepFacts DEF IInv, PackagesAdvance
<1>2. pc[p] # "idle"
  BY <1>1 DEF IInv, InstalledOnce, Migrate
<1>3. target[p] \in Version /\ target'[p] = target[p]
  BY <1>2, TargetsStay DEF IInv, TypeInv, TargetsAreChosen, Installer
<1>4. ~Overlapped(target[p])
  BY <1>3, OverlapsStay DEF IInv, Overlapped
<1>5. pc'[p] = "done"
  <2>1. CASE reply[p] = "installed"
    BY <2>1, StepFacts DEF IInv, InstalledOnce, PackagesAdvance
  <2>2. CASE Migrate(p)
    BY <2>2, EndFacts DEF Migrate, Reply, IInv, TypeInv, TypeOK, Installer
  <2> QED BY <1>1, <2>1, <2>2
<1> QED BY <1>1, <1>3, <1>4, <1>5 DEF IInv, InstalledStaysInstalled

\* An installation that ends finds no other of its version, and later ones find
\* its row.
LEMMA NextInstalledOnce == IInv /\ [Next]_vars => InstalledOnce'
<1> SUFFICES ASSUME IInv, [Next]_vars, NEW p \in Package, reply'[p] = "installed"
             PROVE  /\ pc'[p] = "done"
                    /\ \A i \in Busy' : target'[i] = target'[p] /\ pc'[i] # "check" =>
                         Overlapped(target[p])'
  BY DEF InstalledOnce
<1>1. reply[p] = "installed" \/ Migrate(p)
  BY StepFacts DEF IInv, PackagesAdvance
<1>2. pc'[p] = "done"
  <2>1. CASE reply[p] = "installed"
    BY <2>1, StepFacts DEF IInv, InstalledOnce, PackagesAdvance
  <2>2. CASE Migrate(p)
    BY <2>2, EndFacts DEF Migrate, Reply, IInv, TypeInv, TypeOK, Installer
  <2> QED BY <1>1, <2>1, <2>2
<1>3. ASSUME NEW i \in Busy', target'[i] = target'[p], pc'[i] # "check",
             ~Overlapped(target[p])'
      PROVE  FALSE
  <2>1. target'[p] = target[p] /\ ~Overlapped(target[p])
    BY <1>3, InstalledHere
  <2>2. i \in Installer /\ i \in Busy /\ target[i] = target[p]
        /\ (pc[i] = "check" => target[p] \notin rows)
    BY <1>3, <2>1, StepFacts DEF IInv, ChecksPass, Busy
  <2>3. i # p
    BY <1>2, <1>3 DEF Busy
  <2>4. CASE reply[p] = "installed"
    BY <2>1, <2>2, <2>4 DEF IInv, InstalledOnce, InstalledStaysInstalled, Installed
  <2>5. CASE Migrate(p)
    <3>1. p \in Busy
      BY <2>5 DEF Migrate, Busy, Installer
    <3> QED BY <2>1, <2>2, <2>3, <3>1, RivalsOverlap DEF IInv
  <2> QED BY <1>1, <2>4, <2>5
<1> QED BY <1>2, <1>3

\* Nobody but a rival touches the version of an upload that was installed.
LEMMA NextInstalledStaysInstalled == IInv /\ [Next]_vars => InstalledStaysInstalled'
<1> SUFFICES ASSUME IInv, [Next]_vars, NEW p \in Package, reply'[p] = "installed",
                    ~Overlapped(target[p])'
             PROVE  Installed(target[p], p)'
  BY DEF InstalledStaysInstalled
<1> DEFINE v == target[p]
<1>1. v \in Version /\ target'[p] = v /\ ~Overlapped(v)
  BY InstalledHere
<1>2. CASE reply[p] = "installed" /\ Installed(v, p)
  <2>1. \A i \in Busy : target[i] = v =>
          pc[i] \notin {"removeOld", "move", "removeNew"} \cup Installing
    BY <1>1, <1>2 DEF IInv, InstalledOnce, Installing
  <2>2. files'[v] = p /\ v \in rows' /\ storage'[v] = "created"
    BY <1>1, <1>2, <2>1, StepFacts, NoneAssumption DEF VersionsStay, Installed, IInv
  <2> QED BY <1>1, <2>2 DEF Installed
<1>3. CASE Migrate(p)
  <2>1. files[v] = p /\ v \in rows
    BY <1>1, <1>3 DEF Migrate, IInv, UploadsOwnTheirVersion, Installing
  <2>2. storage'[v] = "created" /\ files' = files /\ rows' = rows
    BY <1>1, <1>3 DEF Migrate, IInv, TypeInv, TypeOK
  <2> QED BY <1>1, <2>1, <2>2 DEF Installed
<1> QED BY <1>2, <1>3, InstalledHere

LEMMA NextIInv == IInv /\ [Next]_vars => IInv'
BY NextTypeInv, NextBusyHaveMet, NextUploadsOwnTheirVersion, NextInstalledOnce,
   NextInstalledStaysInstalled DEF IInv

\* An upload that was answered to be installed, and did not overlap with another of
\* its version, keeps its row, its package and its storage.
THEOREM InstalledAlwaysStaysInstalled == Spec => []InstalledStaysInstalled
<1>1. Spec => []IInv
  BY InitIInv, NextIInv, PTL DEF Spec
<1> QED BY <1>1, PTL DEF IInv

-----------------------------------------------------------------------------
(* What is not being installed is installed or absent *)

\* Who makes a row, a directory, and a node that is up.
VersionsChange ==
  \A v \in Version :
    /\ v \notin rows /\ v \in rows' =>
         \E i \in Busy : target[i] = v /\ pc[i] = "save" /\ pc'[i] = "load"
    /\ files[v] = None /\ files'[v] # None =>
         \/ node' \in {"down", "starting"}
         \/ \E i \in Busy' : target[i] = v /\ pc[i] = "move" /\ pc'[i] = "save"
    /\ files[v] # None /\ files'[v] = None =>
         \E i \in Busy : /\ target[i] = v
                         /\ pc[i] = "removeOld" \/ (pc[i] = "removeNew" /\ i \notin Busy')
    /\ v \in rows /\ v \notin rows' =>
         \E i \in Busy' : target[i] = v /\ pc[i] \in Installing /\ pc'[i] = "removeNew"
    /\ node' \in {"up", "stopping"} /\ node \notin {"up", "stopping"} =>
         files'[v] = None \/ v \in rows'

\* What an installer leaves behind, and how it gets to a label.
InstallersLeave ==
  \A i \in Busy :
    /\ target'[i] = target[i]
    /\ pc[i] = "save" =>
         pc'[i] = "save" \/ node' = "down" \/ (pc'[i] = "load" /\ target[i] \in rows')
    /\ pc[i] = "removeNew" =>
         pc'[i] = "removeNew" \/ node' = "down" \/ files'[target[i]] = None
    /\ pc[i] \in Installing =>
         \/ pc'[i] \in Installing
         \/ target[i] \in interrupted'
         \/ storage'[target[i]] = "created"
         \/ target[i] \notin rows'
    /\ pc'[i] \in {"find", "removeOld", "move", "save"} =>
         pc[i] \in {"check", "find", "removeOld", "move", "save"}
    /\ pc'[i] = "removeNew" => pc[i] = "removeNew" \/ target[i] \notin rows'
    /\ pc'[i] \in Installing => pc[i] \in Installing \/ target[i] \in rows'

\* What is found on disk has a directory; what was interrupted stays so.
DiskFindsFiles ==
  /\ Disk \in Busy' => Disk \in Busy \/ files'[target'[Disk]] # None
  /\ interrupted \subseteq interrupted'

\* All three of every step.
LEMMA StepChanges ==
  ASSUME TypeInv, [Next]_vars PROVE VersionsChange /\ InstallersLeave /\ DiskFindsFiles
<1> DEFINE Facts == VersionsChange /\ InstallersLeave /\ DiskFindsFiles
<1> SUFFICES Facts
  OBVIOUS
<1> USE NoneAssumption, DiskAssumption DEF TypeInv
<1> USE DEF VersionsChange, InstallersLeave, DiskFindsFiles, Busy, Installing, TargetsAreChosen,
        InstallersTakeTurns, Installer
<1>1. CASE UNCHANGED vars
  BY <1>1 DEF TypeOK, vars, disk, uploads, caches, history
<1>2. ASSUME NEW p \in Package, NEW v \in Version, Upload(p, v) PROVE Facts
  BY <1>2 DEF TypeOK, Upload, Goto, disk
<1>3. ASSUME NEW p \in Package, NEW v \in Version, CopyToDisk(p, v) PROVE Facts
  BY <1>3 DEF TypeOK, CopyToDisk, Goto, history
<1>4. ASSUME NEW i \in Installer, Install(i) PROVE Facts
  <2>1. CASE Check(i)
    BY <2>1, EndFacts DEF Check, IsInstalled, Goto, TypeOK, disk, history, Pc, Reply
  <2>2. CASE Reject(i)
    BY <2>2, EndFacts DEF Reject, IsInstalled, GiveUp, Goto, TypeOK, disk, history, Pc, Reply
  <2>3. CASE Find(i)
    BY <2>3 DEF Find, Goto, TypeOK, disk, history
  <2>4. CASE RemoveOld(i)
    BY <2>4, EndFacts DEF RemoveOld, GiveUp, Goto, TypeOK, disk, history, Pc, Reply
  <2>5. CASE Move(i)
    BY <2>5, EndFacts DEF Move, GiveUp, Goto, TypeOK, disk, history, Pc, Reply
  <2>6. CASE Save(i)
    BY <2>6 DEF Save, Goto, TypeOK, history
  <2>7. CASE Load(i)
    BY <2>7 DEF Load, Goto, TypeOK, disk, history
  <2>8. CASE CreateTables(i)
    BY <2>8, EndFacts DEF CreateTables, RollBack, Goto, TypeOK, history, Pc, Reply
  <2>9. CASE Migrate(i)
    BY <2>9, EndFacts DEF Migrate, TypeOK, history, Pc, Reply
  <2>10. CASE Throw(i)
    BY <2>10, EndFacts DEF Throw, RollBack, Goto, TypeOK, history, Pc, Reply
  <2>11. CASE RemoveNew(i)
    BY <2>11, EndFacts DEF RemoveNew, TypeOK, history, Pc, Reply
  <2> QED BY <1>4, <2>1, <2>2, <2>3, <2>4, <2>5, <2>6, <2>7, <2>8, <2>9, <2>10, <2>11 DEF Install
<1>5. ASSUME NEW p \in Package, Timeout(p) PROVE Facts
  BY <1>5 DEF TypeOK, Timeout, disk, history
<1>6. CASE Stop
  BY <1>6 DEF TypeOK, Stop, disk, uploads, history
<1>7. CASE Shutdown \/ Crash
  BY <1>7 DEF TypeOK, Shutdown, Crash, Halt, disk
<1>8. CASE Start
  BY <1>8 DEF TypeOK, Start, disk, uploads, history
<1>9. ASSUME NEW p \in Package, Unpack(p) PROVE Facts
  BY <1>9 DEF TypeOK, Unpack, Starting, ToUnpack, uploads, history
<1>10. ASSUME NEW v \in Version, InstallOnDisk(v) PROVE Facts
  BY <1>10 DEF TypeOK, InstallOnDisk, ToInstall, Starting, Goto, disk, history
<1>11. CASE Started
  BY <1>11 DEF TypeOK, Started, Starting, ToInstall, disk, uploads, history
<1> QED
  BY <1>1, <1>2, <1>3, <1>4, <1>5, <1>6, <1>7, <1>8, <1>9, <1>10, <1>11 DEF Next, StartSteps

(* Whoever installs a version alone leaves its row, directory and storage in step. *)
WholeInv ==
  /\ IInv
  /\ RowsFollowInstallers
  /\ RowsHaveFiles
  /\ DiskInstallsFiles
  /\ FilesHaveRows
  /\ RowsHaveStorage

LEMMA InitWholeInv == Init => WholeInv
BY InitIInv, NoneAssumption, DiskAssumption
   DEF Init, WholeInv, RowsFollowInstallers, RowsHaveFiles, DiskInstallsFiles, FilesHaveRows,
       RowsHaveStorage, Busy, Installer

\* A version without overlap has one installer, and had no overlap before.
LEMMA SoleInstaller ==
  ASSUME IInv, [Next]_vars, NEW v \in Version, ~Overlapped(v)'
  PROVE  /\ ~Overlapped(v)
         /\ \A i, j \in Busy : target[i] = v /\ target[j] = v => i = j
<1>1. ~Overlapped(v)
  BY OverlapsStay DEF IInv
<1>2. ASSUME NEW i \in Busy, NEW j \in Busy, target[i] = v, target[j] = v, i # j PROVE FALSE
  <2>1. i \in Package \/ j \in Package
    BY <1>2 DEF Busy, Installer
  <2> QED BY <1>1, <1>2, <2>1, RivalsOverlap DEF IInv
<1> QED BY <1>1, <1>2

LEMMA NextRowsFollowInstallers == WholeInv /\ [Next]_vars => RowsFollowInstallers'
<1> SUFFICES ASSUME WholeInv, [Next]_vars, NEW i \in Busy', ~Overlapped(target[i])'
             PROVE  /\ pc'[i] \in {"find", "removeOld", "move", "save", "removeNew"} =>
                         target'[i] \notin rows'
                    /\ pc'[i] \in Installing => target'[i] \in rows'
  BY DEF RowsFollowInstallers
<1> DEFINE v == target[i]
<1>1. SUFFICES ASSUME pc'[i] # "check"
               PROVE  /\ pc'[i] \in {"find", "removeOld", "move", "save", "removeNew"} =>
                           v \notin rows'
                      /\ pc'[i] \in Installing => v \in rows'
  <2>1. CASE pc'[i] = "check"
    BY <2>1 DEF Installing
  <2>2. CASE pc'[i] # "check"
    <3>1. target'[i] = v
      BY <2>2, StepFacts DEF WholeInv, IInv, ChecksPass, Busy
    <3> QED BY <1>1, <2>2, <3>1
  <2> QED BY <2>1, <2>2
<1>2. i \in Busy /\ v \in Version /\ target'[i] = v /\ (pc[i] = "check" => v \notin rows)
  BY <1>1, StepFacts DEF WholeInv, IInv, ChecksPass, Busy, TypeInv, TargetsAreChosen
<1>3. ~Overlapped(v)'
  BY <1>2 DEF Overlapped
<1>4. ~Overlapped(v) /\ \A j \in Busy : target[j] = v => j = i
  BY <1>2, <1>3, SoleInstaller DEF WholeInv
<1>5. ASSUME v \notin rows, pc'[i] # "load" PROVE v \notin rows'
  BY <1>2, <1>4, <1>5, StepChanges DEF VersionsChange, WholeInv, IInv
<1>6. CASE pc'[i] \in {"find", "removeOld", "move", "save"}
  <2>1. v \notin rows
    BY <1>2, <1>4, <1>6, StepChanges DEF InstallersLeave, WholeInv, IInv, RowsFollowInstallers
  <2> QED BY <1>5, <1>6, <2>1 DEF Installing
<1>7. CASE pc'[i] = "removeNew"
  <2>1. pc[i] = "removeNew" \/ v \notin rows'
    BY <1>2, <1>7, StepChanges DEF InstallersLeave, WholeInv, IInv
  <2> QED BY <1>2, <1>4, <1>5, <1>7, <2>1 DEF WholeInv, RowsFollowInstallers, Installing
<1>8. CASE pc'[i] \in Installing
  <2>1. pc[i] \in Installing \/ v \in rows'
    BY <1>2, <1>8, StepChanges DEF InstallersLeave, WholeInv, IInv
  <2>2. ASSUME pc[i] \in Installing, v \notin rows' PROVE FALSE
    <3>1. v \in rows
      BY <1>2, <1>4, <2>2 DEF WholeInv, RowsFollowInstallers
    <3>2. pc'[i] = "removeNew"
      BY <1>2, <1>4, <2>2, <3>1, StepChanges
         DEF VersionsChange, WholeInv, IInv, Installing, Busy
    <3> QED BY <1>8, <3>2 DEF Installing
  <2> QED BY <1>8, <2>1, <2>2 DEF Installing
<1> QED BY <1>6, <1>7, <1>8

LEMMA NextRowsHaveFiles == WholeInv /\ [Next]_vars => RowsHaveFiles'
<1> SUFFICES ASSUME WholeInv, [Next]_vars, NEW v \in Version, ~Overlapped(v)', v \in rows'
             PROVE  files'[v] # None
  BY DEF RowsHaveFiles
<1>1. /\ ~Overlapped(v)
      /\ \A i, j \in Busy : target[i] = v /\ target[j] = v => i = j
  BY SoleInstaller DEF WholeInv
<1>2. CASE v \in rows
  <2>1. files[v] # None
    BY <1>1, <1>2 DEF WholeInv, RowsHaveFiles
  <2>2. \A i \in Busy : target[i] = v => pc[i] \notin {"removeOld", "removeNew"}
    BY <1>1, <1>2 DEF WholeInv, RowsFollowInstallers
  <2> QED BY <2>1, <2>2, StepChanges DEF VersionsChange, WholeInv, IInv
<1>3. CASE v \notin rows
  <2>1. PICK i \in Busy : target[i] = v /\ pc[i] = "save"
    BY <1>3, StepChanges DEF VersionsChange, WholeInv, IInv
  <2>2. files[v] # None
    <3>1. CASE i = Disk
      BY <2>1, <3>1 DEF WholeInv, DiskInstallsFiles
    <3>2. CASE i \in Package
      BY <1>1, <2>1, <3>2, NoneAssumption DEF WholeInv, IInv, UploadsOwnTheirVersion
    <3> QED BY <3>1, <3>2 DEF Busy, Installer
  <2>3. \A j \in Busy : target[j] = v => pc[j] \notin {"removeOld", "removeNew"}
    BY <1>1, <2>1
  <2> QED BY <2>2, <2>3, StepChanges DEF VersionsChange, WholeInv, IInv
<1> QED BY <1>2, <1>3

\* While the node starts nobody else touches a directory.
LEMMA NextDiskInstallsFiles == WholeInv /\ [Next]_vars => DiskInstallsFiles'
<1> SUFFICES ASSUME WholeInv, [Next]_vars, Disk \in Busy', Disk \in Busy
             PROVE  files'[target'[Disk]] # None
  BY StepChanges DEF DiskInstallsFiles, DiskFindsFiles, WholeInv, IInv
<1> DEFINE v == target[Disk]
<1>1. v \in Version /\ target'[Disk] = v /\ files[v] # None
  BY StepChanges DEF WholeInv, DiskInstallsFiles, InstallersLeave, IInv, TypeInv,
     TargetsAreChosen, Busy
<1>2. \A i \in Busy : i = Disk /\ pc[i] # "removeOld"
  BY DEF WholeInv, IInv, TypeInv, InstallersTakeTurns, Busy, Installer
<1> QED BY <1>1, <1>2, StepChanges DEF VersionsChange, WholeInv, IInv

LEMMA NextFilesHaveRows == WholeInv /\ [Next]_vars => FilesHaveRows'
<1> SUFFICES ASSUME WholeInv, [Next]_vars, node' \in {"up", "stopping"},
                    NEW v \in Version, ~Overlapped(v)', files'[v] # None, v \notin rows'
             PROVE  \E i \in Busy' : target'[i] = v /\ pc'[i] \in {"save", "removeNew"}
  BY DEF FilesHaveRows
<1> USE DEF WholeInv, IInv
<1>1. node \in {"up", "stopping"}
  BY StepChanges DEF VersionsChange
<1>2. \A i \in Busy : target'[i] = target[i]
  BY StepChanges DEF InstallersLeave
<1>3. CASE files[v] = None
  <2>1. PICK i \in Busy' : target[i] = v /\ pc[i] = "move" /\ pc'[i] = "save"
    BY <1>3, StepChanges DEF VersionsChange
  <2>2. i \in Busy
    BY <2>1 DEF Busy
  <2> QED BY <1>2, <2>1, <2>2
<1>4. CASE v \in rows
  <2>1. PICK i \in Busy' : target[i] = v /\ pc[i] \in Installing /\ pc'[i] = "removeNew"
    BY <1>4, StepChanges DEF VersionsChange
  <2>2. i \in Busy
    BY <2>1 DEF Busy, Installing
  <2> QED BY <1>2, <2>1, <2>2
<1>5. CASE files[v] # None /\ v \notin rows
  <2>1. ~Overlapped(v)
    BY SoleInstaller
  <2>2. PICK i \in Busy : target[i] = v /\ pc[i] \in {"save", "removeNew"}
    BY <1>1, <1>5, <2>1 DEF FilesHaveRows
  <2>3. pc'[i] \in {"save", "removeNew"}
    BY <2>2, StepChanges DEF InstallersLeave
  <2>4. i \in Busy'
    BY <2>3 DEF Busy
  <2> QED BY <1>2, <2>2, <2>3, <2>4
<1> QED BY <1>3, <1>4, <1>5

LEMMA NextRowsHaveStorage == WholeInv /\ [Next]_vars => RowsHaveStorage'
<1> SUFFICES ASSUME WholeInv, [Next]_vars, NEW v \in Version, ~Overlapped(v)', v \in rows',
                    storage'[v] # "created"
             PROVE  v \in interrupted'
                    \/ \E i \in Busy' : target'[i] = v /\ pc'[i] \in Installing
  BY DEF RowsHaveStorage
<1> USE DEF WholeInv, IInv
<1>1. \A i \in Busy : target'[i] = target[i] /\ (pc'[i] \in Installing => i \in Busy')
  BY StepChanges DEF InstallersLeave, Busy, Installing
<1>2. CASE v \notin rows
  <2>1. PICK i \in Busy : target[i] = v /\ pc'[i] = "load"
    BY <1>2, StepChanges DEF VersionsChange
  <2> QED BY <1>1, <2>1 DEF Installing
<1>3. CASE v \in rows
  <2>1. storage[v] # "created" /\ ~Overlapped(v)
    BY StepFacts, SoleInstaller DEF VersionsStay
  <2>2. CASE v \in interrupted
    BY <2>2, StepChanges DEF DiskFindsFiles
  <2>3. ASSUME NEW i \in Busy, target[i] = v, pc[i] \in Installing
        PROVE  v \in interrupted' \/ pc'[i] \in Installing
    BY <2>3, StepChanges DEF InstallersLeave
  <2> QED BY <1>1, <1>3, <2>1, <2>2, <2>3 DEF RowsHaveStorage
<1> QED BY <1>2, <1>3

LEMMA NextWholeInv == WholeInv /\ [Next]_vars => WholeInv'
BY NextIInv, NextRowsFollowInstallers, NextRowsHaveFiles, NextDiskInstallsFiles,
   NextFilesHaveRows, NextRowsHaveStorage DEF WholeInv

\* A version nobody is installing is there with its package and its storage, or not
\* at all, unless its installations overlapped or ended with the process.
THEOREM InstalledAlwaysOrAbsent == Spec => []InstalledOrAbsent
<1>1. Spec => []WholeInv
  BY InitWholeInv, NextWholeInv, PTL DEF Spec
<1>2. WholeInv => InstalledOrAbsent
  BY DEF WholeInv, RowsHaveFiles, FilesHaveRows, RowsHaveStorage, InstalledOrAbsent
<1> QED BY <1>1, <1>2, PTL

-----------------------------------------------------------------------------
(* The version that is migrated *)

\* The previous version is chosen by the save, and storage changes between the
\* save and the end of an installation.
PreviousIsKept ==
  /\ \A i \in Installer : pc'[i] \in Installing =>
       Save(i) \/ (i \in Busy /\ pc[i] \in Installing /\ previous'[i] = previous[i])
  /\ \A v \in Version : storage'[v] # storage[v] => \E i \in Busy : target[i] = v

LEMMA StepKeepsPrevious ==
  ASSUME TypeInv, [Next]_vars PROVE PreviousIsKept
<1> USE NoneAssumption, DiskAssumption DEF TypeInv
<1> USE DEF PreviousIsKept, Busy, Installing, TargetsAreChosen, Installer
<1>1. CASE UNCHANGED vars
  BY <1>1 DEF TypeOK, vars, disk, uploads
<1>2. ASSUME NEW p \in Package, NEW v \in Version, Upload(p, v) \/ CopyToDisk(p, v)
      PROVE  PreviousIsKept
  BY <1>2 DEF TypeOK, Upload, CopyToDisk, Goto, disk
<1>3. ASSUME NEW i \in Installer, Install(i) PROVE PreviousIsKept
  <2>1. CASE Check(i) \/ Reject(i)
    BY <2>1, EndFacts DEF Check, Reject, GiveUp, Goto, TypeOK, disk, Pc, Reply
  <2>2. CASE Find(i) \/ Load(i)
    BY <2>2 DEF Find, Load, Goto, TypeOK, disk
  <2>3. CASE RemoveOld(i) \/ Move(i)
    BY <2>3, EndFacts DEF RemoveOld, Move, GiveUp, Goto, TypeOK, disk, Pc, Reply
  <2>4. CASE Save(i)
    BY <2>4 DEF Save, Goto, TypeOK
  <2>5. CASE CreateTables(i)
    BY <2>5, EndFacts DEF CreateTables, RollBack, Goto, TypeOK, Pc, Reply
  <2>6. CASE Migrate(i)
    BY <2>6, EndFacts DEF Migrate, TypeOK, Pc, Reply
  <2>7. CASE Throw(i)
    BY <2>7, EndFacts DEF Throw, RollBack, Goto, TypeOK, Pc, Reply
  <2>8. CASE RemoveNew(i)
    BY <2>8, EndFacts DEF RemoveNew, TypeOK, Pc, Reply
  <2> QED
    BY <1>3, <2>1, <2>2, <2>3, <2>4, <2>5, <2>6, <2>7, <2>8 DEF Install
<1>4. ASSUME NEW p \in Package, Timeout(p) \/ Unpack(p) PROVE PreviousIsKept
  BY <1>4 DEF TypeOK, Timeout, Unpack, disk, uploads
<1>5. ASSUME NEW v \in Version, InstallOnDisk(v) PROVE PreviousIsKept
  BY <1>5 DEF TypeOK, InstallOnDisk, Goto, disk
<1>6. CASE Stop \/ Start \/ Started
  BY <1>6 DEF TypeOK, Stop, Start, Started, disk, uploads
<1>7. CASE Shutdown \/ Crash
  BY <1>7 DEF TypeOK, Shutdown, Crash, Halt, disk
<1> QED
  BY <1>1, <1>2, <1>3, <1>4, <1>5, <1>6, <1>7 DEF Next, StartSteps

(* The packages and the disk take turns, and packages that are busy have met: who *)
(* has met nobody is busy alone.                                                  *)
LEMMA BusyAlone ==
  ASSUME TypeInv, BusyHaveMet, NEW i \in Busy, \A pair \in met : i \notin pair
  PROVE  \A j \in Busy : j = i
<1> SUFFICES ASSUME NEW j \in Busy, j # i PROVE FALSE
  OBVIOUS
<1>1. i \in Package /\ j \in Package
  BY DEF TypeInv, InstallersTakeTurns, Busy, Installer
<1>2. {i, j} \in met
  BY <1>1 DEF BusyHaveMet
<1> QED
  BY <1>2

\* No version is between the one that a save finds and the one it saves.
LEMMA FoundIsPrevious ==
  ASSUME WholeInv, VersionsAreListed, NEW i \in Installer, pc[i] = "save", Save(i),
         \A pair \in met : i \notin pair, CleanBelow(target[i])
  PROVE  IsPrevious(target[i], previous'[i])
<1> DEFINE v == target[i]
           below == {u \in rows : u < v /\ storage[u] = "created"}
           found == Found(v, Listed(v), manifests)
<1>1. i \in Busy /\ v \in Version /\ rows \in SUBSET Version
  BY DEF Busy, WholeInv, IInv, TypeInv, TypeOK, TargetsAreChosen
<1>2. ASSUME NEW w \in rows, w < v
      PROVE  storage[w] = "created" /\ files[w] # None /\ w \in Listed(v)
  <2>1. w \in Version /\ w \notin interrupted /\ ~Overlapped(w)
    BY <1>1, <1>2 DEF CleanBelow
  <2>2. \A j \in Busy : target[j] # w
    <3>1. w # v
      BY <1>1, <1>2, <2>1 DEF Version
    <3> QED
      BY <1>1, <3>1, BusyAlone DEF WholeInv, IInv
  <2> QED
    BY <2>1, <2>2 DEF WholeInv, RowsHaveStorage, RowsHaveFiles, VersionsAreListed, Listed
<1>3. found = below
  <2>1. ASSUME NEW w \in Listed(v), w < v, w \in rows PROVE w \in below
    BY <1>2, <2>1
  <2>2. ASSUME NEW w \in rows, w < v PROVE w \in found
    BY <1>2, <2>2 DEF Found
  <2> QED
    BY <2>1, <2>2 DEF Found
<1>4. previous \in [Installer -> Version \cup {None}]
  BY DEF WholeInv, IInv, TypeInv, TypeOK
<1>5. CASE found = {}
  <2>1. previous'[i] = None
    BY <1>4, <1>5 DEF Save
  <2> QED
    BY <1>3, <1>5, <2>1 DEF IsPrevious
<1>6. CASE found # {}
  <2>1. PICK w \in found : (\A u \in found : u <= w) /\ previous'[i] = w
    BY <1>4, <1>6 DEF Save
  <2> QED
    BY <1>3, <1>6, <2>1 DEF IsPrevious
<1> QED
  BY <1>5, <1>6

\* While one is busy alone, what is below its version stays as it is.
LEMMA BelowStays ==
  ASSUME TypeInv, [Next]_vars, NEW i \in Busy, \A j \in Busy : j = i,
         NEW w \in Version, w # target[i]
  PROVE  (w \in rows' <=> w \in rows) /\ storage'[w] = storage[w]
<1>1. w \in rows' => w \in rows
  BY StepChanges DEF VersionsChange
<1>2. w \in rows => w \in rows'
  BY StepFacts DEF VersionsStay
<1>3. storage'[w] = storage[w]
  BY StepKeepsPrevious DEF PreviousIsKept
<1> QED
  BY <1>1, <1>2, <1>3

LEMMA NextPreviousStaysHighest ==
  WholeInv /\ VersionsAreListed /\ PreviousStaysHighest /\ [Next]_vars => PreviousStaysHighest'
<1> SUFFICES ASSUME WholeInv, VersionsAreListed, PreviousStaysHighest, [Next]_vars,
                    NEW i \in Installer, pc'[i] \in Installing,
                    \A pair \in met' : i \notin pair, CleanBelow(target[i])'
             PROVE  IsPrevious(target[i], previous[i])'
  BY DEF PreviousStaysHighest
<1> USE DEF WholeInv, IInv
<1>1. Save(i) \/ (i \in Busy /\ pc[i] \in Installing /\ previous'[i] = previous[i])
  BY StepKeepsPrevious DEF PreviousIsKept
<1>2. i \in Busy
  BY <1>1 DEF Save, Busy
<1>3. \A pair \in met : i \notin pair
  BY MeetingsStay
<1>4. \A j \in Busy : j = i
  BY <1>2, <1>3, BusyAlone
<1>5. PICK v \in Version : target[i] = v /\ target'[i] = v
  BY <1>2, StepChanges DEF InstallersLeave, TypeInv, TargetsAreChosen, Busy
<1>6. \A w \in Version : w # v => (w \in rows' <=> w \in rows) /\ storage'[w] = storage[w]
  BY <1>2, <1>4, <1>5, BelowStays
<1>7. rows \in SUBSET Version /\ rows' \in SUBSET Version
  BY NextTypeInv DEF TypeInv, TypeOK
<1>8. \A w \in Version : w < v => w # v
  BY DEF Version
<1>9. CleanBelow(v)
  <2>1. \A w \in rows' : w < v => w \notin interrupted' /\ ~Overlapped(w)'
    BY <1>5 DEF CleanBelow
  <2>2. \A w \in rows : w < v => w \notin interrupted /\ ~Overlapped(w)
    BY <1>6, <1>7, <1>8, <2>1, StepChanges, OverlapsStay DEF DiskFindsFiles
  <2> QED
    BY <2>2 DEF CleanBelow
<1>10. {u \in rows' : u < v /\ storage'[u] = "created"} = {u \in rows : u < v /\ storage[u] = "created"}
  BY <1>6, <1>7, <1>8
<1>11. IsPrevious(v, previous'[i])
  <2>1. CASE Save(i)
    BY <1>3, <1>5, <1>9, <2>1, FoundIsPrevious DEF Save
  <2>2. CASE pc[i] \in Installing /\ previous'[i] = previous[i]
    BY <1>3, <1>5, <1>9, <2>2 DEF PreviousStaysHighest
  <2> QED
    BY <1>1, <2>1, <2>2
<1> QED
  BY <1>5, <1>10, <1>11 DEF IsPrevious

\* StorageEngineRegistry.create: an installation that overlaps with no other migrates
\* the highest version installed below its own, whatever the cached list still names.
THEOREM AlwaysMigratesFromPrevious == Spec => MigratesFromPrevious
<1> DEFINE Migrated(i) == LET v == target[i]
                          IN  /\ pc[i] = "migrate" /\ storage'[v] # storage[v]
                              /\ \A pair \in met : i \notin pair
                              /\ CleanBelow(v)
                              => IsPrevious(v, previous[i])
<1>1. Init => PreviousStaysHighest
  BY DEF Init, PreviousStaysHighest, Installing
<1>2. Spec => []WholeInv
  BY InitWholeInv, NextWholeInv, PTL DEF Spec
<1>3. Spec => []PreviousStaysHighest
  BY <1>1, <1>2, VersionsAreAlwaysListed, NextPreviousStaysHighest, PTL DEF Spec
<1>4. PreviousStaysHighest => \A i \in Installer : Migrated(i)
  BY DEF PreviousStaysHighest, Installing
<1> QED
  BY <1>3, <1>4, PTL DEF MigratesFromPrevious
=============================================================================
