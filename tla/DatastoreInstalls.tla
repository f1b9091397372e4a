--------------------------- MODULE DatastoreInstalls ---------------------------
(***************************************************************************)
(* The versions of one datastore on one node.  A package is uploaded while *)
(* the node runs, or copied into its directory while it is down, to be     *)
(* installed at the next start.  The registry moves the package in place,  *)
(* saves a row, and has the storage engine create the tables of the        *)
(* version and migrate the version before; if that fails it rolls back.    *)
(* The work tracker answers uploads that take too long, and a shutdown     *)
(* waits for the answers, not for the installations.                       *)
(*                                                                         *)
(* Rows, directories and storage survive a restart; the list of versions   *)
(* and the opened manifests are caches of the process.  A step goes to the *)
(* next await.                                                             *)
(***************************************************************************)
EXTENDS Integers

CONSTANTS
  Package,     \* packages of the datastore, each installed at most once
  Disk,        \* installOnDiskUploads, which installs what a start finds
  MaxVersion,  \* versions of the datastore are 1 .. MaxVersion
  MaxCrashes,  \* bound on crashes of the node
  None

Version == 1 .. MaxVersion
Installer == Package \cup {Disk}

ASSUME BoundsAssumption == MaxVersion \in Nat \ {0} /\ MaxCrashes \in Nat
ASSUME NoneAssumption ==
  /\ None \notin Package \cup Version
  /\ \A known \in SUBSET Version : known # None
ASSUME DiskAssumption == Disk \notin Package

Pc == {"idle", "check", "find", "removeOld", "move", "save", "load",
       "createTables", "migrate", "removeNew", "done"}
\* Where onInstalled waits: from the row to the end of the callback.
Installing == {"load", "createTables", "migrate"}

VARIABLES
  rows,        \* versions with a row in DatastoreVersions
  files,       \* the package in the .dbx directory of a version
  archives,    \* packages that were copied as .dbx.tgz
  storage,     \* the database of a version, at the storage engine
  versions,    \* versionsById: the list of versions, once it was asked for
  manifests,   \* versions whose manifest is in openedManifestsByDbxPath
  pc,          \* where each installer waits
  target,      \* the version it installs
  previous,    \* the version it migrates, if any
  reply,       \* what the uploader of a package was answered
  node,        \* the process
  awaited,     \* the uploads that WorkTracker.stop waits for
  crashes,
  met,         \* history: pairs of packages whose installations overlapped
  interrupted  \* history: versions whose installation ended with the process

disk == <<rows, files, archives, storage>>
caches == <<versions, manifests>>
uploads == <<pc, target, previous, reply>>
history == <<crashes, met, interrupted>>
vars == <<disk, caches, uploads, node, awaited, history>>

TypeOK ==
  /\ rows \in SUBSET Version
  /\ files \in [Version -> Package \cup {None}]
  /\ archives \in SUBSET Package
  /\ storage \in [Version -> {"none", "partial", "created"}]
  /\ versions = None \/ versions \in SUBSET Version
  /\ manifests \in SUBSET Version
  /\ pc \in [Installer -> Pc]
  /\ target \in [Installer -> Version \cup {None}]
  /\ previous \in [Installer -> Version \cup {None}]
  /\ reply \in [Package -> {"none", "installed", "duplicate", "error"}]
  /\ node \in {"up", "stopping", "down", "starting"}
  /\ awaited \in SUBSET Package
  /\ crashes \in Nat
  /\ met \in SUBSET (SUBSET Package)
  /\ interrupted \in SUBSET Version

Init ==
  /\ rows = {}
  /\ files = [v \in Version |-> None]
  /\ archives = {}
  /\ storage = [v \in Version |-> "none"]
  /\ versions = None
  /\ manifests = {}
  /\ pc = [i \in Installer |-> "idle"]
  /\ target = [i \in Installer |-> None]
  /\ previous = [i \in Installer |-> None]
  /\ reply = [p \in Package |-> "none"]
  /\ node = "up"
  /\ awaited = {}
  /\ crashes = 0
  /\ met = {}
  /\ interrupted = {}

Goto(i, label) == pc' = [pc EXCEPT ![i] = label]

\* Mutated: those that never began count.
BusyUnlessDone == {i \in Installer : pc[i] # "done"}

\* Installations that did not end.
Busy == {i \in Installer : pc[i] \notin {"idle", "done"}}

\* An installation ends: an upload is answered, unless it was before; the disk's
\* goes on with the next directory, or ends the start of the node.
End(i, outcome) ==
  /\ Goto(i, "done")
  /\ \/ /\ i # Disk
        /\ reply' = [reply EXCEPT ![i] = IF @ = "none" THEN outcome ELSE @]
        /\ UNCHANGED node
     \/ /\ i = Disk
        /\ node' = IF outcome = "error" THEN "down" ELSE node
        /\ UNCHANGED reply

-----------------------------------------------------------------------------
(* DatastoreRegistryDiskStore.install *)

\* Datastore.upload: the package is tracked and unpacked.
Upload(p, v) ==
  /\ node \in {"up", "stopping"}
  /\ pc[p] = "idle"
  /\ Goto(p, "check")
  /\ target' = [target EXCEPT ![p] = v]
  /\ met' = met \cup {{p, q} : q \in Busy}
  /\ UNCHANGED <<disk, caches, previous, reply, node, awaited, crashes, interrupted>>

\* Mutated: what cannot be installed is left in the directory of the datastores.
GiveUpInPlace(i) ==
  /\ End(i, "error")
  /\ UNCHANGED <<disk, caches, target, previous, awaited, history>>

\* install throws before it saved anything.  A package on disk is removed.
GiveUp(i) ==
  /\ \/ i # Disk /\ End(i, "error")
     \/ i = Disk /\ Goto(i, "removeNew") /\ UNCHANGED <<reply, node>>
  /\ UNCHANGED <<disk, caches, target, previous, awaited, history>>

\* Mutated: an installed version is installed again.
IsInstalledNever(i) == FALSE

IsInstalled(i) == target[i] \in rows

\* A version is installed once; the package may be invalid or not authorized.
Check(i) ==
  /\ pc[i] = "check"
  /\ \/ IsInstalled(i) /\ End(i, "duplicate")
     \/ /\ ~IsInstalled(i)
        /\ Goto(i, IF i = Disk THEN "save" ELSE "find")
        /\ UNCHANGED <<reply, node>>
  /\ UNCHANGED <<disk, caches, target, previous, awaited, history>>

Reject(i) == pc[i] = "check" /\ ~IsInstalled(i) /\ GiveUp(i)

\* existsAsync(dbxPath)
Find(i) ==
  /\ pc[i] = "find"
  /\ Goto(i, IF files[target[i]] = None THEN "move" ELSE "removeOld")
  /\ UNCHANGED <<disk, caches, target, previous, reply, node, awaited, history>>

\* Fs.rm throws when the directory is gone meanwhile.
RemoveOld(i) ==
  /\ pc[i] = "removeOld"
  /\ \/ /\ files[target[i]] # None
        /\ files' = [files EXCEPT ![target[i]] = None]
        /\ Goto(i, "move")
        /\ UNCHANGED <<rows, archives, storage, caches, target, previous, reply,
                       node, awaited, history>>
     \/ files[target[i]] = None /\ GiveUp(i)

\* Fs.rename throws when there is a directory meanwhile.
Move(i) ==
  /\ pc[i] = "move"
  /\ \/ /\ files[target[i]] = None
        /\ files' = [files EXCEPT ![target[i]] = i]
        /\ Goto(i, "save")
        /\ UNCHANGED <<rows, archives, storage, caches, target, previous, reply,
                       node, awaited, history>>
     \/ files[target[i]] # None /\ GiveUp(i)

\* Mutated: a list that was loaded is not told of the version.
ListedUntold(v) == IF versions = None THEN rows \cup {v} ELSE versions

\* getDatastoreVersions loads the list, updateDatastoreVersionCache adds to it.
Listed(v) == (IF versions = None THEN rows ELSE versions) \cup {v}

\* Mutated: only versions that were opened by this process are found.
FoundOpened(v, known, opened) == {w \in known : w < v /\ w \in opened}

\* getPreviousInstalledVersion asks for the manifest of each listed version
\* below; a version that was rolled back is still listed, but has no row.
Found(v, known, opened) ==
  {w \in known : w < v /\ w \in rows /\ (w \in opened \/ files[w] # None)}

\* saveManifestMetadata, and the begin of onInstalled.
Save(i) ==
  LET v == target[i]
      found == Found(v, Listed(v), manifests)
  IN  /\ pc[i] = "save"
      /\ rows' = rows \cup {v}
      /\ versions' = Listed(v)
      /\ \/ /\ found = {}
            /\ previous' = [previous EXCEPT ![i] = None]
            /\ manifests' = manifests \cup {v}
         \/ \E w \in found :
              /\ \A u \in found : u <= w
              /\ previous' = [previous EXCEPT ![i] = w]
              /\ manifests' = manifests \cup {v, w}
      /\ Goto(i, "load")
      /\ UNCHANGED <<files, archives, storage, target, reply, node, awaited, history>>

-----------------------------------------------------------------------------
(* onInstalled: StorageEngineRegistry.create, and the roll back *)

\* The row and then the files are removed; the caches keep the version.  Without
\* a row, the record has no dbxPath and the roll back throws.
RollBack(i) ==
  LET v == target[i]
  IN  /\ rows' = rows \ {v}
      /\ \/ /\ v \in rows \/ i = Disk
            /\ Goto(i, "removeNew")
            /\ UNCHANGED <<reply, node>>
         \/ /\ v \notin rows /\ i # Disk
            /\ End(i, "error")
      /\ UNCHANGED <<files, archives, storage, caches, target, previous, awaited, history>>

\* The scripts of the version and of the previous one are compiled and run.
Load(i) ==
  /\ pc[i] = "load"
  /\ files[target[i]] # None
  /\ previous[i] # None => files[previous[i]] # None
  /\ Goto(i, "createTables")
  /\ UNCHANGED <<disk, caches, target, previous, reply, node, awaited, history>>

\* Mutated: storage that exists is taken to be complete.
CreateTablesUnlessStored(i) ==
  /\ pc[i] = "createTables"
  /\ \/ /\ storage[target[i]] = "none"
        /\ storage' = [storage EXCEPT ![target[i]] = "partial"]
        /\ Goto(i, "migrate")
        /\ UNCHANGED <<rows, files, archives, caches, target, previous, reply,
                       node, awaited, history>>
     \/ /\ storage[target[i]] # "none"
        /\ End(i, "installed")
        /\ UNCHANGED <<disk, caches, target, previous, awaited, history>>

\* The tables of an earlier installation are never removed, and CREATE TABLE
\* throws if there are any.
CreateTables(i) ==
  /\ pc[i] = "createTables"
  /\ \/ /\ storage[target[i]] = "none"
        /\ storage' = [storage EXCEPT ![target[i]] = "partial"]
        /\ Goto(i, "migrate")
        /\ UNCHANGED <<rows, files, archives, caches, target, previous, reply,
                       node, awaited, history>>
     \/ storage[target[i]] # "none" /\ RollBack(i)

\* onCreated and onVersionMigrated of the datastore and its tables return.
Migrate(i) ==
  /\ pc[i] = "migrate"
  /\ storage' = [storage EXCEPT ![target[i]] = "created"]
  /\ End(i, "installed")
  /\ UNCHANGED <<rows, files, archives, caches, target, previous, awaited, history>>

\* A script or a callback of the datastore throws.
Throw(i) == pc[i] \in {"load", "migrate"} /\ RollBack(i)

RemoveNew(i) ==
  /\ pc[i] = "removeNew"
  /\ files' = [files EXCEPT ![target[i]] = None]
  /\ End(i, "error")
  /\ UNCHANGED <<rows, archives, storage, caches, target, previous, awaited, history>>

-----------------------------------------------------------------------------
(* WorkTracker, and the life of the node *)

\* Mutated: uploads are not timed out.
TimedOutNever(p) == FALSE

TimedOut(p) == p \in Busy

\* The promise of trackUpload is rejected after 30 seconds; the installation
\* goes on.
Timeout(p) ==
  /\ TimedOut(p)
  /\ reply[p] = "none"
  /\ reply' = [reply EXCEPT ![p] = "error"]
  /\ UNCHANGED <<disk, caches, pc, target, previous, node, awaited, history>>

\* DatastoreCore.close: WorkTracker.stop takes the uploads it finds.  Requests
\* are handled until it is done.
Stop ==
  /\ node = "up"
  /\ node' = "stopping"
  /\ awaited' = Busy
  /\ UNCHANGED <<disk, caches, uploads, history>>

\* The process ends.
Halt ==
  /\ node' = "down"
  /\ awaited' = {}
  /\ versions' = None
  /\ manifests' = {}
  /\ pc' = [i \in Installer |-> IF i \in Busy THEN "done" ELSE pc[i]]
  /\ reply' = [p \in Package |-> IF p \in Busy /\ reply[p] = "none" THEN "error"
                                                                   ELSE reply[p]]
  /\ interrupted' = interrupted \cup {target[i] : i \in Busy}
  /\ UNCHANGED <<disk, target, previous, met>>

Shutdown ==
  /\ node = "stopping"
  /\ \A p \in awaited : reply[p] # "none"
  /\ Halt
  /\ UNCHANGED crashes

Crash ==
  /\ node # "down"
  /\ crashes < MaxCrashes
  /\ crashes' = crashes + 1
  /\ Halt

\* A package is copied into the directory of the datastores, as a .dbx or as a
\* .dbx.tgz that installOnDiskUploads unpacks.
CopyToDisk(p, v) ==
  /\ node = "down"
  /\ pc[p] = "idle"
  /\ files[v] = None /\ \A q \in archives : target[q] # v
  /\ Goto(p, "done")
  /\ target' = [target EXCEPT ![p] = v]
  /\ \/ files' = [files EXCEPT ![v] = p] /\ UNCHANGED archives
     \/ archives' = archives \cup {p} /\ UNCHANGED files
  /\ UNCHANGED <<rows, storage, caches, previous, reply, node, awaited, history>>

Start ==
  /\ node = "down"
  /\ node' = "starting"
  /\ UNCHANGED <<disk, caches, uploads, awaited, history>>

\* What installOnDiskUploads has yet to do.
ToUnpack == {p \in archives : files[target[p]] = None}
ToInstall == {v \in Version : files[v] # None /\ v \notin rows}
Starting == node = "starting" /\ Disk \notin Busy

Unpack(p) ==
  /\ Starting
  /\ p \in ToUnpack
  /\ files' = [files EXCEPT ![target[p]] = p]
  /\ UNCHANGED <<rows, archives, storage, caches, uploads, node, awaited, history>>

InstallOnDisk(v) ==
  /\ Starting
  /\ v \in ToInstall
  /\ Goto(Disk, "check")
  /\ target' = [target EXCEPT ![Disk] = v]
  /\ UNCHANGED <<disk, caches, previous, reply, node, awaited, history>>

Started ==
  /\ Starting
  /\ ToUnpack = {} /\ ToInstall = {}
  /\ node' = "up"
  /\ UNCHANGED <<disk, caches, uploads, awaited, history>>

-----------------------------------------------------------------------------
Install(i) ==
  \/ Check(i) \/ Reject(i) \/ Find(i) \/ RemoveOld(i) \/ Move(i) \/ Save(i)
  \/ Load(i) \/ CreateTables(i) \/ Migrate(i) \/ Throw(i) \/ RemoveNew(i)

StartSteps ==
  \/ Start
  \/ \E p \in Package : Unpack(p)
  \/ \E v \in Version : InstallOnDisk(v)
  \/ Install(Disk)
  \/ Started

Next ==
  \/ \E p \in Package :
       \/ \E v \in Version : Upload(p, v) \/ CopyToDisk(p, v)
       \/ Install(p)
       \/ Timeout(p)
  \/ StartSteps
  \/ Stop
  \/ Shutdown
  \/ Crash

\* Timers fire, a node that is down is started, and a start goes on.  Uploads may
\* wait forever for the code of their package.
Fairness ==
  /\ \A p \in Package : WF_vars(Timeout(p))
  /\ WF_vars(Shutdown)
  /\ WF_vars(StartSteps)

Spec == Init /\ [][Next]_vars /\ Fairness

-----------------------------------------------------------------------------
(* Properties *)

\* Two installations of one version overlapped: see the README for what follows.
Overlapped(v) == \E pair \in met : \A p \in pair : target[p] = v

Installed(v, p) == v \in rows /\ files[v] = p /\ storage[v] = "created"

\* What was answered to be installed stays so, with the package of that answer:
\* whatever else is uploaded, rolled back or found on disk, and however the
\* process ends.
InstalledStaysInstalled ==
  \A p \in Package : reply[p] = "installed" /\ ~Overlapped(target[p]) =>
    Installed(target[p], p)

\* Once nobody installs a version it is there with its package and its storage, or
\* not at all: no failure leaves half of it, also not that of a second attempt.
\* (An installation that ended with the process may have a row before it has
\* storage.)
InstalledOrAbsent ==
  node \in {"up", "stopping"} =>
    \A v \in Version : ~Overlapped(v) /\ (\A i \in Busy : target[i] # v) =>
      /\ v \in rows <=> files[v] # None
      /\ v \in rows => storage[v] = "created" \/ v \in interrupted

\* The cached list misses no version that is installed: none would be migrated
\* from it, nor be the latest.
VersionsAreListed == versions # None => rows \subseteq versions

\* The rows below a version are of installations nothing went wrong with.
CleanBelow(v) ==
  \A w \in rows : w < v => w \notin interrupted /\ ~Overlapped(w)

\* w is the highest version below v that is installed, or None.
IsPrevious(v, w) ==
  LET below == {u \in rows : u < v /\ storage[u] = "created"}
  IN  IF below = {} THEN w = None ELSE w \in below /\ \A u \in below : u <= w

\* An installation that overlapped with no other migrates the highest version
\* installed below it, whatever was rolled back and forgotten in between.
MigratesFromPrevious ==
  [][\A i \in Installer :
       LET v == target[i]
       IN  /\ pc[i] = "migrate" /\ storage'[v] # storage[v]
           /\ \A pair \in met : i \notin pair
           /\ CleanBelow(v)
           => IsPrevious(v, previous[i])]_vars

\* A node that is started often enough starts: a start that fails removes the
\* package it failed at.  (Not if it is unpacked again from a .dbx.tgz.)
StartsSucceed == node = "down" ~> node = "up" \/ archives # {}

\* A shutdown ends, though the code of a package may never return.
ShutdownEnds == node = "stopping" ~> node = "down"

(* The inductive invariant behind InstalledStaysInstalled and InstalledOrAbsent,
   see DatastoreInstalls_proofs. *)

\* A package has a target from its first step on.
TargetsAreChosen ==
  /\ \A i \in Installer : pc[i] # "idle" => target[i] \in Version
  /\ \A p \in Package : pc[p] = "idle" => target[p] = None
  /\ \A p \in archives : pc[p] # "idle"

\* Uploads are installed while the node is up, and what is on disk while it starts,
\* in place.
InstallersTakeTurns ==
  /\ \A p \in Package : p \in Busy => node \in {"up", "stopping"}
  /\ Disk \in Busy => node = "starting"
  /\ pc[Disk] \notin {"find", "removeOld", "move"}

\* Uploads that are being installed have met.
BusyHaveMet == \A p, q \in Package : p # q /\ {p, q} \subseteq Busy => {p, q} \in met

\* From the move on, the directory is the package's; from the save on, so is the row.
UploadsOwnTheirVersion ==
  \A p \in Package : ~Overlapped(target[p]) =>
    /\ pc[p] \in {"save"} \cup Installing => files[target[p]] = p
    /\ pc[p] \in Installing => target[p] \in rows

\* A version that was answered to be installed is not installed again.
InstalledOnce ==
  \A p \in Package : reply[p] = "installed" =>
    /\ pc[p] = "done"
    /\ \A i \in Busy : target[i] = target[p] /\ pc[i] # "check" => Overlapped(target[p])

\* An installer has no row until it saves one, and none when it removes the files.
RowsFollowInstallers ==
  \A i \in Busy : ~Overlapped(target[i]) =>
    /\ pc[i] \in {"find", "removeOld", "move", "save", "removeNew"} => target[i] \notin rows
    /\ pc[i] \in Installing => target[i] \in rows

\* A row has its files, files that have no row are being installed or removed, and
\* a row without storage is being installed, or was when the process ended.
RowsHaveFiles ==
  \A v \in Version : ~Overlapped(v) /\ v \in rows => files[v] # None
DiskInstallsFiles == Disk \in Busy => files[target[Disk]] # None
FilesHaveRows ==
  node \in {"up", "stopping"} =>
    \A v \in Version : ~Overlapped(v) /\ files[v] # None /\ v \notin rows =>
      \E i \in Busy : target[i] = v /\ pc[i] \in {"save", "removeNew"}
RowsHaveStorage ==
  \A v \in Version : ~Overlapped(v) /\ v \in rows /\ storage[v] # "created" =>
    v \in interrupted \/ \E i \in Busy : target[i] = v /\ pc[i] \in Installing

\* An installation that overlaps with no other keeps the highest version installed
\* below it as the one it migrates: nobody else changes the rows meanwhile.
PreviousStaysHighest ==
  \A i \in Installer :
    /\ pc[i] \in Installing
    /\ \A pair \in met : i \notin pair
    /\ CleanBelow(target[i])
    => IsPrevious(target[i], previous[i])
=============================================================================
