---------------------------- MODULE SeededState ----------------------------
(***************************************************************************)
(* How a role gets its retained disk: the first replacement of its guest   *)
(* takes the state out of the old root, later ones attach the same disk.   *)
(*                                                                         *)
(* The old guest is stopped and a guest without a network, the finalizer,  *)
(* prepares the clone of the new root and the disk.  It may be lost at any *)
(* step and is then booted again by the same operation, or the operation   *)
(* is given up: the old guest runs again and a later operation starts      *)
(* over.  The router's disk carries one marker with its stage; the disks   *)
(* of ops and air carry a progress record, a receipt and a marker.         *)
(***************************************************************************)
EXTENDS Naturals, FiniteSets

CONSTANTS
    Files,       \* the files and directories of a role's state
    MaxChanges,  \* bound: times one of them changes
    Attempts,    \* bound: replacement operations
    Losses       \* bound: finalizers lost

ASSUME SeedAssumption == MaxChanges \in Nat /\ Attempts \in Nat /\ Losses \in Nat

VARIABLES
    role,     \* "router", "air" or "ops"
    live,     \* the guest in production runs
    home,     \* where it keeps its state: "root" or "disk"
    root,     \* the state on the old root
    written,  \* what production has written
    op,       \* number of the last operation
    stage,    \* how far it is
    clone,    \* the root it prepares
    disk,     \* the retained disk as its guest sees it
    safe,     \* the retained disk without what is only in memory
    fin,      \* the finalizer, or Away
    losses

seeds == <<role, live, home, root, written, op, stage, clone, disk, safe, fin, losses>>

Changes == 0 .. MaxChanges
Torn == 0 .. MaxChanges + 1   \* contents that are no version

Away == [at |-> "away"]

\* A disk zeroed by the allocator, and the mirror volume ops has already.
Zeroed == [fs |-> "blank", by |-> 0, proof |-> {}, receipt |-> 0, ready |-> FALSE,
           files |-> [f \in Files |-> {}]]
Mirror == [Zeroed EXCEPT !.fs = "ext4"]

\* A cloned image: no management account, the owners of its own packages.
Image == [tables |-> 0, owners |-> FALSE, storage |-> FALSE]

SeedTypeOK ==
    LET Disk == [fs : {"blank", "torn", "ext4"}, by : 0 .. Attempts,
                 proof : {{}} \cup {{r} : r \in [Files -> Changes]},
                 receipt : 0 .. Attempts, ready : BOOLEAN, files : [Files -> SUBSET Torn]]
    IN  /\ role \in {"router", "air", "ops"} /\ live \in BOOLEAN /\ home \in {"root", "disk"}
        /\ root \in [Files -> Changes] /\ written \in [Files -> Changes]
        /\ op \in 0 .. Attempts
        /\ stage \in {"none", "prepared", "stopped", "finalized", "started"}
        /\ clone \in [tables : 0 .. 3, owners : BOOLEAN, storage : BOOLEAN]
        /\ disk \in Disk /\ safe \in Disk
        /\ fin = Away \/ fin.left \subseteq Files
        /\ losses \in 0 .. Losses

SeedInit ==
    /\ role \in {"router", "air", "ops"}
    /\ live = TRUE /\ home = "root"
    /\ root = [f \in Files |-> 0] /\ written = root
    /\ op = 0 /\ stage = "none" /\ clone = Image
    /\ disk = (IF role = "ops" THEN Mirror ELSE Zeroed) /\ safe = disk
    /\ fin = Away /\ losses = 0

-----------------------------------------------------------------------------
(* Production, and the operation on dom0.                                  *)

Change(f) ==
    /\ live /\ written[f] < MaxChanges
    /\ written' = [written EXCEPT ![f] = @ + 1]
    /\ IF home = "root"
       THEN root' = [root EXCEPT ![f] = @ + 1] /\ UNCHANGED <<disk, safe>>
       ELSE \E v \in Changes :
               /\ disk.files[f] = {v} /\ v < MaxChanges
               /\ disk' = [disk EXCEPT !.files[f] = {v + 1}]
               /\ safe' = [safe EXCEPT !.files[f] = {v + 1}]
               /\ root' = root
    /\ UNCHANGED <<role, live, home, op, stage, clone, fin, losses>>

\* A role without a retained disk gets one of the operation's own; only the
\* mirror volume of ops was there before and is used by every operation.
Initialize == home = "root" /\ role # "ops"

PrepareRoot ==
    /\ stage \in {"none", "started"} /\ op < Attempts
    /\ op' = op + 1 /\ stage' = "prepared" /\ clone' = Image
    /\ IF Initialize THEN disk' = Zeroed /\ safe' = Zeroed ELSE UNCHANGED <<disk, safe>>
    /\ UNCHANGED <<role, live, home, root, written, fin, losses>>

StopGuest ==
    /\ stage = "prepared"
    /\ stage' = "stopped" /\ live' = FALSE
    /\ UNCHANGED <<role, home, root, written, op, clone, disk, safe, fin, losses>>

\* The router's account is written only where there is none.
FirstStep == IF role # "router" THEN "mount" ELSE IF clone.tables = 0 THEN "tables" ELSE "account"

\* The same operation boots it again when an earlier one was lost.
BootFinalizer ==
    /\ stage = "stopped" /\ fin = Away
    /\ fin' = [at |-> FirstStep, left |-> Files]
    /\ UNCHANGED <<role, live, home, root, written, op, stage, clone, disk, safe, losses>>

\* The attempt is given up and the stopped guest runs again.
RecoverGuest ==
    /\ stage \in {"prepared", "stopped", "finalized"} /\ fin = Away
    /\ stage' = "none" /\ live' = TRUE
    /\ UNCHANGED <<role, home, root, written, op, clone, disk, safe, fin, losses>>

\* Every boot verifies the disk before a service of the guest starts.
RouterStateVerified == disk.fs = "ext4" /\ disk.ready /\ clone.storage
ControlStateVerified == disk.fs = "ext4" /\ disk.ready /\ clone.storage

StartGuest ==
    /\ stage = "finalized"
    /\ IF role = "router" THEN RouterStateVerified ELSE ControlStateVerified
    /\ stage' = "started" /\ live' = TRUE /\ home' = "disk"
    /\ UNCHANGED <<role, root, written, op, clone, disk, safe, fin, losses>>

-----------------------------------------------------------------------------
(* The finalizer: the clone of the router's root.                          *)

In(phase) == fin # Away /\ fin.at = phase
Then(phase) == fin' = [fin EXCEPT !.at = phase]
Outside == UNCHANGED <<role, live, home, root, written, op, stage, losses>>

\* passwd, group and shadow, each replaced at once.
WriteTable ==
    /\ In("tables")
    /\ clone' = [clone EXCEPT !.tables = @ + 1]
    /\ Then(IF clone.tables = 2 THEN "account" ELSE "tables")
    /\ UNCHANGED <<disk, safe>> /\ Outside

AccountIsWhole == clone.tables = 3

RestoreOwners ==
    /\ In("account") /\ AccountIsWhole
    /\ clone' = [clone EXCEPT !.owners = TRUE]
    /\ Then("mount")
    /\ UNCHANGED <<disk, safe>> /\ Outside

-----------------------------------------------------------------------------
(* The filesystem of the retained disk.                                    *)

\* Only the router's finalizer reads the whole disk first: what an
\* interrupted mkfs left is not blank to it.
MayFormat == Initialize /\ (disk.fs = "blank" \/ (role # "router" /\ disk.fs = "torn"))

FormatDisk ==
    /\ In("mount") /\ MayFormat
    /\ Then("format")
    /\ UNCHANGED <<clone, disk, safe>> /\ Outside

MountDisk ==
    /\ In("mount") \/ In("format")
    /\ (In("mount") => disk.fs = "ext4")
    /\ disk' = [disk EXCEPT !.fs = "ext4"] /\ safe' = [safe EXCEPT !.fs = "ext4"]
    /\ Then(IF role = "router" THEN "initialize" ELSE "seed")
    /\ clone' = clone /\ Outside

-----------------------------------------------------------------------------
(* The router's state: every write is synced before the next.              *)

NoState(d) == \A f \in Files : d.files[f] = {}
HoldsRoot(d) == \A f \in Files : d.files[f] = {root[f]}

Synced(d) == disk' = d /\ safe' = d

InitializeMarker ==
    /\ In("initialize") /\ home = "root"
    /\ disk.by \in {0, op} /\ (disk.by = 0 => NoState(disk))
    /\ Synced([disk EXCEPT !.by = op])
    /\ Then("migrate")
    /\ clone' = clone /\ Outside

SourceUnchanged == disk.proof \in {{}, {root}}

\* What is ready is not written again.
KeepReady ==
    /\ In("migrate") /\ disk.ready
    /\ SourceUnchanged /\ HoldsRoot(disk)
    /\ Then("configure")
    /\ UNCHANGED <<clone, disk, safe>> /\ Outside

BeginMigration ==
    /\ In("migrate") /\ ~disk.ready
    /\ SourceUnchanged
    /\ Synced([disk EXCEPT !.proof = {root}])
    /\ Then("files")
    /\ clone' = clone /\ Outside

WriteFile(f) ==
    /\ In("files") /\ f \in fin.left
    /\ Synced([disk EXCEPT !.files[f] = {root[f]}])
    /\ fin' = [fin EXCEPT !.left = @ \ {f}]
    /\ clone' = clone /\ Outside

CompleteMigration ==
    /\ In("files") /\ fin.left = {}
    /\ HoldsRoot(disk)
    /\ Synced([disk EXCEPT !.ready = TRUE])
    /\ Then("configure")
    /\ clone' = clone /\ Outside

AttachRouter ==
    /\ In("initialize") /\ home = "disk"
    /\ disk.ready
    /\ Then("configure")
    /\ UNCHANGED <<clone, disk, safe>> /\ Outside

ConfigureRouter ==
    /\ In("configure") /\ role = "router"
    /\ clone' = [clone EXCEPT !.storage = TRUE]
    /\ Then("report")
    /\ UNCHANGED <<disk, safe>> /\ Outside

-----------------------------------------------------------------------------
(* The state of ops and air: copied, and synced before the receipt.        *)

\* An old root is not restored over state that was adopted; a migration
\* that finds the disk ready must be the one that made it ready.
SeededByThis == home = "disk" \/ disk.receipt = op

KeepAdopted ==
    /\ In("seed") /\ disk.ready
    /\ SeededByThis
    /\ Then("configure")
    /\ UNCHANGED <<clone, disk, safe>> /\ Outside

BegunByThis == disk.by = op \/ (disk.by = 0 /\ NoState(disk))

BeginSeed ==
    /\ In("seed") /\ ~disk.ready /\ home = "root"
    /\ BegunByThis
    /\ disk' = [disk EXCEPT !.by = op] /\ safe' = [safe EXCEPT !.by = op]
    /\ Then("states")
    /\ clone' = clone /\ Outside

CopyState(f) ==
    /\ In("states") /\ f \in fin.left
    /\ disk' = [disk EXCEPT !.files[f] = {root[f]}]
    /\ fin' = [fin EXCEPT !.left = @ \ {f}]
    /\ UNCHANGED <<safe, clone>> /\ Outside

ReceiptUnsynced ==
    /\ In("states") /\ fin.left = {}
    /\ disk' = [disk EXCEPT !.receipt = op] /\ safe' = [safe EXCEPT !.receipt = op]
    /\ Then("marker")
    /\ clone' = clone /\ Outside

WriteReceipt ==
    /\ In("states") /\ fin.left = {}
    /\ Synced([disk EXCEPT !.receipt = op])
    /\ Then("marker")
    /\ clone' = clone /\ Outside

WriteMarker ==
    /\ In("marker")
    /\ disk' = [disk EXCEPT !.ready = TRUE] /\ safe' = [safe EXCEPT !.ready = TRUE]
    /\ Then("unlink")
    /\ clone' = clone /\ Outside

RemoveProgress ==
    /\ In("unlink")
    /\ Synced([disk EXCEPT !.by = 0])
    /\ Then("configure")
    /\ clone' = clone /\ Outside

ConfigureControl ==
    /\ In("configure") /\ role # "router"
    /\ clone' = [clone EXCEPT !.storage = TRUE]
    /\ Then("report")
    /\ UNCHANGED <<disk, safe>> /\ Outside

-----------------------------------------------------------------------------
(* How a finalizer ends.                                                   *)

Report ==
    /\ In("report")
    /\ fin' = Away /\ stage' = "finalized"
    /\ UNCHANGED <<role, live, home, root, written, op, clone, disk, safe, losses>>

RefuseClone == In("account") /\ ~AccountIsWhole
RefuseDisk == In("mount") /\ disk.fs # "ext4" /\ ~MayFormat
RefuseState ==
    /\ In("seed")
    /\ IF disk.ready THEN ~SeededByThis ELSE ~BegunByThis

RefuseToFinalize ==
    /\ RefuseClone \/ RefuseDisk \/ RefuseState
    /\ fin' = Away
    /\ UNCHANGED <<clone, disk, safe>> /\ Outside

\* What the disk may hold when its guest was lost.
MayHold(f) ==
    IF disk.files[f] = safe.files[f] /\ ~(In("states") /\ f \in fin.left)
    THEN {safe.files[f]}
    ELSE {safe.files[f], disk.files[f], Torn}

MayBe == IF In("format") THEN {"blank", "torn", "ext4"} ELSE {disk.fs}

LoseFinalizer ==
    /\ fin # Away /\ losses < Losses
    /\ \E fs \in MayBe, c \in [Files -> UNION {MayHold(f) : f \in Files}] :
          /\ \A f \in Files : c[f] \in MayHold(f)
          /\ Synced([safe EXCEPT !.fs = fs, !.files = c])
    /\ fin' = Away /\ losses' = losses + 1
    /\ UNCHANGED <<role, live, home, root, written, op, stage, clone>>

SeedNext ==
    \/ \E f \in Files : Change(f) \/ WriteFile(f) \/ CopyState(f)
    \/ PrepareRoot \/ StopGuest \/ BootFinalizer \/ RecoverGuest \/ StartGuest
    \/ WriteTable \/ RestoreOwners \/ FormatDisk \/ MountDisk
    \/ InitializeMarker \/ KeepReady \/ BeginMigration \/ CompleteMigration
    \/ AttachRouter \/ ConfigureRouter
    \/ KeepAdopted \/ BeginSeed \/ WriteReceipt \/ WriteMarker \/ RemoveProgress
    \/ ConfigureControl \/ Report \/ RefuseToFinalize \/ LoseFinalizer

SeedSpec == SeedInit /\ [][SeedNext]_seeds

-----------------------------------------------------------------------------
(* What the replacements must not break.                                   *)

\* The guest in production always has the last state any guest before it
\* wrote, whichever operations were lost, repeated or given up: no disk
\* that an earlier attempt filled is adopted after the old guest has run
\* again, and no file is adopted that was only in a lost guest's memory.
\* (seed and migrate, with their markers, receipt and comparisons.)
ServesLatestState ==
    live => \A f \in Files :
        IF home = "root" THEN root[f] = written[f] ELSE disk.files[f] = {written[f]}

=============================================================================
