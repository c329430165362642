---------------------------- MODULE RetainedProofs ----------------------------
(***************************************************************************)
(* The safety of a role's retained disk, for any number of files, changes, *)
(* operations and lost guests.                                             *)
(***************************************************************************)
EXTENDS RetainedBackup, SeededState, FiniteSetTheorems, TLAPS

-----------------------------------------------------------------------------
(* Seeding: the inductive invariant.                                       *)

Steps == {"tables", "account", "mount", "format", "initialize", "migrate", "files",
          "seed", "states", "marker", "unlink", "configure", "report"}

Disks == [fs : {"blank", "torn", "ext4"}, by : 0 .. Attempts,
          proof : {{}} \cup {{r} : r \in [Files -> Changes]},
          receipt : 0 .. Attempts, ready : BOOLEAN, files : [Files -> SUBSET Torn]]

Clones == [tables : 0 .. 3, owners : BOOLEAN, storage : BOOLEAN]

SeedTypes ==
  /\ role \in {"router", "air", "ops"} /\ live \in BOOLEAN /\ home \in {"root", "disk"}
  /\ root \in [Files -> Changes] /\ written \in [Files -> Changes]
  /\ op \in 0 .. Attempts
  /\ stage \in {"none", "prepared", "stopped", "finalized", "started"}
  /\ clone \in Clones /\ disk \in Disks /\ safe \in Disks
  /\ losses \in 0 .. Losses
  /\ fin \in {Away} \cup [at : Steps, left : SUBSET Files]
  /\ In("tables") => clone.tables < 3

(* A finalizer runs only while the guest of its operation is stopped, and  *)
(* no receipt on the disk is of an operation that has not stopped yet.     *)
StageInv ==
  /\ live <=> stage \in {"none", "prepared", "started"}
  /\ fin # Away => stage = "stopped"
  /\ disk.receipt <= op
  /\ stage = "prepared" => disk.receipt # op

(* Only the copy of ops and air leaves anything in the guest's memory, and *)
(* that is nothing but contents of files.                                  *)
MemoryInv ==
  /\ ~In("states") => disk = safe
  /\ safe = [disk EXCEPT !.files = safe.files]

(* Which finalizer is where: only a first migration writes the disk, and   *)
(* it begins with every file to copy.                                      *)
PathInv ==
  /\ fin.at \in {"tables", "account", "mount", "format", "seed"} => fin.left = Files
  /\ fin.at \in {"format", "migrate", "files", "states", "marker", "unlink"} => home = "root"
  /\ fin.at \in {"initialize", "migrate", "files"} => role = "router"
  /\ fin.at \in {"seed", "states", "marker", "unlink"} => role # "router"

(* How much of the old root a migration has brought to the disk.           *)
MigrationInv ==
  home = "root" =>
    /\ In("states") => /\ ~disk.ready
                       /\ \A f \in Files \ fin.left : disk.files[f] = {root[f]}
    /\ fin.at \in {"marker", "unlink", "configure", "report"} => HoldsRoot(disk)
    /\ fin.at \in {"marker", "unlink"} => disk.receipt = op
    /\ stage = "finalized" => HoldsRoot(disk)
    /\ stage = "stopped" /\ role # "router" /\ disk.ready /\ disk.receipt = op
         => HoldsRoot(disk)

(* The state in use is the latest, also while its guest is stopped.        *)
LatestInv ==
  IF home = "root" THEN root = written ELSE \A f \in Files : disk.files[f] = {written[f]}

SeedInv ==
  SeedTypes /\ StageInv /\ MemoryInv /\ PathInv /\ MigrationInv /\ LatestInv

-----------------------------------------------------------------------------
(* Seeding: the types.                                                     *)

(* What the steps of a finalizer make of a disk and of a clone.            *)
LEMMA DiskEdits ==
  ASSUME NEW d \in Disks
  PROVE  /\ \A x \in {"blank", "torn", "ext4"} : [d EXCEPT !.fs = x] \in Disks
         /\ \A x \in 0 .. Attempts : [d EXCEPT !.by = x] \in Disks
         /\ \A x \in 0 .. Attempts : [d EXCEPT !.receipt = x] \in Disks
         /\ \A x \in [Files -> Changes] : [d EXCEPT !.proof = {x}] \in Disks
         /\ [d EXCEPT !.ready = TRUE] \in Disks
         /\ \A f \in Files, x \in SUBSET Torn : [d EXCEPT !.files[f] = x] \in Disks
         /\ \A x \in {"blank", "torn", "ext4"}, c \in [Files -> SUBSET Torn] :
               [d EXCEPT !.fs = x, !.files = c] \in Disks
BY DEF Disks

LEMMA CloneEdits ==
  ASSUME NEW c \in Clones
  PROVE  /\ c.tables \in 0 .. 3
         /\ \A n \in 0 .. 3 : [c EXCEPT !.tables = n] \in Clones
         /\ \A n \in 0 .. 3 : [c EXCEPT !.tables = n].tables = n
         /\ [c EXCEPT !.owners = TRUE] \in Clones
         /\ [c EXCEPT !.owners = TRUE].tables = c.tables
         /\ [c EXCEPT !.storage = TRUE] \in Clones
         /\ [c EXCEPT !.storage = TRUE].tables = c.tables
BY DEF Clones

LEMMA NewDisks ==
  Zeroed \in Disks /\ Mirror \in Disks /\ Image \in Clones /\ Image.tables = 0
<1>1. Zeroed \in Disks
  <2>1. [f \in Files |-> {}] \in [Files -> SUBSET Torn]
    OBVIOUS
  <2>2. 0 \in 0 .. Attempts
    BY SeedAssumption
  <2> QED BY <2>1, <2>2 DEF Zeroed, Disks
<1>2. Mirror \in Disks
  BY <1>1, DiskEdits DEF Mirror
<1>3. Image \in Clones /\ Image.tables = 0
  BY DEF Image, Clones
<1> QED BY <1>1, <1>2, <1>3

(* What a lost guest leaves of the files is contents of files, and all of  *)
(* them when nothing was in memory only.                                   *)
LEMMA LostFiles ==
  ASSUME SeedTypes, NEW c \in [Files -> UNION {MayHold(f) : f \in Files}],
         \A f \in Files : c[f] \in MayHold(f)
  PROVE  /\ c \in [Files -> SUBSET Torn]
         /\ ~In("states") /\ disk = safe => c = disk.files
<1>1. disk.files \in [Files -> SUBSET Torn] /\ safe.files \in [Files -> SUBSET Torn]
  BY DEF SeedTypes, Disks
<1>2. \A f \in Files : MayHold(f) \subseteq SUBSET Torn
  BY <1>1 DEF MayHold
<1>3. c \in [Files -> SUBSET Torn]
  BY <1>2
<1>4. ASSUME ~In("states"), disk = safe PROVE c = disk.files
  <2>1. \A f \in Files : c[f] = disk.files[f]
    BY <1>4 DEF MayHold
  <2> QED BY <1>1, <1>3, <2>1
<1> QED BY <1>3, <1>4

LEMMA SeedTypesKept ==
  ASSUME SeedTypes, LatestInv, [SeedNext]_seeds
  PROVE  SeedTypes'
<1> USE SeedAssumption DEF SeedTypes, Changes, Torn, Steps, Away, In
<1>1. ASSUME NEW f \in Files, Change(f) PROVE SeedTypes'
  <2>1. written' \in [Files -> Changes]
    BY <1>1 DEF Change
  <2>2. root' \in [Files -> Changes]
    BY <1>1 DEF Change, LatestInv
  <2>3. disk' \in Disks /\ safe' \in Disks
    <3>1. \A v \in Changes : v < MaxChanges => {v + 1} \in SUBSET Torn
      OBVIOUS
    <3>2. CASE home = "disk"
      <4>1. PICK v \in Changes :
               /\ v < MaxChanges
               /\ disk' = [disk EXCEPT !.files[f] = {v + 1}]
               /\ safe' = [safe EXCEPT !.files[f] = {v + 1}]
        BY <1>1, <3>2 DEF Change
      <4>2. {v + 1} \in SUBSET Torn
        BY <3>1, <4>1
      <4> QED BY <1>1, <4>1, <4>2, DiskEdits
    <3> QED BY <1>1, <3>2 DEF Change
  <2> QED BY <1>1, <2>1, <2>2, <2>3 DEF Change
<1>2. ASSUME NEW f \in Files, WriteFile(f) PROVE SeedTypes'
  <2>1. {root[f]} \in SUBSET Torn
    OBVIOUS
  <2> QED BY <1>2, <2>1, DiskEdits DEF WriteFile, Then, Outside, Synced
<1>3. ASSUME NEW f \in Files, CopyState(f) PROVE SeedTypes'
  <2>1. {root[f]} \in SUBSET Torn
    OBVIOUS
  <2> QED BY <1>3, <2>1, DiskEdits DEF CopyState, Then, Outside
<1>4. CASE PrepareRoot
  BY <1>4, NewDisks DEF PrepareRoot
<1>5. CASE StopGuest
  BY <1>5 DEF StopGuest
<1>6. CASE BootFinalizer
  BY <1>6 DEF BootFinalizer, FirstStep
<1>7. CASE RecoverGuest
  BY <1>7 DEF RecoverGuest
<1>8. CASE StartGuest
  BY <1>8 DEF StartGuest
<1>9. CASE WriteTable
  <2>1. /\ fin # Away /\ fin.at = "tables" /\ clone.tables < 3
        /\ clone' = [clone EXCEPT !.tables = clone.tables + 1]
        /\ fin' = [fin EXCEPT !.at = IF clone.tables = 2 THEN "account" ELSE "tables"]
    BY <1>9 DEF WriteTable, Then
  <2>2. clone.tables + 1 \in 0 .. 3 /\ (clone.tables # 2 => clone.tables + 1 < 3)
    <3>1. clone.tables \in 0 .. 3
      <4>1. clone \in Clones
        OBVIOUS
      <4> QED BY <4>1, CloneEdits
    <3> QED BY <2>1, <3>1
  <2>3. clone' \in Clones /\ clone'.tables = clone.tables + 1
    <3>1. clone \in Clones
      OBVIOUS
    <3> QED BY <2>1, <2>2, <3>1, CloneEdits
  <2>4. fin' \in [at : Steps, left : SUBSET Files]
    BY <2>1
  <2>5. fin'.at = "tables" => clone.tables # 2
    BY <2>1
  <2> QED BY <1>9, <2>2, <2>3, <2>4, <2>5 DEF WriteTable, Outside
<1>10. CASE RestoreOwners
  BY <1>10, CloneEdits DEF RestoreOwners, In, Then, Outside
<1>11. CASE FormatDisk
  BY <1>11 DEF FormatDisk, In, Then, Outside, MayFormat, Initialize
<1>12. CASE MountDisk
  BY <1>12, DiskEdits DEF MountDisk, In, Then, Outside
<1>13. CASE InitializeMarker
  BY <1>13, DiskEdits DEF InitializeMarker, In, Then, Outside, Synced
<1>14. CASE KeepReady
  BY <1>14 DEF KeepReady, In, Then, Outside
<1>15. CASE BeginMigration
  BY <1>15, DiskEdits DEF BeginMigration, In, Then, Outside, Synced
<1>16. CASE CompleteMigration
  BY <1>16, DiskEdits DEF CompleteMigration, In, Then, Outside, Synced
<1>17. CASE AttachRouter
  BY <1>17 DEF AttachRouter, In, Then, Outside
<1>18. CASE ConfigureRouter
  BY <1>18, CloneEdits DEF ConfigureRouter, In, Then, Outside
<1>19. CASE KeepAdopted
  BY <1>19 DEF KeepAdopted, In, Then, Outside, SeededByThis
<1>20. CASE BeginSeed
  BY <1>20, DiskEdits DEF BeginSeed, In, Then, Outside
<1>21. CASE WriteReceipt
  BY <1>21, DiskEdits DEF WriteReceipt, In, Then, Outside, Synced
<1>22. CASE WriteMarker
  BY <1>22, DiskEdits DEF WriteMarker, In, Then, Outside
<1>23. CASE RemoveProgress
  <2>1. 0 \in 0 .. Attempts
    OBVIOUS
  <2> QED BY <1>23, <2>1, DiskEdits DEF RemoveProgress, Then, Outside, Synced
<1>24. CASE ConfigureControl
  BY <1>24, CloneEdits DEF ConfigureControl, In, Then, Outside
<1>25. CASE Report
  BY <1>25 DEF Report, In
<1>26. CASE RefuseToFinalize
  BY <1>26 DEF RefuseToFinalize, RefuseClone, RefuseDisk, RefuseState, In, Outside
<1>27. CASE LoseFinalizer
  <2>1. PICK fs \in MayBe, c \in [Files -> UNION {MayHold(f) : f \in Files}] :
           /\ \A f \in Files : c[f] \in MayHold(f)
           /\ Synced([safe EXCEPT !.fs = fs, !.files = c])
    BY <1>27 DEF LoseFinalizer
  <2>2. c \in [Files -> SUBSET Torn]
    BY <2>1, LostFiles
  <2>3. fs \in {"blank", "torn", "ext4"}
    <3>1. disk.fs \in {"blank", "torn", "ext4"}
      BY DEF Disks
    <3> QED BY <3>1 DEF MayBe
  <2>4. [safe EXCEPT !.fs = fs, !.files = c] \in Disks
    <3>1. safe \in Disks
      OBVIOUS
    <3> QED BY <2>2, <2>3, <3>1, DiskEdits
  <2>5. disk' \in Disks /\ safe' \in Disks
    BY <2>1, <2>4 DEF Synced
  <2> QED BY <1>27, <2>5 DEF LoseFinalizer
<1>28. CASE UNCHANGED seeds
  BY <1>28 DEF seeds
<1> QED BY <1>1, <1>2, <1>3, <1>4, <1>5, <1>6, <1>7, <1>8, <1>9, <1>10, <1>11, <1>12, <1>13, <1>14, <1>15, <1>16, <1>17, <1>18, <1>19, <1>20, <1>21, <1>22, <1>23, <1>24, <1>25, <1>26, <1>27, <1>28 DEF SeedNext

LEMMA StageInvKept ==
  ASSUME SeedTypes, StageInv, MemoryInv, [SeedNext]_seeds
  PROVE  StageInv'
<1> USE SeedAssumption DEF SeedTypes, Disks, Steps, Away, In, StageInv
<1>1. ASSUME NEW f \in Files, Change(f) PROVE StageInv'
  BY <1>1 DEF Change
<1>2. ASSUME NEW f \in Files, WriteFile(f) PROVE StageInv'
  BY <1>2 DEF WriteFile, Then, Outside, Synced
<1>3. ASSUME NEW f \in Files, CopyState(f) PROVE StageInv'
  BY <1>3 DEF CopyState, Outside
<1>4. CASE PrepareRoot
  BY <1>4 DEF PrepareRoot, Initialize, Zeroed
<1>5. CASE StopGuest
  BY <1>5 DEF StopGuest
<1>6. CASE BootFinalizer
  BY <1>6 DEF BootFinalizer, FirstStep
<1>7. CASE RecoverGuest
  BY <1>7 DEF RecoverGuest
<1>8. CASE StartGuest
  BY <1>8 DEF StartGuest, RouterStateVerified, ControlStateVerified
<1>9. CASE WriteTable
  BY <1>9 DEF WriteTable, Then, Outside
<1>10. CASE RestoreOwners
  BY <1>10 DEF RestoreOwners, Then, Outside
<1>11. CASE FormatDisk
  BY <1>11 DEF FormatDisk, Then, Outside, MayFormat, Initialize
<1>12. CASE MountDisk
  BY <1>12 DEF MountDisk, Then, Outside
<1>13. CASE InitializeMarker
  BY <1>13 DEF InitializeMarker, Then, Outside, Synced
<1>14. CASE KeepReady
  BY <1>14 DEF KeepReady, Then, Outside
<1>15. CASE BeginMigration
  BY <1>15 DEF BeginMigration, Then, Outside, Synced
<1>16. CASE CompleteMigration
  BY <1>16 DEF CompleteMigration, Then, Outside, Synced
<1>17. CASE AttachRouter
  BY <1>17 DEF AttachRouter, Then, Outside
<1>18. CASE ConfigureRouter
  BY <1>18 DEF ConfigureRouter, Then, Outside
<1>19. CASE KeepAdopted
  BY <1>19 DEF KeepAdopted, Then, Outside, SeededByThis
<1>20. CASE BeginSeed
  BY <1>20 DEF BeginSeed, Then, Outside
<1>21. CASE WriteReceipt
  BY <1>21 DEF WriteReceipt, Then, Outside, Synced
<1>22. CASE WriteMarker
  BY <1>22 DEF WriteMarker, Then, Outside
<1>23. CASE RemoveProgress
  BY <1>23 DEF RemoveProgress, Then, Outside, Synced
<1>24. CASE ConfigureControl
  BY <1>24 DEF ConfigureControl, Then, Outside
<1>25. CASE Report
  BY <1>25 DEF Report
<1>26. CASE RefuseToFinalize
  BY <1>26 DEF RefuseToFinalize, RefuseClone, RefuseDisk, RefuseState, Outside
<1>27. CASE LoseFinalizer
  <2>1. PICK fs \in MayBe, c \in [Files -> UNION {MayHold(f) : f \in Files}] :
           /\ \A f \in Files : c[f] \in MayHold(f)
           /\ Synced([safe EXCEPT !.fs = fs, !.files = c])
    BY <1>27 DEF LoseFinalizer
  <2>2. ~In("states") /\ disk = safe => c = disk.files
    BY <2>1, LostFiles
  <2>3. /\ disk' = safe' /\ disk'.files = c
        /\ disk'.receipt = disk.receipt /\ disk'.ready = disk.ready
    BY <2>1 DEF Synced, MemoryInv
  <2>4. fin' = Away /\ UNCHANGED <<role, live, home, root, written, op, stage, clone>>
    BY <1>27 DEF LoseFinalizer
  <2> HIDE DEF Disks
  <2> QED BY <1>27, <2>2, <2>3, <2>4 DEF LoseFinalizer
<1>28. CASE UNCHANGED seeds
  BY <1>28 DEF seeds
<1> QED BY <1>1, <1>2, <1>3, <1>4, <1>5, <1>6, <1>7, <1>8, <1>9, <1>10, <1>11, <1>12, <1>13, <1>14, <1>15, <1>16, <1>17, <1>18, <1>19, <1>20, <1>21, <1>22, <1>23, <1>24, <1>25, <1>26, <1>27, <1>28 DEF SeedNext

LEMMA MemoryInvKept ==
  ASSUME SeedTypes, MemoryInv, PathInv, [SeedNext]_seeds
  PROVE  MemoryInv'
<1> USE SeedAssumption DEF SeedTypes, Disks, Steps, Away, In, MemoryInv
<1>1. ASSUME NEW f \in Files, Change(f) PROVE MemoryInv'
  BY ZenonT(60), <1>1 DEF Change
<1>2. ASSUME NEW f \in Files, WriteFile(f) PROVE MemoryInv'
  BY <1>2 DEF WriteFile, Then, Outside, Synced
<1>3. ASSUME NEW f \in Files, CopyState(f) PROVE MemoryInv'
  BY <1>3 DEF CopyState, Outside
<1>4. CASE PrepareRoot
  BY <1>4 DEF PrepareRoot, Initialize, Zeroed
<1>5. CASE StopGuest
  BY <1>5 DEF StopGuest
<1>6. CASE BootFinalizer
  BY <1>6 DEF BootFinalizer, FirstStep
<1>7. CASE RecoverGuest
  BY <1>7 DEF RecoverGuest
<1>8. CASE StartGuest
  BY <1>8 DEF StartGuest, RouterStateVerified, ControlStateVerified
<1>9. CASE WriteTable
  BY <1>9 DEF WriteTable, Then, Outside
<1>10. CASE RestoreOwners
  BY <1>10 DEF RestoreOwners, Then, Outside
<1>11. CASE FormatDisk
  BY <1>11 DEF FormatDisk, Then, Outside, MayFormat, Initialize
<1>12. CASE MountDisk
  BY <1>12 DEF MountDisk, Then, Outside
<1>13. CASE InitializeMarker
  BY <1>13 DEF InitializeMarker, Then, Outside, Synced
<1>14. CASE KeepReady
  BY <1>14 DEF KeepReady, Then, Outside
<1>15. CASE BeginMigration
  BY <1>15 DEF BeginMigration, Then, Outside, Synced
<1>16. CASE CompleteMigration
  BY <1>16 DEF CompleteMigration, Then, Outside, Synced
<1>17. CASE AttachRouter
  BY <1>17 DEF AttachRouter, Then, Outside
<1>18. CASE ConfigureRouter
  BY <1>18 DEF ConfigureRouter, Then, Outside
<1>19. CASE KeepAdopted
  BY <1>19 DEF KeepAdopted, Then, Outside, SeededByThis
<1>20. CASE BeginSeed
  BY <1>20 DEF BeginSeed, Then, Outside
<1>21. CASE WriteReceipt
  BY <1>21 DEF WriteReceipt, Then, Outside, Synced
<1>22. CASE WriteMarker
  BY <1>22 DEF WriteMarker, Then, Outside
<1>23. CASE RemoveProgress
  BY <1>23 DEF RemoveProgress, Then, Outside, Synced
<1>24. CASE ConfigureControl
  BY <1>24 DEF ConfigureControl, Then, Outside
<1>25. CASE Report
  BY <1>25 DEF Report
<1>26. CASE RefuseToFinalize
  BY <1>26 DEF RefuseToFinalize, RefuseClone, RefuseDisk, RefuseState, Outside
<1>27. CASE LoseFinalizer
  <2>1. PICK fs \in MayBe, c \in [Files -> UNION {MayHold(f) : f \in Files}] :
           /\ \A f \in Files : c[f] \in MayHold(f)
           /\ Synced([safe EXCEPT !.fs = fs, !.files = c])
    BY <1>27 DEF LoseFinalizer
  <2>2. ~In("states") /\ disk = safe => c = disk.files
    BY <2>1, LostFiles
  <2>3. disk' = safe' /\ safe' = [safe' EXCEPT !.files = safe'.files]
    BY <2>1 DEF Synced
  <2>4. fin' = Away
    BY <1>27 DEF LoseFinalizer
  <2> QED BY <2>3, <2>4
<1>28. CASE UNCHANGED seeds
  BY <1>28 DEF seeds
<1> QED BY <1>1, <1>2, <1>3, <1>4, <1>5, <1>6, <1>7, <1>8, <1>9, <1>10, <1>11, <1>12, <1>13, <1>14, <1>15, <1>16, <1>17, <1>18, <1>19, <1>20, <1>21, <1>22, <1>23, <1>24, <1>25, <1>26, <1>27, <1>28 DEF SeedNext

LEMMA PathInvKept ==
  ASSUME SeedTypes, StageInv, PathInv, [SeedNext]_seeds
  PROVE  PathInv'
<1> USE SeedAssumption DEF SeedTypes, Disks, Steps, Away, In, PathInv
<1>1. ASSUME NEW f \in Files, Change(f) PROVE PathInv'
  BY <1>1 DEF Change
<1>2. ASSUME NEW f \in Files, WriteFile(f) PROVE PathInv'
  BY <1>2 DEF WriteFile, Then, Outside, Synced
<1>3. ASSUME NEW f \in Files, CopyState(f) PROVE PathInv'
  BY <1>3 DEF CopyState, Outside
<1>4. CASE PrepareRoot
  BY <1>4 DEF PrepareRoot, Initialize, Zeroed
<1>5. CASE StopGuest
  BY <1>5 DEF StopGuest
<1>6. CASE BootFinalizer
  BY <1>6 DEF BootFinalizer, FirstStep
<1>7. CASE RecoverGuest
  BY <1>7 DEF RecoverGuest
<1>8. CASE StartGuest
  BY <1>8 DEF StartGuest, StageInv
<1>9. CASE WriteTable
  BY <1>9 DEF WriteTable, Then, Outside
<1>10. CASE RestoreOwners
  BY <1>10 DEF RestoreOwners, Then, Outside
<1>11. CASE FormatDisk
  BY <1>11 DEF FormatDisk, Then, Outside, MayFormat, Initialize
<1>12. CASE MountDisk
  BY <1>12 DEF MountDisk, Then, Outside
<1>13. CASE InitializeMarker
  BY <1>13 DEF InitializeMarker, Then, Outside, Synced
<1>14. CASE KeepReady
  BY <1>14 DEF KeepReady, Then, Outside
<1>15. CASE BeginMigration
  BY <1>15 DEF BeginMigration, Then, Outside, Synced
<1>16. CASE CompleteMigration
  BY <1>16 DEF CompleteMigration, Then, Outside, Synced
<1>17. CASE AttachRouter
  BY <1>17 DEF AttachRouter, Then, Outside
<1>18. CASE ConfigureRouter
  BY <1>18 DEF ConfigureRouter, Then, Outside
<1>19. CASE KeepAdopted
  BY <1>19 DEF KeepAdopted, Then, Outside, SeededByThis
<1>20. CASE BeginSeed
  BY <1>20 DEF BeginSeed, Then, Outside
<1>21. CASE WriteReceipt
  BY <1>21 DEF WriteReceipt, Then, Outside, Synced
<1>22. CASE WriteMarker
  BY <1>22 DEF WriteMarker, Then, Outside
<1>23. CASE RemoveProgress
  BY <1>23 DEF RemoveProgress, Then, Outside, Synced
<1>24. CASE ConfigureControl
  BY <1>24 DEF ConfigureControl, Then, Outside
<1>25. CASE Report
  BY <1>25 DEF Report
<1>26. CASE RefuseToFinalize
  BY <1>26 DEF RefuseToFinalize, RefuseClone, RefuseDisk, RefuseState, Outside
<1>27. CASE LoseFinalizer
  BY <1>27 DEF LoseFinalizer
<1>28. CASE UNCHANGED seeds
  BY <1>28 DEF seeds
<1> QED BY <1>1, <1>2, <1>3, <1>4, <1>5, <1>6, <1>7, <1>8, <1>9, <1>10, <1>11, <1>12, <1>13, <1>14, <1>15, <1>16, <1>17, <1>18, <1>19, <1>20, <1>21, <1>22, <1>23, <1>24, <1>25, <1>26, <1>27, <1>28 DEF SeedNext

LEMMA MigrationInvKept ==
  ASSUME SeedTypes, StageInv, MemoryInv, PathInv, MigrationInv, LatestInv, [SeedNext]_seeds
  PROVE  MigrationInv'
<1> USE SeedAssumption DEF SeedTypes, Disks, Steps, Away, In, MigrationInv, HoldsRoot
<1>1. ASSUME NEW f \in Files, Change(f) PROVE MigrationInv'
  <2>1. stage' = stage /\ fin' = Away /\ stage \notin {"stopped", "finalized"}
    BY <1>1 DEF Change, StageInv
  <2> QED BY <2>1
<1>2. ASSUME NEW f \in Files, WriteFile(f) PROVE MigrationInv'
  BY <1>2 DEF WriteFile, Then, Outside, Synced
<1>3. ASSUME NEW f \in Files, CopyState(f) PROVE MigrationInv'
  BY <1>3 DEF CopyState, Outside
<1>4. CASE PrepareRoot
  <2>1. stage' = "prepared" /\ fin' = Away
    BY <1>4 DEF PrepareRoot, StageInv
  <2> QED BY <2>1
<1>5. CASE StopGuest
  <2>1. stage = "prepared" /\ stage' = "stopped" /\ fin' = Away
    BY <1>5 DEF StopGuest, StageInv
  <2>2. disk.receipt # op /\ UNCHANGED <<disk, op>>
    BY <1>5 DEF StopGuest, StageInv
  <2> QED BY <2>1, <2>2
<1>6. CASE BootFinalizer
  BY <1>6 DEF BootFinalizer, FirstStep
<1>7. CASE RecoverGuest
  BY <1>7 DEF RecoverGuest
<1>8. CASE StartGuest
  BY <1>8 DEF StartGuest, RouterStateVerified, ControlStateVerified
<1>9. CASE WriteTable
  BY <1>9 DEF WriteTable, Then, Outside
<1>10. CASE RestoreOwners
  BY <1>10 DEF RestoreOwners, Then, Outside
<1>11. CASE FormatDisk
  BY <1>11 DEF FormatDisk, Then, Outside, MayFormat, Initialize
<1>12. CASE MountDisk
  BY <1>12 DEF MountDisk, Then, Outside
<1>13. CASE InitializeMarker
  BY <1>13 DEF InitializeMarker, Then, Outside, Synced
<1>14. CASE KeepReady
  BY <1>14 DEF KeepReady, Then, Outside
<1>15. CASE BeginMigration
  BY <1>15 DEF BeginMigration, Then, Outside, Synced
<1>16. CASE CompleteMigration
  BY <1>16 DEF CompleteMigration, Then, Outside, Synced
<1>17. CASE AttachRouter
  BY <1>17 DEF AttachRouter, Then, Outside
<1>18. CASE ConfigureRouter
  BY <1>18 DEF ConfigureRouter, Then, Outside
<1>19. CASE KeepAdopted
  <2>1. /\ stage = "stopped" /\ disk.ready /\ role # "router"
        /\ UNCHANGED <<role, home, root, op, stage, disk>>
    BY <1>19 DEF KeepAdopted, Outside, StageInv, PathInv
  <2>2. home = "root" => HoldsRoot(disk)
    BY <1>19, <2>1 DEF KeepAdopted, SeededByThis
  <2>3. fin'.at = "configure"
    BY <1>19 DEF KeepAdopted, Then
  <2> QED BY <2>1, <2>2, <2>3
<1>20. CASE BeginSeed
  <2>1. /\ fin'.at = "states" /\ fin'.left = fin.left
        /\ disk' = [disk EXCEPT !.by = op] /\ ~disk.ready /\ stage = "stopped"
        /\ UNCHANGED <<role, home, root, op, stage>>
    BY <1>20 DEF BeginSeed, Then, Outside, StageInv
  <2>2. fin.left = Files
    BY <1>20 DEF BeginSeed, PathInv
  <2>3. disk'.files = disk.files /\ ~disk'.ready
    BY <2>1
  <2> QED BY <2>1, <2>2, <2>3
<1>21. CASE WriteReceipt
  BY <1>21 DEF WriteReceipt, Then, Outside, Synced
<1>22. CASE WriteMarker
  BY <1>22 DEF WriteMarker, Then, Outside
<1>23. CASE RemoveProgress
  BY <1>23 DEF RemoveProgress, Then, Outside, Synced
<1>24. CASE ConfigureControl
  BY <1>24 DEF ConfigureControl, Then, Outside
<1>25. CASE Report
  BY <1>25 DEF Report
<1>26. CASE RefuseToFinalize
  BY <1>26 DEF RefuseToFinalize, RefuseClone, RefuseDisk, RefuseState, Outside
<1>27. CASE LoseFinalizer
  <2>1. PICK fs \in MayBe, c \in [Files -> UNION {MayHold(f) : f \in Files}] :
           /\ \A f \in Files : c[f] \in MayHold(f)
           /\ Synced([safe EXCEPT !.fs = fs, !.files = c])
    BY <1>27 DEF LoseFinalizer
  <2>2. ~In("states") /\ disk = safe => c = disk.files
    BY <2>1, LostFiles
  <2>3. /\ disk' = safe' /\ disk'.files = c
        /\ disk'.receipt = disk.receipt /\ disk'.ready = disk.ready
    BY <2>1 DEF Synced, MemoryInv
  <2>4. fin' = Away /\ UNCHANGED <<role, live, home, root, written, op, stage, clone>>
    BY <1>27 DEF LoseFinalizer
  <2>5. stage = "stopped"
    BY <1>27 DEF LoseFinalizer, StageInv
  <2>6. CASE In("states")
    BY <2>3, <2>4, <2>5, <2>6
  <2>7. CASE ~In("states")
    <3>1. disk'.files = disk.files
      BY <2>2, <2>3, <2>7 DEF MemoryInv
    <3> HIDE DEF Disks
    <3> QED BY <2>3, <2>4, <2>5, <3>1
  <2> QED BY <2>6, <2>7
<1>28. CASE UNCHANGED seeds
  BY <1>28 DEF seeds
<1> QED BY <1>1, <1>2, <1>3, <1>4, <1>5, <1>6, <1>7, <1>8, <1>9, <1>10, <1>11, <1>12, <1>13, <1>14, <1>15, <1>16, <1>17, <1>18, <1>19, <1>20, <1>21, <1>22, <1>23, <1>24, <1>25, <1>26, <1>27, <1>28 DEF SeedNext

LEMMA LatestInvKept ==
  ASSUME SeedTypes, StageInv, PathInv, MemoryInv, MigrationInv, LatestInv, [SeedNext]_seeds
  PROVE  LatestInv'
<1> USE SeedAssumption DEF SeedTypes, Disks, Steps, Away, In, LatestInv, MigrationInv, HoldsRoot, StageInv, PathInv
<1>1. ASSUME NEW f \in Files, Change(f) PROVE LatestInv'
  <2>1. CASE home = "root"
    <3>1. \A g \in Files : root'[g] = written'[g]
      BY <1>1, <2>1 DEF Change
    <3> QED BY <1>1, <2>1 DEF Change
  <2>2. CASE home = "disk"
    <3>1. PICK v \in Changes :
             disk.files[f] = {v} /\ disk' = [disk EXCEPT !.files[f] = {v + 1}]
      BY <1>1, <2>2 DEF Change
    <3>2. v = written[f]
      BY SMTT(30), <2>2, <3>1
    <3>3. written' = [written EXCEPT ![f] = v + 1]
      BY <1>1, <3>2 DEF Change
    <3>4. \A g \in Files : disk'.files[g] = {written'[g]}
      BY <2>2, <3>1, <3>3
    <3> QED BY <1>1, <2>2, <3>4 DEF Change
  <2> QED BY <2>1, <2>2
<1>2. ASSUME NEW f \in Files, WriteFile(f) PROVE LatestInv'
  BY <1>2 DEF WriteFile, Then, Outside, Synced
<1>3. ASSUME NEW f \in Files, CopyState(f) PROVE LatestInv'
  BY <1>3 DEF CopyState, Outside
<1>4. CASE PrepareRoot
  BY <1>4 DEF PrepareRoot, Initialize, Zeroed
<1>5. CASE StopGuest
  BY <1>5 DEF StopGuest
<1>6. CASE BootFinalizer
  BY <1>6 DEF BootFinalizer, FirstStep
<1>7. CASE RecoverGuest
  BY <1>7 DEF RecoverGuest
<1>8. CASE StartGuest
  BY <1>8 DEF StartGuest, RouterStateVerified, ControlStateVerified
<1>9. CASE WriteTable
  BY <1>9 DEF WriteTable, Then, Outside
<1>10. CASE RestoreOwners
  BY <1>10 DEF RestoreOwners, Then, Outside
<1>11. CASE FormatDisk
  BY <1>11 DEF FormatDisk, Then, Outside, MayFormat, Initialize
<1>12. CASE MountDisk
  BY <1>12 DEF MountDisk, Then, Outside
<1>13. CASE InitializeMarker
  BY <1>13 DEF InitializeMarker, Then, Outside, Synced
<1>14. CASE KeepReady
  BY <1>14 DEF KeepReady, Then, Outside
<1>15. CASE BeginMigration
  BY <1>15 DEF BeginMigration, Then, Outside, Synced
<1>16. CASE CompleteMigration
  BY <1>16 DEF CompleteMigration, Then, Outside, Synced
<1>17. CASE AttachRouter
  BY <1>17 DEF AttachRouter, Then, Outside
<1>18. CASE ConfigureRouter
  BY <1>18 DEF ConfigureRouter, Then, Outside
<1>19. CASE KeepAdopted
  BY <1>19 DEF KeepAdopted, Then, Outside, SeededByThis
<1>20. CASE BeginSeed
  BY <1>20 DEF BeginSeed, Then, Outside
<1>21. CASE WriteReceipt
  BY <1>21 DEF WriteReceipt, Then, Outside, Synced
<1>22. CASE WriteMarker
  BY <1>22 DEF WriteMarker, Then, Outside
<1>23. CASE RemoveProgress
  BY <1>23 DEF RemoveProgress, Then, Outside, Synced
<1>24. CASE ConfigureControl
  BY <1>24 DEF ConfigureControl, Then, Outside
<1>25. CASE Report
  BY <1>25 DEF Report
<1>26. CASE RefuseToFinalize
  BY <1>26 DEF RefuseToFinalize, RefuseClone, RefuseDisk, RefuseState, Outside
<1>27. CASE LoseFinalizer
  <2>1. PICK fs \in MayBe, c \in [Files -> UNION {MayHold(f) : f \in Files}] :
           /\ \A f \in Files : c[f] \in MayHold(f)
           /\ Synced([safe EXCEPT !.fs = fs, !.files = c])
    BY <1>27 DEF LoseFinalizer
  <2>2. ~In("states") /\ disk = safe => c = disk.files
    BY <2>1, LostFiles
  <2>3. /\ disk' = safe' /\ disk'.files = c
        /\ disk'.receipt = disk.receipt /\ disk'.ready = disk.ready
    BY <2>1 DEF Synced, MemoryInv
  <2>4. fin' = Away /\ UNCHANGED <<role, live, home, root, written, op, stage, clone>>
    BY <1>27 DEF LoseFinalizer
  <2>5. CASE home = "root"
    BY <2>4, <2>5
  <2>6. CASE home = "disk"
    <3>1. disk'.files = disk.files
      BY <2>2, <2>3, <2>6 DEF MemoryInv
    <3> QED BY <2>4, <2>6, <3>1
  <2> QED BY <2>5, <2>6
<1>28. CASE UNCHANGED seeds
  BY <1>28 DEF seeds
<1> QED BY <1>1, <1>2, <1>3, <1>4, <1>5, <1>6, <1>7, <1>8, <1>9, <1>10, <1>11, <1>12, <1>13, <1>14, <1>15, <1>16, <1>17, <1>18, <1>19, <1>20, <1>21, <1>22, <1>23, <1>24, <1>25, <1>26, <1>27, <1>28 DEF SeedNext


(* Every state of a seeding satisfies the invariant.                       *)
THEOREM SeedingCorrect == SeedSpec => []SeedInv
<1>1. SeedInit => SeedInv
  <2> SUFFICES ASSUME SeedInit PROVE SeedInv
    OBVIOUS
  <2>1. disk \in Disks /\ safe = disk /\ disk.receipt = 0
    BY NewDisks DEF SeedInit, Zeroed, Mirror
  <2>2. SeedTypes
    <3>1. [f \in Files |-> 0] \in [Files -> Changes]
      BY SeedAssumption DEF Changes
    <3> QED BY <2>1, <3>1, NewDisks, SeedAssumption DEF SeedInit, SeedTypes, In
  <2>3. StageInv
    BY <2>1 DEF SeedInit, StageInv
  <2>4. MemoryInv
    BY <2>1 DEF SeedInit, MemoryInv, Disks
  <2>5. PathInv /\ MigrationInv /\ LatestInv
    BY DEF SeedInit, PathInv, MigrationInv, LatestInv, In, Away
  <2> QED BY <2>2, <2>3, <2>4, <2>5 DEF SeedInv
<1>2. SeedInv /\ [SeedNext]_seeds => SeedInv'
  BY SeedTypesKept, StageInvKept, MemoryInvKept, PathInvKept, MigrationInvKept, LatestInvKept
     DEF SeedInv
<1> QED BY <1>1, <1>2, PTL DEF SeedSpec

(* The guest in production always has the last state any guest before it   *)
(* wrote, whichever operations were lost, repeated or given up.  (seed and *)
(* migrate, with their markers, receipt and comparisons.)                  *)
THEOREM LatestStateServed == SeedSpec => []ServesLatestState
<1>1. SeedInv => ServesLatestState
  BY DEF SeedInv, LatestInv, ServesLatestState, SeedTypes
<1> QED BY <1>1, SeedingCorrect, PTL

-----------------------------------------------------------------------------
(* Copying: the inductive invariant.                                       *)

Phases == {"claim", "entries", "identity", "record", "sync", "unlink", "last"}

Measures == UNION {[r -> Versions] : r \in SUBSET Entries}

Targets == [data : [Entries -> SUBSET Versions], marks : SUBSET Marks,
              copied : SUBSET Measures, staged : SUBSET Measures, final : SUBSET Measures]

Runs == [do : Pending, at : Phases, from : [Entries -> Versions], want : Measures,
         left : SUBSET Entries]

DataTypes ==
  /\ old \in [Entries -> Versions] /\ stopped \in BOOLEAN
  /\ seen \in Targets /\ durable \in Targets
  /\ run \in {Idle} \cup Runs
  /\ use \in {"none", "ready", "live"}

(* A disk without a pending marker is as its newest record says.           *)
Whole(d) == d.marks \cap Pending = {} => \A w \in Newest(d) : Measured(d, w)

(* Between attempts nothing is in memory only and the disk is whole, until *)
(* production writes it.                                                   *)
RestInv == run = Idle /\ use # "live" => durable = seen /\ Whole(seen)

(* The final sync and a first copy measure what no writer changes any more. *)
MeasureInv ==
  /\ run # Idle => use = "none" /\ run.left \subseteq DOMAIN run.want
  /\ use # "none" \/ run.do \in {"copy", "final"} => stopped
  /\ run.do \in {"copy", "final"} => \A e \in DOMAIN run.want : run.want[e] = old[e]

(* What production finds on the disk.                                      *)
AdoptedInv ==
  use = "ready" => /\ seen.marks \cap Pending = {}
                   /\ \A w \in seen.final : \A e \in DOMAIN w : w[e] = old[e]

(* An attempt begins on a disk that is whole, or empty.                    *)
ClaimInv ==
  At("claim") =>
    /\ durable = seen /\ Whole(seen) /\ run.left = DOMAIN run.want
    /\ run.do = "final" => seen.marks = {} /\ seen.copied = {} /\ seen.final = {}
    /\ run.do # "final" => seen = Blank

(* The first kind of copy: nothing of it is certain before its one sync.   *)
CopyInv ==
  run.do = "copy" /\ ~At("claim") =>
    /\ run.at \notin {"identity", "sync"}
    /\ seen.marks = (IF At("last") THEN {} ELSE {"copy"})
    /\ seen.copied = (IF run.at \in {"unlink", "last"} THEN {run.want} ELSE {})
    /\ seen.staged = {} /\ seen.final = {}
    /\ durable.copied = {} /\ durable.staged = {} /\ durable.final = {}
    /\ IF At("entries") THEN durable = Blank
       ELSE durable.marks = {"copy"} /\ durable.data = seen.data /\ run.left = {}
    /\ \A e \in Entries \ run.left :
          seen.data[e] = IF e \in DOMAIN run.want THEN {run.want[e]} ELSE Absent

(* The staged kinds: the pending marker is certain until all the rest is.  *)
StagingInv ==
  run.do \in {"stage", "final"} /\ ~At("claim") =>
    /\ run.do = "stage" => ~At("identity") /\ seen.final = {}
    /\ durable.marks \cap Pending = {run.do}
    /\ seen.marks \cap Pending = (IF At("last") THEN {} ELSE {run.do})
    /\ seen.copied = {} /\ durable.copied = {}
    /\ durable.staged = seen.staged /\ durable.final = seen.final
    /\ run.at \in {"sync", "unlink", "last"} =>
         (IF run.do = "final" THEN seen.final ELSE seen.staged) = {run.want}
    /\ ~At("entries") => Measured(seen, run.want)
    /\ run.at \in {"unlink", "last"} => durable.data = seen.data

DataInv ==
  /\ DataTypes /\ RestInv /\ MeasureInv /\ AdoptedInv
  /\ ClaimInv /\ CopyInv /\ StagingInv

-----------------------------------------------------------------------------
(* The backup and its trial: the inductive invariant.                      *)

Backups ==
  [at : {"idle", "disk", "disk-made", "snapshot", "snapshot-made", "copying", "sealing",
         "reading", "removing", "publishing", "failed"},
   lv : Sources, shot : SUBSET Targets, served : BOOLEAN, snapshot : {"none", "good", "spilt"}, disk : Volume,
   readonly : BOOLEAN, known : SUBSET {"disk", "snapshot"}, receipt : BOOLEAN]

Trials ==
  [at : {"idle", "restore", "restore-made", "slots", "booting", "waiting", "cleaning",
         "publishing"},
   restore : Volume, known : BOOLEAN, slots : BOOLEAN, guest : {"none", "copying", "checking"},
   report : {"none", "good", "bad"}, verified : BOOLEAN, result : BOOLEAN]

BackupTypes == bk \in Backups /\ vf \in Trials

(* A finished generation on a disk has nothing interrupted under it.       *)
Unbroken(d, served) ==
  OneGeneration(d) => \E w \in d.final :
    /\ {e \in Entries : d.data[e] # Absent} = DOMAIN w
    /\ ~served => Measured(d, w)

ShotInv == bk.lv = "new" => \A d \in bk.shot : Unbroken(d, bk.served)

(* A volume of the backup is never given up, and a receipt ends its command. *)
VolumeInv ==
  /\ bk.at \notin {"idle", "disk"} => bk.disk # "none"
  /\ bk.at = "disk" => bk.snapshot = "none"
  /\ bk.receipt => bk.disk # "none" /\ bk.at = "idle"

(* A trial needs a receipt, and reports what the backup shows.             *)
TrialInv ==
  /\ \/ vf.at # "idle" \/ vf.guest # "none" \/ vf.report # "none"
     \/ vf.verified \/ vf.result
     => bk.receipt
  /\ vf.at = "publishing" => vf.verified
  /\ vf.report = "good" \/ vf.verified \/ vf.result => Acceptable

BackupInv == BackupTypes /\ ShotInv /\ VolumeInv /\ TrialInv

RetainedInv == DataInv /\ BackupInv

-----------------------------------------------------------------------------
(* Copying: the steps.                                                     *)

(* However an attempt ends early, its guest is gone.                       *)
Losing == Gone /\ run' = Idle /\ UNCHANGED <<old, stopped, use>>

DataStep == DataNext \/ Losing \/ UNCHANGED disks

LEMMA LosingSteps == Refuse \/ Interrupt \/ LosePower => Losing
BY DEF Refuse, Interrupt, LosePower, Losing, Elsewhere

LEMMA DataSteps == [Next]_vars => DataStep
BY LosingSteps DEF Next, vars, DataStep, disks, Backup, Trial, PrepareBackup, AllocateDisk,
   RecordDisk, AllocateSnapshot, RecordSnapshot, CopyBlocks, Seal, ReadBack, RemoveSnapshot,
   PublishBackup, Spill, RefuseBackup, BreakBackup, CleanSnapshot, PrepareTrial,
   AllocateRestore, RecordRestore, MakeSlots, BootTrial, RestoreDisk, ReportRestore,
   ReadReport, GiveUpTrial, LoseTrialGuest, CleanTrial, PublishTrial, Kill

LEMMA TargetEdits ==
  ASSUME NEW d \in Targets
  PROVE  /\ \A m \in SUBSET Marks : [d EXCEPT !.marks = m] \in Targets
         /\ \A e \in Entries, x \in SUBSET Versions : [d EXCEPT !.data[e] = x] \in Targets
         /\ \A w \in Measures : /\ [d EXCEPT !.copied = {w}] \in Targets
                               /\ [d EXCEPT !.staged = {w}] \in Targets
                               /\ [d EXCEPT !.final = {w}] \in Targets
BY DEF Targets

LEMMA PartialTypes ==
  ASSUME DataTypes, NEW s \in Partial
  PROVE  s \in Targets
<1>1. seen \in Targets /\ Mixed \in SUBSET Versions
  BY DEF DataTypes, Mixed
<1>2. run # Idle => run.left \subseteq Entries
  BY DEF DataTypes, Runs
<1>3. CASE s = seen
  BY <1>1, <1>3
<1>4. CASE At("entries") /\ s \in {[seen EXCEPT !.data[e] = Mixed] : e \in run.left}
  <2>1. PICK e \in run.left : s = [seen EXCEPT !.data[e] = Mixed]
    BY <1>4
  <2>2. e \in Entries
    BY <1>2, <1>4 DEF At
  <2> QED BY <1>1, <2>1, <2>2, TargetEdits
<1> QED BY <1>3, <1>4 DEF Partial

(* What is left of a disk whose guest is gone.                             *)
LEMMA Left ==
  ASSUME NEW d \in Targets, NEW s \in Targets, NEW x \in AfterLoss(d, s)
  PROVE  /\ x \in Targets
         /\ d.marks \cap s.marks \subseteq x.marks /\ x.marks \subseteq d.marks \cup s.marks
         /\ x.copied \in {d.copied, s.copied} /\ x.staged \in {d.staged, s.staged}
         /\ x.final \in {d.final, s.final}
         /\ \A e \in Entries : d.data[e] = s.data[e] => x.data[e] = s.data[e]
<1>1. /\ x.data \in [Entries -> UNION {Contents(d, s, e) : e \in Entries}]
      /\ \A e \in Entries : x.data[e] \in Contents(d, s, e)
      /\ x.marks \in SUBSET (d.marks \cup s.marks) /\ d.marks \cap s.marks \subseteq x.marks
      /\ x.copied \in {d.copied, s.copied} /\ x.staged \in {d.staged, s.staged}
      /\ x.final \in {d.final, s.final}
      /\ x = [data |-> x.data, marks |-> x.marks, copied |-> x.copied,
              staged |-> x.staged, final |-> x.final]
  BY DEF AfterLoss
<1>2. \A e \in Entries : Contents(d, s, e) \subseteq SUBSET Versions
  BY DEF Contents, Targets, Mixed
<1>3. x.data \in [Entries -> SUBSET Versions]
  BY <1>1, <1>2
<1>4. x \in Targets
  BY <1>1, <1>3 DEF Targets
<1>5. \A e \in Entries : d.data[e] = s.data[e] => x.data[e] = s.data[e]
  BY <1>1 DEF Contents
<1> QED BY <1>1, <1>4, <1>5

(* Nothing is lost of a disk that is synced.                               *)
LEMMA SyncedStays ==
  ASSUME NEW d \in Targets, NEW x \in AfterLoss(d, d)
  PROVE  x = d
<1>1. x \in Targets
  BY Left
<1>2. x.marks = d.marks /\ x.copied = d.copied /\ x.staged = d.staged /\ x.final = d.final
  <2>1. d.marks \cap d.marks \subseteq x.marks /\ x.marks \subseteq d.marks \cup d.marks
    BY Left
  <2>2. x.copied \in {d.copied, d.copied} /\ x.staged \in {d.staged, d.staged}
        /\ x.final \in {d.final, d.final}
    BY Left
  <2> QED BY <2>1, <2>2
<1>3. \A e \in Entries : x.data[e] = d.data[e]
  BY Left
<1>4. x.data = d.data
  BY <1>1, <1>3 DEF Targets
<1> QED BY <1>1, <1>2, <1>4 DEF Targets

LEMMA Lost ==
  ASSUME DataTypes, Losing
  PROVE  \E s \in Partial : \E x \in AfterLoss(durable, s) :
            /\ seen' = x /\ durable' = x /\ s \in Targets /\ x \in Targets
            /\ run' = Idle /\ UNCHANGED <<old, stopped, use>>
<1>1. PICK s \in Partial : \E x \in AfterLoss(durable, s) : seen' = x /\ durable' = x
  BY DEF Losing, Gone
<1>2. s \in Targets /\ durable \in Targets
  BY PartialTypes DEF DataTypes
<1> QED BY <1>1, <1>2, Left DEF Losing

LEMMA DataTypesKept ==
  ASSUME DataTypes, DataStep
  PROVE  DataTypes'
<1> USE DataAssumption DEF DataTypes, Versions, Runs, Phases, Pending, Marks, Idle, At
<1>1. ASSUME NEW e \in Entries, Write(e) PROVE DataTypes'
  BY <1>1, TargetEdits DEF Write
<1>2. ASSUME NEW e \in Entries, Serve(e) PROVE DataTypes'
  <2>1. seen' = [seen EXCEPT !.data[e] = Mixed] /\ Mixed \in SUBSET Versions
    BY <1>2 DEF Serve, Mixed
  <2>2. seen' \in Targets
    BY <2>1, TargetEdits
  <2> QED BY <1>2, <2>2 DEF Serve
<1>17. CASE Flush
  BY <1>17 DEF Flush
<1>3. ASSUME NEW e \in Entries, SyncEntry(e) PROVE DataTypes'
  <2>1. run \in Runs
    BY <1>3 DEF SyncEntry
  <2>2. Source(e) \in Versions
    BY <2>1 DEF Source
  <2>3. PICK copied \in {{Source(e)}, Mixed} : seen' = [seen EXCEPT !.data[e] = copied]
    BY <1>3 DEF SyncEntry
  <2>4. copied \in SUBSET Versions
    BY <2>2, <2>3 DEF Mixed
  <2>5. seen' \in Targets
    BY <2>3, <2>4, TargetEdits
  <2>6. run' \in Runs
    BY <1>3, <2>1 DEF SyncEntry
  <2> QED BY <1>3, <2>5, <2>6 DEF SyncEntry, Elsewhere
<1>4. CASE StopWriters
  BY <1>4, TargetEdits DEF StopWriters
<1>5. CASE Adopt
  BY <1>5, TargetEdits DEF Adopt
<1>6. ASSUME NEW kind \in Pending, NEW req \in SUBSET Entries, Begin(kind, req) PROVE DataTypes'
  <2>1. Measurement(req) \in Measures
    <3>1. Measurement(req) \in [req -> Versions]
      BY DEF Measurement
    <3> QED BY <3>1 DEF Measures
  <2>2. run' \in Runs
    BY <1>6, <2>1 DEF Begin
  <2> QED BY <1>6, <2>2 DEF Begin
<1>7. CASE Claim
  <2>1. run \in Runs /\ run' \in Runs
    BY <1>7 DEF Claim, GoOn
  <2>2. (seen.marks \cup {run.do}) \in SUBSET Marks /\ (durable.marks \cup {run.do}) \in SUBSET Marks
    BY <2>1 DEF Targets
  <2>3. seen' \in Targets /\ durable' \in Targets
    BY <1>7, <2>2, TargetEdits DEF Claim, Mark
  <2> QED BY <1>7, <2>1, <2>3 DEF Claim, Elsewhere
<1>8. CASE Compare
  BY <1>8, TargetEdits DEF Compare, GoOn, NextRecord, Elsewhere
<1>9. CASE SyncCopy
  BY <1>9, TargetEdits DEF SyncCopy, GoOn, Elsewhere
<1>10. CASE RecordIdentity
  <2>1. run \in Runs /\ run' \in Runs
    BY <1>10 DEF RecordIdentity, GoOn
  <2>2. (seen.marks \cup {"identity"}) \in SUBSET Marks /\ (durable.marks \cup {"identity"}) \in SUBSET Marks
    BY <2>1 DEF Targets
  <2>3. seen' \in Targets /\ durable' \in Targets
    BY <1>10, <2>2, TargetEdits DEF RecordIdentity, Mark
  <2> QED BY <1>10, <2>1, <2>3 DEF RecordIdentity, Elsewhere
<1>11. CASE RecordResult
  BY <1>11, TargetEdits DEF RecordResult, With, GoOn, Elsewhere
<1>12. CASE SyncTarget
  BY <1>12, TargetEdits DEF SyncTarget, GoOn, Elsewhere
<1>13. CASE Unlink
  <2>1. run' \in Runs
    BY <1>13 DEF Unlink, GoOn
  <2>2. (seen.marks \ {run.do}) \in SUBSET Marks
    BY DEF Targets
  <2>3. seen' \in Targets
    BY <1>13, <2>2, TargetEdits DEF Unlink
  <2> QED BY <1>13, <2>1, <2>3 DEF Unlink, Elsewhere
<1>14. CASE Finish
  BY <1>14, TargetEdits DEF Finish
<1>15. CASE Losing
  BY <1>15, Lost
<1>16. CASE UNCHANGED disks
  BY <1>16 DEF disks
<1> QED
  BY <1>1, <1>2, <1>3, <1>4, <1>5, <1>6, <1>7, <1>8, <1>9, <1>10, <1>11, <1>12, <1>13, <1>14, <1>15, <1>16, <1>17, LosingSteps
     DEF DataStep, DataNext, StageRequests, CopyRequests

LEMMA PartialParts ==
  ASSUME DataTypes, NEW s \in Partial
  PROVE  /\ s.marks = seen.marks /\ s.copied = seen.copied
         /\ s.staged = seen.staged /\ s.final = seen.final
         /\ ~At("entries") => s = seen
<1>1. CASE s = seen
  BY <1>1
<1>2. CASE At("entries") /\ s \in {[seen EXCEPT !.data[e] = Mixed] : e \in run.left}
  <2>1. PICK e \in run.left : s = [seen EXCEPT !.data[e] = Mixed]
    BY <1>2
  <2> QED BY <1>2, <2>1 DEF DataTypes, Targets
<1> QED BY <1>1, <1>2 DEF Partial

LEMMA MeasuredAlike ==
  ASSUME NEW d, NEW x, NEW w, Measured(d, w), \A e \in Entries : x.data[e] = d.data[e]
  PROVE  Measured(x, w)
BY DEF Measured

(* Wherever an attempt ends, the disk tells the truth about itself.        *)
LEMMA LossWhole ==
  ASSUME DataInv, NEW s \in Partial, s \in Targets, NEW x \in AfterLoss(durable, s), x \in Targets
  PROVE  /\ use # "live" => Whole(x)
         /\ run = Idle /\ use # "live" => x = seen
<1> USE DEF DataInv
<1>1. durable \in Targets /\ seen \in Targets
  BY DEF DataTypes
<1>2. CASE run = Idle
  <2> SUFFICES ASSUME use # "live" PROVE Whole(x) /\ x = seen
    BY <1>2
  <2>1. s = seen /\ durable = seen
    BY <1>2, PartialParts DEF RestInv, At
  <2>2. x = seen
    BY <1>1, <2>1, SyncedStays
  <2> QED BY <1>2, <2>2 DEF RestInv
<1>3. CASE At("claim")
  <2>1. s = seen /\ durable = seen /\ Whole(seen) /\ run # Idle
    BY <1>3, PartialParts DEF ClaimInv, At
  <2>2. x = seen
    BY <1>1, <2>1, SyncedStays
  <2> QED BY <2>1, <2>2
<1>4. CASE run # Idle /\ run.do = "copy" /\ ~At("claim")
  <2>1. CASE At("entries")
    <3>1. /\ s.copied = {} /\ s.staged = {} /\ s.final = {}
          /\ durable.copied = {} /\ durable.staged = {} /\ durable.final = {}
      BY <1>4, <2>1, PartialParts DEF CopyInv, At
    <3>2. x.copied = {} /\ x.staged = {} /\ x.final = {}
      BY <1>1, <3>1, Left
    <3> QED BY <1>4, <3>2 DEF Whole, Newest
  <2>2. CASE ~At("entries")
    <3>1. s = seen /\ durable.data = seen.data /\ run.left = {}
      BY <1>4, <2>2, PartialParts DEF CopyInv
    <3>2. \A e \in Entries : x.data[e] = seen.data[e]
      BY <1>1, <3>1, Left
    <3>3. Measured(seen, run.want)
      BY <1>4, <3>1 DEF CopyInv, Measured
    <3>4. Measured(x, run.want)
      BY <3>2, <3>3, MeasuredAlike
    <3>5. /\ seen.staged = {} /\ seen.final = {} /\ seen.copied \subseteq {run.want}
          /\ durable.copied = {} /\ durable.staged = {} /\ durable.final = {}
      BY <1>4 DEF CopyInv
    <3>6. x.staged = {} /\ x.final = {} /\ x.copied \subseteq {run.want}
      BY <1>1, <3>1, <3>5, Left
    <3> QED BY <1>4, <3>4, <3>6 DEF Whole, Newest
  <2> QED BY <2>1, <2>2
<1>5. CASE run # Idle /\ run.do \in {"stage", "final"} /\ ~At("claim")
  <2>1. CASE ~At("last")
    <3>1. run.do \in durable.marks /\ run.do \in s.marks
      BY <1>5, <2>1, PartialParts DEF StagingInv
    <3>2. run.do \in x.marks /\ run.do \in Pending
      BY <1>1, <1>5, <3>1, Left DEF Pending
    <3> QED BY <1>5, <3>2 DEF Whole
  <2>2. CASE At("last")
    <3>1. s = seen /\ durable.data = seen.data
      BY <1>5, <2>2, PartialParts DEF StagingInv, At
    <3>2. \A e \in Entries : x.data[e] = seen.data[e]
      BY <1>1, <3>1, Left
    <3>3. Measured(x, run.want)
      <4>1. Measured(seen, run.want)
        BY <1>5, <2>2 DEF StagingInv, At
      <4> QED BY <3>2, <4>1, MeasuredAlike
    <3>4. /\ seen.copied = {} /\ durable.copied = {}
          /\ durable.staged = seen.staged /\ durable.final = seen.final
          /\ (IF run.do = "final" THEN seen.final ELSE seen.staged) = {run.want}
          /\ run.do = "stage" => seen.final = {}
      BY <1>5, <2>2 DEF StagingInv, At
    <3>5. x.copied = {} /\ x.staged = seen.staged /\ x.final = seen.final
      BY <1>1, <3>1, <3>4, Left
    <3>6. Newest(x) = {run.want}
      BY <1>5, <3>4, <3>5 DEF Newest
    <3> QED BY <1>5, <3>3, <3>6 DEF Whole
  <2> QED BY <2>1, <2>2
<1> QED BY <1>2, <1>3, <1>4, <1>5 DEF DataTypes, Runs, Pending

(* The guest need not be lost to see what a loss may leave.                *)
LEMMA SeenMayRemain ==
  ASSUME DataTypes
  PROVE  seen \in AfterLoss(durable, seen) /\ seen \in Partial
<1>1. seen \in Targets /\ durable \in Targets
  BY DEF DataTypes
<1>2. \A e \in Entries : seen.data[e] \in Contents(durable, seen, e)
  BY DEF Contents
<1>3. seen.data \in [Entries -> UNION {Contents(durable, seen, e) : e \in Entries}]
  BY <1>1, <1>2 DEF Targets
<1>4. seen.marks \in {m \in SUBSET (durable.marks \cup seen.marks) :
                        durable.marks \cap seen.marks \subseteq m}
  OBVIOUS
<1>5. seen = [data |-> seen.data, marks |-> seen.marks, copied |-> seen.copied,
              staged |-> seen.staged, final |-> seen.final]
  BY <1>1 DEF Targets
<1> QED BY <1>2, <1>3, <1>4, <1>5 DEF AfterLoss, Partial

LEMMA SeenIsWhole ==
  ASSUME DataInv, use # "live"
  PROVE  Whole(seen)
<1>1. DataTypes /\ seen \in Targets
  BY DEF DataInv, DataTypes
<1> QED BY <1>1, SeenMayRemain, LossWhole

LEMMA RestInvKept ==
  ASSUME DataInv, DataStep
  PROVE  RestInv'
<1> USE DEF DataInv, DataTypes, Targets, Runs, Phases, Pending, Idle, At, RestInv
<1>1. ASSUME NEW e \in Entries, Write(e) PROVE RestInv'
  BY <1>1 DEF Write
<1>2. ASSUME NEW e \in Entries, Serve(e) PROVE RestInv'
  BY <1>2 DEF Serve
<1>17. CASE Flush
  BY <1>17 DEF Flush
<1>3. ASSUME NEW e \in Entries, SyncEntry(e) PROVE RestInv'
  BY <1>3 DEF SyncEntry, Elsewhere, Source
<1>4. CASE StopWriters
  BY <1>4 DEF StopWriters
<1>5. CASE Adopt
  BY <1>5 DEF Adopt
<1>6. ASSUME NEW kind \in Pending, NEW req \in SUBSET Entries, Begin(kind, req) PROVE RestInv'
  BY <1>6 DEF Begin, Assigned, MayBegin, Measurement, EmptyTarget, StagedFor
<1>7. CASE Claim
  BY <1>7 DEF Claim, Mark, GoOn, Elsewhere
<1>8. CASE Compare
  BY <1>8 DEF Compare, GoOn, NextRecord, Elsewhere
<1>9. CASE SyncCopy
  BY <1>9 DEF SyncCopy, GoOn, Elsewhere
<1>10. CASE RecordIdentity
  BY <1>10 DEF RecordIdentity, Mark, GoOn, Elsewhere
<1>11. CASE RecordResult
  BY <1>11 DEF RecordResult, With, GoOn, Elsewhere
<1>12. CASE SyncTarget
  BY <1>12 DEF SyncTarget, GoOn, Elsewhere
<1>13. CASE Unlink
  BY <1>13 DEF Unlink, GoOn, Elsewhere
<1>14. CASE Finish
  <2>1. use = "none" /\ seen' = seen /\ durable' = seen
    BY <1>14 DEF Finish, MeasureInv
  <2>2. Whole(seen)
    BY <2>1, SeenIsWhole
  <2> QED BY <2>1, <2>2
<1>15. CASE Losing
  <2>1. PICK s \in Partial : \E x \in AfterLoss(durable, s) :
          /\ seen' = x /\ durable' = x /\ s \in Targets /\ x \in Targets
          /\ run' = Idle /\ UNCHANGED <<old, stopped, use>>
    BY <1>15, Lost
  <2>2. (use # "live" => Whole(seen')) /\ (run = Idle /\ use # "live" => seen' = seen)
    BY <2>1, LossWhole
  <2> QED BY <2>1, <2>2
<1>16. CASE UNCHANGED disks
  BY <1>16 DEF disks
<1> QED
  BY <1>1, <1>2, <1>3, <1>4, <1>5, <1>6, <1>7, <1>8, <1>9, <1>10, <1>11, <1>12, <1>13, <1>14, <1>15, <1>16, <1>17, LosingSteps
     DEF DataStep, DataNext, StageRequests, CopyRequests

LEMMA MeasureInvKept ==
  ASSUME DataInv, DataStep
  PROVE  MeasureInv'
<1> USE DEF DataInv, DataTypes, Targets, Runs, Phases, Pending, Idle, At, MeasureInv
<1>1. ASSUME NEW e \in Entries, Write(e) PROVE MeasureInv'
  BY <1>1 DEF Write
<1>2. ASSUME NEW e \in Entries, Serve(e) PROVE MeasureInv'
  BY <1>2 DEF Serve
<1>17. CASE Flush
  BY <1>17 DEF Flush
<1>3. ASSUME NEW e \in Entries, SyncEntry(e) PROVE MeasureInv'
  BY <1>3 DEF SyncEntry, Elsewhere, Source
<1>4. CASE StopWriters
  BY <1>4 DEF StopWriters
<1>5. CASE Adopt
  BY <1>5 DEF Adopt
<1>6. ASSUME NEW kind \in Pending, NEW req \in SUBSET Entries, Begin(kind, req) PROVE MeasureInv'
  BY <1>6 DEF Begin, Assigned, MayBegin, Measurement, EmptyTarget, StagedFor
<1>7. CASE Claim
  BY <1>7 DEF Claim, Mark, GoOn, Elsewhere
<1>8. CASE Compare
  BY <1>8 DEF Compare, GoOn, NextRecord, Elsewhere
<1>9. CASE SyncCopy
  BY <1>9 DEF SyncCopy, GoOn, Elsewhere
<1>10. CASE RecordIdentity
  BY <1>10 DEF RecordIdentity, Mark, GoOn, Elsewhere
<1>11. CASE RecordResult
  BY <1>11 DEF RecordResult, With, GoOn, Elsewhere
<1>12. CASE SyncTarget
  BY <1>12 DEF SyncTarget, GoOn, Elsewhere
<1>13. CASE Unlink
  BY <1>13 DEF Unlink, GoOn, Elsewhere
<1>14. CASE Finish
  BY <1>14 DEF Finish
<1>15. CASE Losing
  <2>1. PICK s \in Partial : \E x \in AfterLoss(durable, s) :
          /\ seen' = x /\ durable' = x /\ s \in Targets /\ x \in Targets
          /\ run' = Idle /\ UNCHANGED <<old, stopped, use>>
    BY <1>15, Lost
  <2>2. (use # "live" => Whole(seen')) /\ (run = Idle /\ use # "live" => seen' = seen)
    BY <2>1, LossWhole
  <2> QED BY <2>1, <2>2
<1>16. CASE UNCHANGED disks
  BY <1>16 DEF disks
<1> QED
  BY <1>1, <1>2, <1>3, <1>4, <1>5, <1>6, <1>7, <1>8, <1>9, <1>10, <1>11, <1>12, <1>13, <1>14, <1>15, <1>16, <1>17, LosingSteps
     DEF DataStep, DataNext, StageRequests, CopyRequests

LEMMA AdoptedInvKept ==
  ASSUME DataInv, DataStep
  PROVE  AdoptedInv'
<1> USE DEF DataInv, DataTypes, Targets, Runs, Phases, Pending, Idle, At, AdoptedInv
<1>1. ASSUME NEW e \in Entries, Write(e) PROVE AdoptedInv'
  BY <1>1 DEF Write, MeasureInv
<1>2. ASSUME NEW e \in Entries, Serve(e) PROVE AdoptedInv'
  BY <1>2 DEF Serve
<1>17. CASE Flush
  BY <1>17 DEF Flush
<1>3. ASSUME NEW e \in Entries, SyncEntry(e) PROVE AdoptedInv'
  <2>1. use' = "none"
    BY <1>3 DEF SyncEntry, Elsewhere, MeasureInv
  <2> QED BY <2>1
<1>4. CASE StopWriters
  BY <1>4 DEF StopWriters
<1>5. CASE Adopt
  BY <1>5 DEF Adopt
<1>6. ASSUME NEW kind \in Pending, NEW req \in SUBSET Entries, Begin(kind, req) PROVE AdoptedInv'
  BY <1>6 DEF Begin, Assigned, MayBegin, Measurement, EmptyTarget, StagedFor
<1>7. CASE Claim
  <2>1. use' = "none"
    BY <1>7 DEF Claim, Elsewhere, MeasureInv
  <2> QED BY <2>1
<1>8. CASE Compare
  BY <1>8 DEF Compare, GoOn, NextRecord, Elsewhere
<1>9. CASE SyncCopy
  BY <1>9 DEF SyncCopy, GoOn, Elsewhere
<1>10. CASE RecordIdentity
  BY <1>10 DEF RecordIdentity, Mark, GoOn, Elsewhere
<1>11. CASE RecordResult
  <2>1. use' = "none"
    BY <1>11 DEF RecordResult, Elsewhere, MeasureInv
  <2> QED BY <2>1
<1>12. CASE SyncTarget
  BY <1>12 DEF SyncTarget, GoOn, Elsewhere
<1>13. CASE Unlink
  BY <1>13 DEF Unlink, GoOn, Elsewhere
<1>14. CASE Finish
  <2>1. use = "none" /\ seen' = seen /\ old' = old /\ run \in Runs /\ At("last")
    BY <1>14 DEF Finish, MeasureInv
  <2>2. CASE run.do = "final"
    <3>1. seen.marks \cap Pending = {} /\ seen.final = {run.want}
      BY <2>1, <2>2 DEF StagingInv
    <3>2. \A e \in DOMAIN run.want : run.want[e] = old[e]
      BY <2>2 DEF MeasureInv
    <3>3. use' = "ready"
      BY <1>14, <2>2 DEF Finish
    <3> QED BY <2>1, <3>1, <3>2, <3>3
  <2>3. CASE run.do # "final"
    BY <1>14, <2>1, <2>3 DEF Finish
  <2> QED BY <2>2, <2>3
<1>15. CASE Losing
  <2>1. PICK s \in Partial : \E x \in AfterLoss(durable, s) :
          /\ seen' = x /\ durable' = x /\ s \in Targets /\ x \in Targets
          /\ run' = Idle /\ UNCHANGED <<old, stopped, use>>
    BY <1>15, Lost
  <2>2. (use # "live" => Whole(seen')) /\ (run = Idle /\ use # "live" => seen' = seen)
    BY <2>1, LossWhole
  <2>3. run # Idle => use' = "none"
    BY <2>1 DEF MeasureInv
  <2> QED BY <2>1, <2>2, <2>3
<1>16. CASE UNCHANGED disks
  BY <1>16 DEF disks
<1> QED
  BY <1>1, <1>2, <1>3, <1>4, <1>5, <1>6, <1>7, <1>8, <1>9, <1>10, <1>11, <1>12, <1>13, <1>14, <1>15, <1>16, <1>17, LosingSteps
     DEF DataStep, DataNext, StageRequests, CopyRequests

LEMMA ClaimInvKept ==
  ASSUME DataInv, DataStep
  PROVE  ClaimInv'
<1> USE DEF DataInv, DataTypes, Targets, Runs, Phases, Pending, Idle, At, ClaimInv
<1>1. ASSUME NEW e \in Entries, Write(e) PROVE ClaimInv'
  BY <1>1 DEF Write
<1>2. ASSUME NEW e \in Entries, Serve(e) PROVE ClaimInv'
  <2>1. run' = Idle
    BY <1>2 DEF Serve, MeasureInv
  <2> QED BY <2>1
<1>17. CASE Flush
  <2>1. run' = Idle
    BY <1>17 DEF Flush, MeasureInv
  <2> QED BY <2>1
<1>3. ASSUME NEW e \in Entries, SyncEntry(e) PROVE ClaimInv'
  BY <1>3 DEF SyncEntry, Elsewhere, Source
<1>4. CASE StopWriters
  BY <1>4 DEF StopWriters
<1>5. CASE Adopt
  BY <1>5 DEF Adopt
<1>6. ASSUME NEW kind \in Pending, NEW req \in SUBSET Entries, Begin(kind, req) PROVE ClaimInv'
  <2>1. durable = seen /\ Whole(seen) /\ UNCHANGED <<seen, durable>> /\ run'.do = kind
    BY <1>6 DEF Begin, Assigned, RestInv
  <2>5. run'.left = DOMAIN run'.want
    BY <1>6 DEF Begin, Measurement
  <2>2. Whole(seen)'
    BY <2>1 DEF Whole, Newest, Measured
  <2>3. CASE kind = "final"
    <3>1. StagedFor(req)
      BY <1>6, <2>3 DEF Begin, MayBegin
    <3> QED BY <2>1, <2>2, <2>3, <2>5, <3>1 DEF StagedFor
  <2>4. CASE kind # "final"
    <3>1. seen = Blank
      BY <1>6, <2>4 DEF Begin, MayBegin, EmptyTarget
    <3> QED BY <2>1, <2>2, <2>4, <2>5, <3>1 DEF Blank
  <2> QED BY <2>3, <2>4
<1>7. CASE Claim
  BY <1>7 DEF Claim, Mark, GoOn, Elsewhere
<1>8. CASE Compare
  BY <1>8 DEF Compare, GoOn, NextRecord, Elsewhere
<1>9. CASE SyncCopy
  BY <1>9 DEF SyncCopy, GoOn, Elsewhere
<1>10. CASE RecordIdentity
  BY <1>10 DEF RecordIdentity, Mark, GoOn, Elsewhere
<1>11. CASE RecordResult
  BY <1>11 DEF RecordResult, With, GoOn, Elsewhere
<1>12. CASE SyncTarget
  BY <1>12 DEF SyncTarget, GoOn, Elsewhere
<1>13. CASE Unlink
  BY <1>13 DEF Unlink, GoOn, Elsewhere
<1>14. CASE Finish
  BY <1>14 DEF Finish
<1>15. CASE Losing
  <2>1. PICK s \in Partial : \E x \in AfterLoss(durable, s) :
          /\ seen' = x /\ durable' = x /\ s \in Targets /\ x \in Targets
          /\ run' = Idle /\ UNCHANGED <<old, stopped, use>>
    BY <1>15, Lost
  <2>2. (use # "live" => Whole(seen')) /\ (run = Idle /\ use # "live" => seen' = seen)
    BY <2>1, LossWhole
  <2> QED BY <2>1, <2>2
<1>16. CASE UNCHANGED disks
  BY <1>16 DEF disks
<1> QED
  BY <1>1, <1>2, <1>3, <1>4, <1>5, <1>6, <1>7, <1>8, <1>9, <1>10, <1>11, <1>12, <1>13, <1>14, <1>15, <1>16, <1>17, LosingSteps
     DEF DataStep, DataNext, StageRequests, CopyRequests

LEMMA CopyInvKept ==
  ASSUME DataInv, DataStep
  PROVE  CopyInv'
<1> USE DEF DataInv, DataTypes, Targets, Runs, Phases, Pending, Idle, At, CopyInv, Blank
<1>1. ASSUME NEW e \in Entries, Write(e) PROVE CopyInv'
  BY <1>1 DEF Write
<1>2. ASSUME NEW e \in Entries, Serve(e) PROVE CopyInv'
  <2>1. run' = Idle
    BY <1>2 DEF Serve, MeasureInv
  <2> QED BY <2>1
<1>17. CASE Flush
  <2>1. run' = Idle
    BY <1>17 DEF Flush, MeasureInv
  <2> QED BY <2>1
<1>3. ASSUME NEW e \in Entries, SyncEntry(e) PROVE CopyInv'
  <2> SUFFICES ASSUME run.do = "copy" PROVE CopyInv'
    BY <1>3 DEF SyncEntry
  <2>1. /\ At("entries") /\ e \in run.left /\ run.left \subseteq DOMAIN run.want
        /\ run' = [run EXCEPT !.left = @ \ {e}] /\ durable' = durable
        /\ seen' = [seen EXCEPT !.data[e] = {run.want[e]}]
    BY <1>3 DEF SyncEntry, MeasureInv
  <2>2. ASSUME NEW g \in Entries \ run'.left
        PROVE  seen'.data[g] = IF g \in DOMAIN run.want THEN {run.want[g]} ELSE Absent
    <3>1. CASE g = e
      BY <2>1, <3>1
    <3>2. CASE g # e
      <4>1. g \in Entries \ run.left
        BY <2>1, <2>2, <3>2
      <4> QED BY <2>1, <3>2, <4>1
    <3> QED BY <3>1, <3>2
  <2> QED BY <2>1, <2>2
<1>4. CASE StopWriters
  BY <1>4 DEF StopWriters
<1>5. CASE Adopt
  BY <1>5 DEF Adopt
<1>6. ASSUME NEW kind \in Pending, NEW req \in SUBSET Entries, Begin(kind, req) PROVE CopyInv'
  BY <1>6 DEF Begin, Assigned, MayBegin, Measurement, EmptyTarget, StagedFor
<1>7. CASE Claim
  <2> SUFFICES ASSUME run.do = "copy" PROVE CopyInv'
    BY <1>7 DEF Claim, GoOn
  <2>1. /\ run.left = DOMAIN run.want /\ seen = Blank /\ durable' = Blank
        /\ run' = [run EXCEPT !.at = "entries"]
    BY <1>7 DEF Claim, ClaimInv, Mark, GoOn
  <2>2. seen' = [seen EXCEPT !.marks = seen.marks \cup {"copy"}]
    BY <1>7 DEF Claim, Mark
  <2>3. seen'.marks = {"copy"} /\ seen'.data = [e \in Entries |-> Absent]
    BY <2>1, <2>2
  <2>4. seen'.copied = {} /\ seen'.staged = {} /\ seen'.final = {}
    BY <2>1, <2>2
  <2> QED BY <2>1, <2>3, <2>4
<1>8. CASE Compare
  BY <1>8 DEF Compare, GoOn, NextRecord, Elsewhere
<1>9. CASE SyncCopy
  BY <1>9 DEF SyncCopy, GoOn, Elsewhere
<1>10. CASE RecordIdentity
  BY <1>10 DEF RecordIdentity, Mark, GoOn, Elsewhere
<1>11. CASE RecordResult
  BY <1>11 DEF RecordResult, With, GoOn, Elsewhere
<1>12. CASE SyncTarget
  BY <1>12 DEF SyncTarget, GoOn, Elsewhere
<1>13. CASE Unlink
  BY <1>13 DEF Unlink, GoOn, Elsewhere
<1>14. CASE Finish
  BY <1>14 DEF Finish
<1>15. CASE Losing
  <2>1. PICK s \in Partial : \E x \in AfterLoss(durable, s) :
          /\ seen' = x /\ durable' = x /\ s \in Targets /\ x \in Targets
          /\ run' = Idle /\ UNCHANGED <<old, stopped, use>>
    BY <1>15, Lost
  <2>2. (use # "live" => Whole(seen')) /\ (run = Idle /\ use # "live" => seen' = seen)
    BY ZenonT(60), <2>1, LossWhole
  <2> QED BY <2>1, <2>2
<1>16. CASE UNCHANGED disks
  BY <1>16 DEF disks
<1> HIDE DEF CopyInv, Blank, Targets, Runs, DataInv, DataTypes
<1> QED
  BY <1>1, <1>2, <1>3, <1>4, <1>5, <1>6, <1>7, <1>8, <1>9, <1>10, <1>11, <1>12, <1>13, <1>14, <1>15, <1>16, <1>17, LosingSteps
     DEF DataStep, DataNext, StageRequests, CopyRequests

LEMMA StagingInvKept ==
  ASSUME DataInv, DataStep
  PROVE  StagingInv'
<1> USE DEF DataInv, DataTypes, Targets, Runs, Phases, Pending, Idle, At, StagingInv
<1>1. ASSUME NEW e \in Entries, Write(e) PROVE StagingInv'
  BY <1>1 DEF Write
<1>2. ASSUME NEW e \in Entries, Serve(e) PROVE StagingInv'
  <2>1. run' = Idle
    BY <1>2 DEF Serve, MeasureInv
  <2> QED BY <2>1
<1>17. CASE Flush
  <2>1. run' = Idle
    BY <1>17 DEF Flush, MeasureInv
  <2> QED BY <2>1
<1>3. ASSUME NEW e \in Entries, SyncEntry(e) PROVE StagingInv'
  BY <1>3 DEF SyncEntry, Elsewhere, Source
<1>4. CASE StopWriters
  BY <1>4 DEF StopWriters
<1>5. CASE Adopt
  BY <1>5 DEF Adopt
<1>6. ASSUME NEW kind \in Pending, NEW req \in SUBSET Entries, Begin(kind, req) PROVE StagingInv'
  BY <1>6 DEF Begin, Assigned, MayBegin, Measurement, EmptyTarget, StagedFor
<1>7. CASE Claim
  <2> SUFFICES ASSUME run.do \in {"stage", "final"} PROVE StagingInv'
    BY <1>7 DEF Claim, GoOn
  <2>1. /\ durable = seen /\ seen.marks = {} /\ seen.copied = {} /\ seen.final = {}
    BY <1>7 DEF Claim, ClaimInv, Blank
  <2>2. /\ seen' = [seen EXCEPT !.marks = {run.do}] /\ durable' = seen'
        /\ run' = [run EXCEPT !.at = "entries"]
    BY <1>7, <2>1 DEF Claim, Mark, GoOn
  <2>3. {run.do} \cap Pending = {run.do}
    OBVIOUS
  <2> QED BY <2>1, <2>2, <2>3
<1>8. CASE Compare
  BY <1>8 DEF Compare, GoOn, NextRecord, Elsewhere
<1>9. CASE SyncCopy
  BY <1>9 DEF SyncCopy, GoOn, Elsewhere
<1>10. CASE RecordIdentity
  <2>1. /\ At("identity") /\ run \in Runs /\ run' = [run EXCEPT !.at = "record"]
    BY <1>10 DEF RecordIdentity, GoOn
  <2>2. run.do # "copy"
    BY <2>1 DEF CopyInv
  <2>3. /\ seen' = [seen EXCEPT !.marks = @ \cup {"identity"}]
        /\ durable' = [durable EXCEPT !.marks = @ \cup {"identity"}]
    BY <1>10, <2>2 DEF RecordIdentity, Mark
  <2>4. seen'.marks \cap Pending = seen.marks \cap Pending
        /\ durable'.marks \cap Pending = durable.marks \cap Pending
    BY <2>3
  <2>5. Measured(seen', run.want)
    BY <2>1, <2>2, <2>3 DEF Measured
  <2> QED BY <2>1, <2>2, <2>3, <2>4, <2>5
<1>11. CASE RecordResult
  <2> SUFFICES ASSUME run.do \in {"stage", "final"} PROVE StagingInv'
    BY <1>11 DEF RecordResult, GoOn
  <2>1. /\ At("record") /\ run' = [run EXCEPT !.at = "sync"]
        /\ Measured(seen, run.want)
    BY <1>11 DEF RecordResult, GoOn
  <2>2. CASE run.do = "final"
    <3>1. /\ seen' = [seen EXCEPT !.final = {run.want}]
          /\ durable' = [durable EXCEPT !.final = {run.want}]
      BY <1>11, <2>2 DEF RecordResult, With
    <3>2. Measured(seen', run.want)
      BY <2>1, <3>1 DEF Measured
    <3> QED BY <2>1, <2>2, <3>1, <3>2
  <2>3. CASE run.do = "stage"
    <3>1. /\ seen' = [seen EXCEPT !.staged = {run.want}]
          /\ durable' = [durable EXCEPT !.staged = {run.want}]
      BY <1>11, <2>3 DEF RecordResult, With
    <3>2. Measured(seen', run.want)
      BY <2>1, <3>1 DEF Measured
    <3> QED BY <2>1, <2>3, <3>1, <3>2
  <2> QED BY <2>2, <2>3
<1>12. CASE SyncTarget
  BY <1>12 DEF SyncTarget, GoOn, Elsewhere
<1>13. CASE Unlink
  <2> SUFFICES ASSUME run.do \in {"stage", "final"} PROVE StagingInv'
    BY <1>13 DEF Unlink, GoOn
  <2>1. /\ At("unlink") /\ run' = [run EXCEPT !.at = "last"] /\ durable' = durable
        /\ seen' = [seen EXCEPT !.marks = @ \ {run.do}] /\ Measured(seen, run.want)
    BY <1>13 DEF Unlink, GoOn
  <2>2. seen'.marks \cap Pending = {}
    BY <2>1
  <2>3. Measured(seen', run.want)
    BY <2>1 DEF Measured
  <2> QED BY <2>1, <2>2, <2>3
<1>14. CASE Finish
  BY <1>14 DEF Finish
<1>15. CASE Losing
  <2>1. PICK s \in Partial : \E x \in AfterLoss(durable, s) :
          /\ seen' = x /\ durable' = x /\ s \in Targets /\ x \in Targets
          /\ run' = Idle /\ UNCHANGED <<old, stopped, use>>
    BY <1>15, Lost
  <2>2. (use # "live" => Whole(seen')) /\ (run = Idle /\ use # "live" => seen' = seen)
    BY <2>1, LossWhole
  <2> QED BY <2>1, <2>2
<1>16. CASE UNCHANGED disks
  BY <1>16 DEF disks
<1> QED
  BY <1>1, <1>2, <1>3, <1>4, <1>5, <1>6, <1>7, <1>8, <1>9, <1>10, <1>11, <1>12, <1>13, <1>14, <1>15, <1>16, <1>17, LosingSteps
     DEF DataStep, DataNext, StageRequests, CopyRequests

LEMMA DataInvKept ==
  ASSUME DataInv, [Next]_vars
  PROVE  DataInv'
<1>1. DataStep
  BY DataSteps
<1>2. DataTypes'
  BY <1>1, DataTypesKept DEF DataInv
<1> QED
  BY <1>1, <1>2, RestInvKept, MeasureInvKept, AdoptedInvKept, ClaimInvKept, CopyInvKept,
     StagingInvKept DEF DataInv

-----------------------------------------------------------------------------
(* The backup and its trial: the steps.                                    *)

(* Whatever a snapshot of the new disk shows.                              *)
LEMMA ViewUnbroken ==
  ASSUME DataInv, NEW d \in AfterLoss(durable, seen)
  PROVE  d \in Targets /\ Unbroken(d, use = "live")
<1>1. DataTypes /\ seen \in Targets /\ durable \in Targets /\ seen \in Partial
  BY SeenMayRemain DEF DataInv, DataTypes
<1>2. d \in Targets
  BY <1>1, Left
<1>3. use # "live" => Whole(d)
  BY <1>1, <1>2, LossWhole
<1>4. ASSUME OneGeneration(d)
      PROVE  \E w \in d.final : /\ {e \in Entries : d.data[e] # Absent} = DOMAIN w
                                /\ use # "live" => Measured(d, w)
  <2>1. PICK w \in d.final : /\ d.marks = {"identity"}
                             /\ {e \in Entries : d.data[e] # Absent} = DOMAIN w
    BY <1>4 DEF OneGeneration
  <2>2. use # "live" => Measured(d, w)
    BY <1>3, <2>1 DEF Whole, Newest, Pending
  <2> QED BY <2>1, <2>2
<1> QED BY <1>2, <1>4 DEF Unbroken

(* A backup that goes on has no receipt yet, so no trial is under way; a   *)
(* trial that goes on changes nothing of the backup.                       *)
LEMMA BackupGoesOn ==
  ASSUME BackupInv, bk.at # "idle", vf' = vf,
         bk' \in Backups, bk'.lv = bk.lv, bk'.shot = bk.shot, bk'.served = bk.served, VolumeInv'
  PROVE  BackupInv'
<1>1. BackupTypes' /\ ShotInv'
  BY DEF BackupInv, BackupTypes, ShotInv
<1>2. ~bk.receipt
  BY DEF BackupInv, VolumeInv
<1>3. TrialInv'
  BY <1>2 DEF BackupInv, TrialInv
<1> QED  BY <1>1, <1>3 DEF BackupInv

LEMMA TrialGoesOn ==
  ASSUME BackupInv, bk.receipt, bk' = bk, vf' \in Trials,
         vf'.at = "publishing" => vf'.verified,
         vf'.report = "good" \/ vf'.verified \/ vf'.result => Acceptable
  PROVE  BackupInv'
<1>1. BackupTypes' /\ ShotInv' /\ VolumeInv'
  BY DEF BackupInv, BackupTypes, ShotInv, VolumeInv
<1>2. Acceptable' = Acceptable
  BY DEF Acceptable
<1>3. TrialInv'
  BY <1>2 DEF TrialInv
<1> QED  BY <1>1, <1>3 DEF BackupInv

LEMMA BackupInvKept ==
  ASSUME DataInv, BackupInv, [Next]_vars
  PROVE  BackupInv'
<1> USE DEF BackupInv, BackupTypes, Backups, Trials, Volume, Sources, ShotInv, VolumeInv, TrialInv, Acceptable, Backup, Trial
<1>t. BackupTypes /\ VolumeInv /\ TrialInv
  BY DEF BackupInv
<1>1. CASE DataNext /\ UNCHANGED <<bk, vf>>
  BY <1>1
<1>2. ASSUME NEW lv \in Sources, PrepareBackup(lv) PROVE BackupInv'
  BY <1>2 DEF PrepareBackup, NamesFree, NoBackup, LeasesFree
<1>3. CASE AllocateSnapshot
  <2>1. PICK view \in Views(bk.lv) :
           bk' = [bk EXCEPT !.at = "snapshot-made", !.snapshot = "good", !.shot = view,
                            !.served = (use = "live")]
    BY <1>3 DEF AllocateSnapshot
  <2>2. view \in SUBSET Targets /\ (bk.lv = "new" => \A d \in view : Unbroken(d, use = "live"))
    BY <2>1, ViewUnbroken DEF Views
  <2>3. bk.at = "snapshot" /\ vf' = vf /\ ~bk.receipt
    BY <1>3 DEF AllocateSnapshot
  <2>4. bk' \in Backups
    BY <2>1, <2>2
  <2> QED BY <2>1, <2>2, <2>3, <2>4
<1>4. CASE RecordDisk
  <2> HIDE DEF BackupInv, Acceptable
  <2>1. /\ bk.at # "idle" /\ vf' = vf
        /\ bk' \in Backups /\ bk'.lv = bk.lv /\ bk'.shot = bk.shot
        /\ bk'.served = bk.served /\ VolumeInv'
    BY <1>4, <1>t DEF RecordDisk
  <2> QED BY <2>1, BackupGoesOn
<1>5. CASE AllocateDisk
  <2> HIDE DEF BackupInv, Acceptable
  <2>1. /\ bk.at # "idle" /\ vf' = vf
        /\ bk' \in Backups /\ bk'.lv = bk.lv /\ bk'.shot = bk.shot
        /\ bk'.served = bk.served /\ VolumeInv'
    BY <1>5, <1>t DEF AllocateDisk
  <2> QED BY <2>1, BackupGoesOn
<1>6. CASE RecordSnapshot
  <2> HIDE DEF BackupInv, Acceptable
  <2>1. /\ bk.at # "idle" /\ vf' = vf
        /\ bk' \in Backups /\ bk'.lv = bk.lv /\ bk'.shot = bk.shot
        /\ bk'.served = bk.served /\ VolumeInv'
    BY <1>6, <1>t DEF RecordSnapshot
  <2> QED BY <2>1, BackupGoesOn
<1>7. CASE CopyBlocks
  <2> HIDE DEF BackupInv, Acceptable
  <2>1. /\ bk.at # "idle" /\ vf' = vf
        /\ bk' \in Backups /\ bk'.lv = bk.lv /\ bk'.shot = bk.shot
        /\ bk'.served = bk.served /\ VolumeInv'
    BY <1>7, <1>t DEF CopyBlocks
  <2> QED BY <2>1, BackupGoesOn
<1>8. CASE Seal
  <2> HIDE DEF BackupInv, Acceptable
  <2>1. /\ bk.at # "idle" /\ vf' = vf
        /\ bk' \in Backups /\ bk'.lv = bk.lv /\ bk'.shot = bk.shot
        /\ bk'.served = bk.served /\ VolumeInv'
    BY <1>8, <1>t DEF Seal
  <2> QED BY <2>1, BackupGoesOn
<1>9. CASE ReadBack
  BY <1>9 DEF ReadBack
<1>10. CASE RemoveSnapshot
  <2> HIDE DEF BackupInv, Acceptable
  <2>1. /\ bk.at # "idle" /\ vf' = vf
        /\ bk' \in Backups /\ bk'.lv = bk.lv /\ bk'.shot = bk.shot
        /\ bk'.served = bk.served /\ VolumeInv'
    BY <1>10, <1>t DEF RemoveSnapshot
  <2> QED BY <2>1, BackupGoesOn
<1>11. CASE PublishBackup
  BY <1>11 DEF PublishBackup
<1>12. CASE Spill
  BY <1>12 DEF Spill
<1>13. CASE RefuseBackup
  BY <1>13 DEF RefuseBackup, Failed
<1>14. CASE BreakBackup
  <2>1. /\ bk' = [bk EXCEPT !.at = IF Removable THEN "failed" ELSE "idle"] /\ vf' = vf
        /\ bk.at # "idle"
    BY <1>14 DEF BreakBackup, Failed
  <2>2. ~bk.receipt
    BY <2>1
  <2>3. Removable => bk.disk # "none"
    BY <2>1, <1>14 DEF Removable, BreakBackup
  <2> QED BY <2>1, <2>2, <2>3
<1>15. CASE CleanSnapshot
  <2> HIDE DEF BackupInv, Acceptable
  <2>1. /\ bk.at # "idle" /\ vf' = vf
        /\ bk' \in Backups /\ bk'.lv = bk.lv /\ bk'.shot = bk.shot
        /\ bk'.served = bk.served /\ VolumeInv'
    BY <1>15, <1>t DEF CleanSnapshot, RemovedAfterFailure
  <2> QED BY <2>1, BackupGoesOn
<1>16. CASE PrepareTrial
  BY <1>16 DEF PrepareTrial, ReceiptFits, NoTrial, LeasesFree
<1>17. CASE AllocateRestore
  <2> HIDE DEF BackupInv, Acceptable
  <2>1. /\ bk.receipt /\ bk' = bk /\ vf' \in Trials
        /\ vf'.at = "publishing" => vf'.verified
        /\ vf'.report = "good" \/ vf'.verified \/ vf'.result => Acceptable
    BY <1>17, <1>t DEF AllocateRestore
  <2> QED BY <2>1, TrialGoesOn
<1>18. CASE RecordRestore
  <2> HIDE DEF BackupInv, Acceptable
  <2>1. /\ bk.receipt /\ bk' = bk /\ vf' \in Trials
        /\ vf'.at = "publishing" => vf'.verified
        /\ vf'.report = "good" \/ vf'.verified \/ vf'.result => Acceptable
    BY <1>18, <1>t DEF RecordRestore
  <2> QED BY <2>1, TrialGoesOn
<1>19. CASE MakeSlots
  <2> HIDE DEF BackupInv, Acceptable
  <2>1. /\ bk.receipt /\ bk' = bk /\ vf' \in Trials
        /\ vf'.at = "publishing" => vf'.verified
        /\ vf'.report = "good" \/ vf'.verified \/ vf'.result => Acceptable
    BY <1>19, <1>t DEF MakeSlots
  <2> QED BY <2>1, TrialGoesOn
<1>20. CASE BootTrial
  <2> HIDE DEF BackupInv, Acceptable
  <2>1. /\ bk.receipt /\ bk' = bk /\ vf' \in Trials
        /\ vf'.at = "publishing" => vf'.verified
        /\ vf'.report = "good" \/ vf'.verified \/ vf'.result => Acceptable
    BY <1>20, <1>t DEF BootTrial
  <2> QED BY <2>1, TrialGoesOn
<1>21. CASE RestoreDisk
  <2>1. PICK d \in {"whole", "other"} : vf' = [vf EXCEPT !.guest = "checking", !.restore = d]
    BY <1>21 DEF RestoreDisk
  <2>2. bk' = bk /\ vf.guest # "none"
    BY <1>21 DEF RestoreDisk
  <2>3. vf' \in Trials
    BY <2>1
  <2> QED BY <2>1, <2>2, <2>3
<1>22. CASE ReportRestore
  <2> HIDE DEF Acceptable
  <2>1. bk' = bk /\ Acceptable' = Acceptable
    BY <1>22 DEF ReportRestore, Acceptable
  <2>2. PICK r \in {"good", "bad"} :
           vf' = [vf EXCEPT !.guest = "none", !.report = r] /\ (r = "good" => Acceptable)
    BY <1>22 DEF ReportRestore
  <2>3. vf.guest # "none"
    BY <1>22 DEF ReportRestore
  <2>4. vf' \in Trials
    BY <2>2
  <2> QED BY <2>1, <2>2, <2>3, <2>4
<1>23. CASE ReadReport
  BY <1>23 DEF ReadReport, ReportFits
<1>24. CASE GiveUpTrial
  <2> HIDE DEF Acceptable
  <2>1. bk' = bk /\ Acceptable' = Acceptable
    BY <1>24 DEF GiveUpTrial, Acceptable
  <2>2. vf' = [vf EXCEPT !.at = "cleaning", !.guest = "none", !.verified = FALSE]
    BY <1>24 DEF GiveUpTrial
  <2>3. vf.at # "idle"
    BY <1>24 DEF GiveUpTrial
  <2>4. vf' \in Trials
    BY <2>2
  <2> QED BY <2>1, <2>2, <2>3, <2>4
<1>25. CASE LoseTrialGuest
  BY <1>25 DEF LoseTrialGuest
<1>26. CASE CleanTrial
  <2> HIDE DEF BackupInv, Acceptable
  <2>1. /\ bk.receipt /\ bk' = bk /\ vf' \in Trials
        /\ vf'.at = "publishing" => vf'.verified
        /\ vf'.report = "good" \/ vf'.verified \/ vf'.result => Acceptable
    BY <1>26, <1>t DEF CleanTrial, Cleaned
  <2> QED BY <2>1, TrialGoesOn
<1>27. CASE PublishTrial
  BY <1>27 DEF PublishTrial
<1>28. CASE Kill
  BY <1>28 DEF Kill, Killed
<1>29. CASE LosePower
  BY ZenonT(60), <1>29 DEF LosePower, Killed
<1>30. CASE UNCHANGED vars
  BY <1>30 DEF vars
<1> QED
  BY <1>1, <1>2, <1>3, <1>4, <1>5, <1>6, <1>7, <1>8, <1>9, <1>10, <1>11, <1>12, <1>13, <1>14, <1>15, <1>16, <1>17, <1>18, <1>19, <1>20, <1>21, <1>22, <1>23, <1>24, <1>25, <1>26, <1>27, <1>28, <1>29, <1>30 DEF Next

(* Every state of copying, backing up and trying satisfies the invariant.  *)
THEOREM RetainedCorrect == Spec => []RetainedInv
<1>1. Init => RetainedInv
  <2> SUFFICES ASSUME Init PROVE RetainedInv
    OBVIOUS
  <2>1. Blank \in Targets
    BY DEF Blank, Targets, Absent
  <2>2. DataTypes
    <3>1. [e \in Entries |-> 0] \in [Entries -> Versions]
      BY DataAssumption DEF Versions
    <3> QED BY <2>1, <3>1 DEF Init, DataInit, DataTypes
  <2>3. Whole(seen)
    BY DEF Init, DataInit, Whole, Newest, Blank
  <2>4. RestInv /\ MeasureInv /\ AdoptedInv
    BY <2>3 DEF Init, DataInit, RestInv, MeasureInv, AdoptedInv, Idle
  <2>5. ClaimInv /\ CopyInv /\ StagingInv
    BY DEF Init, DataInit, ClaimInv, CopyInv, StagingInv, Idle, At
  <2>6. BackupInv
    BY DEF Init, NoBackup, NoTrial, BackupInv, BackupTypes, Backups, Trials, Sources, Volume,
           ShotInv, VolumeInv, TrialInv
  <2> QED BY <2>2, <2>4, <2>5, <2>6 DEF RetainedInv, DataInv
<1>2. RetainedInv /\ [Next]_vars => RetainedInv'
  BY DataInvKept, BackupInvKept DEF RetainedInv
<1> QED BY <1>1, <1>2, PTL DEF Spec

(* A disk that shows a result and no pending marker holds exactly the      *)
(* datasets of that result as they were measured, whatever was in memory   *)
(* only when its guest was lost.  (The two syncs around the unlink, and    *)
(* the refusal of a used destination.)                                     *)
THEOREM FinishedCopiesAreWhole == Spec => []FinishedIsWhole
<1>1. RetainedInv => FinishedIsWhole
  <2> SUFFICES ASSUME RetainedInv, use # "live", NEW d \in AfterLoss(durable, seen)
               PROVE  Whole(d)
    BY DEF FinishedIsWhole, Whole
  <2>1. DataInv /\ DataTypes /\ seen \in Partial /\ seen \in Targets /\ durable \in Targets
    BY SeenMayRemain DEF RetainedInv, DataInv, DataTypes
  <2>2. d \in Targets
    BY <2>1, Left
  <2> QED BY <2>1, <2>2, LossWhole
<1> QED BY <1>1, RetainedCorrect, PTL

(* When the final sync has returned, the disk holds everything the writers *)
(* wrote before they stopped.  (sync_entries(), the second measurement and *)
(* the order of the records.)                                              *)
THEOREM FinalSyncLosesNothing == Spec => []NothingIsLost
<1>1. RetainedInv => NothingIsLost
  <2> SUFFICES ASSUME RetainedInv, use = "ready", NEW w \in durable.final, NEW e \in DOMAIN w
               PROVE  durable.data[e] = {old[e]}
    BY DEF NothingIsLost
  <2>1. run = Idle /\ durable = seen /\ Whole(seen) /\ seen.marks \cap Pending = {}
    BY DEF RetainedInv, DataInv, DataTypes, MeasureInv, RestInv, AdoptedInv
  <2>2. Measured(seen, w) /\ w[e] = old[e]
    BY <2>1 DEF Whole, Newest, RetainedInv, DataInv, AdoptedInv
  <2>3. e \in Entries
    <3>1. w \in Measures
      BY DEF RetainedInv, DataInv, DataTypes, Targets
    <3> QED BY <3>1 DEF Measures
  <2> QED BY <2>1, <2>2, <2>3 DEF Measured
<1> QED BY <1>1, RetainedCorrect, PTL

(* A verified backup of a retained disk is one finished generation, though *)
(* its snapshot may be taken in the middle of any copy; if production had  *)
(* not got the disk, its datasets are as they were measured.  (The         *)
(* inspection of the restored disk, and the markers it refuses.)           *)
THEOREM VerifiedBackupsAreFinished == Spec => []VerifiedIsFinished
<1>1. RetainedInv => VerifiedIsFinished
  BY DEF RetainedInv, BackupInv, TrialInv, ShotInv, Acceptable, Unbroken, VerifiedIsFinished
<1> QED BY <1>1, RetainedCorrect, PTL

=============================================================================
