--------------------------- MODULE RetainedBackup ---------------------------
(***************************************************************************)
(* The backup of a disk, and the trial of the backup, beside everything    *)
(* that happens to the disk meanwhile.                                     *)
(*                                                                         *)
(* One command on dom0 copies the whole disk from an LVM snapshot to a     *)
(* volume of its own and removes the snapshot.  Another restores the copy  *)
(* to a disposable volume inside a guest without a network, which measures *)
(* what it finds.  The commands exclude each other; the guest in           *)
(* production, the maintenance guest of a copy and its callers go on.      *)
(***************************************************************************)
EXTENDS RetainedData

VARIABLES
    bk,  \* the backup: the command's position, its volumes and its records; what
         \* its snapshot shows, and whether a guest in production had the disk
    vf   \* the trial: the command's position, its guest and its assets

vars == <<disks, bk, vf, faults>>

NoBackup == [at |-> "idle", lv |-> "old", shot |-> {}, served |-> FALSE, snapshot |-> "none",
             disk |-> "none", readonly |-> FALSE, known |-> {}, receipt |-> FALSE]
NoTrial == [at |-> "idle", restore |-> "none", known |-> FALSE, slots |-> FALSE, guest |-> "none",
            report |-> "none", verified |-> FALSE, result |-> FALSE]

Volume == {"none", "blank", "whole", "other"}  \* "whole": what the snapshot showed

TypeOK ==
    /\ DataTypeOK
    /\ DOMAIN bk = DOMAIN NoBackup /\ DOMAIN vf = DOMAIN NoTrial
    /\ bk.snapshot \in {"none", "good", "spilt"}
    /\ bk.disk \in Volume /\ vf.restore \in Volume
    /\ bk.known \subseteq {"disk", "snapshot"}
    /\ Cardinality(bk.shot) <= 1
    /\ vf.guest \in {"none", "copying", "checking"}
    /\ vf.report \in {"none", "good", "bad"}

Init == DataInit /\ bk = NoBackup /\ vf = NoTrial

LeasesFree == bk.at = "idle" /\ vf.at = "idle"

-----------------------------------------------------------------------------
(* make_backup().                                                          *)

\* What a snapshot of the new disk may show: of the pages its guest has not
\* written, none, any or all - it is crash-consistent only.  (Nothing depends on
\* what the old disk held.)
Views(lv) == IF lv = "old" THEN {{}} ELSE {{d} : d \in AfterLoss(durable, seen)}

Backup(b) == bk' = b /\ UNCHANGED <<disks, vf, faults>>

\* A request names one exact volume.
Sources == {"old", "new"}

\* It is no origin of a snapshot: here, of the one that a stage reads.
Ordinary(lv) == ~(lv = "old" /\ run.do = "stage")

\* No volume has a name or a tag of the operation.
NamesFree == bk.disk = "none" /\ bk.snapshot = "none"

PrepareBackup(lv) ==
    /\ LeasesFree
    /\ Ordinary(lv)
    /\ NamesFree
    /\ Backup([NoBackup EXCEPT !.at = "disk", !.lv = lv])

AllocateDisk ==
    /\ bk.at = "disk"
    /\ Backup([bk EXCEPT !.at = "disk-made", !.disk = "blank"])

RecordDisk ==
    /\ bk.at = "disk-made"
    /\ Backup([bk EXCEPT !.at = "snapshot", !.known = @ \cup {"disk"}])

AllocateSnapshot ==
    /\ bk.at = "snapshot"
    /\ \E view \in Views(bk.lv) :
          Backup([bk EXCEPT !.at = "snapshot-made", !.snapshot = "good", !.shot = view,
                            !.served = (use = "live")])

RecordSnapshot ==
    /\ bk.at = "snapshot-made"
    /\ Backup([bk EXCEPT !.at = "copying", !.known = @ \cup {"snapshot"}])

Healthy == bk.snapshot = "good"

\* A device may store something else than it was given without saying so.
CopyBlocks ==
    /\ bk.at = "copying" /\ Healthy
    /\ \E d \in {"whole", "other"} : Backup([bk EXCEPT !.at = "sealing", !.disk = d])

Seal ==
    /\ bk.at = "sealing" /\ Healthy
    /\ Backup([bk EXCEPT !.at = "reading", !.readonly = TRUE])

ReadsBack == bk.disk = "whole"

ReadBack ==
    /\ bk.at = "reading" /\ Healthy /\ ReadsBack
    /\ Backup([bk EXCEPT !.at = "removing"])

RemoveSnapshot ==
    /\ bk.at = "removing"
    /\ Backup([bk EXCEPT !.at = "publishing", !.snapshot = "none"])

PublishBackup ==
    /\ bk.at = "publishing"
    /\ Backup([bk EXCEPT !.at = "idle", !.receipt = TRUE])

\* The writes to the source have filled the space of the snapshot.
Spill ==
    /\ bk.snapshot = "good"
    /\ IF bk.lv = "old" THEN ~stopped ELSE use = "live" \/ run # Idle
    /\ Backup([bk EXCEPT !.snapshot = "spilt"])

Removable == "snapshot" \in bk.known /\ bk.snapshot # "none"

Failed == [bk EXCEPT !.at = IF Removable THEN "failed" ELSE "idle"]

RefuseBackup ==
    /\ \/ bk.at \in {"copying", "sealing", "reading"} /\ ~Healthy
       \/ bk.at = "reading" /\ ~ReadsBack
    /\ Backup(Failed)

BreakBackup ==
    /\ faults < Faults
    /\ bk.at \notin {"idle", "failed"}
    /\ bk' = Failed
    /\ faults' = faults + 1
    /\ UNCHANGED <<disks, vf>>

RemovedAfterFailure(b) == [b EXCEPT !.at = "idle", !.snapshot = "none"]

CleanSnapshot ==
    /\ bk.at = "failed"
    /\ Backup(RemovedAfterFailure(bk))

-----------------------------------------------------------------------------
(* verify(), and the guest that restores.                                  *)

Trial(t) == vf' = t /\ UNCHANGED <<disks, bk, faults>>

ReceiptFits == bk.receipt

\* Only a guest of an earlier trial may have the backup attached.
Unattached == vf.guest = "none"

\* The volume of the receipt, sealed, and with the bytes of the receipt.
BackupIntact == bk.disk = "whole" /\ bk.readonly /\ Unattached

RestoreFree == vf.restore = "none"

PrepareTrial ==
    /\ LeasesFree
    /\ ReceiptFits
    /\ BackupIntact
    /\ RestoreFree
    /\ Trial([NoTrial EXCEPT !.at = "restore"])

AllocateRestore ==
    /\ vf.at = "restore"
    /\ Trial([vf EXCEPT !.at = "restore-made", !.restore = "blank"])

RecordRestore ==
    /\ vf.at = "restore-made"
    /\ Trial([vf EXCEPT !.at = "slots", !.known = TRUE])

\* The copies of the maintenance system and of the request, and their loops.
MakeSlots ==
    /\ vf.at = "slots"
    /\ Trial([vf EXCEPT !.at = "booting", !.slots = TRUE])

BootTrial ==
    /\ vf.at = "booting"
    /\ Trial([vf EXCEPT !.at = "waiting", !.guest = "copying"])

\* The guest has its request, its result slot, a sealed backup and a disk to
\* write.
TrialDisks == vf.slots /\ bk.readonly /\ vf.restore # "none"

\* It reads the backup, writes the disposable volume and reads that.
RestoreDisk ==
    /\ vf.guest = "copying"
    /\ TrialDisks
    /\ \E d \in {"whole", "other"} : Trial([vf EXCEPT !.guest = "checking", !.restore = d])

\* retained_backup_contents(): the records of one finished generation, and
\* no name beside its datasets.  What is in them is measured and not compared.
OneGenerationStaged(d) ==
    /\ d.copied = {}
    /\ \E s \in d.staged : {e \in Entries : d.data[e] # Absent} = DOMAIN s

OneGeneration(d) ==
    /\ d.marks = {"identity"} /\ d.copied = {}
    /\ \E w \in d.final, s \in d.staged :
          /\ DOMAIN s = DOMAIN w
          /\ {e \in Entries : d.data[e] # Absent} = DOMAIN w

RestoredWhole == vf.restore = "whole"

Acceptable == bk.lv = "old" \/ \A d \in bk.shot : OneGeneration(d)

\* The result slot is written whatever was found; then the guest is off.
ReportRestore ==
    /\ vf.guest = "checking"
    /\ Trial([vf EXCEPT !.guest = "none",
                        !.report = IF RestoredWhole /\ Acceptable THEN "good" ELSE "bad"])

ReportFits == vf.report = "good"

ReadReport ==
    /\ vf.at = "waiting" /\ vf.guest = "none"
    /\ Trial([vf EXCEPT !.at = "cleaning", !.verified = ReportFits /\ BackupIntact])

\* boot_guest() destroys a guest that is late.
GiveUpTrial ==
    /\ faults < Faults
    /\ vf.at \in {"restore", "restore-made", "slots", "booting", "waiting"}
    /\ vf' = [vf EXCEPT !.at = "cleaning", !.guest = "none", !.verified = FALSE]
    /\ faults' = faults + 1
    /\ UNCHANGED <<disks, bk>>

\* The guest fails by itself and leaves no report.
LoseTrialGuest ==
    /\ faults < Faults
    /\ vf.guest # "none"
    /\ vf' = [vf EXCEPT !.guest = "none"]
    /\ faults' = faults + 1
    /\ UNCHANGED <<disks, bk>>

Cleaned(t) ==
    [t EXCEPT !.slots = FALSE,
              !.restore = IF t.known THEN "none" ELSE @,
              !.at = IF t.verified THEN "publishing" ELSE "idle"]

CleanTrial ==
    /\ vf.at = "cleaning" /\ vf.guest = "none"
    /\ Trial(Cleaned(vf))

PublishTrial ==
    /\ vf.at = "publishing"
    /\ Trial([vf EXCEPT !.at = "idle", !.result = TRUE])

-----------------------------------------------------------------------------
(* What can end every command.                                             *)

Killed(c) == [c EXCEPT !.at = "idle"]

\* A command is killed; its guest goes on.
Kill ==
    /\ faults < Faults
    /\ ~LeasesFree
    /\ bk' = Killed(bk) /\ vf' = Killed(vf)
    /\ faults' = faults + 1
    /\ UNCHANGED disks

\* The box loses power.  Volumes and files stay; no guest and no loop does.
LosePower ==
    /\ faults < Faults
    /\ run # Idle \/ ~LeasesFree \/ vf.guest # "none" \/ use = "live"
    /\ Gone
    /\ run' = Idle
    /\ bk' = Killed(bk)
    /\ vf' = [Killed(vf) EXCEPT !.guest = "none"]
    /\ faults' = faults + 1
    /\ UNCHANGED <<old, stopped, use>>

Next ==
    \/ DataNext /\ UNCHANGED <<bk, vf>>
    \/ \E lv \in Sources : PrepareBackup(lv)
    \/ AllocateDisk \/ RecordDisk \/ AllocateSnapshot \/ RecordSnapshot
    \/ CopyBlocks \/ Seal \/ ReadBack \/ RemoveSnapshot \/ PublishBackup
    \/ Spill \/ RefuseBackup \/ BreakBackup \/ CleanSnapshot
    \/ PrepareTrial \/ AllocateRestore \/ RecordRestore \/ MakeSlots \/ BootTrial
    \/ RestoreDisk \/ ReportRestore \/ ReadReport \/ GiveUpTrial \/ LoseTrialGuest
    \/ CleanTrial \/ PublishTrial
    \/ Kill \/ LosePower

Spec == Init /\ [][Next]_vars

-----------------------------------------------------------------------------
(* What a backup and its trial promise.                                    *)

\* A verified backup of a retained disk is one finished generation: no dataset
\* is missing or foreign, although a snapshot may be taken in the middle of any
\* copy; and until production has the disk, what is in them is what the final
\* sync measured, although the trial compares no contents.
VerifiedIsFinished ==
    vf.result /\ bk.lv = "new" =>
        \A d \in bk.shot : \E w \in d.final :
            /\ {e \in Entries : d.data[e] # Absent} = DOMAIN w
            /\ ~bk.served => Measured(d, w)

=============================================================================
