-------------------------- MODULE ColdEvidenceProofs --------------------------
(***************************************************************************)
(* What holds of the evidence of every cold test, whatever its artifacts   *)
(* and wherever it is interrupted.                                         *)
(***************************************************************************)
EXTENDS ColdEvidence, TLAPS

(* The values that the records of a test, its volume and its collections   *)
(* of files take.                                                          *)
Halves == {"none", "intent", "complete"}

Plans == [saved : BOOLEAN, files : SUBSET Files, removed : SUBSET Files,
          mark : Files \cup {"none"}, done : BOOLEAN]

Disks   == [stage : {"none", "planned", "allocated", "copying", "copied"}, hash : {0, 1, 2}]
Results == [kind : {"none", "in time", "after"}, returning : BOOLEAN, raised : BOOLEAN]
Healths == [receipt : {"none", "fresh", "stale"}, complete : BOOLEAN]
Volumes == [there : BOOLEAN, data : {0, 1, 2}]
Uses    == [abort : Halves, seen : {"none", "granted", "launched", "failed"}, used : Halves]

(* What is below the directory of the operation: the names in filesystem/, *)
(* their ledgers and the parts received.                                   *)
StagingTypes ==
  /\ dir \in {"none", "made", "intent"}
  /\ phase \in {"none", "receiving", "ready", "retiring", "retired"}
  /\ own \in [Files -> {"none", "creating", "owned", "writing", "complete"}]
  /\ next \in [Artifacts -> Nat]
  /\ capsule \in BOOLEAN
  /\ work \in [there : SUBSET (Files \cup {"console.log"}), size : [Files -> Nat]]
  /\ hand.do = "receive" => hand.file \in Artifacts

(* The records of the outage: what was granted, copied, seen and proved.   *)
OutageTypes ==
  /\ meta \in {"none", "intent", "manifest"}
  /\ disk \in Disks
  /\ request \in BOOLEAN
  /\ launch \in {"none", "granted", "launched", "failed"}
  /\ proof \in {"none", "reserved", "proven"}
  /\ result \in Results
  /\ health \in Healths
  /\ marker \in {"none", "armed", "held", "restoring"}

(* The box: the backup volume, the router and its inspector.               *)
BoxTypes ==
  /\ lv \in Volumes
  /\ live \in BOOLEAN /\ runs \in {1, 2}
  /\ guest \in {"none", "paused", "running"}
  /\ loops \subseteq {"result.slot", "job.slot"}
  /\ late \in {"nothing", "grant", "window"} /\ left \in Nat

(* The two removals of a backup and the plans of the three collections.    *)
RemovalTypes ==
  /\ removal \in Uses
  /\ clean \in [Kinds -> Plans]

(* How far staging has come bounds who may be at work: parts are only      *)
(* received while it is open, metadata only captured once it is ready, and *)
(* the supervisor only runs on captured metadata. Without it a receiver or *)
(* a worker could write into a directory that is being retired.            *)
ClosedInv ==
  /\ dir # "intent" => phase = "none"
  /\ hand.do = "stage" => phase = "none"
  /\ hand.do = "stage" /\ hand.pc = "state" => dir = "intent"
  /\ hand.do \in {"receive", "finish"} => phase = "receiving"
  /\ meta = "manifest" \/ hand.do = "capture" => phase = "ready"
  /\ hand.do = "staging" => phase \in {"retiring", "retired"}
  /\ sup # "idle" \/ marker # "none" \/ hand.do = "worker" => meta = "manifest"

(* The plan that retires staging names every file that is left: no file    *)
(* can come once it was saved, and before that each one has a ledger.      *)
PlanInv ==
  LET plan == clean["staging"] IN
  /\ plan.saved => phase \in {"retiring", "retired"} /\ work.there \subseteq plan.files
  /\ hand.do = "staging" => plan.saved \/ hand.pc = "plan"
  /\ hand.do = "staging" /\ hand.pc = "plan" =>
       work.there \subseteq {f \in Artifacts : own[f] # "none"}

(* The worker's own commands run while the supervisor copies or inspects;  *)
(* then, and until the return, the original is down, and where the return *)
(* starts it, the inspector and its loop devices have gone.                *)
OutageInv ==
  /\ hand.do = "worker" => sup \in {"copy", "inspect"}
  /\ sup \in {"copy", "inspect", "open", "wait"} => ~live
  /\ sup \in {"return", "start"} => ~Inspected

(* The command that has the lock agrees with the stage of the backup, a    *)
(* used backup is removed only after the health check, and a compared copy *)
(* holds the first data of the original: the original runs again, and      *)
(* writes, only after the copies have ended.                               *)
BackupInv ==
  /\ hand.do = "allocate" => disk.stage = "planned"
  /\ hand.do = "worker" /\ hand.pc = "dd" => disk.stage = "copying"
  /\ hand.do = "worker" /\ hand.pc = "compare" => disk.stage \in {"copying", "copied"}
  /\ hand.do = "abort" => disk.stage = "allocated"
  /\ hand.do = "retire" => removal.used # "none"
  /\ removal.used # "none" => health.complete
  /\ sup # "idle" \/ marker # "none" => launch \notin {"none", "granted"}
  /\ runs = 2 => launch \notin {"none", "granted"}
  /\ runs = 2 => sup \notin {"arm", "stop", "copy", "inspect", "open", "wait"}
  /\ disk.stage \in {"copying", "copied"} /\ removal.used = "none" => lv.there
  /\ disk.hash \in {0, 1}
  /\ disk.stage \in {"copying", "copied"} => disk.hash = 1
  /\ disk.stage = "copied" /\ lv.there => lv.data = 1

(* A compared copy is there, unchanged, until health is complete.          *)
BackupIsKept ==
  disk.stage = "copied" /\ ~health.complete => lv.there /\ lv.data = 1

(* The inductive invariant.                                                *)
EvidenceInv ==
  /\ StagingTypes /\ OutageTypes /\ BoxTypes /\ RemovalTypes
  /\ ClosedInv /\ PlanInv /\ RetiredIsEmpty
  /\ OutageInv /\ InspectorIsFenced /\ BackupInv

(* A step of the worker that writes the files of the inspector.            *)
LEMMA InspectorFile ==
  ASSUME StagingTypes, WriteInspectorFile
  PROVE  /\ hand.do = "worker" /\ hand'.do = "worker"
         /\ hand'.pc \notin {"dd", "compare"} /\ sup' = sup
         /\ own' \in [Files -> {"none", "creating", "owned", "writing", "complete"}]
         /\ work' \in [there : SUBSET (Files \cup {"console.log"}), size : [Files -> Nat]]
         /\ UNCHANGED <<dir, phase, next, capsule, records, ends, marker, lv, xen>>
<1>1. PICK f \in Written :
        /\ hand.do = "worker" /\ hand.pc = f
        /\ \/ own' = own
           \/ own' = [own EXCEPT ![f] = "creating"]
           \/ own' = [own EXCEPT ![f] = "writing"]
           \/ own' = [own EXCEPT ![f] = "complete"]
        /\ work' = work \/ Grow(f, 0) \/ Grow(f, work.size[f] + 1)
        /\ \E p \in {"result.slot", "job.slot", "guest.cfg", "losetup", "xl create"} : Work(p)
        /\ UNCHANGED <<dir, phase, next, capsule, records, ends, marker, lv, xen>>
  BY DEF WriteInspectorFile, Worker, Written
<1>2. hand'.do = "worker" /\ sup' = sup /\ hand'.pc \notin {"dd", "compare"}
  <2>1. PICK p \in {"result.slot", "job.slot", "guest.cfg", "losetup", "xl create"} : Work(p)
    BY <1>1
  <2> QED
    BY <2>1 DEF Work, Take
<1>3. f \in Files /\ work.size[f] + 1 \in Nat
  <2>1. f \in Files /\ work.size \in [Files -> Nat]
    BY <1>1 DEF StagingTypes, Files
  <2> QED
    BY <2>1
<1>4. work' \in [there : SUBSET (Files \cup {"console.log"}), size : [Files -> Nat]]
  <2>1. work \in [there : SUBSET (Files \cup {"console.log"}), size : [Files -> Nat]]
    BY DEF StagingTypes
  <2>2. ASSUME NEW n \in Nat, Grow(f, n)
        PROVE  work' \in [there : SUBSET (Files \cup {"console.log"}), size : [Files -> Nat]]
    BY <1>3, <2>1, <2>2 DEF Grow
  <2> QED
    BY <1>1, <1>3, <2>1, <2>2
<1>5. own' \in [Files -> {"none", "creating", "owned", "writing", "complete"}]
  BY <1>1 DEF StagingTypes
<1> QED
  BY <1>1, <1>2, <1>4, <1>5

(* A step of the worker that starts the inspector.                         *)
LEMMA InspectorBoots ==
  ASSUME StagingTypes, BootInspector
  PROVE  /\ hand.do = "worker" /\ hand'.do = "worker"
         /\ hand'.pc \notin {"dd", "compare"} /\ sup' = sup
         /\ guest' \in {"paused", "running"}
         /\ work' \in [there : SUBSET (Files \cup {"console.log"}), size : [Files -> Nat]]
         /\ UNCHANGED <<dir, phase, own, next, capsule, records, ends, marker,
                        lv, live, runs, loops>>
<1>1. CASE Worker("xl create")
  <2>1. work' = work /\ guest' = "paused" /\ Work("unpause")
    BY <1>1 DEF BootInspector, Worker
  <2>2. UNCHANGED <<ledgers, records, ends, marker, lv, live, runs, loops>>
    BY DEF BootInspector
  <2> QED
    BY <1>1, <2>1, <2>2 DEF StagingTypes, Worker, Work, Take, ledgers
<1>2. CASE Worker("unpause")
  <2>1. work' = [work EXCEPT !.there = @ \cup {"console.log"}] /\ guest' = "running" /\ Work("poll")
    BY <1>2 DEF BootInspector, Worker
  <2>2. UNCHANGED <<ledgers, records, ends, marker, lv, live, runs, loops>>
    BY DEF BootInspector
  <2>3. work' \in [there : SUBSET (Files \cup {"console.log"}), size : [Files -> Nat]]
    BY <2>1 DEF StagingTypes
  <2> QED
    BY <1>2, <2>1, <2>2, <2>3 DEF Worker, Work, Take, ledgers
<1> QED
  BY <1>1, <1>2 DEF BootInspector

(* What a collection takes next is one of its files.                       *)
LEMMA FirstIsLeft ==
  ASSUME NEW k \in Kinds, clean \in [Kinds -> Plans], Rest(k) # {}
  PROVE  First(k) \in Rest(k) /\ First(k) \in Files
<1> DEFINE R == Rest(k)
<1>1. R \subseteq Files
  BY DEF Rest, Plans
<1>2. \E f \in R : \A g \in R : Rank[f] <= Rank[g]
  <2>1. /\ Rank["kernel"] = 1 /\ Rank["initramfs"] = 2 /\ Rank["result.slot"] = 3
        /\ Rank["job.slot"] = 4 /\ Rank["guest.cfg"] = 5
    BY DEF Rank, Files, Artifacts, Written
  <2> HIDE DEF R
  <2>2. R # {} /\ \A f \in R : f \in {"kernel", "initramfs", "result.slot", "job.slot", "guest.cfg"}
    BY <1>1 DEF R, Files, Artifacts, Written
  <2> QED
    BY <2>1, <2>2
<1> QED
  BY <1>1, <1>2 DEF First

(* Each step keeps the types of the staging ledgers, ...                   *)
LEMMA StagingTypesNext ==
  ASSUME EvidenceInv, [Next]_vars
  PROVE  StagingTypes'
<1> USE DEF EvidenceInv, StagingTypes
<1>1. CASE StartStaging
  BY <1>1 DEF StartStaging, LockFree, Take, records, ends, xen, Idle
<1>2. CASE RecordStaging
  <2>1. CASE At("stage", "intent")
    BY <1>2, <2>1 DEF RecordStaging, At, Take, Give, records, ends, xen, Idle
  <2>2. CASE At("stage", "state")
    BY <1>2, <2>2 DEF RecordStaging, At, Take, Give, records, ends, xen, Idle
  <2> QED
    BY <1>2, <2>1, <2>2 DEF RecordStaging
<1>3. ASSUME NEW f \in Artifacts, ReceivePart(f)
      PROVE  StagingTypes'
  BY <1>3 DEF ReceivePart, LockFree, With, records, ends, xen, Idle, Files,
      Artifacts, Written
<1>4. CASE CreateArtifact
  BY <1>4 DEF CreateArtifact, Idle, Grow, With, records, ends, xen, Files,
      Artifacts, Written
<1>5. CASE BeginPart
  BY <1>5 DEF BeginPart, At, With, records, ends, xen, Idle, Files, Artifacts,
      Written
<1>6. CASE AppendPart
  BY <1>6 DEF AppendPart, At, Grow, With, ledgers, records, ends, xen, Idle,
      Files, Artifacts, Written
<1>7. CASE RecordPart
  BY <1>7 DEF RecordPart, At, Give, records, ends, xen, Idle, Files,
      Artifacts, Written
<1>8. CASE FinishStaging
  BY <1>8 DEF FinishStaging, LockFree, Take, records, ends, xen, Idle
<1>9. CASE CloseReady
  BY <1>9 DEF CloseReady, At, Give, records, ends, xen, Idle
<1>10. CASE Capture
  BY <1>10 DEF Capture, LockFree, Take, ledgers, ends, xen, Idle
<1>11. CASE CompleteCapture
  BY <1>11 DEF CompleteCapture, At, Give, ledgers, ends, xen, Idle
<1>12. CASE Allocate
  BY <1>12 DEF Allocate, LockFree, Take, ledgers, ends, xen, Idle
<1>13. CASE AllocateVolume
  <2>1. CASE At("allocate", "lvcreate")
    BY <1>13, <2>1 DEF AllocateVolume, At, Take, Give, ledgers, ends, xen,
        Idle
  <2>2. CASE At("allocate", "record")
    BY <1>13, <2>2 DEF AllocateVolume, At, Take, Give, ledgers, ends, xen,
        Idle
  <2> QED
    BY <1>13, <2>1, <2>2 DEF AllocateVolume
<1>14. CASE StartCopy
  BY <1>14 DEF StartCopy, LockFree, Work, ledgers, ends, xen, Idle, Take
<1>15. CASE CopyDisk
  BY <1>15 DEF CopyDisk, Worker, Work, ledgers, records, ends, xen, Idle, Take
<1>16. CASE CompareCopy
  BY <1>16 DEF CompareCopy, Worker, Leave, ledgers, ends, xen, Idle, Give
<1>17. CASE StartInspection
  BY <1>17 DEF StartInspection, LockFree, Work, ledgers, ends, xen, Idle, Take
<1>18. CASE WriteInspectorFile
  BY <1>18, InspectorFile
<1>19. CASE AttachSlots
  BY <1>19 DEF AttachSlots, Worker, Work, ledgers, records, ends, Idle, Take
<1>20. CASE BootInspector
  BY <1>20, InspectorBoots
<1>21. CASE EndInspector
  BY <1>21 DEF EndInspector, Worker, Work, ledgers, records, ends, Idle, Take
<1>22. CASE DetachSlots
  BY <1>22 DEF DetachSlots, Worker, Work, ledgers, records, ends, Idle, Take
<1>23. CASE Prove
  BY <1>23 DEF Prove, Worker, Leave, ledgers, ends, xen, Idle, Give
<1>24. CASE WorkerRefuses
  BY <1>24 DEF WorkerRefuses, Idle, Worker, Raise, ledgers, ends
<1>25. CASE ClearFence
  BY <1>25 DEF ClearFence, LockFree, Take, ledgers, ends, xen, Idle
<1>26. CASE UnlinkMarker
  BY <1>26 DEF UnlinkMarker, At, Give, ledgers, records, ends, xen, Idle
<1>27. CASE AbortPrepared
  BY <1>27 DEF AbortPrepared, LockFree, Take, ledgers, records, xen, Idle
<1>28. CASE RetireCompleted
  BY <1>28 DEF RetireCompleted, LockFree, Take, ledgers, records, xen, Idle
<1>29. ASSUME NEW k \in Kinds, StartCollection(k)
      PROVE  StagingTypes'
  BY <1>29 DEF StartCollection, LockFree, Take, records, ends, xen, Idle,
      Kinds
<1>30. CASE RemoveBackup
  <2>1. CASE At("abort", "lvremove")
    BY <1>30, <2>1 DEF RemoveBackup, At, Take, ledgers, records, ends, xen,
        Idle
  <2>2. CASE At("retire", "lvremove")
    BY <1>30, <2>2 DEF RemoveBackup, At, Take, ledgers, records, ends, xen,
        Idle
  <2> QED
    BY <1>30, <2>1, <2>2 DEF RemoveBackup
<1>31. CASE CompleteRemoval
  <2>1. CASE At("abort", "complete")
    BY <1>31, <2>1 DEF CompleteRemoval, At, Give, ledgers, records, xen, Idle
  <2>2. CASE At("retire", "complete")
    BY <1>31, <2>2 DEF CompleteRemoval, At, Give, ledgers, records, xen, Idle
  <2> QED
    BY <1>31, <2>1, <2>2 DEF CompleteRemoval
<1>32. ASSUME NEW k \in Kinds, SavePlan(k)
      PROVE  StagingTypes'
  BY <1>32 DEF SavePlan, At, Take, ledgers, records, xen, Idle, Kinds
<1>33. ASSUME NEW k \in Kinds, MarkFile(k)
      PROVE  StagingTypes'
  BY <1>33 DEF MarkFile, At, Take, ledgers, records, xen, Idle, Kinds
<1>34. ASSUME NEW k \in Kinds, UnlinkFile(k)
      PROVE  StagingTypes'
  BY <1>34 DEF UnlinkFile, At, Take, ledgers, records, ends, xen, Idle, Files,
      Artifacts, Written, Kinds
<1>35. ASSUME NEW k \in Kinds, EndCollection(k)
      PROVE  StagingTypes'
  BY <1>35 DEF EndCollection, At, Take, records, ends, xen, Idle, Kinds
<1>36. ASSUME NEW k \in Kinds, CompleteCollection(k)
      PROVE  StagingTypes'
  BY <1>36 DEF CompleteCollection, At, Give, ledgers, records, xen, Idle,
      Kinds
<1>37. CASE Killed
  BY <1>37 DEF Killed, Spend, Idle, ledgers, records, ends, xen
<1>38. CASE WorkerFails
  BY <1>38 DEF WorkerFails, Spend, Raise, Idle, ledgers, ends
<1>39. CASE PowerLoss
  BY <1>39 DEF PowerLoss, Spend, Idle, ledgers, records, ends
<1>40. CASE StageRequest \/ Grant \/ Launch \/ ReportFailure \/ Expire \/ Arm
          \/ StopOriginal \/ OpenWindow \/ EndWait \/ FenceNewWork \/
          AbortInspection \/ ReturnOriginal \/ StartOriginal \/ VerifyReturned
          \/ RecordResult \/ Restart \/ StageHealth \/
          (\E k \in Kinds : StrikeFile(k)) \/ AgeReceipt
  <2>1. UNCHANGED <<dir, phase, own, next, capsule, work, hand>>
    BY <1>40 DEF StageRequest, LockFree, ledgers, ends, xen, Idle, Grant,
              Launch, Kinds, ReportFailure, Expire, records, Arm,
              StopOriginal, OpenWindow, EndWait, FenceNewWork,
              AbortInspection, ReturnOriginal, StartOriginal, VerifyReturned,
              RecordResult, Restart, StageHealth, StrikeFile, At, AgeReceipt,
              Spend
  <2> QED
    BY <2>1
<1>41. CASE UNCHANGED vars
  BY <1>41 DEF vars, ledgers, records, ends, xen
<1> QED
  BY <1>1, <1>2, <1>3, <1>4, <1>5, <1>6, <1>7, <1>8, <1>9, <1>10, <1>11,
     <1>12, <1>13, <1>14, <1>15, <1>16, <1>17, <1>18, <1>19, <1>20, <1>21,
     <1>22, <1>23, <1>24, <1>25, <1>26, <1>27, <1>28, <1>29, <1>30, <1>31,
     <1>32, <1>33, <1>34, <1>35, <1>36, <1>37, <1>38, <1>39, <1>40, <1>41
  DEF Next, Staging, Preparation, WorkerStep, Recovery, Removal, Removals,
      Collect, Failures

(* ... of the records of the outage, ...                                   *)
LEMMA OutageTypesNext ==
  ASSUME EvidenceInv, [Next]_vars
  PROVE  OutageTypes'
<1> USE DEF EvidenceInv, OutageTypes, BoxTypes
<1>1. CASE Capture
  BY <1>1 DEF Capture, LockFree, Take, ledgers, ends, xen, Idle
<1>2. CASE CompleteCapture
  BY <1>2 DEF CompleteCapture, At, Give, ledgers, ends, xen, Idle
<1>3. CASE Allocate
  <2>1. disk' \in Disks
    BY <1>3 DEF Allocate, LockFree, Take, ledgers, ends, xen, Idle, Disks
  <2> QED
    BY <1>3, <2>1 DEF Allocate, LockFree, Take, ledgers, ends, xen, Idle
<1>4. CASE AllocateVolume
  <2>1. disk' \in Disks
    BY <1>4 DEF AllocateVolume, At, Take, Give, ledgers, ends, xen, Idle,
        Disks
  <2> QED
    BY <1>4, <2>1 DEF AllocateVolume, At, Take, Give, ledgers, ends, xen, Idle
<1>5. CASE StageRequest
  BY <1>5 DEF StageRequest, LockFree, ledgers, ends, xen, Idle
<1>6. CASE Grant
  BY <1>6 DEF Grant, ledgers, ends, xen
<1>7. CASE Launch
  BY <1>7 DEF Launch, Idle, ledgers, ends, xen
<1>8. CASE ReportFailure
  BY <1>8 DEF ReportFailure, ledgers, ends, xen
<1>9. CASE Arm
  BY <1>9 DEF Arm, LockFree, ledgers, records, ends, xen, Idle
<1>10. CASE StartCopy
  <2>1. disk' \in Disks
    BY <1>10 DEF StartCopy, LockFree, Work, ledgers, ends, xen, Idle, Take,
        Disks
  <2> QED
    BY <1>10, <2>1 DEF StartCopy, LockFree, Work, ledgers, ends, xen, Idle,
        Take
<1>11. CASE CompareCopy
  <2>1. disk' \in Disks
    BY <1>11 DEF CompareCopy, Worker, Leave, ledgers, ends, xen, Idle, Give,
        Disks
  <2> QED
    BY <1>11, <2>1 DEF CompareCopy, Worker, Leave, ledgers, ends, xen, Idle,
        Give
<1>12. CASE StartInspection
  BY <1>12 DEF StartInspection, LockFree, Work, ledgers, ends, xen, Idle, Take
<1>13. CASE Prove
  BY <1>13 DEF Prove, Worker, Leave, ledgers, ends, xen, Idle, Give
<1>14. CASE OpenWindow
  BY <1>14 DEF OpenWindow, LockFree, ledgers, records, ends, xen, Idle
<1>15. CASE FenceNewWork
  <2>1. result' \in Results
    BY <1>15 DEF FenceNewWork, LockFree, ledgers, ends, xen, Idle, Results
  <2> QED
    BY <1>15, <2>1 DEF FenceNewWork, LockFree, ledgers, ends, xen, Idle
<1>16. CASE ReturnOriginal
  BY <1>16 DEF ReturnOriginal, LockFree, ledgers, records, ends, xen, Idle
<1>17. CASE RecordResult
  <2>1. result' \in Results
    BY <1>17 DEF RecordResult, ledgers, ends, xen, Results
  <2> QED
    BY <1>17, <2>1 DEF RecordResult, ledgers, ends, xen
<1>18. CASE WorkerRefuses
  <2>1. result' \in Results
    BY <1>18 DEF WorkerRefuses, Idle, Worker, Raise, ledgers, ends, Results
  <2> QED
    BY <1>18, <2>1 DEF WorkerRefuses, Idle, Worker, Raise, ledgers, ends
<1>19. CASE Restart
  <2>1. result' \in Results
    BY <1>19 DEF Restart, Idle, ledgers, ends, xen, Results
  <2> QED
    BY <1>19, <2>1 DEF Restart, Idle, ledgers, ends, xen
<1>20. CASE StageHealth
  <2>1. health' \in Healths
    BY <1>20 DEF StageHealth, LockFree, ledgers, ends, xen, Idle, Healths
  <2> QED
    BY <1>20, <2>1 DEF StageHealth, LockFree, ledgers, ends, xen, Idle
<1>21. CASE ClearFence
  <2>1. health' \in Healths
    BY <1>21 DEF ClearFence, LockFree, Take, ledgers, ends, xen, Idle, Healths
  <2> QED
    BY <1>21, <2>1 DEF ClearFence, LockFree, Take, ledgers, ends, xen, Idle
<1>22. CASE UnlinkMarker
  BY <1>22 DEF UnlinkMarker, At, Give, ledgers, records, ends, xen, Idle
<1>23. CASE WorkerFails
  <2>1. result' \in Results
    BY <1>23 DEF WorkerFails, Spend, Raise, Idle, ledgers, ends, Results
  <2> QED
    BY <1>23, <2>1 DEF WorkerFails, Spend, Raise, Idle, ledgers, ends
<1>24. CASE AgeReceipt
  <2>1. health' \in Healths
    BY <1>24 DEF AgeReceipt, Spend, ledgers, ends, xen, Healths
  <2> QED
    BY <1>24, <2>1 DEF AgeReceipt, Spend, ledgers, ends, xen
<1>25. CASE StartStaging \/ RecordStaging \/
          (\E f \in Artifacts : ReceivePart(f)) \/ CreateArtifact \/ BeginPart
          \/ AppendPart \/ RecordPart \/ FinishStaging \/ CloseReady \/ Expire
          \/ StopOriginal \/ CopyDisk \/ WriteInspectorFile \/ AttachSlots \/
          BootInspector \/ EndInspector \/ DetachSlots \/ EndWait \/
          AbortInspection \/ StartOriginal \/ VerifyReturned \/ AbortPrepared
          \/ RetireCompleted \/ (\E k \in Kinds : StartCollection(k)) \/
          RemoveBackup \/ CompleteRemoval \/ (\E k \in Kinds : SavePlan(k)) \/
          (\E k \in Kinds : MarkFile(k)) \/ (\E k \in Kinds : UnlinkFile(k))
          \/ (\E k \in Kinds : StrikeFile(k)) \/
          (\E k \in Kinds : EndCollection(k)) \/
          (\E k \in Kinds : CompleteCollection(k)) \/ Killed \/ PowerLoss
  <2>1. UNCHANGED <<meta, disk, request, launch, proof, result, health, marker>>
    BY <1>25 DEF StartStaging, LockFree, Take, records, ends, xen, Idle,
              RecordStaging, At, Give, ReceivePart, With, CreateArtifact,
              Grow, BeginPart, AppendPart, ledgers, RecordPart, FinishStaging,
              CloseReady, Expire, StopOriginal, CopyDisk, Worker, Work,
              WriteInspectorFile, AttachSlots, BootInspector, EndInspector,
              DetachSlots, EndWait, AbortInspection, StartOriginal,
              VerifyReturned, AbortPrepared, RetireCompleted, StartCollection,
              RemoveBackup, CompleteRemoval, SavePlan, MarkFile, UnlinkFile,
              StrikeFile, EndCollection, CompleteCollection, Killed, Spend,
              PowerLoss
  <2> QED
    BY <2>1
<1>26. CASE UNCHANGED vars
  BY <1>26 DEF vars, ledgers, records, ends, xen
<1> QED
  BY <1>1, <1>2, <1>3, <1>4, <1>5, <1>6, <1>7, <1>8, <1>9, <1>10, <1>11,
     <1>12, <1>13, <1>14, <1>15, <1>16, <1>17, <1>18, <1>19, <1>20, <1>21,
     <1>22, <1>23, <1>24, <1>25, <1>26
  DEF Next, Staging, Preparation, WorkerStep, Recovery, Removal, Removals,
      Collect, Failures

(* ... of what is on the box, ...                                          *)
LEMMA BoxTypesNext ==
  ASSUME EvidenceInv, [Next]_vars
  PROVE  BoxTypes'
<1> USE DEF EvidenceInv, BoxTypes
<1>1. CASE AllocateVolume
  <2>1. PICK w \in Volumes : lv' = w
    BY <1>1 DEF AllocateVolume, BoxTypes, Volumes
  <2> QED
    BY <1>1, <2>1 DEF AllocateVolume, xen
<1>2. CASE Expire
  BY <1>2 DEF Expire, ledgers, records, ends, xen
<1>3. CASE StopOriginal
  BY <1>3 DEF StopOriginal, ledgers, records, ends
<1>4. CASE CopyDisk
  <2>1. lv' \in Volumes
    BY <1>4 DEF CopyDisk, Worker, Work, ledgers, records, ends, xen, Idle,
        Take, Volumes
  <2> QED
    BY <1>4, <2>1 DEF CopyDisk, Worker, Work, ledgers, records, ends, xen,
        Idle, Take
<1>5. CASE AttachSlots
  BY <1>5 DEF AttachSlots, Worker, Work, ledgers, records, ends, Idle, Take
<1>6. CASE BootInspector
  <2>1. CASE Worker("xl create")
    BY <1>6, <2>1 DEF BootInspector, Worker, Work, ledgers, records, ends,
        Idle, Take
  <2>2. CASE Worker("unpause")
    BY <1>6, <2>2 DEF BootInspector, Worker, Work, ledgers, records, ends,
        Idle, Take
  <2> QED
    BY <1>6, <2>1, <2>2 DEF BootInspector
<1>7. CASE EndInspector
  BY <1>7 DEF EndInspector, Worker, Work, ledgers, records, ends, Idle, Take
<1>8. CASE DetachSlots
  BY <1>8 DEF DetachSlots, Worker, Work, ledgers, records, ends, Idle, Take
<1>9. CASE AbortInspection
  BY <1>9 DEF AbortInspection, LockFree, ledgers, records, ends, Idle
<1>10. CASE StartOriginal
  BY <1>10 DEF StartOriginal, ledgers, records, ends
<1>11. CASE RemoveBackup
  <2>1. lv' \in Volumes
    BY <1>11 DEF RemoveBackup, At, Take, ledgers, records, ends, xen, Idle,
        Volumes
  <2> QED
    BY <1>11, <2>1 DEF RemoveBackup, At, Take, ledgers, records, ends, xen,
        Idle
<1>12. CASE Killed
  BY <1>12 DEF Killed, Spend, Idle, ledgers, records, ends, xen
<1>13. CASE WorkerFails
  BY <1>13 DEF WorkerFails, Spend, Raise, Idle, ledgers, ends
<1>14. CASE PowerLoss
  BY <1>14 DEF PowerLoss, Spend, Idle, ledgers, records, ends
<1>15. CASE AgeReceipt
  BY <1>15 DEF AgeReceipt, Spend, ledgers, ends, xen
<1>16. CASE StartStaging \/ RecordStaging \/
          (\E f \in Artifacts : ReceivePart(f)) \/ CreateArtifact \/ BeginPart
          \/ AppendPart \/ RecordPart \/ FinishStaging \/ CloseReady \/
          Capture \/ CompleteCapture \/ Allocate \/ StageRequest \/ Grant \/
          Launch \/ ReportFailure \/ Arm \/ StartCopy \/ CompareCopy \/
          StartInspection \/ WriteInspectorFile \/ Prove \/ OpenWindow \/
          EndWait \/ FenceNewWork \/ ReturnOriginal \/ VerifyReturned \/
          RecordResult \/ WorkerRefuses \/ Restart \/ StageHealth \/
          ClearFence \/ UnlinkMarker \/ AbortPrepared \/ RetireCompleted \/
          (\E k \in Kinds : StartCollection(k)) \/ CompleteRemoval \/
          (\E k \in Kinds : SavePlan(k)) \/ (\E k \in Kinds : MarkFile(k)) \/
          (\E k \in Kinds : UnlinkFile(k)) \/ (\E k \in Kinds : StrikeFile(k))
          \/ (\E k \in Kinds : EndCollection(k)) \/
          (\E k \in Kinds : CompleteCollection(k))
  <2>1. UNCHANGED <<lv, live, runs, guest, loops, late, left>>
    BY <1>16 DEF StartStaging, LockFree, Take, records, ends, xen, Idle,
              RecordStaging, At, Give, ReceivePart, With, CreateArtifact,
              Grow, BeginPart, AppendPart, ledgers, RecordPart, FinishStaging,
              CloseReady, Capture, CompleteCapture, Allocate, StageRequest,
              Grant, Launch, ReportFailure, Arm, StartCopy, Work, CompareCopy,
              Worker, Leave, StartInspection, WriteInspectorFile, Prove,
              OpenWindow, EndWait, FenceNewWork, ReturnOriginal,
              VerifyReturned, RecordResult, WorkerRefuses, Raise, Restart,
              StageHealth, ClearFence, UnlinkMarker, AbortPrepared,
              RetireCompleted, StartCollection, CompleteRemoval, SavePlan,
              MarkFile, UnlinkFile, StrikeFile, EndCollection,
              CompleteCollection
  <2> QED
    BY <2>1
<1>17. CASE UNCHANGED vars
  BY <1>17 DEF vars, ledgers, records, ends, xen
<1> QED
  BY <1>1, <1>2, <1>3, <1>4, <1>5, <1>6, <1>7, <1>8, <1>9, <1>10, <1>11,
     <1>12, <1>13, <1>14, <1>15, <1>16, <1>17
  DEF Next, Staging, Preparation, WorkerStep, Recovery, Removal, Removals,
      Collect, Failures

(* ... and of what the removals record.                                    *)
LEMMA RemovalTypesNext ==
  ASSUME EvidenceInv, [Next]_vars
  PROVE  RemovalTypes'
<1> USE DEF EvidenceInv, RemovalTypes
<1>1. CASE AbortPrepared
  <2>1. removal' \in Uses
    BY <1>1 DEF AbortPrepared, LockFree, Take, ledgers, records, xen, Idle,
        Uses, Halves, OutageTypes
  <2> QED
    BY <1>1, <2>1 DEF AbortPrepared, LockFree, Take, ledgers, records, xen,
        Idle
<1>2. CASE RetireCompleted
  <2>1. removal' \in Uses
    BY <1>2 DEF RetireCompleted, LockFree, Take, ledgers, records, xen, Idle,
        Uses, Halves, OutageTypes
  <2> QED
    BY <1>2, <2>1 DEF RetireCompleted, LockFree, Take, ledgers, records, xen,
        Idle
<1>3. CASE CompleteRemoval
  <2>1. removal' \in Uses
    BY <1>3 DEF CompleteRemoval, At, Give, ledgers, records, xen, Idle, Uses,
        Halves, OutageTypes
  <2> QED
    BY <1>3, <2>1 DEF CompleteRemoval, At, Give, ledgers, records, xen, Idle
<1>4. ASSUME NEW k \in Kinds, SavePlan(k)
      PROVE  RemovalTypes'
  <2>1. Claims(k) \in SUBSET Files
    BY DEF Claims, Artifacts, Files
  <2>2. [clean[k] EXCEPT !.saved = TRUE, !.files = Claims(k)] \in Plans
    BY <2>1, <1>4 DEF Plans
  <2>3. \/ clean' = clean
        \/ clean' = [clean EXCEPT ![k] = [clean[k] EXCEPT !.saved = TRUE, !.files = Claims(k)]]
    BY <1>4 DEF SavePlan
  <2>4. removal' = removal
    BY <1>4 DEF SavePlan
  <2> QED
    BY <1>4, <2>2, <2>3, <2>4
<1>5. ASSUME NEW k \in Kinds, MarkFile(k)
      PROVE  RemovalTypes'
  <2>1. First(k) \in Files /\ First(k) \in Rest(k)
    BY <1>5, FirstIsLeft DEF MarkFile
  <2>2. [clean[k] EXCEPT !.mark = First(k)] \in Plans
    BY <2>1, <1>5 DEF Plans
  <2>3. clean' = [clean EXCEPT ![k] = [clean[k] EXCEPT !.mark = First(k)]] /\ removal' = removal
    BY <1>5 DEF MarkFile
  <2> QED
    BY <1>5, <2>2, <2>3
<1>6. ASSUME NEW k \in Kinds, StrikeFile(k)
      PROVE  RemovalTypes'
  <2>1. First(k) \in Files /\ First(k) \in Rest(k)
    BY <1>6, FirstIsLeft DEF StrikeFile
  <2>2. [clean[k] EXCEPT !.removed = @ \cup {First(k)}, !.mark = "none"] \in Plans
    BY <2>1, <1>6 DEF Plans
  <2>3. /\ clean' = [clean EXCEPT ![k] =
                        [clean[k] EXCEPT !.removed = @ \cup {First(k)}, !.mark = "none"]]
        /\ removal' = removal
    BY <1>6 DEF StrikeFile
  <2> QED
    BY <1>6, <2>2, <2>3
<1>7. ASSUME NEW k \in Kinds, CompleteCollection(k)
      PROVE  RemovalTypes'
  <2>1. clean' \in [Kinds -> Plans]
    BY <1>7 DEF CompleteCollection, At, Give, ledgers, records, xen, Idle,
        Plans
  <2> QED
    BY <1>7, <2>1 DEF CompleteCollection, At, Give, ledgers, records, xen,
        Idle
<1>8. CASE StartStaging \/ RecordStaging \/
          (\E f \in Artifacts : ReceivePart(f)) \/ CreateArtifact \/ BeginPart
          \/ AppendPart \/ RecordPart \/ FinishStaging \/ CloseReady \/
          Capture \/ CompleteCapture \/ Allocate \/ AllocateVolume \/
          StageRequest \/ Grant \/ Launch \/ ReportFailure \/ Expire \/ Arm \/
          StopOriginal \/ StartCopy \/ CopyDisk \/ CompareCopy \/
          StartInspection \/ WriteInspectorFile \/ AttachSlots \/
          BootInspector \/ EndInspector \/ DetachSlots \/ Prove \/ OpenWindow
          \/ EndWait \/ FenceNewWork \/ AbortInspection \/ ReturnOriginal \/
          StartOriginal \/ VerifyReturned \/ RecordResult \/ WorkerRefuses \/
          Restart \/ StageHealth \/ ClearFence \/ UnlinkMarker \/
          (\E k \in Kinds : StartCollection(k)) \/ RemoveBackup \/
          (\E k \in Kinds : UnlinkFile(k)) \/
          (\E k \in Kinds : EndCollection(k)) \/ Killed \/ WorkerFails \/
          PowerLoss \/ AgeReceipt
  <2>1. UNCHANGED <<removal, clean>>
    BY <1>8 DEF StartStaging, LockFree, Take, records, ends, xen, Idle,
              RecordStaging, At, Give, ReceivePart, With, CreateArtifact,
              Grow, BeginPart, AppendPart, ledgers, RecordPart, FinishStaging,
              CloseReady, Capture, CompleteCapture, Allocate, AllocateVolume,
              StageRequest, Grant, Launch, ReportFailure, Expire, Arm,
              StopOriginal, StartCopy, Work, CopyDisk, Worker, CompareCopy,
              Leave, StartInspection, WriteInspectorFile, AttachSlots,
              BootInspector, EndInspector, DetachSlots, Prove, OpenWindow,
              EndWait, FenceNewWork, AbortInspection, ReturnOriginal,
              StartOriginal, VerifyReturned, RecordResult, WorkerRefuses,
              Raise, Restart, StageHealth, ClearFence, UnlinkMarker,
              StartCollection, RemoveBackup, UnlinkFile, EndCollection,
              Killed, Spend, WorkerFails, PowerLoss, AgeReceipt
  <2> QED
    BY <2>1
<1>9. CASE UNCHANGED vars
  BY <1>9 DEF vars, ledgers, records, ends, xen
<1> QED
  BY <1>1, <1>2, <1>3, <1>4, <1>5, <1>6, <1>7, <1>8, <1>9
  DEF Next, Staging, Preparation, WorkerStep, Recovery, Removal, Removals,
      Collect, Failures

(* Staging is retired only before the metadata is captured, and all that   *)
(* writes files comes after the capture or while the phase is open.        *)
LEMMA ClosedNext ==
  ASSUME EvidenceInv, [Next]_vars
  PROVE  ClosedInv'
<1> USE DEF EvidenceInv, ClosedInv
<1>1. CASE StartStaging
  BY <1>1 DEF StartStaging, LockFree, Take, records, ends, xen, Idle
<1>2. CASE RecordStaging
  <2>1. CASE At("stage", "intent")
    BY <1>2, <2>1 DEF RecordStaging, At, Take, Give, records, ends, xen, Idle
  <2>2. CASE At("stage", "state")
    BY <1>2, <2>2 DEF RecordStaging, At, Take, Give, records, ends, xen, Idle
  <2> QED
    BY <1>2, <2>1, <2>2 DEF RecordStaging
<1>3. ASSUME NEW f \in Artifacts, ReceivePart(f)
      PROVE  ClosedInv'
  BY <1>3 DEF ReceivePart, LockFree, Staged, With, records, ends, xen, Idle
<1>4. CASE CreateArtifact
  BY <1>4 DEF CreateArtifact, Idle, Grow, With, records, ends, xen
<1>5. CASE BeginPart
  BY <1>5 DEF BeginPart, At, With, records, ends, xen, Idle
<1>6. CASE AppendPart
  BY <1>6 DEF AppendPart, At, Grow, With, ledgers, records, ends, xen, Idle
<1>7. CASE RecordPart
  BY <1>7 DEF RecordPart, At, Give, records, ends, xen, Idle
<1>8. CASE FinishStaging
  BY <1>8 DEF FinishStaging, LockFree, Staged, Take, records, ends, xen, Idle
<1>9. CASE CloseReady
  BY <1>9 DEF CloseReady, At, Give, records, ends, xen, Idle
<1>10. CASE Capture
  BY <1>10 DEF Capture, LockFree, Ready, Take, ledgers, ends, xen, Idle
<1>11. CASE CompleteCapture
  BY <1>11 DEF CompleteCapture, At, Give, ledgers, ends, xen, Idle
<1>12. CASE Allocate
  BY <1>12 DEF Allocate, LockFree, Take, ledgers, ends, xen, Idle
<1>13. CASE AllocateVolume
  <2>1. CASE At("allocate", "lvcreate")
    BY <1>13, <2>1 DEF AllocateVolume, At, Take, Give, ledgers, ends, xen,
        Idle
  <2>2. CASE At("allocate", "record")
    BY <1>13, <2>2 DEF AllocateVolume, At, Take, Give, ledgers, ends, xen,
        Idle
  <2> QED
    BY <1>13, <2>1, <2>2 DEF AllocateVolume
<1>14. CASE Launch
  BY <1>14 DEF Launch, Prepared, Supervised, Idle, Kinds, ledgers, ends, xen
<1>15. CASE Arm
  BY <1>15 DEF Arm, LockFree, Prepared, ledgers, records, ends, xen, Idle
<1>16. CASE StopOriginal
  BY <1>16 DEF StopOriginal, ledgers, records, ends
<1>17. CASE StartCopy
  BY <1>17 DEF StartCopy, LockFree, Work, ledgers, ends, xen, Idle, Take
<1>18. CASE CopyDisk
  BY <1>18 DEF CopyDisk, Worker, Work, ledgers, records, ends, xen, Idle, Take
<1>19. CASE CompareCopy
  BY <1>19 DEF CompareCopy, Worker, Leave, ledgers, ends, xen, Idle, Give
<1>20. CASE StartInspection
  BY <1>20 DEF StartInspection, LockFree, Work, ledgers, ends, xen, Idle, Take
<1>21. CASE WriteInspectorFile
  BY <1>21, InspectorFile DEF EvidenceInv, records, ends, xen
<1>22. CASE AttachSlots
  BY <1>22 DEF AttachSlots, Worker, Work, ledgers, records, ends, Idle, Take
<1>23. CASE BootInspector
  BY <1>23, InspectorBoots DEF EvidenceInv, records, ends
<1>24. CASE EndInspector
  BY <1>24 DEF EndInspector, Worker, Work, ledgers, records, ends, Idle, Take
<1>25. CASE DetachSlots
  BY <1>25 DEF DetachSlots, Worker, Work, ledgers, records, ends, Idle, Take
<1>26. CASE Prove
  BY <1>26 DEF Prove, Worker, Leave, ledgers, ends, xen, Idle, Give
<1>27. CASE OpenWindow
  BY <1>27 DEF OpenWindow, LockFree, ledgers, records, ends, xen, Idle
<1>28. CASE EndWait
  BY <1>28 DEF EndWait, ledgers, records, ends, xen
<1>29. CASE FenceNewWork
  BY <1>29 DEF FenceNewWork, LockFree, ledgers, ends, xen, Idle
<1>30. CASE AbortInspection
  BY <1>30 DEF AbortInspection, LockFree, ledgers, records, ends, Idle
<1>31. CASE ReturnOriginal
  BY <1>31 DEF ReturnOriginal, LockFree, ledgers, records, ends, xen, Idle
<1>32. CASE StartOriginal
  BY <1>32 DEF StartOriginal, ledgers, records, ends
<1>33. CASE VerifyReturned
  BY <1>33 DEF VerifyReturned, LockFree, ledgers, records, ends, xen, Idle
<1>34. CASE RecordResult
  BY <1>34 DEF RecordResult, ledgers, ends, xen
<1>35. CASE WorkerRefuses
  BY <1>35 DEF WorkerRefuses, Supervised, Idle, Worker, Raise, ledgers, ends
<1>36. CASE Restart
  BY <1>36 DEF Restart, Supervised, Idle, Kinds, ledgers, ends, xen
<1>37. CASE ClearFence
  BY <1>37 DEF ClearFence, LockFree, Take, ledgers, ends, xen, Idle
<1>38. CASE UnlinkMarker
  BY <1>38 DEF UnlinkMarker, At, Give, ledgers, records, ends, xen, Idle
<1>39. CASE AbortPrepared
  BY <1>39 DEF AbortPrepared, LockFree, Take, ledgers, records, xen, Idle
<1>40. CASE RetireCompleted
  BY <1>40 DEF RetireCompleted, LockFree, Take, ledgers, records, xen, Idle
<1>41. ASSUME NEW k \in Kinds, StartCollection(k)
      PROVE  ClosedInv'
  BY <1>41 DEF StartCollection, LockFree, Allowed, Take, records, ends, xen,
      Idle, Supervised, Kinds
<1>42. CASE RemoveBackup
  <2>1. CASE At("abort", "lvremove")
    BY <1>42, <2>1 DEF RemoveBackup, At, Take, ledgers, records, ends, xen,
        Idle
  <2>2. CASE At("retire", "lvremove")
    BY <1>42, <2>2 DEF RemoveBackup, At, Take, ledgers, records, ends, xen,
        Idle
  <2> QED
    BY <1>42, <2>1, <2>2 DEF RemoveBackup
<1>43. CASE CompleteRemoval
  <2>1. CASE At("abort", "complete")
    BY <1>43, <2>1 DEF CompleteRemoval, At, Give, ledgers, records, xen, Idle
  <2>2. CASE At("retire", "complete")
    BY <1>43, <2>2 DEF CompleteRemoval, At, Give, ledgers, records, xen, Idle
  <2> QED
    BY <1>43, <2>1, <2>2 DEF CompleteRemoval
<1>44. ASSUME NEW k \in Kinds, SavePlan(k)
      PROVE  ClosedInv'
  BY <1>44 DEF SavePlan, At, Take, ledgers, records, xen, Idle, Kinds
<1>45. ASSUME NEW k \in Kinds, MarkFile(k)
      PROVE  ClosedInv'
  BY <1>45 DEF MarkFile, At, Take, ledgers, records, xen, Idle, Kinds
<1>46. ASSUME NEW k \in Kinds, UnlinkFile(k)
      PROVE  ClosedInv'
  BY <1>46 DEF UnlinkFile, At, Take, ledgers, records, ends, xen, Idle, Kinds
<1>47. ASSUME NEW k \in Kinds, EndCollection(k)
      PROVE  ClosedInv'
  BY <1>47 DEF EndCollection, At, Take, records, ends, xen, Idle, Kinds
<1>48. ASSUME NEW k \in Kinds, CompleteCollection(k)
      PROVE  ClosedInv'
  BY <1>48 DEF CompleteCollection, At, Give, ledgers, records, xen, Idle,
      Kinds
<1>49. CASE Killed
  BY <1>49 DEF Killed, Spend, Idle, Supervised, ledgers, records, ends, xen
<1>50. CASE WorkerFails
  BY <1>50 DEF WorkerFails, Supervised, Spend, Raise, Idle, ledgers, ends
<1>51. CASE PowerLoss
  BY <1>51 DEF PowerLoss, Spend, Idle, Supervised, ledgers, records, ends
<1>52. CASE StageRequest \/ Grant \/ ReportFailure \/ Expire \/ StageHealth \/
          (\E k \in Kinds : StrikeFile(k)) \/ AgeReceipt
  <2>1. UNCHANGED <<dir, phase, meta, marker, sup, hand>>
    BY <1>52 DEF StageRequest, LockFree, Prepared, ledgers, ends, xen, Idle,
              Grant, ReportFailure, Expire, records, StageHealth, StrikeFile,
              At, Kinds, AgeReceipt, Spend
  <2> QED
    BY <2>1
<1>53. CASE UNCHANGED vars
  BY <1>53 DEF vars, ledgers, records, ends, xen
<1> QED
  BY <1>1, <1>2, <1>3, <1>4, <1>5, <1>6, <1>7, <1>8, <1>9, <1>10, <1>11,
     <1>12, <1>13, <1>14, <1>15, <1>16, <1>17, <1>18, <1>19, <1>20, <1>21,
     <1>22, <1>23, <1>24, <1>25, <1>26, <1>27, <1>28, <1>29, <1>30, <1>31,
     <1>32, <1>33, <1>34, <1>35, <1>36, <1>37, <1>38, <1>39, <1>40, <1>41,
     <1>42, <1>43, <1>44, <1>45, <1>46, <1>47, <1>48, <1>49, <1>50, <1>51,
     <1>52, <1>53
  DEF Next, Staging, Preparation, WorkerStep, Recovery, Removal, Removals,
      Collect, Failures

(* The plan that retires staging covers every file.                        *)
LEMMA PlanNext ==
  ASSUME EvidenceInv, [Next]_vars
  PROVE  PlanInv'
<1> USE DEF EvidenceInv, PlanInv, ClosedInv
<1>1. CASE StartStaging
  BY <1>1 DEF StartStaging, LockFree, Take, records, ends, xen, Idle
<1>2. CASE RecordStaging
  <2>1. CASE At("stage", "intent")
    BY <1>2, <2>1 DEF RecordStaging, At, Take, Give, records, ends, xen, Idle
  <2>2. CASE At("stage", "state")
    BY <1>2, <2>2 DEF RecordStaging, At, Take, Give, records, ends, xen, Idle
  <2> QED
    BY <1>2, <2>1, <2>2 DEF RecordStaging
<1>3. ASSUME NEW f \in Artifacts, ReceivePart(f)
      PROVE  PlanInv'
  BY <1>3 DEF ReceivePart, LockFree, With, records, ends, xen, Idle
<1>4. CASE CreateArtifact
  BY <1>4 DEF CreateArtifact, Idle, There, Grow, With, records, ends, xen
<1>5. CASE BeginPart
  BY <1>5 DEF BeginPart, At, There, With, records, ends, xen, Idle
<1>6. CASE AppendPart
  BY <1>6 DEF AppendPart, At, Grow, With, ledgers, records, ends, xen, Idle
<1>7. CASE RecordPart
  BY <1>7 DEF RecordPart, At, Give, records, ends, xen, Idle
<1>8. CASE FinishStaging
  BY <1>8 DEF FinishStaging, LockFree, Take, records, ends, xen, Idle
<1>9. CASE CloseReady
  BY <1>9 DEF CloseReady, At, Give, records, ends, xen, Idle
<1>10. CASE Capture
  BY <1>10 DEF Capture, LockFree, Take, ledgers, ends, xen, Idle
<1>11. CASE CompleteCapture
  BY <1>11 DEF CompleteCapture, At, Give, ledgers, ends, xen, Idle
<1>12. CASE Allocate
  BY <1>12 DEF Allocate, LockFree, Take, ledgers, ends, xen, Idle
<1>13. CASE AllocateVolume
  <2>1. CASE At("allocate", "lvcreate")
    BY <1>13, <2>1 DEF AllocateVolume, At, Take, Give, ledgers, ends, xen,
        Idle
  <2>2. CASE At("allocate", "record")
    BY <1>13, <2>2 DEF AllocateVolume, At, Take, Give, ledgers, ends, xen,
        Idle
  <2> QED
    BY <1>13, <2>1, <2>2 DEF AllocateVolume
<1>14. CASE StartCopy
  BY <1>14 DEF StartCopy, LockFree, Work, ledgers, ends, xen, Idle, Take
<1>15. CASE CopyDisk
  BY <1>15 DEF CopyDisk, Worker, Work, ledgers, records, ends, xen, Idle, Take
<1>16. CASE CompareCopy
  BY <1>16 DEF CompareCopy, Worker, Leave, ledgers, ends, xen, Idle, Give
<1>17. CASE StartInspection
  BY <1>17 DEF StartInspection, LockFree, Work, ledgers, ends, xen, Idle, Take
<1>18. CASE WriteInspectorFile
  BY <1>18, InspectorFile DEF EvidenceInv, records, ends, xen
<1>19. CASE AttachSlots
  BY <1>19 DEF AttachSlots, Worker, Work, ledgers, records, ends, Idle, Take
<1>20. CASE BootInspector
  BY <1>20, InspectorBoots DEF EvidenceInv, records, ends
<1>21. CASE EndInspector
  BY <1>21 DEF EndInspector, Worker, Work, ledgers, records, ends, Idle, Take
<1>22. CASE DetachSlots
  BY <1>22 DEF DetachSlots, Worker, Work, ledgers, records, ends, Idle, Take
<1>23. CASE Prove
  BY <1>23 DEF Prove, Worker, Leave, ledgers, ends, xen, Idle, Give
<1>24. CASE WorkerRefuses
  BY <1>24 DEF WorkerRefuses, Idle, Worker, Raise, ledgers, ends
<1>25. CASE ClearFence
  BY <1>25 DEF ClearFence, LockFree, Take, ledgers, ends, xen, Idle
<1>26. CASE UnlinkMarker
  BY <1>26 DEF UnlinkMarker, At, Give, ledgers, records, ends, xen, Idle
<1>27. CASE AbortPrepared
  BY <1>27 DEF AbortPrepared, LockFree, Take, ledgers, records, xen, Idle
<1>28. CASE RetireCompleted
  BY <1>28 DEF RetireCompleted, LockFree, Take, ledgers, records, xen, Idle
<1>29. ASSUME NEW k \in Kinds, StartCollection(k)
      PROVE  PlanInv'
  BY <1>29 DEF StartCollection, LockFree, Allowed, Take, records, ends, xen,
      Idle, Ledgered, Kinds
<1>30. CASE RemoveBackup
  <2>1. CASE At("abort", "lvremove")
    BY <1>30, <2>1 DEF RemoveBackup, At, Take, ledgers, records, ends, xen,
        Idle
  <2>2. CASE At("retire", "lvremove")
    BY <1>30, <2>2 DEF RemoveBackup, At, Take, ledgers, records, ends, xen,
        Idle
  <2> QED
    BY <1>30, <2>1, <2>2 DEF RemoveBackup
<1>31. CASE CompleteRemoval
  <2>1. CASE At("abort", "complete")
    BY <1>31, <2>1 DEF CompleteRemoval, At, Give, ledgers, records, xen, Idle
  <2>2. CASE At("retire", "complete")
    BY <1>31, <2>2 DEF CompleteRemoval, At, Give, ledgers, records, xen, Idle
  <2> QED
    BY <1>31, <2>1, <2>2 DEF CompleteRemoval
<1>32. ASSUME NEW k \in Kinds, SavePlan(k)
      PROVE  PlanInv'
  BY <1>32 DEF SavePlan, At, Claims, Take, ledgers, records, xen, Idle, There,
      RemovalTypes, Plans, Kinds
<1>33. ASSUME NEW k \in Kinds, MarkFile(k)
      PROVE  PlanInv'
  BY <1>33 DEF MarkFile, At, There, Take, ledgers, records, xen, Idle,
      RemovalTypes, Plans, Kinds
<1>34. ASSUME NEW k \in Kinds, UnlinkFile(k)
      PROVE  PlanInv'
  BY <1>34 DEF UnlinkFile, At, Take, ledgers, records, ends, xen, Idle,
      StagingTypes, Kinds
<1>35. ASSUME NEW k \in Kinds, StrikeFile(k)
      PROVE  PlanInv'
  BY <1>35 DEF StrikeFile, At, There, ledgers, records, xen, Idle,
      RemovalTypes, Plans, Kinds
<1>36. ASSUME NEW k \in Kinds, EndCollection(k)
      PROVE  PlanInv'
  BY <1>36 DEF EndCollection, At, Take, records, ends, xen, Idle, Kinds
<1>37. ASSUME NEW k \in Kinds, CompleteCollection(k)
      PROVE  PlanInv'
  BY <1>37 DEF CompleteCollection, At, Give, ledgers, records, xen, Idle,
      RemovalTypes, Plans, Kinds
<1>38. CASE Killed
  BY <1>38 DEF Killed, Spend, Idle, ledgers, records, ends, xen
<1>39. CASE WorkerFails
  BY <1>39 DEF WorkerFails, Spend, Raise, Idle, ledgers, ends
<1>40. CASE PowerLoss
  BY <1>40 DEF PowerLoss, Spend, Idle, ledgers, records, ends
<1>41. CASE StageRequest \/ Grant \/ Launch \/ ReportFailure \/ Expire \/ Arm
          \/ StopOriginal \/ OpenWindow \/ EndWait \/ FenceNewWork \/
          AbortInspection \/ ReturnOriginal \/ StartOriginal \/ VerifyReturned
          \/ RecordResult \/ Restart \/ StageHealth \/ AgeReceipt
  <2>1. UNCHANGED <<phase, own, clean, work, hand>>
    BY <1>41 DEF StageRequest, LockFree, ledgers, ends, xen, Idle, Grant,
              Launch, Kinds, ReportFailure, Expire, records, Arm,
              StopOriginal, OpenWindow, EndWait, FenceNewWork,
              AbortInspection, ReturnOriginal, StartOriginal, VerifyReturned,
              RecordResult, Restart, StageHealth, AgeReceipt, Spend
  <2> QED
    BY <2>1
<1>42. CASE UNCHANGED vars
  BY <1>42 DEF vars, ledgers, records, ends, xen
<1> QED
  BY <1>1, <1>2, <1>3, <1>4, <1>5, <1>6, <1>7, <1>8, <1>9, <1>10, <1>11,
     <1>12, <1>13, <1>14, <1>15, <1>16, <1>17, <1>18, <1>19, <1>20, <1>21,
     <1>22, <1>23, <1>24, <1>25, <1>26, <1>27, <1>28, <1>29, <1>30, <1>31,
     <1>32, <1>33, <1>34, <1>35, <1>36, <1>37, <1>38, <1>39, <1>40, <1>41,
     <1>42
  DEF Next, Staging, Preparation, WorkerStep, Recovery, Removal, Removals,
      Collect, Failures

(* Nothing is left, or comes back, once staging is retired.                *)
LEMMA RetiredNext ==
  ASSUME EvidenceInv, [Next]_vars
  PROVE  RetiredIsEmpty'
<1> USE DEF EvidenceInv, RetiredIsEmpty, PlanInv, ClosedInv
<1>1. CASE RecordStaging
  <2>1. CASE At("stage", "intent")
    BY <1>1, <2>1 DEF RecordStaging, At, Take, Give, records, ends, xen, Idle
  <2>2. CASE At("stage", "state")
    BY <1>1, <2>2 DEF RecordStaging, At, Take, Give, records, ends, xen, Idle
  <2> QED
    BY <1>1, <2>1, <2>2 DEF RecordStaging
<1>2. CASE CreateArtifact
  BY <1>2 DEF CreateArtifact, Idle, Grow, With, records, ends, xen
<1>3. CASE AppendPart
  BY <1>3 DEF AppendPart, At, Grow, With, ledgers, records, ends, xen, Idle
<1>4. CASE CloseReady
  BY <1>4 DEF CloseReady, At, Give, records, ends, xen, Idle
<1>5. CASE WriteInspectorFile
  BY <1>5, InspectorFile DEF EvidenceInv, records, ends, xen
<1>6. CASE BootInspector
  BY <1>6, InspectorBoots DEF EvidenceInv, records, ends
<1>7. ASSUME NEW k \in Kinds, StartCollection(k)
      PROVE  RetiredIsEmpty'
  BY <1>7 DEF StartCollection, LockFree, Take, records, ends, xen, Idle, Kinds
<1>8. ASSUME NEW k \in Kinds, UnlinkFile(k)
      PROVE  RetiredIsEmpty'
  BY <1>8 DEF UnlinkFile, At, Take, ledgers, records, ends, xen, Idle,
      StagingTypes, Kinds
<1>9. ASSUME NEW k \in Kinds, EndCollection(k)
      PROVE  RetiredIsEmpty'
  BY <1>9 DEF EndCollection, At, Rest, Take, records, ends, xen, Idle, Kinds
<1>10. CASE StartStaging \/ (\E f \in Artifacts : ReceivePart(f)) \/ BeginPart
          \/ RecordPart \/ FinishStaging \/ Capture \/ CompleteCapture \/
          Allocate \/ AllocateVolume \/ StageRequest \/ Grant \/ Launch \/
          ReportFailure \/ Expire \/ Arm \/ StopOriginal \/ StartCopy \/
          CopyDisk \/ CompareCopy \/ StartInspection \/ AttachSlots \/
          EndInspector \/ DetachSlots \/ Prove \/ OpenWindow \/ EndWait \/
          FenceNewWork \/ AbortInspection \/ ReturnOriginal \/ StartOriginal
          \/ VerifyReturned \/ RecordResult \/ WorkerRefuses \/ Restart \/
          StageHealth \/ ClearFence \/ UnlinkMarker \/ AbortPrepared \/
          RetireCompleted \/ RemoveBackup \/ CompleteRemoval \/
          (\E k \in Kinds : SavePlan(k)) \/ (\E k \in Kinds : MarkFile(k)) \/
          (\E k \in Kinds : StrikeFile(k)) \/
          (\E k \in Kinds : CompleteCollection(k)) \/ Killed \/ WorkerFails \/
          PowerLoss \/ AgeReceipt
  <2>1. UNCHANGED <<phase, work>>
    BY <1>10 DEF StartStaging, LockFree, Take, records, ends, xen, Idle,
              ReceivePart, With, BeginPart, At, RecordPart, Give,
              FinishStaging, Capture, ledgers, CompleteCapture, Allocate,
              AllocateVolume, StageRequest, Grant, Launch, Kinds,
              ReportFailure, Expire, Arm, StopOriginal, StartCopy, Work,
              CopyDisk, Worker, CompareCopy, Leave, StartInspection,
              AttachSlots, EndInspector, DetachSlots, Prove, OpenWindow,
              EndWait, FenceNewWork, AbortInspection, ReturnOriginal,
              StartOriginal, VerifyReturned, RecordResult, WorkerRefuses,
              Raise, Restart, StageHealth, ClearFence, UnlinkMarker,
              AbortPrepared, RetireCompleted, RemoveBackup, CompleteRemoval,
              SavePlan, MarkFile, Rest, StrikeFile, CompleteCollection,
              Killed, Spend, WorkerFails, PowerLoss, AgeReceipt
  <2> QED
    BY <2>1
<1>11. CASE UNCHANGED vars
  BY <1>11 DEF vars, ledgers, records, ends, xen
<1> QED
  BY <1>1, <1>2, <1>3, <1>4, <1>5, <1>6, <1>7, <1>8, <1>9, <1>10, <1>11
  DEF Next, Staging, Preparation, WorkerStep, Recovery, Removal, Removals,
      Collect, Failures

(* The worker inspects while the original is down, and the return fences   *)
(* the inspector before it starts the original.                            *)
LEMMA OutageNext ==
  ASSUME EvidenceInv, [Next]_vars
  PROVE  OutageInv'
<1> USE DEF EvidenceInv, OutageInv, Inspected
<1>1. CASE StartStaging
  BY <1>1 DEF StartStaging, LockFree, Take, records, ends, xen, Idle
<1>2. CASE RecordStaging
  <2>1. CASE At("stage", "intent")
    BY <1>2, <2>1 DEF RecordStaging, At, Take, Give, records, ends, xen, Idle
  <2>2. CASE At("stage", "state")
    BY <1>2, <2>2 DEF RecordStaging, At, Take, Give, records, ends, xen, Idle
  <2> QED
    BY <1>2, <2>1, <2>2 DEF RecordStaging
<1>3. ASSUME NEW f \in Artifacts, ReceivePart(f)
      PROVE  OutageInv'
  BY <1>3 DEF ReceivePart, LockFree, With, records, ends, xen, Idle
<1>4. CASE CreateArtifact
  BY <1>4 DEF CreateArtifact, Idle, Grow, With, records, ends, xen
<1>5. CASE BeginPart
  BY <1>5 DEF BeginPart, At, With, records, ends, xen, Idle
<1>6. CASE AppendPart
  BY <1>6 DEF AppendPart, At, Grow, With, ledgers, records, ends, xen, Idle
<1>7. CASE RecordPart
  BY <1>7 DEF RecordPart, At, Give, records, ends, xen, Idle
<1>8. CASE FinishStaging
  BY <1>8 DEF FinishStaging, LockFree, Take, records, ends, xen, Idle
<1>9. CASE CloseReady
  BY <1>9 DEF CloseReady, At, Give, records, ends, xen, Idle
<1>10. CASE Capture
  BY <1>10 DEF Capture, LockFree, Take, ledgers, ends, xen, Idle
<1>11. CASE CompleteCapture
  BY <1>11 DEF CompleteCapture, At, Give, ledgers, ends, xen, Idle
<1>12. CASE Allocate
  BY <1>12 DEF Allocate, LockFree, Take, ledgers, ends, xen, Idle
<1>13. CASE AllocateVolume
  <2>1. CASE At("allocate", "lvcreate")
    BY <1>13, <2>1 DEF AllocateVolume, At, Take, Give, ledgers, ends, xen,
        Idle
  <2>2. CASE At("allocate", "record")
    BY <1>13, <2>2 DEF AllocateVolume, At, Take, Give, ledgers, ends, xen,
        Idle
  <2> QED
    BY <1>13, <2>1, <2>2 DEF AllocateVolume
<1>14. CASE Launch
  BY <1>14 DEF Launch, Supervised, Idle, Kinds, ledgers, ends, xen
<1>15. CASE Arm
  BY <1>15 DEF Arm, LockFree, ledgers, records, ends, xen, Idle
<1>16. CASE StopOriginal
  BY <1>16 DEF StopOriginal, ledgers, records, ends, InspectorIsFenced
<1>17. CASE StartCopy
  BY <1>17 DEF StartCopy, LockFree, Work, ledgers, ends, xen, Idle, Take
<1>18. CASE CopyDisk
  BY <1>18 DEF CopyDisk, Worker, Work, ledgers, records, ends, xen, Idle, Take
<1>19. CASE CompareCopy
  BY <1>19 DEF CompareCopy, Worker, Leave, ledgers, ends, xen, Idle, Give
<1>20. CASE StartInspection
  BY <1>20 DEF StartInspection, LockFree, Work, ledgers, ends, xen, Idle, Take
<1>21. CASE WriteInspectorFile
  BY <1>21, InspectorFile DEF EvidenceInv, records, ends, xen
<1>22. CASE AttachSlots
  BY <1>22 DEF AttachSlots, Worker, Work, ledgers, records, ends, Idle, Take
<1>23. CASE BootInspector
  BY <1>23, InspectorBoots DEF EvidenceInv, records, ends
<1>24. CASE EndInspector
  BY <1>24 DEF EndInspector, Worker, Work, ledgers, records, ends, Idle, Take
<1>25. CASE DetachSlots
  BY <1>25 DEF DetachSlots, Worker, Work, ledgers, records, ends, Idle, Take
<1>26. CASE Prove
  BY <1>26 DEF Prove, Worker, Leave, ledgers, ends, xen, Idle, Give
<1>27. CASE OpenWindow
  BY <1>27 DEF OpenWindow, LockFree, ledgers, records, ends, xen, Idle
<1>28. CASE EndWait
  BY <1>28 DEF EndWait, ledgers, records, ends, xen
<1>29. CASE FenceNewWork
  BY <1>29 DEF FenceNewWork, LockFree, ledgers, ends, xen, Idle
<1>30. CASE AbortInspection
  BY <1>30 DEF AbortInspection, LockFree, ledgers, records, ends, Idle
<1>31. CASE ReturnOriginal
  BY <1>31 DEF ReturnOriginal, LockFree, ledgers, records, ends, xen, Idle
<1>32. CASE StartOriginal
  BY <1>32 DEF StartOriginal, ledgers, records, ends, InspectorIsFenced
<1>33. CASE VerifyReturned
  BY <1>33 DEF VerifyReturned, LockFree, ledgers, records, ends, xen, Idle
<1>34. CASE RecordResult
  BY <1>34 DEF RecordResult, ledgers, ends, xen
<1>35. CASE WorkerRefuses
  BY <1>35 DEF WorkerRefuses, Supervised, Idle, Worker, Raise, ledgers, ends
<1>36. CASE Restart
  BY <1>36 DEF Restart, Supervised, Idle, Kinds, ledgers, ends, xen
<1>37. CASE ClearFence
  BY <1>37 DEF ClearFence, LockFree, Take, ledgers, ends, xen, Idle
<1>38. CASE UnlinkMarker
  BY <1>38 DEF UnlinkMarker, At, Give, ledgers, records, ends, xen, Idle
<1>39. CASE AbortPrepared
  BY <1>39 DEF AbortPrepared, LockFree, Take, ledgers, records, xen, Idle
<1>40. CASE RetireCompleted
  BY <1>40 DEF RetireCompleted, LockFree, Take, ledgers, records, xen, Idle
<1>41. ASSUME NEW k \in Kinds, StartCollection(k)
      PROVE  OutageInv'
  BY <1>41 DEF StartCollection, LockFree, Take, records, ends, xen, Idle,
      Kinds
<1>42. CASE RemoveBackup
  <2>1. CASE At("abort", "lvremove")
    BY <1>42, <2>1 DEF RemoveBackup, At, Take, ledgers, records, ends, xen,
        Idle
  <2>2. CASE At("retire", "lvremove")
    BY <1>42, <2>2 DEF RemoveBackup, At, Take, ledgers, records, ends, xen,
        Idle
  <2> QED
    BY <1>42, <2>1, <2>2 DEF RemoveBackup
<1>43. CASE CompleteRemoval
  <2>1. CASE At("abort", "complete")
    BY <1>43, <2>1 DEF CompleteRemoval, At, Give, ledgers, records, xen, Idle
  <2>2. CASE At("retire", "complete")
    BY <1>43, <2>2 DEF CompleteRemoval, At, Give, ledgers, records, xen, Idle
  <2> QED
    BY <1>43, <2>1, <2>2 DEF CompleteRemoval
<1>44. ASSUME NEW k \in Kinds, SavePlan(k)
      PROVE  OutageInv'
  BY <1>44 DEF SavePlan, At, Take, ledgers, records, xen, Idle, Kinds
<1>45. ASSUME NEW k \in Kinds, MarkFile(k)
      PROVE  OutageInv'
  BY <1>45 DEF MarkFile, At, Take, ledgers, records, xen, Idle, Kinds
<1>46. ASSUME NEW k \in Kinds, UnlinkFile(k)
      PROVE  OutageInv'
  BY <1>46 DEF UnlinkFile, At, Take, ledgers, records, ends, xen, Idle, Kinds
<1>47. ASSUME NEW k \in Kinds, EndCollection(k)
      PROVE  OutageInv'
  BY <1>47 DEF EndCollection, At, Take, records, ends, xen, Idle, Kinds
<1>48. ASSUME NEW k \in Kinds, CompleteCollection(k)
      PROVE  OutageInv'
  BY <1>48 DEF CompleteCollection, At, Give, ledgers, records, xen, Idle,
      Kinds
<1>49. CASE Killed
  BY <1>49 DEF Killed, Spend, Idle, Supervised, ledgers, records, ends, xen
<1>50. CASE WorkerFails
  BY <1>50 DEF WorkerFails, Supervised, Spend, Raise, Idle, ledgers, ends
<1>51. CASE PowerLoss
  BY <1>51 DEF PowerLoss, Spend, Idle, Supervised, ledgers, records, ends,
      InspectorIsFenced
<1>52. CASE StageRequest \/ Grant \/ ReportFailure \/ Expire \/ StageHealth \/
          (\E k \in Kinds : StrikeFile(k)) \/ AgeReceipt
  <2>1. UNCHANGED <<live, guest, loops, sup, hand>>
    BY <1>52 DEF StageRequest, LockFree, ledgers, ends, xen, Idle, Grant,
              ReportFailure, Expire, records, StageHealth, StrikeFile, At,
              Kinds, AgeReceipt, Spend
  <2> QED
    BY <2>1
<1>53. CASE UNCHANGED vars
  BY <1>53 DEF vars, ledgers, records, ends, xen
<1> QED
  BY <1>1, <1>2, <1>3, <1>4, <1>5, <1>6, <1>7, <1>8, <1>9, <1>10, <1>11,
     <1>12, <1>13, <1>14, <1>15, <1>16, <1>17, <1>18, <1>19, <1>20, <1>21,
     <1>22, <1>23, <1>24, <1>25, <1>26, <1>27, <1>28, <1>29, <1>30, <1>31,
     <1>32, <1>33, <1>34, <1>35, <1>36, <1>37, <1>38, <1>39, <1>40, <1>41,
     <1>42, <1>43, <1>44, <1>45, <1>46, <1>47, <1>48, <1>49, <1>50, <1>51,
     <1>52, <1>53
  DEF Next, Staging, Preparation, WorkerStep, Recovery, Removal, Removals,
      Collect, Failures

(* So no step leaves the inspector beside a running original.              *)
LEMMA FencedNext ==
  ASSUME EvidenceInv, [Next]_vars
  PROVE  InspectorIsFenced'
<1> USE DEF EvidenceInv, OutageInv, Inspected, InspectorIsFenced
<1>1. CASE StopOriginal
  BY <1>1 DEF StopOriginal, ledgers, records, ends
<1>2. CASE AttachSlots
  BY <1>2 DEF AttachSlots, Worker, Work, ledgers, records, ends, Idle, Take
<1>3. CASE BootInspector
  <2>1. CASE Worker("xl create")
    BY <1>3, <2>1 DEF BootInspector, Worker, Work, ledgers, records, ends,
        Idle, Take
  <2>2. CASE Worker("unpause")
    BY <1>3, <2>2 DEF BootInspector, Worker, Work, ledgers, records, ends,
        Idle, Take
  <2> QED
    BY <1>3, <2>1, <2>2 DEF BootInspector
<1>4. CASE EndInspector
  BY <1>4 DEF EndInspector, Worker, Work, ledgers, records, ends, Idle, Take
<1>5. CASE DetachSlots
  BY <1>5 DEF DetachSlots, Worker, Work, ledgers, records, ends, Idle, Take
<1>6. CASE AbortInspection
  BY <1>6 DEF AbortInspection, LockFree, ledgers, records, ends, Idle
<1>7. CASE StartOriginal
  BY <1>7 DEF StartOriginal, ledgers, records, ends
<1>8. CASE WorkerFails
  BY <1>8 DEF WorkerFails, Spend, Raise, Idle, ledgers, ends
<1>9. CASE PowerLoss
  BY <1>9 DEF PowerLoss, Spend, Idle, ledgers, records, ends
<1>10. CASE StartStaging \/ RecordStaging \/
          (\E f \in Artifacts : ReceivePart(f)) \/ CreateArtifact \/ BeginPart
          \/ AppendPart \/ RecordPart \/ FinishStaging \/ CloseReady \/
          Capture \/ CompleteCapture \/ Allocate \/ AllocateVolume \/
          StageRequest \/ Grant \/ Launch \/ ReportFailure \/ Expire \/ Arm \/
          StartCopy \/ CopyDisk \/ CompareCopy \/ StartInspection \/
          WriteInspectorFile \/ Prove \/ OpenWindow \/ EndWait \/ FenceNewWork
          \/ ReturnOriginal \/ VerifyReturned \/ RecordResult \/ WorkerRefuses
          \/ Restart \/ StageHealth \/ ClearFence \/ UnlinkMarker \/
          AbortPrepared \/ RetireCompleted \/
          (\E k \in Kinds : StartCollection(k)) \/ RemoveBackup \/
          CompleteRemoval \/ (\E k \in Kinds : SavePlan(k)) \/
          (\E k \in Kinds : MarkFile(k)) \/ (\E k \in Kinds : UnlinkFile(k))
          \/ (\E k \in Kinds : StrikeFile(k)) \/
          (\E k \in Kinds : EndCollection(k)) \/
          (\E k \in Kinds : CompleteCollection(k)) \/ Killed \/ AgeReceipt
  <2>1. UNCHANGED <<live, guest, loops>>
    BY <1>10 DEF StartStaging, LockFree, Take, records, ends, xen, Idle,
              RecordStaging, At, Give, ReceivePart, With, CreateArtifact,
              Grow, BeginPart, AppendPart, ledgers, RecordPart, FinishStaging,
              CloseReady, Capture, CompleteCapture, Allocate, AllocateVolume,
              StageRequest, Grant, Launch, ReportFailure, Expire, Arm,
              StartCopy, Work, CopyDisk, Worker, CompareCopy, Leave,
              StartInspection, WriteInspectorFile, Prove, OpenWindow, EndWait,
              FenceNewWork, ReturnOriginal, VerifyReturned, RecordResult,
              WorkerRefuses, Raise, Restart, StageHealth, ClearFence,
              UnlinkMarker, AbortPrepared, RetireCompleted, StartCollection,
              RemoveBackup, CompleteRemoval, SavePlan, MarkFile, UnlinkFile,
              StrikeFile, EndCollection, CompleteCollection, Killed, Spend,
              AgeReceipt
  <2> QED
    BY <2>1
<1>11. CASE UNCHANGED vars
  BY <1>11 DEF vars, ledgers, records, ends, xen
<1> QED
  BY <1>1, <1>2, <1>3, <1>4, <1>5, <1>6, <1>7, <1>8, <1>9, <1>10, <1>11
  DEF Next, Staging, Preparation, WorkerStep, Recovery, Removal, Removals,
      Collect, Failures

(* The backup is copied once, before the original has run again, and goes  *)
(* only unused or after the health check.                                  *)
LEMMA BackupNext ==
  ASSUME EvidenceInv, [Next]_vars
  PROVE  BackupInv'
<1> USE DEF EvidenceInv, BackupInv
<1>1. CASE StartStaging
  BY <1>1 DEF StartStaging, LockFree, Take, records, ends, xen, Idle
<1>2. CASE RecordStaging
  <2>1. CASE At("stage", "intent")
    BY <1>2, <2>1 DEF RecordStaging, At, Take, Give, records, ends, xen, Idle
  <2>2. CASE At("stage", "state")
    BY <1>2, <2>2 DEF RecordStaging, At, Take, Give, records, ends, xen, Idle
  <2> QED
    BY <1>2, <2>1, <2>2 DEF RecordStaging
<1>3. ASSUME NEW f \in Artifacts, ReceivePart(f)
      PROVE  BackupInv'
  BY <1>3 DEF ReceivePart, LockFree, With, records, ends, xen, Idle
<1>4. CASE CreateArtifact
  BY <1>4 DEF CreateArtifact, Idle, Grow, With, records, ends, xen
<1>5. CASE BeginPart
  BY <1>5 DEF BeginPart, At, With, records, ends, xen, Idle
<1>6. CASE AppendPart
  BY <1>6 DEF AppendPart, At, Grow, With, ledgers, records, ends, xen, Idle
<1>7. CASE RecordPart
  BY <1>7 DEF RecordPart, At, Give, records, ends, xen, Idle
<1>8. CASE FinishStaging
  BY <1>8 DEF FinishStaging, LockFree, Take, records, ends, xen, Idle
<1>9. CASE CloseReady
  BY <1>9 DEF CloseReady, At, Give, records, ends, xen, Idle
<1>10. CASE Capture
  BY <1>10 DEF Capture, LockFree, Take, ledgers, ends, xen, Idle
<1>11. CASE CompleteCapture
  BY <1>11 DEF CompleteCapture, At, Give, ledgers, ends, xen, Idle
<1>12. CASE Allocate
  BY <1>12 DEF Allocate, LockFree, RefuseRetired, Take, ledgers, ends, xen,
      Idle, OutageTypes, BoxTypes, Disks
<1>13. CASE AllocateVolume
  <2>1. CASE At("allocate", "lvcreate")
    BY <1>13, <2>1 DEF AllocateVolume, At, Take, Give, ledgers, ends, xen,
        Idle, OutageTypes, BoxTypes, Disks, Volumes
  <2>2. CASE At("allocate", "record")
    BY <1>13, <2>2 DEF AllocateVolume, At, Take, Give, ledgers, ends, xen,
        Idle, OutageTypes, BoxTypes, Disks, Volumes
  <2> QED
    BY <1>13, <2>1, <2>2 DEF AllocateVolume
<1>14. CASE Grant
  BY <1>14 DEF Grant, ledgers, ends, xen
<1>15. CASE Launch
  BY <1>15 DEF Launch, Prepared, Supervised, Idle, Kinds, ledgers, ends, xen
<1>16. CASE ReportFailure
  BY <1>16 DEF ReportFailure, ledgers, ends, xen
<1>17. CASE Arm
  BY <1>17 DEF Arm, LockFree, Prepared, ledgers, records, ends, xen, Idle
<1>18. CASE StopOriginal
  BY <1>18 DEF StopOriginal, ledgers, records, ends
<1>19. CASE StartCopy
  BY <1>19 DEF StartCopy, LockFree, RefuseRetired, Work, ledgers, ends, xen,
      Idle, Take, OutageTypes, BoxTypes, Disks, Volumes
<1>20. CASE CopyDisk
  BY <1>20 DEF CopyDisk, Worker, Work, ledgers, records, ends, xen, Idle,
      Take, BoxTypes, Volumes
<1>21. CASE CompareCopy
  <2>1. /\ hand.do = "worker" /\ hand.pc = "compare" /\ hand'.do = "idle" /\ sup' = "inspect"
        /\ lv.data = disk.hash
    BY <1>21 DEF CompareCopy, Worker, Leave, Give, Idle
  <2>2. disk'.stage = "copied" /\ disk'.hash = disk.hash
    BY <1>21 DEF CompareCopy, OutageTypes, Disks
  <2>3. UNCHANGED <<lv, runs, marker, launch, health, removal>>
    BY <1>21 DEF CompareCopy, xen, ends
  <2> QED
    BY <2>1, <2>2, <2>3 DEF OutageInv
<1>22. CASE StartInspection
  BY <1>22 DEF StartInspection, LockFree, Work, ledgers, ends, xen, Idle, Take
<1>23. CASE WriteInspectorFile
  BY <1>23, InspectorFile DEF EvidenceInv, records, ends, xen
<1>24. CASE AttachSlots
  BY <1>24 DEF AttachSlots, Worker, Work, ledgers, records, ends, Idle, Take
<1>25. CASE BootInspector
  BY <1>25, InspectorBoots DEF EvidenceInv, records, ends
<1>26. CASE EndInspector
  BY <1>26 DEF EndInspector, Worker, Work, ledgers, records, ends, Idle, Take
<1>27. CASE DetachSlots
  BY <1>27 DEF DetachSlots, Worker, Work, ledgers, records, ends, Idle, Take
<1>28. CASE Prove
  BY <1>28 DEF Prove, Worker, Leave, ledgers, ends, xen, Idle, Give, OutageInv
<1>29. CASE OpenWindow
  BY <1>29 DEF OpenWindow, LockFree, ledgers, records, ends, xen, Idle
<1>30. CASE EndWait
  BY <1>30 DEF EndWait, ledgers, records, ends, xen
<1>31. CASE FenceNewWork
  BY <1>31 DEF FenceNewWork, LockFree, ledgers, ends, xen, Idle
<1>32. CASE AbortInspection
  BY <1>32 DEF AbortInspection, LockFree, ledgers, records, ends, Idle
<1>33. CASE ReturnOriginal
  BY <1>33 DEF ReturnOriginal, LockFree, ledgers, records, ends, xen, Idle
<1>34. CASE StartOriginal
  BY <1>34 DEF StartOriginal, ledgers, records, ends
<1>35. CASE VerifyReturned
  BY <1>35 DEF VerifyReturned, LockFree, ledgers, records, ends, xen, Idle
<1>36. CASE RecordResult
  BY <1>36 DEF RecordResult, ledgers, ends, xen
<1>37. CASE WorkerRefuses
  BY <1>37 DEF WorkerRefuses, Supervised, Idle, Worker, Raise, ledgers, ends
<1>38. CASE Restart
  BY <1>38 DEF Restart, Supervised, Idle, Kinds, ledgers, ends, xen
<1>39. CASE StageHealth
  BY <1>39 DEF StageHealth, LockFree, ledgers, ends, xen, Idle, OutageTypes,
      Healths
<1>40. CASE ClearFence
  BY <1>40 DEF ClearFence, LockFree, Take, ledgers, ends, xen, Idle,
      OutageTypes, Healths
<1>41. CASE UnlinkMarker
  BY <1>41 DEF UnlinkMarker, At, Give, ledgers, records, ends, xen, Idle
<1>42. CASE AbortPrepared
  BY <1>42 DEF AbortPrepared, LockFree, AbortAllowed, Take, ledgers, records,
      xen, Idle, Supervised, RemovalTypes, Uses
<1>43. CASE RetireCompleted
  BY <1>43 DEF RetireCompleted, LockFree, RetireAllowed, Take, ledgers,
      records, xen, Idle, Supervised, RemovalTypes, Uses
<1>44. ASSUME NEW k \in Kinds, StartCollection(k)
      PROVE  BackupInv'
  BY <1>44 DEF StartCollection, LockFree, Take, records, ends, xen, Idle,
      Kinds
<1>45. CASE RemoveBackup
  <2>1. CASE At("abort", "lvremove")
    BY <1>45, <2>1 DEF RemoveBackup, At, Take, ledgers, records, ends, xen,
        Idle, BoxTypes, Volumes
  <2>2. CASE At("retire", "lvremove")
    BY <1>45, <2>2 DEF RemoveBackup, At, Take, ledgers, records, ends, xen,
        Idle, BoxTypes, Volumes
  <2> QED
    BY <1>45, <2>1, <2>2 DEF RemoveBackup
<1>46. CASE CompleteRemoval
  <2>1. CASE At("abort", "complete")
    BY <1>46, <2>1 DEF CompleteRemoval, At, Give, ledgers, records, xen, Idle,
        RemovalTypes, Uses
  <2>2. CASE At("retire", "complete")
    BY <1>46, <2>2 DEF CompleteRemoval, At, Give, ledgers, records, xen, Idle,
        RemovalTypes, Uses
  <2> QED
    BY <1>46, <2>1, <2>2 DEF CompleteRemoval
<1>47. ASSUME NEW k \in Kinds, SavePlan(k)
      PROVE  BackupInv'
  BY <1>47 DEF SavePlan, At, Take, ledgers, records, xen, Idle, Kinds
<1>48. ASSUME NEW k \in Kinds, MarkFile(k)
      PROVE  BackupInv'
  BY <1>48 DEF MarkFile, At, Take, ledgers, records, xen, Idle, Kinds
<1>49. ASSUME NEW k \in Kinds, UnlinkFile(k)
      PROVE  BackupInv'
  BY <1>49 DEF UnlinkFile, At, Take, ledgers, records, ends, xen, Idle, Kinds
<1>50. ASSUME NEW k \in Kinds, EndCollection(k)
      PROVE  BackupInv'
  BY <1>50 DEF EndCollection, At, Take, records, ends, xen, Idle, Kinds
<1>51. ASSUME NEW k \in Kinds, CompleteCollection(k)
      PROVE  BackupInv'
  BY <1>51 DEF CompleteCollection, At, Give, ledgers, records, xen, Idle,
      Kinds
<1>52. CASE Killed
  BY <1>52 DEF Killed, Spend, Idle, Supervised, ledgers, records, ends, xen,
      OutageInv
<1>53. CASE WorkerFails
  BY <1>53 DEF WorkerFails, Supervised, Spend, Raise, Idle, ledgers, ends
<1>54. CASE PowerLoss
  BY <1>54 DEF PowerLoss, Spend, Idle, Supervised, ledgers, records, ends
<1>55. CASE AgeReceipt
  BY <1>55 DEF AgeReceipt, Spend, ledgers, ends, xen, OutageTypes, Healths
<1>56. CASE StageRequest \/ Expire \/ (\E k \in Kinds : StrikeFile(k))
  <2>1. UNCHANGED <<disk, launch, health, removal, marker, lv, runs, sup, hand>>
    BY <1>56 DEF StageRequest, LockFree, Prepared, ledgers, ends, xen, Idle,
              Expire, records, StrikeFile, At, Kinds
  <2> QED
    BY <2>1
<1>57. CASE UNCHANGED vars
  BY <1>57 DEF vars, ledgers, records, ends, xen
<1> QED
  BY <1>1, <1>2, <1>3, <1>4, <1>5, <1>6, <1>7, <1>8, <1>9, <1>10, <1>11,
     <1>12, <1>13, <1>14, <1>15, <1>16, <1>17, <1>18, <1>19, <1>20, <1>21,
     <1>22, <1>23, <1>24, <1>25, <1>26, <1>27, <1>28, <1>29, <1>30, <1>31,
     <1>32, <1>33, <1>34, <1>35, <1>36, <1>37, <1>38, <1>39, <1>40, <1>41,
     <1>42, <1>43, <1>44, <1>45, <1>46, <1>47, <1>48, <1>49, <1>50, <1>51,
     <1>52, <1>53, <1>54, <1>55, <1>56, <1>57
  DEF Next, Staging, Preparation, WorkerStep, Recovery, Removal, Removals,
      Collect, Failures

(* At the start nothing has been staged, granted or copied.                *)
LEMMA InitEvidence == Init => EvidenceInv
<1> SUFFICES ASSUME Init
             PROVE  EvidenceInv
  OBVIOUS
<1>1. StagingTypes
  BY DEF Init, StagingTypes, Files, Idle
<1>2. OutageTypes /\ BoxTypes
  BY BudgetAssumption DEF Init, OutageTypes, BoxTypes, Disks, Results, Healths, Volumes
<1>3. RemovalTypes
  <2>1. removal \in Uses
    BY DEF Init, Uses, Halves
  <2>2. NoPlan \in Plans
    BY DEF NoPlan, Plans
  <2> QED
    BY <2>1, <2>2 DEF Init, RemovalTypes
<1>4. ClosedInv /\ PlanInv /\ RetiredIsEmpty
  BY DEF Init, ClosedInv, PlanInv, RetiredIsEmpty, NoPlan, Kinds, Idle
<1>5. OutageInv /\ InspectorIsFenced /\ BackupInv
  BY DEF Init, OutageInv, InspectorIsFenced, Inspected, BackupInv, Idle
<1> QED
  BY <1>1, <1>2, <1>3, <1>4, <1>5 DEF EvidenceInv

(* The inductive invariant of the evidence: where the holder of the router *)
(* lock and the worker are determines what may be on the box.              *)
THEOREM EvidenceCorrect == EvidenceSpec => []EvidenceInv
<1>1. EvidenceInv /\ [Next]_vars => EvidenceInv'
  BY StagingTypesNext, OutageTypesNext, BoxTypesNext, RemovalTypesNext, ClosedNext,
     PlanNext, RetiredNext, OutageNext, FencedNext, BackupNext DEF EvidenceInv
<1> QED
  BY InitEvidence, <1>1, PTL DEF EvidenceSpec

(* Nothing is written below filesystem/ after staging was retired, by a    *)
(* receiver that waited for the lock or by a worker.                       *)
THEOREM RetiredStagingIsEmpty == EvidenceSpec => []RetiredIsEmpty
<1>1. EvidenceInv => RetiredIsEmpty
  BY DEF EvidenceInv
<1> QED
  BY EvidenceCorrect, <1>1, PTL

(* Whatever kills the worker, and however often the return is restarted:   *)
(* the original runs only when the inspector and its loop devices are gone.*)
THEOREM InspectorsAreFenced == EvidenceSpec => []InspectorIsFenced
<1>1. EvidenceInv => InspectorIsFenced
  BY DEF EvidenceInv
<1> QED
  BY EvidenceCorrect, <1>1, PTL

(* From the comparison of the copy to the health check of the returned     *)
(* original, the volume holds what the original held when it stopped: no   *)
(* abort removes it and no later copy replaces it.                         *)
THEOREM BackupOutlivesOutage == EvidenceSpec => []BackupIsKept
<1>1. EvidenceInv => BackupIsKept
  BY DEF EvidenceInv, BackupInv, BackupIsKept
<1> QED
  BY EvidenceCorrect, <1>1, PTL

=============================================================================
