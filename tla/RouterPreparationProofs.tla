----------------------- MODULE RouterPreparationProofs -----------------------
(***************************************************************************)
(* What holds of every preparation of a router's disk, whichever requests  *)
(* are made and however often it is interrupted.                           *)
(***************************************************************************)
EXTENDS RouterPreparation, TLAPS

-----------------------------------------------------------------------------
(* The shape of the records and of the actors.                             *)

Stages == {"none", "planned", "allocated", "prepared", "enrolled", "verified"}

Operations == [staged : BOOLEAN, boot : BOOLEAN, install : Stages, accepted : BOOLEAN,
               launched : BOOLEAN, router : {"off", "first", "final"}, stopped : BOOLEAN]

Disks == [rec : {"none", "planned", "allocated", "cloned", "aborted", "retiring", "retired"},
          lv : BOOLEAN]

Roots == [os : {"blank", "part", "template", "mixed", "personal"},
          access : SUBSET Access, tools : BOOLEAN, identity : BOOLEAN]

Runs == [slot : {"none", "empty", "whole", "failed"}, loop : BOOLEAN, cfg : BOOLEAN,
         ledger : {"none", "booting", "prepared"}, result : BOOLEAN]

Working == {"start", "files", "tools", "verify", "seed", "withdraw", "report"}

Guests == [kind : Helpers, at : Working \cup {"halted"}]

Preparing == {"plan", "disk", "lvcreate", "uuid", "own", "clone", "copy", "checksum", "verify"}
Booting   == {"slot", "attach", "define", "ledger", "boot"}
Reading   == {"collect", "save"}
Helping   == {"helper", "wait", "detach", "record"} \cup Booting \cup Reading
Cleared   == {"unloop", "fenced", "intend", "retire", "lvremove", "gone", "absent",
              "files", "unlink", "strike", "seal"}
Cleaning  == {"fence", "look"} \cup Cleared

Commands == [pc : {"idle", "reclaim"} \cup Preparing \cup Helping \cup Cleaning,
             kind : Helpers, ok : BOOLEAN]

RecordTypes ==
  /\ job \in Jobs /\ op \in Operations /\ candidate \in Disks /\ root \in Roots
  /\ tmpl \in [files : SUBSET Templates, removing : BOOLEAN]

ActorTypes ==
  /\ aid \in [Helpers -> Runs]
  /\ helper \in Guests \cup {NoGuest}
  /\ run \in Commands
  /\ DOMAIN cleaning = DOMAIN Unplanned
  /\ cleaning.done => cleaning.made

-----------------------------------------------------------------------------
(* What each record says of the others.                                    *)

(* Nothing is recorded for an operation that was not requested, and only a *)
(* first installation has an installation record, or runs a router.        *)
RequestInv ==
  /\ ~op.staged => op.install = "none" /\ candidate.rec = "none" /\ run.pc \in {"idle", "reclaim"}
  /\ cleaning.made => op.staged /\ ~Initial
  /\ op.install # "none" \/ op.router # "off" => Initial
  /\ Initial /\ op.staged => op.boot
  /\ run.pc \in {"plan", "disk"} => tmpl.files = Templates

(* Files of a helper run exist only where its disk can be: the preparer's  *)
(* on a complete clone, the finalizer's on an enrolled router's disk.      *)
FilesInv ==
  /\ aid["prepare"].slot # "none" \/ aid["prepare"].ledger # "none"
       => candidate.rec \in {"cloned", "retiring", "retired"}
  /\ aid["finalize"].slot # "none" \/ aid["finalize"].ledger # "none"
       => op.install \in {"enrolled", "verified"}
  /\ op.install \in {"prepared", "enrolled", "verified"} => aid["prepare"].ledger = "prepared"
  /\ op.router = "final" \/ op.install = "verified" => aid["finalize"].ledger = "prepared"

(* Where the command that holds the lock is.                               *)
PlaceInv ==
  /\ run.pc \in Preparing => run.kind = "prepare"
  /\ run.pc = "plan" => Initial /\ op.install = "none"
  /\ run.pc \in Preparing \cup Helping => op.boot /\ op.router = "off"
  /\ run.kind = "finalize" => run.pc \in Helping /\ op.install = "enrolled"
  /\ run.pc \in Cleaning => ~Initial /\ cleaning.made
  /\ run.pc \in Cleared => ~Alive("prepare")
  /\ run.pc \in {"lvcreate", "uuid"} => candidate.rec = "planned"
  /\ run.pc \in {"copy", "checksum"} =>
       candidate.rec = "allocated" /\ aid["prepare"].slot = "none" /\ aid["prepare"].ledger = "none"
  /\ run.pc \in Booting \cup Reading => ~Alive(run.kind)
  /\ run.pc \in {"wait"} \cup Booting \cup Reading => candidate.lv /\ candidate.rec = "cloned"

(* What the holder of the lock has done for its helper run.                *)
HolderInv ==
  /\ run.pc \in Booting \ {"boot"} => Mine.ledger = "none"
  /\ run.pc \in Booting \ {"slot"} => Mine.slot = "empty"
  /\ run.pc \in {"define", "ledger", "boot"} => Mine.loop
  /\ run.pc = "boot" => Mine.ledger = "booting"
  /\ run.pc = "save" => Mine.slot = "whole"
  /\ run.ok => Mine.ledger = "prepared"
  /\ run.pc = "record" => run.ok

(* A live guest belongs to a run that was recorded and not completed, and  *)
(* has everything it works on.                                             *)
GuestInv ==
  \A k \in Helpers : Alive(k) =>
    /\ aid[k].ledger = "booting" /\ aid[k].loop /\ candidate.lv
    /\ op.boot /\ op.router = "off"
    /\ aid[k].slot # "none"
    /\ helper.at # "halted" => aid[k].slot = "empty"

(* How far the guest that prepares has come, and what its answer means.    *)
WholeInv ==
  /\ In("prepare", "seed") =>
       /\ job.contact /\ root.os = "personal" /\ root.tools /\ ~root.identity
  /\ In("prepare", "report") => root = Complete
  /\ aid["prepare"].slot = "whole" \/ aid["prepare"].ledger = "prepared" =>
       \/ root = Complete
       \/ ~candidate.lv \/ op.install \in {"enrolled", "verified"}

Retired == root.access = {} /\ ~root.tools /\ root.identity

(* How far the guest that finalizes has come, and what its answer means.   *)
FinalInv ==
  /\ helper.kind = "finalize" /\ helper.at # "start" /\ helper.at # "halted" => root.identity
  /\ In("finalize", "tools") => root.access = {}
  /\ In("finalize", "report") => Retired
  /\ aid["finalize"].slot = "whole" \/ aid["finalize"].ledger = "prepared" => Retired
  /\ helper.kind = "finalize" => helper.at \in {"start", "withdraw", "tools", "report", "halted"}

PreparationInv ==
  /\ RecordTypes /\ ActorTypes
  /\ RequestInv /\ FilesInv /\ PlaceInv /\ HolderInv /\ GuestInv
  /\ WholeInv /\ FinalInv /\ TemplateIsKept

-----------------------------------------------------------------------------
(* Whoever takes a loop device away leaves the other files of every run.   *)
LEMMA LoopOff ==
  ASSUME aid \in [Helpers -> Runs], NEW k \in Helpers
  PROVE  [aid EXCEPT ![k]["loop"] = FALSE] \in [Helpers -> Runs]
<1>1. PICK r \in Runs : r = aid[k]
  OBVIOUS
<1>2. [r EXCEPT !["loop"] = FALSE] \in Runs
  BY <1>1 DEF Runs
<1> QED
  BY <1>1, <1>2

(* A disk is done being seeded when every access file is there, and done   *)
(* being withdrawn from when none is.                                      *)
LEMMA SeededAll ==
  ASSUME RecordTypes, Seed
  PROVE  Then("seed") \/ (Then("report") /\ root'.access = Access)
<1> DEFINE todo == {i \in DOMAIN Seeding : Seeding[i] \notin root.access}
<1>1. PICK i \in todo :
        /\ root' = [root EXCEPT !.access = @ \cup {Seeding[i]}]
        /\ Then(IF todo = {i} THEN "report" ELSE "seed")
  BY DEF Seed
<1>2. root \in Roots /\ root.access \subseteq Access
  BY DEF RecordTypes, Roots
<1>3. root'.access = root.access \cup {Seeding[i]}
  BY <1>1, <1>2 DEF Roots
<1>4. CASE todo = {i}
  <2>1. \A j \in DOMAIN Seeding : Seeding[j] \in root'.access
    BY <1>1, <1>3, <1>4
  <2>2. Access \subseteq root'.access
    BY <2>1 DEF Access
  <2>3. Seeding[i] \in Access
    BY <1>1 DEF Access
  <2> QED
    BY <1>1, <1>2, <1>3, <1>4, <2>2, <2>3
<1>5. CASE todo # {i}
  BY <1>1, <1>5
<1> QED
  BY <1>4, <1>5

LEMMA WithdrawnAll ==
  ASSUME RecordTypes, Withdraw
  PROVE  Then("withdraw") \/ (Then("tools") /\ root'.access = {})
<1> DEFINE todo == {i \in DOMAIN Retiring : Retiring[i] \in root.access}
<1>1. CASE todo = {}
  <2>1. Then("tools") /\ root' = root
    BY <1>1 DEF Withdraw
  <2>2. root.access \subseteq Access
    BY DEF RecordTypes, Roots
  <2>3. Access = {Retiring[i] : i \in DOMAIN Retiring}
    BY DEF Access, Seeding, Retiring
  <2> QED
    BY <1>1, <2>1, <2>2, <2>3
<1>2. CASE todo # {}
  BY <1>2 DEF Withdraw
<1> QED
  BY <1>1, <1>2

(* Each step keeps the shape of the records.                               *)
LEMMA RecordTypesNext ==
  ASSUME PreparationInv, [PreparationNext]_preparationVars
  PROVE  RecordTypes'
<1> USE DEF PreparationInv, RecordTypes, Operations, Disks, Roots, Stages, Helpers,
      NoRun, Goto, Aid, Then, OnlyRoot, OnlyOp, ActorTypes
<1>1. CASE Stage
  BY <1>1 DEF Stage
<1>2. CASE StartReclaim
  <2>1. tmpl' \in [files : SUBSET Templates, removing : BOOLEAN]
    BY <1>2 DEF StartReclaim
  <2> QED
    BY <1>2, <2>1 DEF StartReclaim
<1>3. CASE ReclaimFile
  BY <1>3 DEF ReclaimFile
<1>4. CASE PlanInstallation
  BY <1>4 DEF PlanInstallation
<1>5. CASE RecordPlanned
  BY <1>5 DEF RecordPlanned
<1>6. CASE AllocateDisk
  <2>1. candidate' \in Disks
    BY <1>6 DEF AllocateDisk
  <2> QED
    BY <1>6, <2>1 DEF AllocateDisk
<1>7. CASE RecordAllocated
  BY <1>7 DEF RecordAllocated
<1>8. CASE RecordOwned
  BY <1>8 DEF RecordOwned
<1>9. CASE StartClone
  BY <1>9 DEF StartClone
<1>10. CASE FinishClone
  <2>1. root' \in Roots
    BY <1>10 DEF FinishClone
  <2> QED
    BY <1>10, <2>1 DEF FinishClone
<1>11. CASE RecordCloned
  BY <1>11 DEF RecordCloned
<1>12. CASE RecordPrepared
  BY <1>12 DEF RecordPrepared
<1>13. CASE RecordAbsent
  BY <1>13 DEF RecordAbsent
<1>14. CASE AdoptVolume
  BY <1>14 DEF AdoptVolume
<1>15. CASE RetireVolume
  BY <1>15 DEF RetireVolume
<1>16. CASE RemoveVolume
  BY <1>16 DEF RemoveVolume
<1>17. CASE UnlinkArtifact
  <2>1. op' = op \/ op' = [op EXCEPT !.boot = FALSE]
    BY <1>17 DEF UnlinkArtifact
  <2>2. op' \in Operations
    BY <2>1
  <2> QED
    BY <1>17, <2>2 DEF UnlinkArtifact
<1>18. CASE Personalize
  BY <1>18 DEF Personalize
<1>19. CASE WriteFiles
  BY <1>19 DEF WriteFiles
<1>20. CASE RetireTools
  <2>1. root' \in Roots
    BY <1>20 DEF RetireTools
  <2> QED
    BY <1>20, <2>1 DEF RetireTools
<1>21. CASE Seed
  <2>1. PICK i \in DOMAIN Seeding : root' = [root EXCEPT !.access = @ \cup {Seeding[i]}]
    BY <1>21 DEF Seed
  <2>2. Seeding[i] \in Access
    BY <2>1 DEF Access
  <2>3. root' \in Roots
    BY <2>1, <2>2
  <2> QED
    BY <1>21, <2>3 DEF Seed
<1>22. CASE Withdraw
  BY <1>22 DEF Withdraw
<1>23. CASE FirstBoot
  BY <1>23 DEF FirstBoot
<1>24. CASE Enroll
  BY <1>24 DEF Enroll
<1>25. CASE StopRouter
  BY <1>25 DEF StopRouter
<1>26. CASE StartFinal
  BY <1>26 DEF StartFinal
<1>27. CASE VerifyFinal
  BY <1>27 DEF VerifyFinal
<1>28. CASE AcceptFirst
  BY <1>28 DEF AcceptFirst
<1>29. CASE LaunchRouter
  BY <1>29 DEF LaunchRouter
<1>30. CASE LosePower
  BY <1>30 DEF LosePower
<1>31. CASE Begin \/ BeginFinal \/ Plan \/ StartCleanup \/ ContinueDisk \/
          KeepClone \/ VerifyPrepared \/ FindRun \/ CreateSlot \/ AttachSlot \/
          Define \/ RecordRun \/ BootHelper \/ AwaitHelper \/ CollectResult \/
          CompleteRun \/ DetachSlot \/ FenceGuest \/ FenceLoop \/ SaveFenced \/
          Look \/ IntendDisk \/ SaveRetired \/ CheckAbsent \/ IntendFile \/
          FindRemoved \/ StrikeArtifact \/ CompleteCleanup \/ SealCleanup \/
          VerifyFiles \/ VerifyAccess \/ Report \/ GuestFails \/ GuestLeaves \/
          Refuse \/ Kill \/ GiveUp
  <2>1. UNCHANGED <<job, op, candidate, root, tmpl>>
    BY <1>31 DEF Begin, BeginFinal, Plan, StartCleanup, ContinueDisk, KeepClone,
              VerifyPrepared, FindRun, CreateSlot, AttachSlot, Define,
              RecordRun, BootHelper, AwaitHelper, CollectResult, CompleteRun,
              DetachSlot, FenceGuest, FenceLoop, SaveFenced, Look,
              IntendDisk, SaveRetired, CheckAbsent, IntendFile, FindRemoved,
              StrikeArtifact, CompleteCleanup, SealCleanup, VerifyFiles,
              VerifyAccess, Report, GuestFails, GuestLeaves, Refuse, Kill,
              GiveUp
  <2> QED
    BY <2>1
<1>32. CASE \E g \in {"prepare", "finalize", "clean"} : IssueGrant(g) \/ ExpireGrant(g)
  <2>1. UNCHANGED <<job, op, candidate, root, aid, helper, run, cleaning, tmpl>>
    BY <1>32 DEF IssueGrant, ExpireGrant
  <2> QED
    BY <2>1
<1>33. CASE UNCHANGED preparationVars
  BY <1>33 DEF preparationVars
<1> QED
  BY <1>1, <1>2, <1>3, <1>4, <1>5, <1>6, <1>7, <1>8, <1>9, <1>10, <1>11,
     <1>12, <1>13, <1>14, <1>15, <1>16, <1>17, <1>18, <1>19, <1>20, <1>21,
     <1>22, <1>23, <1>24, <1>25, <1>26, <1>27, <1>28, <1>29, <1>30, <1>31,
     <1>32, <1>33
  DEF PreparationNext, CommandStep, PreparationStep, HelperStep, CleanupStep, GuestStep,
      Lifecycle, Failure

(* Each step keeps the shape of the actors.                                *)
LEMMA ActorTypesNext ==
  ASSUME PreparationInv, [PreparationNext]_preparationVars
  PROVE  ActorTypes'
<1> USE DEF PreparationInv, ActorTypes, Runs, Guests, Commands, NoGuest, Working,
      Preparing, Booting, Reading, Helping, Cleared, Cleaning, Helpers, NoRun,
      Goto, Aid, Then, OnlyRoot, OnlyOp, Unplanned, In
<1>1. CASE Begin
  <2>1. PICK p \in {"plan", "verify", "disk"} : run' = [NoRun EXCEPT !.pc = p]
    BY <1>1 DEF Begin
  <2>2. run' \in Commands
    BY <2>1
  <2> QED
    BY <1>1, <2>2 DEF Begin
<1>2. CASE BeginFinal
  BY <1>2 DEF BeginFinal
<1>3. CASE Plan
  BY <1>3 DEF Plan
<1>4. CASE StartCleanup
  BY <1>4 DEF StartCleanup
<1>5. CASE StartReclaim
  BY <1>5 DEF StartReclaim
<1>6. CASE ReclaimFile
  <2>1. CASE run' = NoRun
    BY <1>6, <2>1 DEF ReclaimFile
  <2>2. CASE run' = run
    BY <1>6, <2>2 DEF ReclaimFile
  <2> QED
    BY <1>6, <2>1, <2>2 DEF ReclaimFile
<1>7. CASE PlanInstallation
  BY <1>7 DEF PlanInstallation
<1>8. CASE RecordPlanned
  BY <1>8 DEF RecordPlanned
<1>9. CASE AllocateDisk
  BY <1>9 DEF AllocateDisk
<1>10. CASE RecordAllocated
  BY <1>10 DEF RecordAllocated
<1>11. CASE ContinueDisk
  BY <1>11 DEF ContinueDisk
<1>12. CASE RecordOwned
  BY <1>12 DEF RecordOwned
<1>13. CASE KeepClone
  BY <1>13 DEF KeepClone
<1>14. CASE StartClone
  BY <1>14 DEF StartClone
<1>15. CASE FinishClone
  BY <1>15 DEF FinishClone
<1>16. CASE RecordCloned
  BY <1>16 DEF RecordCloned
<1>17. CASE VerifyPrepared
  BY <1>17 DEF VerifyPrepared
<1>18. CASE FindRun
  BY <1>18 DEF FindRun
<1>19. CASE CreateSlot
  BY <1>19 DEF CreateSlot
<1>20. CASE AttachSlot
  BY <1>20 DEF AttachSlot
<1>21. CASE Define
  BY <1>21 DEF Define
<1>22. CASE RecordRun
  BY <1>22 DEF RecordRun
<1>23. CASE BootHelper
  BY <1>23 DEF BootHelper
<1>24. CASE AwaitHelper
  BY <1>24 DEF AwaitHelper
<1>25. CASE CollectResult
  BY <1>25 DEF CollectResult
<1>26. CASE CompleteRun
  BY <1>26 DEF CompleteRun
<1>27. CASE DetachSlot
  <2>1. CASE run' = NoRun
    BY <1>27, <2>1 DEF DetachSlot
  <2>2. CASE run' = [run EXCEPT !.pc = "record"]
    <3>1. run' \in Commands
      BY <2>2
    <3>2. run.kind \in Helpers
      OBVIOUS
    <3>3. aid' \in [Helpers -> Runs]
      BY <1>27, <3>2, LoopOff DEF DetachSlot
    <3> QED
      BY <1>27, <3>1, <3>3 DEF DetachSlot
  <2> QED
    BY <1>27, <2>1, <2>2 DEF DetachSlot
<1>28. CASE RecordPrepared
  BY <1>28 DEF RecordPrepared
<1>29. CASE FenceGuest
  BY <1>29 DEF FenceGuest
<1>30. CASE FenceLoop
  BY <1>30 DEF FenceLoop
<1>31. CASE SaveFenced
  BY <1>31 DEF SaveFenced
<1>32. CASE Look
  BY <1>32 DEF Look
<1>33. CASE IntendDisk
  BY <1>33 DEF IntendDisk
<1>34. CASE RecordAbsent
  BY <1>34 DEF RecordAbsent
<1>35. CASE AdoptVolume
  BY <1>35 DEF AdoptVolume
<1>36. CASE RetireVolume
  BY <1>36 DEF RetireVolume
<1>37. CASE RemoveVolume
  BY <1>37 DEF RemoveVolume
<1>38. CASE SaveRetired
  BY <1>38 DEF SaveRetired
<1>39. CASE CheckAbsent
  BY <1>39 DEF CheckAbsent
<1>40. CASE IntendFile
  BY <1>40 DEF IntendFile
<1>41. CASE UnlinkArtifact
  BY <1>41 DEF UnlinkArtifact
<1>42. CASE FindRemoved
  BY <1>42 DEF FindRemoved
<1>43. CASE StrikeArtifact
  BY <1>43 DEF StrikeArtifact
<1>44. CASE CompleteCleanup
  BY <1>44 DEF CompleteCleanup
<1>45. CASE SealCleanup
  <2>1. cleaning.made /\ run.pc = "seal"
    BY <1>45 DEF SealCleanup, PlaceInv
  <2>2. DOMAIN cleaning' = DOMAIN cleaning /\ cleaning'.made = cleaning.made
    BY <1>45 DEF SealCleanup
  <2> QED
    BY <1>45, <2>1, <2>2 DEF SealCleanup
<1>46. CASE Personalize
  BY <1>46 DEF Personalize
<1>47. CASE WriteFiles
  BY <1>47 DEF WriteFiles
<1>48. CASE RetireTools
  BY <1>48 DEF RetireTools
<1>49. CASE VerifyFiles
  BY <1>49 DEF VerifyFiles
<1>50. CASE Seed
  BY <1>50 DEF Seed
<1>51. CASE VerifyAccess
  BY <1>51 DEF VerifyAccess
<1>52. CASE Withdraw
  BY <1>52 DEF Withdraw
<1>53. CASE Report
  BY <1>53 DEF Report
<1>54. CASE GuestFails
  BY <1>54 DEF GuestFails
<1>55. CASE GuestLeaves
  BY <1>55 DEF GuestLeaves
<1>56. CASE Refuse
  <2>1. CASE run' = NoRun
    BY <1>56, <2>1 DEF Refuse
  <2>2. CASE run' = [run EXCEPT !.pc = "detach"]
    BY <1>56, <2>2 DEF Refuse
  <2> QED
    BY <1>56, <2>1, <2>2 DEF Refuse
<1>57. CASE Kill
  BY <1>57 DEF Kill
<1>58. CASE LosePower
  <2>1. \A k \in Helpers : [aid[k] EXCEPT !.loop = FALSE] \in Runs
    OBVIOUS
  <2>2. aid' \in [Helpers -> Runs]
    BY <1>58, <2>1 DEF LosePower
  <2> QED
    BY <1>58, <2>2 DEF LosePower
<1>59. CASE GiveUp
  BY <1>59 DEF GiveUp
<1>60. CASE Stage \/ FirstBoot \/ Enroll \/ StopRouter \/ StartFinal \/
          VerifyFinal \/ AcceptFirst \/ LaunchRouter
  <2>1. UNCHANGED <<aid, helper, run, cleaning>>
    BY <1>60 DEF Stage, FirstBoot, Enroll, StopRouter, StartFinal, VerifyFinal,
              AcceptFirst, LaunchRouter
  <2> QED
    BY <2>1
<1>61. CASE \E g \in {"prepare", "finalize", "clean"} : IssueGrant(g) \/ ExpireGrant(g)
  <2>1. UNCHANGED <<job, op, candidate, root, aid, helper, run, cleaning, tmpl>>
    BY <1>61 DEF IssueGrant, ExpireGrant
  <2> QED
    BY <2>1
<1>62. CASE UNCHANGED preparationVars
  BY <1>62 DEF preparationVars
<1> QED
  BY <1>1, <1>2, <1>3, <1>4, <1>5, <1>6, <1>7, <1>8, <1>9, <1>10, <1>11,
     <1>12, <1>13, <1>14, <1>15, <1>16, <1>17, <1>18, <1>19, <1>20, <1>21,
     <1>22, <1>23, <1>24, <1>25, <1>26, <1>27, <1>28, <1>29, <1>30, <1>31,
     <1>32, <1>33, <1>34, <1>35, <1>36, <1>37, <1>38, <1>39, <1>40, <1>41,
     <1>42, <1>43, <1>44, <1>45, <1>46, <1>47, <1>48, <1>49, <1>50, <1>51,
     <1>52, <1>53, <1>54, <1>55, <1>56, <1>57, <1>58, <1>59, <1>60, <1>61,
     <1>62
  DEF PreparationNext, CommandStep, PreparationStep, HelperStep, CleanupStep, GuestStep,
      Lifecycle, Failure

(* A command works only for a staged request, on a complete template.      *)
LEMMA RequestNext ==
  ASSUME PreparationInv, [PreparationNext]_preparationVars
  PROVE  RequestInv'
<1> USE DEF PreparationInv, RecordTypes, ActorTypes, RequestInv, Operations, Disks,
      Commands, Initial, NoRun, Goto, Aid, Then, OnlyRoot, OnlyOp, PlaceInv
<1>1. CASE Stage
  BY <1>1 DEF Stage
<1>2. CASE Begin
  <2>1. PICK p \in {"plan", "verify", "disk"} : run' = [NoRun EXCEPT !.pc = p]
    BY <1>2 DEF Begin
  <2> QED
    BY <1>2, <2>1 DEF Begin, Assets
<1>3. CASE BeginFinal
  BY <1>3 DEF BeginFinal
<1>4. CASE Plan
  BY <1>4 DEF Plan, Unused
<1>5. CASE StartCleanup
  <2>1. PICK p \in {"fence", "look"} : run' = [NoRun EXCEPT !.pc = p]
    BY <1>5 DEF StartCleanup
  <2> QED
    BY <1>5, <2>1 DEF StartCleanup
<1>6. CASE StartReclaim
  BY <1>6 DEF StartReclaim
<1>7. CASE ReclaimFile
  BY <1>7 DEF ReclaimFile
<1>8. CASE PlanInstallation
  BY <1>8 DEF PlanInstallation
<1>9. CASE RecordPlanned
  BY <1>9 DEF RecordPlanned
<1>10. CASE AllocateDisk
  BY <1>10 DEF AllocateDisk
<1>11. CASE RecordAllocated
  BY <1>11 DEF RecordAllocated
<1>12. CASE ContinueDisk
  BY <1>12 DEF ContinueDisk
<1>13. CASE RecordOwned
  BY <1>13 DEF RecordOwned
<1>14. CASE KeepClone
  BY <1>14 DEF KeepClone
<1>15. CASE StartClone
  BY <1>15 DEF StartClone
<1>16. CASE FinishClone
  BY <1>16 DEF FinishClone
<1>17. CASE RecordCloned
  BY <1>17 DEF RecordCloned
<1>18. CASE VerifyPrepared
  BY <1>18 DEF VerifyPrepared
<1>19. CASE FindRun
  BY <1>19 DEF FindRun
<1>20. CASE CreateSlot
  BY <1>20 DEF CreateSlot
<1>21. CASE AttachSlot
  BY <1>21 DEF AttachSlot
<1>22. CASE Define
  BY <1>22 DEF Define
<1>23. CASE RecordRun
  BY <1>23 DEF RecordRun
<1>24. CASE BootHelper
  BY <1>24 DEF BootHelper
<1>25. CASE AwaitHelper
  BY <1>25 DEF AwaitHelper
<1>26. CASE CollectResult
  BY <1>26 DEF CollectResult
<1>27. CASE CompleteRun
  BY <1>27 DEF CompleteRun
<1>28. CASE DetachSlot
  BY <1>28 DEF DetachSlot
<1>29. CASE RecordPrepared
  BY <1>29 DEF RecordPrepared
<1>30. CASE FenceGuest
  BY <1>30 DEF FenceGuest
<1>31. CASE FenceLoop
  BY <1>31 DEF FenceLoop
<1>32. CASE SaveFenced
  BY <1>32 DEF SaveFenced
<1>33. CASE Look
  BY <1>33 DEF Look
<1>34. CASE IntendDisk
  BY <1>34 DEF IntendDisk
<1>35. CASE RecordAbsent
  BY <1>35 DEF RecordAbsent
<1>36. CASE AdoptVolume
  BY <1>36 DEF AdoptVolume
<1>37. CASE RetireVolume
  BY <1>37 DEF RetireVolume
<1>38. CASE RemoveVolume
  BY <1>38 DEF RemoveVolume
<1>39. CASE SaveRetired
  BY <1>39 DEF SaveRetired
<1>40. CASE CheckAbsent
  BY <1>40 DEF CheckAbsent
<1>41. CASE IntendFile
  BY <1>41 DEF IntendFile
<1>42. CASE UnlinkArtifact
  <2>1. op' = op \/ op' = [op EXCEPT !.boot = FALSE]
    BY <1>42 DEF UnlinkArtifact
  <2>2. ~Initial
    BY <1>42 DEF UnlinkArtifact, Cleaning, Cleared
  <2> QED
    BY <1>42, <2>1, <2>2 DEF UnlinkArtifact
<1>43. CASE FindRemoved
  BY <1>43 DEF FindRemoved
<1>44. CASE StrikeArtifact
  BY <1>44 DEF StrikeArtifact
<1>45. CASE CompleteCleanup
  BY <1>45 DEF CompleteCleanup
<1>46. CASE SealCleanup
  BY <1>46 DEF SealCleanup
<1>47. CASE FirstBoot
  BY <1>47 DEF FirstBoot
<1>48. CASE Enroll
  BY <1>48 DEF Enroll
<1>49. CASE StopRouter
  BY <1>49 DEF StopRouter
<1>50. CASE StartFinal
  BY <1>50 DEF StartFinal
<1>51. CASE VerifyFinal
  BY <1>51 DEF VerifyFinal
<1>52. CASE AcceptFirst
  BY <1>52 DEF AcceptFirst
<1>53. CASE LaunchRouter
  BY <1>53 DEF LaunchRouter
<1>54. CASE Refuse
  BY <1>54 DEF Refuse
<1>55. CASE Kill
  BY <1>55 DEF Kill
<1>56. CASE LosePower
  BY <1>56 DEF LosePower
<1>57. CASE GiveUp
  BY <1>57 DEF GiveUp
<1>58. CASE Personalize \/ WriteFiles \/ RetireTools \/ VerifyFiles \/ Seed \/
          VerifyAccess \/ Withdraw \/ Report \/ GuestFails \/ GuestLeaves
  <2>1. UNCHANGED <<job, op, candidate, run, cleaning, tmpl>>
    BY <1>58 DEF Personalize, WriteFiles, RetireTools, VerifyFiles, Seed,
              VerifyAccess, Withdraw, Report, GuestFails, GuestLeaves
  <2> QED
    BY <2>1
<1>59. CASE \E g \in {"prepare", "finalize", "clean"} : IssueGrant(g) \/ ExpireGrant(g)
  <2>1. UNCHANGED <<job, op, candidate, root, aid, helper, run, cleaning, tmpl>>
    BY <1>59 DEF IssueGrant, ExpireGrant
  <2> QED
    BY <2>1
<1>60. CASE UNCHANGED preparationVars
  BY <1>60 DEF preparationVars
<1> QED
  BY <1>1, <1>2, <1>3, <1>4, <1>5, <1>6, <1>7, <1>8, <1>9, <1>10, <1>11,
     <1>12, <1>13, <1>14, <1>15, <1>16, <1>17, <1>18, <1>19, <1>20, <1>21,
     <1>22, <1>23, <1>24, <1>25, <1>26, <1>27, <1>28, <1>29, <1>30, <1>31,
     <1>32, <1>33, <1>34, <1>35, <1>36, <1>37, <1>38, <1>39, <1>40, <1>41,
     <1>42, <1>43, <1>44, <1>45, <1>46, <1>47, <1>48, <1>49, <1>50, <1>51,
     <1>52, <1>53, <1>54, <1>55, <1>56, <1>57, <1>58, <1>59, <1>60
  DEF PreparationNext, CommandStep, PreparationStep, HelperStep, CleanupStep, GuestStep,
      Lifecycle, Failure

(* A helper's files come after what it works on, and stay with it.         *)
LEMMA FilesNext ==
  ASSUME PreparationInv, [PreparationNext]_preparationVars
  PROVE  FilesInv'
<1> USE DEF PreparationInv, FilesInv, RequestInv, PlaceInv, HolderInv, GuestInv,
      RecordTypes, ActorTypes, Operations, Disks, Stages, Roots, Runs,
      Guests, Commands, NoGuest, Helpers, Working, Preparing, Booting,
      Reading, Helping, Cleared, Cleaning, NoRun, Goto, Aid, Then, In, Mine,
      Alive, Initial, OnlyRoot, OnlyOp
<1>1. CASE Stage
  BY <1>1 DEF Stage
<1>2. CASE PlanInstallation
  BY <1>2 DEF PlanInstallation
<1>3. CASE RecordPlanned
  BY <1>3 DEF RecordPlanned, MayAllocate
<1>4. CASE AllocateDisk
  BY <1>4 DEF AllocateDisk
<1>5. CASE RecordAllocated
  BY <1>5 DEF RecordAllocated
<1>6. CASE RecordOwned
  BY <1>6 DEF RecordOwned
<1>7. CASE RecordCloned
  BY <1>7 DEF RecordCloned
<1>8. CASE CreateSlot
  BY <1>8 DEF CreateSlot
<1>9. CASE AttachSlot
  BY <1>9 DEF AttachSlot
<1>10. CASE Define
  BY <1>10 DEF Define
<1>11. CASE RecordRun
  BY <1>11 DEF RecordRun
<1>12. CASE CollectResult
  BY <1>12 DEF CollectResult
<1>13. CASE CompleteRun
  BY <1>13 DEF CompleteRun
<1>14. CASE DetachSlot
  BY <1>14 DEF DetachSlot
<1>15. CASE RecordPrepared
  BY <1>15 DEF RecordPrepared
<1>16. CASE FenceLoop
  BY <1>16 DEF FenceLoop
<1>17. CASE RecordAbsent
  BY <1>17 DEF RecordAbsent
<1>18. CASE AdoptVolume
  BY <1>18 DEF AdoptVolume
<1>19. CASE RetireVolume
  BY <1>19 DEF RetireVolume
<1>20. CASE RemoveVolume
  BY <1>20 DEF RemoveVolume
<1>21. CASE UnlinkArtifact
  BY <1>21 DEF UnlinkArtifact
<1>22. CASE Report
  BY <1>22 DEF Report
<1>23. CASE GuestFails
  BY <1>23 DEF GuestFails
<1>24. CASE FirstBoot
  BY <1>24 DEF FirstBoot
<1>25. CASE Enroll
  BY <1>25 DEF Enroll
<1>26. CASE StopRouter
  BY <1>26 DEF StopRouter
<1>27. CASE StartFinal
  BY <1>27 DEF StartFinal
<1>28. CASE VerifyFinal
  BY <1>28 DEF VerifyFinal
<1>29. CASE AcceptFirst
  BY <1>29 DEF AcceptFirst
<1>30. CASE LaunchRouter
  BY <1>30 DEF LaunchRouter
<1>31. CASE LosePower
  BY <1>31 DEF LosePower
<1>32. CASE Begin \/ BeginFinal \/ Plan \/ StartCleanup \/ StartReclaim \/
          ReclaimFile \/ ContinueDisk \/ KeepClone \/ StartClone \/
          FinishClone \/ VerifyPrepared \/ FindRun \/ BootHelper \/
          AwaitHelper \/ FenceGuest \/ SaveFenced \/ Look \/ IntendDisk \/
          SaveRetired \/ CheckAbsent \/ IntendFile \/ FindRemoved \/
          StrikeArtifact \/ CompleteCleanup \/ SealCleanup \/ Personalize \/
          WriteFiles \/ RetireTools \/ VerifyFiles \/ Seed \/ VerifyAccess \/
          Withdraw \/ GuestLeaves \/ Refuse \/ Kill \/ GiveUp
  <2>1. UNCHANGED <<op, candidate, aid>>
    BY <1>32 DEF Begin, BeginFinal, Plan, StartCleanup, StartReclaim,
              ReclaimFile, ContinueDisk, KeepClone, StartClone, FinishClone,
              VerifyPrepared, FindRun, BootHelper, AwaitHelper, FenceGuest,
              SaveFenced, Look, IntendDisk, SaveRetired, CheckAbsent,
              IntendFile, FindRemoved, StrikeArtifact, CompleteCleanup,
              SealCleanup, Personalize, WriteFiles, RetireTools, VerifyFiles,
              Seed, VerifyAccess, Withdraw, GuestLeaves, Refuse, Kill,
              GiveUp
  <2> QED
    BY <2>1
<1>33. CASE \E g \in {"prepare", "finalize", "clean"} : IssueGrant(g) \/ ExpireGrant(g)
  <2>1. UNCHANGED <<job, op, candidate, root, aid, helper, run, cleaning, tmpl>>
    BY <1>33 DEF IssueGrant, ExpireGrant
  <2> QED
    BY <2>1
<1>34. CASE UNCHANGED preparationVars
  BY <1>34 DEF preparationVars
<1> QED
  BY <1>1, <1>2, <1>3, <1>4, <1>5, <1>6, <1>7, <1>8, <1>9, <1>10, <1>11,
     <1>12, <1>13, <1>14, <1>15, <1>16, <1>17, <1>18, <1>19, <1>20, <1>21,
     <1>22, <1>23, <1>24, <1>25, <1>26, <1>27, <1>28, <1>29, <1>30, <1>31,
     <1>32, <1>33, <1>34
  DEF PreparationNext, CommandStep, PreparationStep, HelperStep, CleanupStep, GuestStep,
      Lifecycle, Failure

(* The holder's place tells what it has checked: the lock keeps it true.   *)
LEMMA PlaceNext ==
  ASSUME PreparationInv, [PreparationNext]_preparationVars
  PROVE  PlaceInv'
<1> USE DEF PreparationInv, FilesInv, RequestInv, PlaceInv, HolderInv, GuestInv,
      RecordTypes, ActorTypes, Operations, Disks, Stages, Roots, Runs,
      Guests, Commands, NoGuest, Helpers, Working, Preparing, Booting,
      Reading, Helping, Cleared, Cleaning, NoRun, Goto, Aid, Then, In, Mine,
      Alive, Initial, OnlyRoot, OnlyOp
<1>1. CASE Stage
  BY <1>1 DEF Stage
<1>2. CASE Begin
  <2>1. PICK p \in {"plan", "verify", "disk"} :
          run' = [NoRun EXCEPT !.pc = p] /\ (p = "plan" => Initial /\ op.install = "none")
    BY <1>2 DEF Begin
  <2> QED
    BY <1>2, <2>1 DEF Begin, Assets, FreshTarget, Owned
<1>3. CASE BeginFinal
  BY <1>3 DEF BeginFinal
<1>4. CASE Plan
  BY <1>4 DEF Plan
<1>5. CASE StartCleanup
  BY <1>5 DEF StartCleanup
<1>6. CASE StartReclaim
  BY <1>6 DEF StartReclaim
<1>7. CASE ReclaimFile
  BY <1>7 DEF ReclaimFile
<1>8. CASE PlanInstallation
  BY <1>8 DEF PlanInstallation
<1>9. CASE RecordPlanned
  BY <1>9 DEF RecordPlanned
<1>10. CASE AllocateDisk
  BY <1>10 DEF AllocateDisk
<1>11. CASE RecordAllocated
  BY <1>11 DEF RecordAllocated
<1>12. CASE ContinueDisk
  BY <1>12 DEF ContinueDisk
<1>13. CASE RecordOwned
  BY <1>13 DEF RecordOwned
<1>14. CASE KeepClone
  BY <1>14 DEF KeepClone
<1>15. CASE StartClone
  BY <1>15 DEF StartClone, MayClone, Traces
<1>16. CASE FinishClone
  BY <1>16 DEF FinishClone
<1>17. CASE RecordCloned
  BY <1>17 DEF RecordCloned
<1>18. CASE VerifyPrepared
  BY <1>18 DEF VerifyPrepared
<1>19. CASE FindRun
  BY <1>19 DEF FindRun, MayRun
<1>20. CASE CreateSlot
  BY <1>20 DEF CreateSlot
<1>21. CASE AttachSlot
  BY <1>21 DEF AttachSlot
<1>22. CASE Define
  BY <1>22 DEF Define
<1>23. CASE RecordRun
  BY <1>23 DEF RecordRun
<1>24. CASE BootHelper
  BY <1>24 DEF BootHelper
<1>25. CASE AwaitHelper
  BY <1>25 DEF AwaitHelper
<1>26. CASE CollectResult
  BY <1>26 DEF CollectResult
<1>27. CASE CompleteRun
  BY <1>27 DEF CompleteRun
<1>28. CASE DetachSlot
  BY <1>28 DEF DetachSlot
<1>29. CASE RecordPrepared
  BY <1>29 DEF RecordPrepared
<1>30. CASE FenceGuest
  BY <1>30 DEF FenceGuest
<1>31. CASE FenceLoop
  BY <1>31 DEF FenceLoop
<1>32. CASE SaveFenced
  BY <1>32 DEF SaveFenced
<1>33. CASE Look
  BY <1>33 DEF Look, Unhelped
<1>34. CASE IntendDisk
  BY <1>34 DEF IntendDisk
<1>35. CASE RecordAbsent
  BY <1>35 DEF RecordAbsent
<1>36. CASE AdoptVolume
  BY <1>36 DEF AdoptVolume
<1>37. CASE RetireVolume
  BY <1>37 DEF RetireVolume
<1>38. CASE RemoveVolume
  BY <1>38 DEF RemoveVolume
<1>39. CASE SaveRetired
  BY <1>39 DEF SaveRetired
<1>40. CASE CheckAbsent
  BY <1>40 DEF CheckAbsent
<1>41. CASE IntendFile
  BY <1>41 DEF IntendFile
<1>42. CASE UnlinkArtifact
  BY <1>42 DEF UnlinkArtifact
<1>43. CASE FindRemoved
  BY <1>43 DEF FindRemoved
<1>44. CASE StrikeArtifact
  BY <1>44 DEF StrikeArtifact
<1>45. CASE CompleteCleanup
  BY <1>45 DEF CompleteCleanup
<1>46. CASE SealCleanup
  BY <1>46 DEF SealCleanup
<1>47. CASE Personalize
  BY <1>47 DEF Personalize
<1>48. CASE WriteFiles
  BY <1>48 DEF WriteFiles
<1>49. CASE RetireTools
  BY <1>49 DEF RetireTools
<1>50. CASE VerifyFiles
  BY <1>50 DEF VerifyFiles
<1>51. CASE Seed
  BY <1>51 DEF Seed
<1>52. CASE VerifyAccess
  BY <1>52 DEF VerifyAccess
<1>53. CASE Withdraw
  BY <1>53 DEF Withdraw
<1>54. CASE Report
  BY <1>54 DEF Report
<1>55. CASE GuestFails
  BY <1>55 DEF GuestFails
<1>56. CASE GuestLeaves
  BY <1>56 DEF GuestLeaves
<1>57. CASE FirstBoot
  BY <1>57 DEF FirstBoot
<1>58. CASE Enroll
  BY <1>58 DEF Enroll
<1>59. CASE StopRouter
  BY <1>59 DEF StopRouter
<1>60. CASE StartFinal
  BY <1>60 DEF StartFinal
<1>61. CASE VerifyFinal
  BY <1>61 DEF VerifyFinal
<1>62. CASE AcceptFirst
  BY <1>62 DEF AcceptFirst
<1>63. CASE LaunchRouter
  BY <1>63 DEF LaunchRouter
<1>64. CASE Refuse
  BY <1>64 DEF Refuse
<1>65. CASE Kill
  BY <1>65 DEF Kill
<1>66. CASE LosePower
  BY <1>66 DEF LosePower
<1>67. CASE GiveUp
  BY <1>67 DEF GiveUp
<1>68. CASE \E g \in {"prepare", "finalize", "clean"} : IssueGrant(g) \/ ExpireGrant(g)
  <2>1. UNCHANGED <<job, op, candidate, root, aid, helper, run, cleaning, tmpl>>
    BY <1>68 DEF IssueGrant, ExpireGrant
  <2> QED
    BY <2>1
<1>69. CASE UNCHANGED preparationVars
  BY <1>69 DEF preparationVars
<1> QED
  BY <1>1, <1>2, <1>3, <1>4, <1>5, <1>6, <1>7, <1>8, <1>9, <1>10, <1>11,
     <1>12, <1>13, <1>14, <1>15, <1>16, <1>17, <1>18, <1>19, <1>20, <1>21,
     <1>22, <1>23, <1>24, <1>25, <1>26, <1>27, <1>28, <1>29, <1>30, <1>31,
     <1>32, <1>33, <1>34, <1>35, <1>36, <1>37, <1>38, <1>39, <1>40, <1>41,
     <1>42, <1>43, <1>44, <1>45, <1>46, <1>47, <1>48, <1>49, <1>50, <1>51,
     <1>52, <1>53, <1>54, <1>55, <1>56, <1>57, <1>58, <1>59, <1>60, <1>61,
     <1>62, <1>63, <1>64, <1>65, <1>66, <1>67, <1>68, <1>69
  DEF PreparationNext, CommandStep, PreparationStep, HelperStep, CleanupStep, GuestStep,
      Lifecycle, Failure

(* The holder's place tells which of its helper's files are there.         *)
LEMMA HolderNext ==
  ASSUME PreparationInv, [PreparationNext]_preparationVars
  PROVE  HolderInv'
<1> USE DEF PreparationInv, FilesInv, RequestInv, PlaceInv, HolderInv, GuestInv,
      RecordTypes, ActorTypes, Operations, Disks, Stages, Roots, Runs,
      Guests, Commands, NoGuest, Helpers, Working, Preparing, Booting,
      Reading, Helping, Cleared, Cleaning, NoRun, Goto, Aid, Then, In, Mine,
      Alive, Initial, OnlyRoot, OnlyOp
<1>1. CASE Begin
  BY <1>1 DEF Begin
<1>2. CASE BeginFinal
  BY <1>2 DEF BeginFinal
<1>3. CASE StartCleanup
  BY <1>3 DEF StartCleanup
<1>4. CASE StartReclaim
  BY <1>4 DEF StartReclaim
<1>5. CASE ReclaimFile
  BY <1>5 DEF ReclaimFile
<1>6. CASE PlanInstallation
  BY <1>6 DEF PlanInstallation
<1>7. CASE RecordPlanned
  BY <1>7 DEF RecordPlanned
<1>8. CASE AllocateDisk
  BY <1>8 DEF AllocateDisk
<1>9. CASE RecordAllocated
  BY <1>9 DEF RecordAllocated
<1>10. CASE ContinueDisk
  BY <1>10 DEF ContinueDisk
<1>11. CASE RecordOwned
  BY <1>11 DEF RecordOwned
<1>12. CASE KeepClone
  BY <1>12 DEF KeepClone
<1>13. CASE StartClone
  BY <1>13 DEF StartClone
<1>14. CASE FinishClone
  BY <1>14 DEF FinishClone
<1>15. CASE RecordCloned
  BY <1>15 DEF RecordCloned
<1>16. CASE VerifyPrepared
  BY <1>16 DEF VerifyPrepared
<1>17. CASE FindRun
  BY <1>17 DEF FindRun
<1>18. CASE CreateSlot
  BY <1>18 DEF CreateSlot
<1>19. CASE AttachSlot
  BY <1>19 DEF AttachSlot
<1>20. CASE Define
  BY <1>20 DEF Define
<1>21. CASE RecordRun
  BY <1>21 DEF RecordRun
<1>22. CASE BootHelper
  BY <1>22 DEF BootHelper
<1>23. CASE AwaitHelper
  BY <1>23 DEF AwaitHelper
<1>24. CASE CollectResult
  BY <1>24 DEF CollectResult, Accepted
<1>25. CASE CompleteRun
  BY <1>25 DEF CompleteRun
<1>26. CASE DetachSlot
  BY <1>26 DEF DetachSlot
<1>27. CASE RecordPrepared
  BY <1>27 DEF RecordPrepared
<1>28. CASE FenceGuest
  BY <1>28 DEF FenceGuest
<1>29. CASE FenceLoop
  BY <1>29 DEF FenceLoop
<1>30. CASE SaveFenced
  BY <1>30 DEF SaveFenced
<1>31. CASE Look
  BY <1>31 DEF Look
<1>32. CASE IntendDisk
  BY <1>32 DEF IntendDisk
<1>33. CASE RecordAbsent
  BY <1>33 DEF RecordAbsent
<1>34. CASE AdoptVolume
  BY <1>34 DEF AdoptVolume
<1>35. CASE RetireVolume
  BY <1>35 DEF RetireVolume
<1>36. CASE RemoveVolume
  BY <1>36 DEF RemoveVolume
<1>37. CASE SaveRetired
  BY <1>37 DEF SaveRetired
<1>38. CASE CheckAbsent
  BY <1>38 DEF CheckAbsent
<1>39. CASE IntendFile
  BY <1>39 DEF IntendFile
<1>40. CASE UnlinkArtifact
  BY <1>40 DEF UnlinkArtifact
<1>41. CASE FindRemoved
  BY <1>41 DEF FindRemoved
<1>42. CASE StrikeArtifact
  BY <1>42 DEF StrikeArtifact
<1>43. CASE CompleteCleanup
  BY <1>43 DEF CompleteCleanup
<1>44. CASE SealCleanup
  BY <1>44 DEF SealCleanup
<1>45. CASE Report
  BY <1>45 DEF Report
<1>46. CASE GuestFails
  BY <1>46 DEF GuestFails
<1>47. CASE Refuse
  BY <1>47 DEF Refuse
<1>48. CASE Kill
  BY <1>48 DEF Kill
<1>49. CASE LosePower
  BY <1>49 DEF LosePower
<1>50. CASE GiveUp
  BY <1>50 DEF GiveUp
<1>51. CASE Stage \/ Plan \/ Personalize \/ WriteFiles \/ RetireTools \/
          VerifyFiles \/ Seed \/ VerifyAccess \/ Withdraw \/ GuestLeaves \/
          FirstBoot \/ Enroll \/ StopRouter \/ StartFinal \/ VerifyFinal \/
          AcceptFirst \/ LaunchRouter
  <2>1. UNCHANGED <<aid, run>>
    BY <1>51 DEF Stage, Plan, Personalize, WriteFiles, RetireTools, VerifyFiles,
              Seed, VerifyAccess, Withdraw, GuestLeaves, FirstBoot, Enroll,
              StopRouter, StartFinal, VerifyFinal, AcceptFirst, LaunchRouter
  <2> QED
    BY <2>1
<1>52. CASE \E g \in {"prepare", "finalize", "clean"} : IssueGrant(g) \/ ExpireGrant(g)
  <2>1. UNCHANGED <<job, op, candidate, root, aid, helper, run, cleaning, tmpl>>
    BY <1>52 DEF IssueGrant, ExpireGrant
  <2> QED
    BY <2>1
<1>53. CASE UNCHANGED preparationVars
  BY <1>53 DEF preparationVars
<1> QED
  BY <1>1, <1>2, <1>3, <1>4, <1>5, <1>6, <1>7, <1>8, <1>9, <1>10, <1>11,
     <1>12, <1>13, <1>14, <1>15, <1>16, <1>17, <1>18, <1>19, <1>20, <1>21,
     <1>22, <1>23, <1>24, <1>25, <1>26, <1>27, <1>28, <1>29, <1>30, <1>31,
     <1>32, <1>33, <1>34, <1>35, <1>36, <1>37, <1>38, <1>39, <1>40, <1>41,
     <1>42, <1>43, <1>44, <1>45, <1>46, <1>47, <1>48, <1>49, <1>50, <1>51,
     <1>52, <1>53
  DEF PreparationNext, CommandStep, PreparationStep, HelperStep, CleanupStep, GuestStep,
      Lifecycle, Failure

(* No step takes from a live guest what it works on.                       *)
LEMMA GuestNext ==
  ASSUME PreparationInv, [PreparationNext]_preparationVars
  PROVE  GuestInv'
<1> USE DEF PreparationInv, FilesInv, RequestInv, PlaceInv, HolderInv, GuestInv,
      RecordTypes, ActorTypes, Operations, Disks, Stages, Roots, Runs,
      Guests, Commands, NoGuest, Helpers, Working, Preparing, Booting,
      Reading, Helping, Cleared, Cleaning, NoRun, Goto, Aid, Then, In, Mine,
      Alive, Initial, OnlyRoot, OnlyOp
<1>1. CASE Stage
  BY <1>1 DEF Stage
<1>2. CASE PlanInstallation
  BY <1>2 DEF PlanInstallation
<1>3. CASE RecordPlanned
  BY <1>3 DEF RecordPlanned
<1>4. CASE AllocateDisk
  BY <1>4 DEF AllocateDisk
<1>5. CASE RecordAllocated
  BY <1>5 DEF RecordAllocated
<1>6. CASE RecordOwned
  BY <1>6 DEF RecordOwned
<1>7. CASE RecordCloned
  BY <1>7 DEF RecordCloned
<1>8. CASE CreateSlot
  BY <1>8 DEF CreateSlot
<1>9. CASE AttachSlot
  BY <1>9 DEF AttachSlot
<1>10. CASE Define
  BY <1>10 DEF Define
<1>11. CASE RecordRun
  BY <1>11 DEF RecordRun
<1>12. CASE BootHelper
  BY <1>12 DEF BootHelper
<1>13. CASE AwaitHelper
  BY <1>13 DEF AwaitHelper
<1>14. CASE CollectResult
  BY <1>14 DEF CollectResult
<1>15. CASE CompleteRun
  BY <1>15 DEF CompleteRun
<1>16. CASE DetachSlot
  BY <1>16 DEF DetachSlot
<1>17. CASE RecordPrepared
  BY <1>17 DEF RecordPrepared
<1>18. CASE FenceGuest
  BY <1>18 DEF FenceGuest
<1>19. CASE FenceLoop
  BY <1>19 DEF FenceLoop
<1>20. CASE RecordAbsent
  BY <1>20 DEF RecordAbsent
<1>21. CASE AdoptVolume
  BY <1>21 DEF AdoptVolume
<1>22. CASE RetireVolume
  BY <1>22 DEF RetireVolume
<1>23. CASE RemoveVolume
  BY <1>23 DEF RemoveVolume
<1>24. CASE UnlinkArtifact
  BY <1>24 DEF UnlinkArtifact
<1>25. CASE Personalize
  BY <1>25 DEF Personalize
<1>26. CASE WriteFiles
  BY <1>26 DEF WriteFiles
<1>27. CASE RetireTools
  BY <1>27 DEF RetireTools
<1>28. CASE VerifyFiles
  BY <1>28 DEF VerifyFiles
<1>29. CASE Seed
  BY <1>29 DEF Seed
<1>30. CASE VerifyAccess
  BY <1>30 DEF VerifyAccess
<1>31. CASE Withdraw
  BY <1>31 DEF Withdraw
<1>32. CASE Report
  BY <1>32 DEF Report
<1>33. CASE GuestFails
  BY <1>33 DEF GuestFails
<1>34. CASE GuestLeaves
  BY <1>34 DEF GuestLeaves
<1>35. CASE FirstBoot
  BY <1>35 DEF FirstBoot
<1>36. CASE Enroll
  BY <1>36 DEF Enroll
<1>37. CASE StopRouter
  BY <1>37 DEF StopRouter
<1>38. CASE StartFinal
  BY <1>38 DEF StartFinal
<1>39. CASE VerifyFinal
  BY <1>39 DEF VerifyFinal
<1>40. CASE AcceptFirst
  BY <1>40 DEF AcceptFirst
<1>41. CASE LaunchRouter
  BY <1>41 DEF LaunchRouter
<1>42. CASE LosePower
  BY <1>42 DEF LosePower
<1>43. CASE GiveUp
  BY <1>43 DEF GiveUp
<1>44. CASE Begin \/ BeginFinal \/ Plan \/ StartCleanup \/ StartReclaim \/
          ReclaimFile \/ ContinueDisk \/ KeepClone \/ StartClone \/
          FinishClone \/ VerifyPrepared \/ FindRun \/ SaveFenced \/ Look \/
          IntendDisk \/ SaveRetired \/ CheckAbsent \/ IntendFile \/
          FindRemoved \/ StrikeArtifact \/ CompleteCleanup \/ SealCleanup \/
          Refuse \/ Kill
  <2>1. UNCHANGED <<op, candidate, aid, helper>>
    BY <1>44 DEF Begin, BeginFinal, Plan, StartCleanup, StartReclaim,
              ReclaimFile, ContinueDisk, KeepClone, StartClone, FinishClone,
              VerifyPrepared, FindRun, SaveFenced, Look, IntendDisk,
              SaveRetired, CheckAbsent, IntendFile, FindRemoved, StrikeArtifact,
              CompleteCleanup, SealCleanup, Refuse, Kill
  <2> QED
    BY <2>1
<1>45. CASE \E g \in {"prepare", "finalize", "clean"} : IssueGrant(g) \/ ExpireGrant(g)
  <2>1. UNCHANGED <<job, op, candidate, root, aid, helper, run, cleaning, tmpl>>
    BY <1>45 DEF IssueGrant, ExpireGrant
  <2> QED
    BY <2>1
<1>46. CASE UNCHANGED preparationVars
  BY <1>46 DEF preparationVars
<1> QED
  BY <1>1, <1>2, <1>3, <1>4, <1>5, <1>6, <1>7, <1>8, <1>9, <1>10, <1>11,
     <1>12, <1>13, <1>14, <1>15, <1>16, <1>17, <1>18, <1>19, <1>20, <1>21,
     <1>22, <1>23, <1>24, <1>25, <1>26, <1>27, <1>28, <1>29, <1>30, <1>31,
     <1>32, <1>33, <1>34, <1>35, <1>36, <1>37, <1>38, <1>39, <1>40, <1>41,
     <1>42, <1>43, <1>44, <1>45, <1>46
  DEF PreparationNext, CommandStep, PreparationStep, HelperStep, CleanupStep, GuestStep,
      Lifecycle, Failure

(* The preparer goes through its work in order; nobody else changes the    *)
(* disk before the installation has enrolled or the volume is removed.     *)
LEMMA WholeNext ==
  ASSUME PreparationInv, [PreparationNext]_preparationVars
  PROVE  WholeInv'
<1> USE DEF PreparationInv, FilesInv, RequestInv, PlaceInv, HolderInv, GuestInv,
      WholeInv, Complete, RecordTypes, ActorTypes, Operations, Disks, Stages,
      Roots, Runs, Guests, Commands, NoGuest, Helpers, Working, Preparing,
      Booting, Reading, Helping, Cleared, Cleaning, NoRun, Goto, Aid, Then,
      In, Mine, Alive, Initial, OnlyRoot, OnlyOp
<1>1. CASE Stage
  BY <1>1 DEF Stage
<1>2. CASE PlanInstallation
  BY <1>2 DEF PlanInstallation
<1>3. CASE RecordPlanned
  BY <1>3 DEF RecordPlanned
<1>4. CASE AllocateDisk
  BY <1>4 DEF AllocateDisk
<1>5. CASE RecordAllocated
  BY <1>5 DEF RecordAllocated
<1>6. CASE RecordOwned
  BY <1>6 DEF RecordOwned
<1>7. CASE StartClone
  BY <1>7 DEF StartClone, MayClone, Traces
<1>8. CASE FinishClone
  BY <1>8 DEF FinishClone
<1>9. CASE RecordCloned
  BY <1>9 DEF RecordCloned
<1>10. CASE CreateSlot
  BY <1>10 DEF CreateSlot
<1>11. CASE AttachSlot
  BY <1>11 DEF AttachSlot
<1>12. CASE Define
  BY <1>12 DEF Define
<1>13. CASE RecordRun
  BY <1>13 DEF RecordRun
<1>14. CASE BootHelper
  BY <1>14 DEF BootHelper
<1>15. CASE AwaitHelper
  BY <1>15 DEF AwaitHelper
<1>16. CASE CollectResult
  BY <1>16 DEF CollectResult
<1>17. CASE CompleteRun
  BY <1>17 DEF CompleteRun
<1>18. CASE DetachSlot
  BY <1>18 DEF DetachSlot
<1>19. CASE RecordPrepared
  BY <1>19 DEF RecordPrepared
<1>20. CASE FenceGuest
  BY <1>20 DEF FenceGuest
<1>21. CASE FenceLoop
  BY <1>21 DEF FenceLoop
<1>22. CASE RecordAbsent
  BY <1>22 DEF RecordAbsent
<1>23. CASE AdoptVolume
  BY <1>23 DEF AdoptVolume
<1>24. CASE RetireVolume
  BY <1>24 DEF RetireVolume
<1>25. CASE RemoveVolume
  BY <1>25 DEF RemoveVolume
<1>26. CASE UnlinkArtifact
  BY <1>26 DEF UnlinkArtifact
<1>27. CASE Personalize
  BY <1>27 DEF Personalize
<1>28. CASE WriteFiles
  BY <1>28 DEF WriteFiles
<1>29. CASE RetireTools
  BY <1>29 DEF RetireTools
<1>30. CASE VerifyFiles
  BY <1>30 DEF VerifyFiles, MayVerify
<1>31. CASE Seed
  <2>1. In("prepare", "seed")
    BY <1>31 DEF Seed
  <2>2. root' = [root EXCEPT !.access = root'.access] /\ OnlyRoot
    BY <1>31 DEF Seed
  <2>3. CASE Then("seed")
    BY <2>1, <2>2, <2>3
  <2>4. CASE Then("report") /\ root'.access = Access
    BY <2>1, <2>2, <2>4
  <2> QED
    BY <1>31, <2>1, <2>3, <2>4, SeededAll
<1>32. CASE VerifyAccess
  BY <1>32 DEF VerifyAccess
<1>33. CASE Withdraw
  BY <1>33 DEF Withdraw
<1>34. CASE Report
  BY <1>34 DEF Report
<1>35. CASE GuestFails
  BY <1>35 DEF GuestFails
<1>36. CASE GuestLeaves
  BY <1>36 DEF GuestLeaves
<1>37. CASE FirstBoot
  BY <1>37 DEF FirstBoot
<1>38. CASE Enroll
  BY <1>38 DEF Enroll
<1>39. CASE StopRouter
  BY <1>39 DEF StopRouter
<1>40. CASE StartFinal
  BY <1>40 DEF StartFinal
<1>41. CASE VerifyFinal
  BY <1>41 DEF VerifyFinal
<1>42. CASE AcceptFirst
  BY <1>42 DEF AcceptFirst
<1>43. CASE LaunchRouter
  BY <1>43 DEF LaunchRouter
<1>44. CASE LosePower
  BY <1>44 DEF LosePower
<1>45. CASE GiveUp
  BY <1>45 DEF GiveUp
<1>46. CASE Begin \/ BeginFinal \/ Plan \/ StartCleanup \/ StartReclaim \/
          ReclaimFile \/ ContinueDisk \/ KeepClone \/ VerifyPrepared \/
          FindRun \/ SaveFenced \/ Look \/ IntendDisk \/ SaveRetired \/
          CheckAbsent \/ IntendFile \/ FindRemoved \/ StrikeArtifact \/
          CompleteCleanup \/ SealCleanup \/ Refuse \/ Kill
  <2>1. UNCHANGED <<job, op, candidate, root, aid, helper>>
    BY <1>46 DEF Begin, BeginFinal, Plan, StartCleanup, StartReclaim,
              ReclaimFile, ContinueDisk, KeepClone, VerifyPrepared, FindRun,
              SaveFenced, Look, IntendDisk, SaveRetired, CheckAbsent,
              IntendFile, FindRemoved, StrikeArtifact, CompleteCleanup,
              SealCleanup, Refuse, Kill
  <2> QED
    BY <2>1
<1>47. CASE \E g \in {"prepare", "finalize", "clean"} : IssueGrant(g) \/ ExpireGrant(g)
  <2>1. UNCHANGED <<job, op, candidate, root, aid, helper, run, cleaning, tmpl>>
    BY <1>47 DEF IssueGrant, ExpireGrant
  <2> QED
    BY <2>1
<1>48. CASE UNCHANGED preparationVars
  BY <1>48 DEF preparationVars
<1> QED
  BY <1>1, <1>2, <1>3, <1>4, <1>5, <1>6, <1>7, <1>8, <1>9, <1>10, <1>11,
     <1>12, <1>13, <1>14, <1>15, <1>16, <1>17, <1>18, <1>19, <1>20, <1>21,
     <1>22, <1>23, <1>24, <1>25, <1>26, <1>27, <1>28, <1>29, <1>30, <1>31,
     <1>32, <1>33, <1>34, <1>35, <1>36, <1>37, <1>38, <1>39, <1>40, <1>41,
     <1>42, <1>43, <1>44, <1>45, <1>46, <1>47, <1>48
  DEF PreparationNext, CommandStep, PreparationStep, HelperStep, CleanupStep, GuestStep,
      Lifecycle, Failure

(* So does the finalizer, after which nobody changes the disk.             *)
LEMMA FinalNext ==
  ASSUME PreparationInv, [PreparationNext]_preparationVars
  PROVE  FinalInv'
<1> USE DEF PreparationInv, FilesInv, RequestInv, PlaceInv, HolderInv, GuestInv,
      FinalInv, Retired, RecordTypes, ActorTypes, Operations, Disks, Stages,
      Roots, Runs, Guests, Commands, NoGuest, Helpers, Working, Preparing,
      Booting, Reading, Helping, Cleared, Cleaning, NoRun, Goto, Aid, Then,
      In, Mine, Alive, Initial, OnlyRoot, OnlyOp
<1>1. CASE StartClone
  BY <1>1 DEF StartClone, MayClone, Traces
<1>2. CASE FinishClone
  BY <1>2 DEF FinishClone
<1>3. CASE CreateSlot
  BY <1>3 DEF CreateSlot
<1>4. CASE AttachSlot
  BY <1>4 DEF AttachSlot
<1>5. CASE Define
  BY <1>5 DEF Define
<1>6. CASE RecordRun
  BY <1>6 DEF RecordRun
<1>7. CASE BootHelper
  BY <1>7 DEF BootHelper
<1>8. CASE AwaitHelper
  BY <1>8 DEF AwaitHelper
<1>9. CASE CollectResult
  BY <1>9 DEF CollectResult
<1>10. CASE CompleteRun
  BY <1>10 DEF CompleteRun
<1>11. CASE DetachSlot
  BY <1>11 DEF DetachSlot
<1>12. CASE FenceGuest
  BY <1>12 DEF FenceGuest
<1>13. CASE FenceLoop
  BY <1>13 DEF FenceLoop
<1>14. CASE RemoveVolume
  BY <1>14 DEF RemoveVolume
<1>15. CASE UnlinkArtifact
  BY <1>15 DEF UnlinkArtifact
<1>16. CASE Personalize
  BY <1>16 DEF Personalize
<1>17. CASE WriteFiles
  BY <1>17 DEF WriteFiles
<1>18. CASE RetireTools
  BY <1>18 DEF RetireTools
<1>19. CASE VerifyFiles
  BY <1>19 DEF VerifyFiles
<1>20. CASE Seed
  BY <1>20 DEF Seed
<1>21. CASE VerifyAccess
  BY <1>21 DEF VerifyAccess
<1>22. CASE Withdraw
  <2>1. In("finalize", "withdraw")
    BY <1>22 DEF Withdraw
  <2>2. root' = [root EXCEPT !.access = root'.access] /\ OnlyRoot
    BY <1>22 DEF Withdraw
  <2>3. CASE Then("withdraw")
    BY <2>1, <2>2, <2>3
  <2>4. CASE Then("tools") /\ root'.access = {}
    BY <2>1, <2>2, <2>4
  <2> QED
    BY <1>22, <2>1, <2>3, <2>4, WithdrawnAll
<1>23. CASE Report
  BY <1>23 DEF Report
<1>24. CASE GuestFails
  BY <1>24 DEF GuestFails
<1>25. CASE GuestLeaves
  BY <1>25 DEF GuestLeaves
<1>26. CASE Enroll
  BY <1>26 DEF Enroll
<1>27. CASE LosePower
  BY <1>27 DEF LosePower
<1>28. CASE GiveUp
  BY <1>28 DEF GiveUp
<1>29. CASE Stage \/ Begin \/ BeginFinal \/ Plan \/ StartCleanup \/
          StartReclaim \/ ReclaimFile \/ PlanInstallation \/ RecordPlanned \/
          AllocateDisk \/ RecordAllocated \/ ContinueDisk \/ RecordOwned \/
          KeepClone \/ RecordCloned \/ VerifyPrepared \/ FindRun \/
          RecordPrepared \/ SaveFenced \/ Look \/ IntendDisk \/ RecordAbsent \/
          AdoptVolume \/ RetireVolume \/ SaveRetired \/ CheckAbsent \/
          IntendFile \/ FindRemoved \/ StrikeArtifact \/ CompleteCleanup \/
          SealCleanup \/ FirstBoot \/ StopRouter \/ StartFinal \/
          VerifyFinal \/ AcceptFirst \/ LaunchRouter \/ Refuse \/ Kill
  <2>1. UNCHANGED <<root, aid, helper>>
    BY <1>29 DEF Stage, Begin, BeginFinal, Plan, StartCleanup, StartReclaim,
              ReclaimFile, PlanInstallation, RecordPlanned, AllocateDisk,
              RecordAllocated, ContinueDisk, RecordOwned, KeepClone,
              RecordCloned, VerifyPrepared, FindRun, RecordPrepared,
              SaveFenced, Look, IntendDisk, RecordAbsent, AdoptVolume,
              RetireVolume, SaveRetired, CheckAbsent, IntendFile,
              FindRemoved, StrikeArtifact, CompleteCleanup, SealCleanup,
              FirstBoot, StopRouter, StartFinal, VerifyFinal, AcceptFirst,
              LaunchRouter, Refuse, Kill
  <2> QED
    BY <2>1
<1>30. CASE \E g \in {"prepare", "finalize", "clean"} : IssueGrant(g) \/ ExpireGrant(g)
  <2>1. UNCHANGED <<job, op, candidate, root, aid, helper, run, cleaning, tmpl>>
    BY <1>30 DEF IssueGrant, ExpireGrant
  <2> QED
    BY <2>1
<1>31. CASE UNCHANGED preparationVars
  BY <1>31 DEF preparationVars
<1> QED
  BY <1>1, <1>2, <1>3, <1>4, <1>5, <1>6, <1>7, <1>8, <1>9, <1>10, <1>11,
     <1>12, <1>13, <1>14, <1>15, <1>16, <1>17, <1>18, <1>19, <1>20, <1>21,
     <1>22, <1>23, <1>24, <1>25, <1>26, <1>27, <1>28, <1>29, <1>30, <1>31
  DEF PreparationNext, CommandStep, PreparationStep, HelperStep, CleanupStep, GuestStep,
      Lifecycle, Failure

(* The template loses a file only when no operation refers to it.          *)
LEMMA TemplateNext ==
  ASSUME PreparationInv, [PreparationNext]_preparationVars
  PROVE  TemplateIsKept'
<1> USE DEF PreparationInv, FilesInv, RequestInv, PlaceInv, TemplateIsKept,
      RecordTypes, ActorTypes, Operations, Disks, Stages, Roots, Runs,
      Guests, Commands, NoGuest, Helpers, Working, Preparing, Booting,
      Reading, Helping, Cleared, Cleaning, NoRun, Goto, Aid, Then, In, Mine,
      Alive, Initial, OnlyRoot, OnlyOp
<1>1. CASE Stage
  BY <1>1 DEF Stage
<1>2. CASE Plan
  BY <1>2 DEF Plan
<1>3. CASE StartReclaim
  BY <1>3 DEF StartReclaim
<1>4. CASE ReclaimFile
  BY <1>4 DEF ReclaimFile, Referenced
<1>5. CASE PlanInstallation
  BY <1>5 DEF PlanInstallation
<1>6. CASE RecordPlanned
  BY <1>6 DEF RecordPlanned
<1>7. CASE AllocateDisk
  BY <1>7 DEF AllocateDisk
<1>8. CASE RecordAllocated
  BY <1>8 DEF RecordAllocated
<1>9. CASE RecordOwned
  BY <1>9 DEF RecordOwned
<1>10. CASE RecordCloned
  BY <1>10 DEF RecordCloned
<1>11. CASE RecordPrepared
  BY <1>11 DEF RecordPrepared
<1>12. CASE SaveFenced
  BY <1>12 DEF SaveFenced
<1>13. CASE IntendDisk
  BY <1>13 DEF IntendDisk
<1>14. CASE RecordAbsent
  BY <1>14 DEF RecordAbsent
<1>15. CASE AdoptVolume
  BY <1>15 DEF AdoptVolume
<1>16. CASE RetireVolume
  BY <1>16 DEF RetireVolume
<1>17. CASE RemoveVolume
  BY <1>17 DEF RemoveVolume
<1>18. CASE SaveRetired
  BY <1>18 DEF SaveRetired
<1>19. CASE IntendFile
  BY <1>19 DEF IntendFile
<1>20. CASE UnlinkArtifact
  BY <1>20 DEF UnlinkArtifact
<1>21. CASE StrikeArtifact
  BY <1>21 DEF StrikeArtifact
<1>22. CASE CompleteCleanup
  BY <1>22 DEF CompleteCleanup
<1>23. CASE SealCleanup
  BY <1>23 DEF SealCleanup
<1>24. CASE FirstBoot
  BY <1>24 DEF FirstBoot
<1>25. CASE Enroll
  BY <1>25 DEF Enroll
<1>26. CASE StopRouter
  BY <1>26 DEF StopRouter
<1>27. CASE StartFinal
  BY <1>27 DEF StartFinal
<1>28. CASE VerifyFinal
  BY <1>28 DEF VerifyFinal
<1>29. CASE AcceptFirst
  BY <1>29 DEF AcceptFirst
<1>30. CASE LaunchRouter
  BY <1>30 DEF LaunchRouter
<1>31. CASE LosePower
  BY <1>31 DEF LosePower
<1>32. CASE Begin \/ BeginFinal \/ StartCleanup \/ ContinueDisk \/ KeepClone \/
          StartClone \/ FinishClone \/ VerifyPrepared \/ FindRun \/
          CreateSlot \/ AttachSlot \/ Define \/ RecordRun \/ BootHelper \/
          AwaitHelper \/ CollectResult \/ CompleteRun \/ DetachSlot \/
          FenceGuest \/ FenceLoop \/ Look \/ CheckAbsent \/ FindRemoved \/
          Personalize \/ WriteFiles \/ RetireTools \/ VerifyFiles \/ Seed \/
          VerifyAccess \/ Withdraw \/ Report \/ GuestFails \/ GuestLeaves \/
          Refuse \/ Kill \/ GiveUp
  <2>1. UNCHANGED <<job, op, candidate, cleaning, tmpl>>
    BY <1>32 DEF Begin, BeginFinal, StartCleanup, ContinueDisk, KeepClone,
              StartClone, FinishClone, VerifyPrepared, FindRun, CreateSlot,
              AttachSlot, Define, RecordRun, BootHelper, AwaitHelper,
              CollectResult, CompleteRun, DetachSlot, FenceGuest, FenceLoop,
              Look, CheckAbsent, FindRemoved, Personalize, WriteFiles,
              RetireTools, VerifyFiles, Seed, VerifyAccess, Withdraw, Report,
              GuestFails, GuestLeaves, Refuse, Kill, GiveUp
  <2> QED
    BY <2>1
<1>33. CASE \E g \in {"prepare", "finalize", "clean"} : IssueGrant(g) \/ ExpireGrant(g)
  <2>1. UNCHANGED <<job, op, candidate, root, aid, helper, run, cleaning, tmpl>>
    BY <1>33 DEF IssueGrant, ExpireGrant
  <2> QED
    BY <2>1
<1>34. CASE UNCHANGED preparationVars
  BY <1>34 DEF preparationVars
<1> QED
  BY <1>1, <1>2, <1>3, <1>4, <1>5, <1>6, <1>7, <1>8, <1>9, <1>10, <1>11,
     <1>12, <1>13, <1>14, <1>15, <1>16, <1>17, <1>18, <1>19, <1>20, <1>21,
     <1>22, <1>23, <1>24, <1>25, <1>26, <1>27, <1>28, <1>29, <1>30, <1>31,
     <1>32, <1>33, <1>34
  DEF PreparationNext, CommandStep, PreparationStep, HelperStep, CleanupStep, GuestStep,
      Lifecycle, Failure

-----------------------------------------------------------------------------
LEMMA InitHolds == PreparationInit => PreparationInv
<1> SUFFICES ASSUME PreparationInit PROVE PreparationInv
  OBVIOUS
<1> USE DEF PreparationInit, Unrun, NoGuest, NoRun, Unplanned, Helpers, Initial, Mine, Alive, In
<1>1. RecordTypes
  BY DEF RecordTypes, Operations, Disks, Roots, Stages, Jobs
<1>2. ActorTypes
  BY DEF ActorTypes, Runs, Guests, Commands
<1>3. RequestInv /\ PlaceInv /\ HolderInv
  BY DEF RequestInv, PlaceInv, HolderInv, Preparing, Helping, Booting, Reading,
         Cleaning, Cleared
<1>4. FilesInv /\ GuestInv /\ WholeInv /\ FinalInv /\ TemplateIsKept
  BY DEF FilesInv, GuestInv, WholeInv, FinalInv, TemplateIsKept, Complete, Retired
<1> QED
  BY <1>1, <1>2, <1>3, <1>4 DEF PreparationInv

(* The records, the disk, the helpers' files, the lock's holder and the    *)
(* guests fit together in every state, however often a command is killed,  *)
(* refused, timed out or repeated.                                         *)
THEOREM PreparationCorrect == PreparationSpec => []PreparationInv
<1>1. PreparationInv /\ [PreparationNext]_preparationVars => PreparationInv'
  BY RecordTypesNext, ActorTypesNext, RequestNext, FilesNext, PlaceNext,
     HolderNext, GuestNext, WholeNext, FinalNext, TemplateNext
  DEF PreparationInv
<1> QED
  BY InitHolds, <1>1, PTL DEF PreparationSpec

(* Whatever is interrupted, a ledger that says prepared, on which a launch *)
(* and the first boot rely, means a whole disk without a helper on it.     *)
THEOREM PreparedDisksAreWhole == PreparationSpec => []PreparedIsWhole
<1>1. PreparationInv => PreparedIsWhole
  BY DEF PreparationInv, WholeInv, FilesInv, GuestInv, PreparedIsWhole, Helpers
<1> QED
  BY PreparationCorrect, <1>1, PTL

(* No cleanup, repetition or start of a router takes from a live helper    *)
(* the volume, the slot, the loop device or the boot artifacts.            *)
THEOREM HelpersAreFenced == PreparationSpec => []HelperIsFenced
<1>1. PreparationInv => HelperIsFenced
  BY DEF PreparationInv, GuestInv, HelperIsFenced
<1> QED
  BY PreparationCorrect, <1>1, PTL

(* A finalized router runs without its first-contact access, wherever the  *)
(* withdrawal was interrupted before.                                      *)
THEOREM FinalAccessIsRetired == PreparationSpec => []AccessIsRetired
<1>1. PreparationInv => AccessIsRetired
  BY DEF PreparationInv, FilesInv, FinalInv, Retired, AccessIsRetired
<1> QED
  BY PreparationCorrect, <1>1, PTL

(* No removal of the template overtakes a request staged meanwhile.        *)
THEOREM TemplateStays == PreparationSpec => []TemplateIsKept
<1>1. PreparationInv => TemplateIsKept
  BY DEF PreparationInv
<1> QED
  BY PreparationCorrect, <1>1, PTL

=============================================================================
