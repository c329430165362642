----------------------- MODULE GenerationStorageProofs -----------------------
(***************************************************************************)
(* No retirement and no cleanup removes what is still needed, for any      *)
(* number of attempts, images and killed commands.                         *)
(***************************************************************************)
EXTENDS GenerationStorage, TLAPS

-----------------------------------------------------------------------------
(* The inductive invariant.                                                *)

(* What an attempt can be in, and what an image can.                       *)
Attempts ==
  [svc: {"none", "begun", "allocated", "prepared", "abandoned"},
   journal: {"none", "armed", "crossed", "complete", "recovered"},
   source: Generations, image: Images]

StorageTypes ==
  /\ infra \in BOOLEAN
  /\ op \in [Operations -> Attempts]
  /\ assigned \in Generations
  /\ kept \in [Generations -> SUBSET Parts]
  /\ store \in [Images -> {"none", "partial", "whole", "cut", "bare", "gone"}]
  /\ cmd.do \in {"idle", "build", "prepare", "retire", "cleanup"}
  /\ cmd.do = "build" => cmd.image \in Images
  /\ cmd.do = "prepare" => cmd.op \in Operations

(* A journal exists from the preparation on, and an abandoned attempt is   *)
(* not on its way.                                                         *)
JournalInv ==
  /\ \A o \in Operations :
       /\ op[o].svc \in {"none", "begun", "allocated"} => Journal(o) = "none"
       /\ op[o].svc = "abandoned" => Journal(o) \in {"none", "recovered"}
  /\ assigned # Base => Journal(assigned) # "none"

(* One attempt at a time is under way, and it starts from what is selected *)
(* and would return there.                                                 *)
Accepted(g) == g = Base \/ Journal(g) = "complete"

AttemptInv ==
  /\ \A o, p \in Pending : o = p
  /\ \A o \in Pending : op[o].source = Selected
  /\ cmd.do = "prepare" =>
       /\ op[cmd.op].svc \in {"begun", "allocated"} /\ op[cmd.op].source = Selected
       /\ op[cmd.op].svc = "begun" => Pending = {}
  /\ \A o \in Operations : op[o].svc # "none" => Accepted(op[o].source)

(* What a saved plan deletes is settled with the assignment it was made    *)
(* for: not what that assignment selects, nor the generation before it,    *)
(* and the named attempt itself only when it was abandoned.                *)
SelectedFrom(g) == IF g = Base \/ Journal(g) = "complete" THEN g ELSE op[g].source

PlanInv ==
  /\ plan # None =>
       /\ plan.current \in Operations
       /\ \/ Journal(plan.current) = "complete"
          \/ Journal(plan.current) = "recovered" /\ op[plan.current].svc = "abandoned"
       /\ SelectedFrom(plan.current) \notin plan.items
       /\ ~infra => /\ Journal(plan.current) = "complete"
                    /\ op[plan.current].source \notin plan.items
  /\ cmd.do = "retire" => Pending = {} /\ plan # None /\ assigned = plan.current

(* No command removes an image that it, or any record, still binds.        *)
ImagesInv ==
  /\ BoundImages
  /\ cmd.do = "prepare" => Whole(op[cmd.op].image)
  /\ cmd.do = "cleanup" => cleanup.items \cap Referenced = {}

StorageInv ==
  StorageTypes /\ JournalInv /\ AttemptInv /\ PlanInv /\ RecoverableRoots /\ ImagesInv

-----------------------------------------------------------------------------
(* What each action does to the records of an attempt.                     *)

\* Only o's record changes: what it says is s now, and its journal j.
Records(o, s, j) ==
  /\ op' \in [Operations -> Attempts]
  /\ op'[o].svc = s /\ op'[o].journal = j
  /\ op'[o].source = op[o].source /\ op'[o].image = op[o].image
  /\ \A p \in Operations \ {o} : op'[p] = op[p]

(* An edit of the service state or of the journal leaves the rest alone.   *)
LEMMA Edits ==
  ASSUME NEW o \in Operations, NEW s \in {"none", "begun", "allocated", "prepared", "abandoned"},
         NEW j \in {"none", "armed", "crossed", "complete", "recovered"},
         op \in [Operations -> Attempts]
  PROVE  /\ op' = [op EXCEPT ![o].svc = s] => Records(o, s, op[o].journal)
         /\ op' = [op EXCEPT ![o].journal = j] => Records(o, op[o].svc, j)
         /\ op' = [op EXCEPT ![o].svc = s, ![o].journal = j] => Records(o, s, j)
<1>1. op[o] \in Attempts
  OBVIOUS
<1>2. /\ [op[o] EXCEPT !.svc = s] \in Attempts
      /\ [op[o] EXCEPT !.journal = j] \in Attempts
      /\ [op[o] EXCEPT !.svc = s, !.journal = j] \in Attempts
  BY <1>1 DEF Attempts
<1>3. /\ [op[o] EXCEPT !.svc = s].svc = s
      /\ [op[o] EXCEPT !.svc = s].journal = op[o].journal
      /\ [op[o] EXCEPT !.svc = s].source = op[o].source
      /\ [op[o] EXCEPT !.svc = s].image = op[o].image
  BY <1>1 DEF Attempts
<1>4. /\ [op[o] EXCEPT !.journal = j].svc = op[o].svc
      /\ [op[o] EXCEPT !.journal = j].journal = j
      /\ [op[o] EXCEPT !.journal = j].source = op[o].source
      /\ [op[o] EXCEPT !.journal = j].image = op[o].image
  BY <1>1 DEF Attempts
<1>5. /\ [op[o] EXCEPT !.svc = s, !.journal = j].svc = s
      /\ [op[o] EXCEPT !.svc = s, !.journal = j].journal = j
      /\ [op[o] EXCEPT !.svc = s, !.journal = j].source = op[o].source
      /\ [op[o] EXCEPT !.svc = s, !.journal = j].image = op[o].image
  BY <1>1 DEF Attempts
<1>6. ASSUME op' = [op EXCEPT ![o].svc = s]
      PROVE  Records(o, s, op[o].journal)
  <2>1. op' = [op EXCEPT ![o] = [op[o] EXCEPT !.svc = s]]
    BY <1>6
  <2> QED  BY <2>1, <1>2, <1>3 DEF Records
<1>7. ASSUME op' = [op EXCEPT ![o].journal = j]
      PROVE  Records(o, op[o].svc, j)
  <2>1. op' = [op EXCEPT ![o] = [op[o] EXCEPT !.journal = j]]
    BY <1>7
  <2> QED  BY <2>1, <1>2, <1>4 DEF Records
<1>8. ASSUME op' = [op EXCEPT ![o].svc = s, ![o].journal = j]
      PROVE  Records(o, s, j)
  <2>1. op' = [op EXCEPT ![o] = [op[o] EXCEPT !.svc = s, !.journal = j]]
    BY <1>8
  <2> QED  BY <2>1, <1>2, <1>5 DEF Records
<1> QED  BY <1>6, <1>7, <1>8

(* A new attempt starts from what is selected; nothing was recorded of it. *)
LEMMA Prepares ==
  ASSUME NEW i \in Images, op \in [Operations -> Attempts], assigned \in Generations,
         BeginPrepare(i)
  PROVE  \E o \in Operations :
           /\ op[o] = Unused
           /\ cmd' = [do |-> "prepare", op |-> o]
           /\ op' \in [Operations -> Attempts]
           /\ op'[o] = [svc |-> "begun", journal |-> "none", source |-> Selected, image |-> i]
           /\ \A p \in Operations \ {o} : op'[p] = op[p]
<1>1. PICK o \in Operations :
        /\ op[o] = Unused
        /\ op' = [op EXCEPT ![o] = [svc |-> "begun", journal |-> "none",
                                    source |-> Selected, image |-> i]]
        /\ cmd' = [do |-> "prepare", op |-> o]
  <2> DEFINE o == CHOOSE p \in Operations : op[p] = Unused
  <2>1. o \in Operations /\ op[o] = Unused
    BY DEF BeginPrepare
  <2>2. /\ op' = [op EXCEPT ![o] = [svc |-> "begun", journal |-> "none",
                                    source |-> Selected, image |-> i]]
        /\ cmd' = [do |-> "prepare", op |-> o]
    BY DEF BeginPrepare
  <2> QED  BY <2>1, <2>2
<1>2. Selected \in Generations
  BY DEF Selected, Generations, Journal, Attempts
<1>3. [svc |-> "begun", journal |-> "none", source |-> Selected, image |-> i] \in Attempts
  BY <1>2 DEF Attempts
<1> QED  BY <1>1, <1>3

(* Every other change of the records is an edit of one attempt.            *)
LEMMA Marks ==
  ASSUME StorageTypes, NEW o \in Operations
  PROVE  /\ RecordService => Records(cmd.op, "allocated", Journal(cmd.op))
         /\ FillRoot => Records(cmd.op, "prepared", Journal(cmd.op))
         /\ Arm(o) => Records(o, "prepared", "armed")
         /\ Advance(o) => \/ Journal(o) = "armed" /\ Records(o, "prepared", "crossed")
                          \/ Journal(o) = "crossed" /\ Records(o, "prepared", "complete")
         /\ Recover(o) => Records(o, op[o].svc, "recovered")
         /\ Abandon(o) =>
              Records(o, "abandoned", IF Journal(o) = "armed" THEN "recovered" ELSE Journal(o))
<1> USE DEF Journal
<1> /\ op \in [Operations -> Attempts]
    /\ cmd.do = "prepare" => cmd.op \in Operations
  BY DEF StorageTypes
<1>0. op[o] \in Attempts
  OBVIOUS
<1>1. RecordService => Records(cmd.op, "allocated", Journal(cmd.op))
  <2> SUFFICES ASSUME RecordService PROVE Records(cmd.op, "allocated", Journal(cmd.op))
    OBVIOUS
  <2> QED  BY Edits DEF RecordService
<1>2. FillRoot => Records(cmd.op, "prepared", Journal(cmd.op))
  <2> SUFFICES ASSUME FillRoot PROVE Records(cmd.op, "prepared", Journal(cmd.op))
    OBVIOUS
  <2> QED  BY Edits DEF FillRoot
<1>3. Arm(o) => Records(o, "prepared", "armed")
  BY Edits DEF Arm
<1>4. Advance(o) => \/ Journal(o) = "armed" /\ Records(o, "prepared", "crossed")
                    \/ Journal(o) = "crossed" /\ Records(o, "prepared", "complete")
  BY Edits DEF Advance
<1>5. Recover(o) => Records(o, op[o].svc, "recovered")
  BY Edits DEF Recover
<1>6. ASSUME Abandon(o)
      PROVE  Records(o, "abandoned", IF Journal(o) = "armed" THEN "recovered" ELSE Journal(o))
  <2> DEFINE j == IF Journal(o) = "armed" THEN "recovered" ELSE Journal(o)
  <2>1. op' = [op EXCEPT ![o].svc = "abandoned", ![o].journal = j]
    BY <1>6, <1>0 DEF Abandon, Attempts
  <2>2. j \in {"none", "armed", "crossed", "complete", "recovered"}
    BY <1>0 DEF Attempts
  <2> HIDE DEF j
  <2>3. Records(o, "abandoned", j)
    BY <2>1, <2>2, Edits
  <2> QED  BY <2>3 DEF j
<1> QED  BY <1>1, <1>2, <1>3, <1>4, <1>5, <1>6

LEMMA TypesNext ==
  ASSUME StorageTypes, [Next]_vars
  PROVE  StorageTypes'
<1> USE DEF StorageTypes, Rest, guests, images
<1> HIDE DEF Attempts, Parts, Generations, Journal
<1>g. Operations \subseteq Generations /\ Base \in Generations
  BY DEF Generations
<1>u. CASE UNCHANGED vars
  BY <1>u DEF vars
<1>1. CASE BeginBuild
  BY <1>1 DEF BeginBuild
<1>2. ASSUME NEW i \in Images, Qualify(i) PROVE StorageTypes'
  BY <1>2 DEF Qualify
<1>3. ASSUME NEW i \in Images, BeginPrepare(i) PROVE StorageTypes'
  <2>1. PICK o \in Operations : cmd' = [do |-> "prepare", op |-> o]
    BY <1>3, Prepares
  <2>2. op' \in [Operations -> Attempts]
    BY <1>3, Prepares
  <2> QED  BY <1>3, <2>1, <2>2 DEF BeginPrepare
<1>4. ASSUME NEW o \in Operations, ResumePrepare(o) PROVE StorageTypes'
  BY <1>4 DEF ResumePrepare
<1>5. ASSUME NEW o \in Operations, Arm(o) PROVE StorageTypes'
  BY <1>5, <1>g, Marks DEF Arm, Records
<1>6. ASSUME NEW o \in Operations, Advance(o) PROVE StorageTypes'
  <2>1. op' \in [Operations -> Attempts]
    BY <1>6, Marks DEF Records
  <2> QED  BY <1>6, <2>1 DEF Advance
<1>7. ASSUME NEW o \in Operations, Recover(o) PROVE StorageTypes'
  BY <1>7, Marks DEF Recover, Records
<1>8. ASSUME NEW o \in Operations, Abandon(o) PROVE StorageTypes'
  <2>1. op' \in [Operations -> Attempts]
    BY <1>8, Marks DEF Records
  <2> QED  BY <1>8, <2>1 DEF Abandon
<1>9. CASE RecordConvergence
  BY <1>9 DEF RecordConvergence
<1>10. CASE BeginRetire
  BY <1>10 DEF BeginRetire
<1>11. CASE ResumeRetire
  BY <1>11 DEF ResumeRetire
<1>12. ASSUME NEW i \in Images, NEW p \in BOOLEAN, BeginCleanup(i, p) PROVE StorageTypes'
  BY <1>12 DEF BeginCleanup
<1>13. CASE ResumeCleanup
  BY <1>13 DEF ResumeCleanup
<1>14. CASE PublishCandidate
  BY <1>14 DEF PublishCandidate, Idle
<1>15. CASE RecordService
  BY <1>15, Marks DEF RecordService, Records
<1>16. CASE AllocateRoot
  BY <1>16, <1>g DEF AllocateRoot, Parts
<1>17. CASE FillRoot
  <2>1. op' \in [Operations -> Attempts]
    BY <1>17, Marks DEF FillRoot, Records
  <2> QED  BY <1>17, <1>g, <2>1 DEF FillRoot, Idle
<1>18. ASSUME NEW g \in Generations, RemoveRoot(g) PROVE StorageTypes'
  BY <1>18 DEF RemoveRoot
<1>19. ASSUME NEW g \in Generations, UnlinkBoot(g) PROVE StorageTypes'
  BY <1>19 DEF UnlinkBoot
<1>20. ASSUME NEW g \in Generations, Prove(g) PROVE StorageTypes'
  BY <1>20 DEF Prove
<1>21. CASE EndRetire
  BY <1>21 DEF EndRetire, Idle
<1>22. ASSUME NEW i \in Images, RemoveImage(i) PROVE StorageTypes'
  BY <1>22 DEF RemoveImage
<1>23. CASE EndCleanup
  BY <1>23 DEF EndCleanup, Idle
<1>24. CASE KillCommand
  BY <1>24 DEF KillCommand, Idle
<1> QED
  BY <1>u, <1>1, <1>2, <1>3, <1>4, <1>5, <1>6, <1>7, <1>8, <1>9, <1>10, <1>11, <1>12, <1>13,
     <1>14, <1>15, <1>16, <1>17, <1>18, <1>19, <1>20, <1>21, <1>22, <1>23, <1>24
  DEF Next, CommandStep

-----------------------------------------------------------------------------
(* The attempts.                                                           *)

(* Seven actions write records; every other step leaves them as they are,  *)
(* and begins or continues a preparation only of an allocated attempt.     *)
LEMMA WhoWrites ==
  ASSUME [Next]_vars
  PROVE  \/ \E i \in Images : BeginPrepare(i)
         \/ RecordService
         \/ FillRoot
         \/ \E o \in Operations : Arm(o) \/ Advance(o) \/ Recover(o) \/ Abandon(o)
         \/ /\ UNCHANGED <<infra, op, assigned>>
            /\ \/ cmd' = cmd
               \/ cmd'.do # "prepare"
               \/ \E o \in Operations : ResumePrepare(o)
<1> USE DEF Rest, guests, images
<1>u. CASE UNCHANGED vars
  BY <1>u DEF vars
<1>1. BeginBuild => UNCHANGED <<infra, op, assigned>> /\ cmd'.do # "prepare"
  BY DEF BeginBuild
<1>2. \A i \in Images : Qualify(i) => UNCHANGED <<infra, op, assigned>> /\ cmd' = cmd
  BY DEF Qualify
<1>3. \A o \in Operations : ResumePrepare(o) => UNCHANGED <<infra, op, assigned>>
  BY DEF ResumePrepare
<1>4. RecordConvergence => UNCHANGED <<infra, op, assigned>> /\ cmd' = cmd
  BY DEF RecordConvergence
<1>5. BeginRetire \/ ResumeRetire => UNCHANGED <<infra, op, assigned>> /\ cmd'.do # "prepare"
  BY DEF BeginRetire, ResumeRetire
<1>6. \A i \in Images, p \in BOOLEAN :
        BeginCleanup(i, p) => UNCHANGED <<infra, op, assigned>> /\ cmd'.do # "prepare"
  BY DEF BeginCleanup
<1>7. ResumeCleanup => UNCHANGED <<infra, op, assigned>> /\ cmd'.do # "prepare"
  BY DEF ResumeCleanup
<1>8. PublishCandidate \/ EndRetire \/ EndCleanup =>
        UNCHANGED <<infra, op, assigned>> /\ cmd'.do # "prepare"
  BY DEF PublishCandidate, EndRetire, EndCleanup, Idle
<1>9. AllocateRoot => UNCHANGED <<infra, op, assigned>> /\ cmd' = cmd
  BY DEF AllocateRoot
<1>10. \A g \in Generations :
         RemoveRoot(g) \/ UnlinkBoot(g) \/ Prove(g) =>
           UNCHANGED <<infra, op, assigned>> /\ cmd' = cmd
  BY DEF RemoveRoot, UnlinkBoot, Prove
<1>11. \A i \in Images : RemoveImage(i) => UNCHANGED <<infra, op, assigned>> /\ cmd' = cmd
  BY DEF RemoveImage
<1>12. KillCommand => UNCHANGED <<infra, op, assigned>> /\ cmd'.do # "prepare"
  BY DEF KillCommand, Idle
<1> QED
  BY <1>u, <1>1, <1>2, <1>3, <1>4, <1>5, <1>6, <1>7, <1>8, <1>9, <1>10, <1>11, <1>12
  DEF Next, CommandStep

LEMMA JournalNext ==
  ASSUME StorageTypes, JournalInv, [Next]_vars
  PROVE  JournalInv'
<1> USE DEF JournalInv, Journal
<1>b. assigned # Base => assigned \in Operations
  BY DEF StorageTypes, Generations
<1>1. ASSUME NEW i \in Images, BeginPrepare(i) PROVE JournalInv'
  <2>1. PICK o \in Operations :
          /\ op[o] = Unused
          /\ op'[o] = [svc |-> "begun", journal |-> "none", source |-> Selected, image |-> i]
          /\ \A p \in Operations \ {o} : op'[p] = op[p]
    BY <1>1, Prepares DEF StorageTypes
  <2>2. assigned' = assigned
    BY <1>1 DEF BeginPrepare
  <2> QED  BY <2>1, <2>2, <1>b DEF Unused
<1>2. CASE RecordService
  <2>1. cmd.op \in Operations /\ op[cmd.op].svc = "begun" /\ assigned' = assigned
    BY <1>2 DEF RecordService, StorageTypes
  <2>2. Records(cmd.op, "allocated", Journal(cmd.op))
    BY <1>2, <2>1, Marks
  <2> QED  BY <2>1, <2>2, <1>b DEF Records
<1>3. CASE FillRoot
  <2>1. cmd.op \in Operations /\ op[cmd.op].svc = "allocated" /\ assigned' = assigned
    BY <1>3 DEF FillRoot, StorageTypes
  <2>2. Records(cmd.op, "prepared", Journal(cmd.op))
    BY <1>3, <2>1, Marks
  <2> QED  BY <2>1, <2>2, <1>b DEF Records
<1>4. ASSUME NEW o \in Operations, Arm(o) PROVE JournalInv'
  <2>1. Records(o, "prepared", "armed") /\ assigned' = o
    BY <1>4, Marks DEF Arm
  <2> QED  BY <2>1 DEF Records
<1>5. ASSUME NEW o \in Operations, Advance(o) PROVE JournalInv'
  <2>1. PICK j \in {"crossed", "complete"} : Records(o, "prepared", j)
    BY <1>5, Marks
  <2>2. assigned' = assigned
    BY <1>5 DEF Advance
  <2> QED  BY <2>1, <2>2, <1>b DEF Records
<1>6. ASSUME NEW o \in Operations, Recover(o) PROVE JournalInv'
  <2>1. Records(o, op[o].svc, "recovered") /\ assigned' = assigned /\ Journal(o) = "armed"
    BY <1>6, Marks DEF Recover
  <2> QED  BY <2>1, <1>b DEF Records
<1>7. ASSUME NEW o \in Operations, Abandon(o) PROVE JournalInv'
  <2>1. PICK j : /\ j = IF Journal(o) = "armed" THEN "recovered" ELSE Journal(o)
                 /\ Records(o, "abandoned", j)
    BY <1>7, Marks
  <2>2. assigned' = assigned /\ Journal(o) \in {"none", "armed", "recovered"}
    BY <1>7 DEF Abandon
  <2> QED  BY <2>1, <2>2, <1>b DEF Records
<1>8. CASE UNCHANGED <<infra, op, assigned>>
  BY <1>8
<1> QED  BY WhoWrites, <1>1, <1>2, <1>3, <1>4, <1>5, <1>6, <1>7, <1>8

(* What was accepted or recovered stays so, and what is recorded of an     *)
(* attempt's source and image never changes.                               *)
LEMMA Keeps ==
  ASSUME StorageTypes, JournalInv, [Next]_vars, NEW p \in Operations, op[p].svc # "none"
  PROVE  /\ op'[p].source = op[p].source /\ op'[p].image = op[p].image
         /\ op'[p].svc # "none"
         /\ Journal(p) = "complete" => Journal(p)' = "complete"
         /\ op[p].svc = "abandoned" => op'[p] = op[p]
<1> USE DEF JournalInv, Journal
<1>1. ASSUME NEW i \in Images, BeginPrepare(i) PROVE op'[p] = op[p]
  <2>1. PICK o \in Operations : op[o] = Unused /\ \A q \in Operations \ {o} : op'[q] = op[q]
    BY <1>1, Prepares DEF StorageTypes
  <2> QED  BY <2>1 DEF Unused
<1>2. ASSUME RecordService
      PROVE  Records(cmd.op, "allocated", Journal(cmd.op)) /\ op[cmd.op].svc = "begun"
                /\ cmd.op \in Operations
  BY <1>2, Marks DEF RecordService, StorageTypes
<1>3. ASSUME FillRoot
      PROVE  Records(cmd.op, "prepared", Journal(cmd.op)) /\ op[cmd.op].svc = "allocated"
                /\ cmd.op \in Operations
  BY <1>3, Marks DEF FillRoot, StorageTypes
<1>4. ASSUME NEW o \in Operations, Arm(o)
      PROVE  Records(o, "prepared", "armed") /\ op[o].svc = "prepared" /\ Journal(o) = "none"
  BY <1>4, Marks DEF Arm
<1>5. ASSUME NEW o \in Operations, Advance(o)
      PROVE  /\ op[o].svc = "prepared" /\ Journal(o) # "complete"
             /\ \E j \in {"crossed", "complete"} : Records(o, "prepared", j)
  <2>1. op[o].svc = "prepared" /\ Journal(o) # "complete"
    BY <1>5 DEF Advance
  <2>2. \E j \in {"crossed", "complete"} : Records(o, "prepared", j)
    BY <1>5, Marks
  <2> QED  BY <2>1, <2>2
<1>6. ASSUME NEW o \in Operations, Recover(o)
      PROVE  Records(o, op[o].svc, "recovered") /\ Journal(o) = "armed"
  BY <1>6, Marks DEF Recover
<1>7. ASSUME NEW o \in Operations, Abandon(o)
      PROVE  /\ op[o].svc \in {"allocated", "prepared"} /\ Journal(o) # "complete"
             /\ \E j : Records(o, "abandoned", j)
  <2>1. op[o].svc \in {"allocated", "prepared"} /\ Journal(o) # "complete"
    BY <1>7 DEF Abandon
  <2>2. \E j : Records(o, "abandoned", j)
    BY <1>7, Marks
  <2> QED  BY <2>1, <2>2
<1>8. CASE op' = op
  BY <1>8
<1> HIDE DEF JournalInv
<1>a. CASE \E i \in Images : BeginPrepare(i)
  BY <1>a, <1>1
<1>b. CASE RecordService
  BY <1>b, <1>2 DEF Records
<1>c. CASE FillRoot
  BY <1>c, <1>3 DEF Records
<1>d. ASSUME NEW o \in Operations, Arm(o) \/ Advance(o)
      PROVE  \E j \in {"armed", "crossed", "complete"} :
               Records(o, "prepared", j) /\ op[o].svc = "prepared" /\ Journal(o) # "complete"
  BY <1>d, <1>4, <1>5
<1>e. CASE \E o \in Operations : Arm(o) \/ Advance(o)
  BY <1>e, <1>d DEF Records
<1>f. CASE \E o \in Operations : Recover(o)
  BY <1>f, <1>6 DEF Records, JournalInv
<1>g. CASE \E o \in Operations : Abandon(o)
  BY <1>g, <1>7 DEF Records
<1> QED  BY WhoWrites, <1>a, <1>b, <1>c, <1>e, <1>f, <1>g, <1>8

(* Only a preparation records a new attempt.                               *)
LEMMA NoneIsNew ==
  ASSUME StorageTypes, JournalInv, [Next]_vars,
         NEW o \in Operations, op[o].svc = "none", op'[o].svc # "none"
  PROVE  \E i \in Images : BeginPrepare(i)
<1> SUFFICES ASSUME ~(\E i \in Images : BeginPrepare(i)) PROVE FALSE
  OBVIOUS
<1>0. Journal(o) = "none"
  BY DEF JournalInv
<1>1. CASE RecordService
  BY <1>1, Marks DEF RecordService, StorageTypes, Records
<1>2. CASE FillRoot
  BY <1>2, Marks DEF FillRoot, StorageTypes, Records
<1>3. ASSUME NEW p \in Operations, Arm(p) PROVE FALSE
  BY <1>3, Marks DEF Arm, Records
<1>4. ASSUME NEW p \in Operations, Advance(p) PROVE FALSE
  <2>1. op[p].svc = "prepared"
    BY <1>4 DEF Advance
  <2>2. PICK j \in {"crossed", "complete"} : Records(p, "prepared", j)
    BY <1>4, Marks
  <2> QED  BY <2>1, <2>2 DEF Records
<1>5. ASSUME NEW p \in Operations, Recover(p) PROVE FALSE
  BY <1>5, <1>0, Marks DEF Recover, Records
<1>6. ASSUME NEW p \in Operations, Abandon(p) PROVE FALSE
  <2>1. op[p].svc # "none"
    BY <1>6 DEF Abandon
  <2>2. PICK j : Records(p, "abandoned", j)
    BY <1>6, Marks
  <2> QED  BY <2>1, <2>2 DEF Records
<1>7. CASE UNCHANGED <<infra, op, assigned>>
  BY <1>7
<1> QED  BY WhoWrites, <1>1, <1>2, <1>3, <1>4, <1>5, <1>6, <1>7

(* Only an attempt that is completed changes what is selected.             *)
LEMMA SelectionMoves ==
  ASSUME StorageTypes, JournalInv, AttemptInv, [Next]_vars
  PROVE  \/ Selected' = Selected
         \/ \E o \in Pending : Advance(o) /\ Journal(o)' = "complete" /\ Selected' = o
<1> USE DEF Journal, Selected
<1>b. assigned # Base => assigned \in Operations /\ op[assigned].svc # "none"
  BY DEF StorageTypes, Generations, JournalInv
<1>1. ASSUME NEW i \in Images, BeginPrepare(i) PROVE Selected' = Selected
  <2>1. PICK o \in Operations : op[o] = Unused /\ \A q \in Operations \ {o} : op'[q] = op[q]
    BY <1>1, Prepares DEF StorageTypes
  <2>2. assigned' = assigned
    BY <1>1 DEF BeginPrepare
  <2> QED  BY <2>1, <2>2, <1>b DEF Unused
<1>2. CASE RecordService
  <2>1. cmd.op \in Operations /\ assigned' = assigned
    BY <1>2 DEF RecordService, StorageTypes
  <2>2. Records(cmd.op, "allocated", Journal(cmd.op))
    BY <1>2, <2>1, Marks
  <2> QED  BY <2>1, <2>2, <1>b DEF Records
<1>3. CASE FillRoot
  <2>1. cmd.op \in Operations /\ assigned' = assigned
    BY <1>3 DEF FillRoot, StorageTypes
  <2>2. Records(cmd.op, "prepared", Journal(cmd.op))
    BY <1>3, <2>1, Marks
  <2> QED  BY <2>1, <2>2, <1>b DEF Records
<1>4. ASSUME NEW o \in Operations, Arm(o) PROVE Selected' = Selected
  <2>1. Records(o, "prepared", "armed") /\ assigned' = o /\ o \in Pending
    BY <1>4, Marks DEF Arm, Pending
  <2>2. op'[o].source = op[o].source /\ op[o].source = Selected
    BY <2>1 DEF Records, AttemptInv
  <2>3. o # Base
    BY ConstantsAssumption
  <2> QED  BY <2>1, <2>2, <2>3 DEF Records
<1>5. ASSUME NEW o \in Operations, Advance(o)
      PROVE  \/ Selected' = Selected
             \/ o \in Pending /\ Journal(o)' = "complete" /\ Selected' = o
  <2>1. assigned' = assigned /\ o \in Pending /\ Journal(o) # "complete"
    BY <1>5 DEF Advance, Pending
  <2>2. PICK j \in {"crossed", "complete"} : Records(o, "prepared", j)
    BY <1>5, Marks
  <2> QED  BY <2>1, <2>2, <1>b DEF Records
<1>6. ASSUME NEW o \in Operations, Recover(o) PROVE Selected' = Selected
  <2>1. Records(o, op[o].svc, "recovered") /\ assigned' = assigned /\ Journal(o) = "armed"
    BY <1>6, Marks DEF Recover
  <2> QED  BY <2>1, <1>b DEF Records
<1>7. ASSUME NEW o \in Operations, Abandon(o) PROVE Selected' = Selected
  <2>1. PICK j : /\ j = IF Journal(o) = "armed" THEN "recovered" ELSE Journal(o)
                 /\ Records(o, "abandoned", j)
    BY <1>7, Marks
  <2>2. assigned' = assigned /\ Journal(o) \in {"none", "armed", "recovered"}
    BY <1>7 DEF Abandon
  <2> QED  BY <2>1, <2>2, <1>b DEF Records
<1>8. CASE UNCHANGED <<infra, op, assigned>>
  BY <1>8
<1> QED  BY WhoWrites, <1>1, <1>2, <1>3, <1>4, <1>5, <1>6, <1>7, <1>8

(* Only a preparation adds an attempt that is under way.                   *)
LEMMA PendingGrows ==
  ASSUME StorageTypes, JournalInv, [Next]_vars
  PROVE  \/ Pending' \subseteq Pending
         \/ RecordService /\ Pending' \subseteq Pending \cup {cmd.op}
<1> USE DEF Journal, Pending
<1>1. ASSUME NEW i \in Images, BeginPrepare(i) PROVE Pending' \subseteq Pending
  <2>1. PICK o \in Operations :
          /\ op'[o] = [svc |-> "begun", journal |-> "none", source |-> Selected, image |-> i]
          /\ \A q \in Operations \ {o} : op'[q] = op[q]
    BY <1>1, Prepares DEF StorageTypes
  <2> QED  BY <2>1
<1>2. CASE RecordService
  <2>1. cmd.op \in Operations
    BY <1>2 DEF RecordService, StorageTypes
  <2>2. Records(cmd.op, "allocated", Journal(cmd.op))
    BY <1>2, <2>1, Marks
  <2> QED  BY <1>2, <2>1, <2>2 DEF Records
<1>3. CASE FillRoot
  <2>1. cmd.op \in Operations /\ op[cmd.op].svc = "allocated"
    BY <1>3 DEF FillRoot, StorageTypes
  <2>2. Records(cmd.op, "prepared", Journal(cmd.op))
    BY <1>3, <2>1, Marks
  <2> QED  BY <2>1, <2>2 DEF Records
<1>4. ASSUME NEW o \in Operations, Arm(o) PROVE Pending' \subseteq Pending
  <2>1. Records(o, "prepared", "armed") /\ o \in Pending
    BY <1>4, Marks DEF Arm
  <2> QED  BY <2>1 DEF Records
<1>5. ASSUME NEW o \in Operations, Advance(o) PROVE Pending' \subseteq Pending
  <2>1. o \in Pending
    BY <1>5 DEF Advance
  <2>2. PICK j \in {"crossed", "complete"} : Records(o, "prepared", j)
    BY <1>5, Marks
  <2> QED  BY <2>1, <2>2 DEF Records
<1>6. ASSUME NEW o \in Operations, Recover(o) PROVE Pending' \subseteq Pending
  <2>1. Records(o, op[o].svc, "recovered") /\ Journal(o) = "armed"
    BY <1>6, Marks DEF Recover
  <2> QED  BY <2>1 DEF Records
<1>7. ASSUME NEW o \in Operations, Abandon(o) PROVE Pending' \subseteq Pending
  <2>1. PICK j : /\ j = IF Journal(o) = "armed" THEN "recovered" ELSE Journal(o)
                 /\ Records(o, "abandoned", j)
    BY <1>7, Marks
  <2>2. Journal(o) \in {"none", "armed", "recovered"}
    BY <1>7 DEF Abandon
  <2> QED  BY <2>1, <2>2 DEF Records
<1>8. CASE UNCHANGED <<infra, op, assigned>>
  BY <1>8
<1> QED  BY WhoWrites, <1>1, <1>2, <1>3, <1>4, <1>5, <1>6, <1>7, <1>8

LEMMA SelectedIsAccepted ==
  ASSUME StorageTypes, JournalInv, AttemptInv
  PROVE  Selected \in Generations /\ Accepted(Selected)
<1>1. CASE assigned = Base \/ Journal(assigned) = "complete"
  BY <1>1 DEF Selected, Accepted, StorageTypes
<1>2. CASE assigned # Base /\ Journal(assigned) # "complete"
  <2>1. assigned \in Operations /\ op[assigned].svc # "none"
    BY <1>2 DEF StorageTypes, Generations, JournalInv, Journal
  <2>2. op[assigned] \in Attempts
    BY <2>1 DEF StorageTypes
  <2>3. Selected = op[assigned].source
    BY <1>2 DEF Selected
  <2> QED  BY <2>1, <2>2, <2>3 DEF AttemptInv, Attempts
<1> QED  BY <1>1, <1>2

LEMMA AcceptedStays ==
  ASSUME StorageTypes, JournalInv, [Next]_vars, NEW g \in Generations, Accepted(g)
  PROVE  Accepted(g)'
<1>1. CASE g = Base
  BY <1>1 DEF Accepted
<1>2. CASE g # Base
  <2>1. g \in Operations /\ Journal(g) = "complete" /\ op[g].svc # "none"
    BY <1>2 DEF Accepted, Generations, JournalInv, Journal
  <2> QED  BY <2>1, Keeps DEF Accepted
<1> QED  BY <1>1, <1>2

LEMMA AttemptNext ==
  ASSUME StorageTypes, JournalInv, AttemptInv, [Next]_vars
  PROVE  AttemptInv'
<1>s. RecordService =>
        /\ cmd.op \in Operations /\ Pending = {} /\ op[cmd.op].source = Selected
        /\ op[cmd.op].svc = "begun" /\ ~(\E o \in Operations : Advance(o))
  <2> SUFFICES ASSUME RecordService
               PROVE  /\ cmd.op \in Operations /\ Pending = {} /\ op[cmd.op].source = Selected
                      /\ op[cmd.op].svc = "begun" /\ ~(\E o \in Operations : Advance(o))
    OBVIOUS
  <2>1. cmd.do = "prepare" /\ op[cmd.op].svc = "begun"
    BY DEF RecordService
  <2>2. cmd # Idle
    BY <2>1 DEF Idle
  <2>3. ~(\E o \in Operations : Advance(o))
    BY <2>2 DEF Advance
  <2>4. cmd.op \in Operations
    BY <2>1 DEF StorageTypes
  <2> QED  BY <2>1, <2>3, <2>4 DEF AttemptInv
<1>1. ASSUME NEW o \in Pending', NEW p \in Pending' PROVE o = p
  BY <1>1, <1>s, PendingGrows DEF AttemptInv
<1>2. ASSUME NEW o \in Pending' PROVE op'[o].source = Selected'
  <2>1. CASE o \in Pending
    <3>1. op[o].source = Selected
      BY <2>1 DEF AttemptInv
    <3>2. op'[o].source = op[o].source
      BY <2>1, Keeps DEF Pending
    <3>3. ASSUME NEW p \in Pending, Journal(p)' = "complete" PROVE FALSE
      <4>1. p = o
        BY <2>1 DEF AttemptInv
      <4>2. Journal(o)' # "complete"
        BY <1>2 DEF Pending
      <4> QED  BY <3>3, <4>1, <4>2
    <3> QED  BY <3>1, <3>2, <3>3, SelectionMoves
  <2>2. CASE o \notin Pending
    <3>1. RecordService /\ o = cmd.op
      BY <2>2, PendingGrows
    <3>2. op'[o].source = op[o].source
      BY <3>1, <1>s, Keeps
    <3>3. Selected' = Selected
      BY <3>1, <1>s, SelectionMoves DEF Pending
    <3> QED  BY <3>1, <3>2, <3>3, <1>s
  <2> QED  BY <2>1, <2>2
<1> DEFINE PrepareInv ==
      cmd.do = "prepare" =>
        /\ op[cmd.op].svc \in {"begun", "allocated"} /\ op[cmd.op].source = Selected
        /\ op[cmd.op].svc = "begun" => Pending = {}
<1>p. PrepareInv
  BY DEF AttemptInv
<1>3. PrepareInv'
  <2>1. ASSUME NEW i \in Images, BeginPrepare(i) PROVE PrepareInv'
    <3>1. PICK o \in Operations :
            /\ op[o] = Unused
            /\ cmd' = [do |-> "prepare", op |-> o]
            /\ op'[o] = [svc |-> "begun", journal |-> "none", source |-> Selected, image |-> i]
      BY <2>1, Prepares DEF StorageTypes
    <3>2. Pending = {} /\ ~RecordService
      BY <2>1 DEF BeginPrepare, RecordService, Idle
    <3>3. Pending' = {}
      BY <3>2, PendingGrows
    <3>4. Selected' = Selected
      BY <3>2, SelectionMoves
    <3> QED  BY <3>1, <3>3, <3>4
  <2>2. CASE RecordService
    <3>1. Records(cmd.op, "allocated", Journal(cmd.op)) /\ cmd' = cmd
      BY <2>2, <1>s, Marks DEF RecordService
    <3>2. Selected' = Selected
      BY <2>2, <1>s, SelectionMoves DEF Pending
    <3> QED  BY <2>2, <1>s, <3>1, <3>2 DEF Records
  <2>3. CASE FillRoot
    BY <2>3 DEF FillRoot, Idle
  <2>4. ASSUME NEW o \in Operations, Arm(o) \/ Advance(o) \/ Abandon(o) PROVE PrepareInv'
    BY <2>4 DEF Arm, Advance, Abandon, Idle
  <2>5. ASSUME NEW o \in Operations, Recover(o), cmd'.do = "prepare" PROVE PrepareInv'
    <3>1. cmd' = cmd /\ Journal(o) = "armed" /\ cmd.do = "prepare"
      BY <2>5 DEF Recover
    <3>2. cmd.op \in Operations /\ op[cmd.op].svc \in {"begun", "allocated"}
      BY <3>1, <1>p DEF StorageTypes
    <3>3. cmd.op # o
      BY <3>1, <3>2 DEF JournalInv
    <3>4. op'[cmd.op] = op[cmd.op]
      BY <2>5, <3>2, <3>3, Marks DEF Records
    <3>5. ~RecordService
      BY <2>5, <3>1, <3>2, <3>4, <1>s, Marks DEF Records
    <3>6. Selected' = Selected
      <4>1. ASSUME NEW p \in Pending, Advance(p) PROVE FALSE
        BY <3>1, <4>1 DEF Advance, Idle
      <4> QED  BY <4>1, SelectionMoves
    <3>7. Pending' \subseteq Pending
      BY <3>5, PendingGrows
    <3> QED  BY <3>1, <3>4, <3>6, <3>7, <1>p
  <2>6. CASE UNCHANGED <<infra, op, assigned>>
    <3>1. Selected' = Selected /\ Pending' = Pending
      BY <2>6 DEF Selected, Pending, Journal
    <3>2. CASE cmd' = cmd
      BY <2>6, <3>1, <3>2, <1>p
    <3>3. ASSUME NEW o \in Operations, ResumePrepare(o) PROVE PrepareInv'
      <4>1. cmd' = [do |-> "prepare", op |-> o] /\ op[o].svc = "allocated"
        BY <3>3 DEF ResumePrepare
      <4>2. o \in Pending
        BY <4>1 DEF Pending, JournalInv
      <4>3. op[o].source = Selected
        BY <4>2 DEF AttemptInv
      <4> QED  BY <2>6, <3>1, <4>1, <4>3
    <3>4. CASE cmd'.do # "prepare"
      BY <3>4
    <3> HIDE DEF PrepareInv
    <3> QED  BY <2>1, <2>2, <2>3, <2>4, <3>2, <3>3, <3>4, <2>5, WhoWrites
  <2>7. CASE cmd'.do # "prepare"
    BY <2>7
  <2> HIDE DEF PrepareInv
  <2> QED  BY WhoWrites, <2>1, <2>2, <2>3, <2>4, <2>5, <2>6, <2>7
<1>4. ASSUME NEW o \in Operations, op'[o].svc # "none" PROVE Accepted(op[o].source)'
  <2>1. CASE op[o].svc # "none"
    <3>1. op[o].source \in Generations /\ Accepted(op[o].source)
      <4>1. op[o] \in Attempts
        BY DEF StorageTypes
      <4> QED  BY <2>1, <4>1 DEF AttemptInv, Attempts
    <3>2. op'[o].source = op[o].source
      BY <2>1, Keeps
    <3> DEFINE g == op[o].source
    <3>3. Accepted(g)
      BY <3>1
    <3>4. \/ g = Base
          \/ g \in Operations /\ Journal(g) = "complete" /\ op[g].svc # "none"
      BY <3>1, <3>3 DEF Accepted, Generations, JournalInv, Journal
    <3>5. op'[o].source = Base \/ op'[op'[o].source].journal = "complete"
      BY <3>2, <3>4, Keeps DEF Journal
    <3> QED  BY <3>5 DEF Accepted, Journal
  <2>2. CASE op[o].svc = "none"
    <3>1. PICK i \in Images : BeginPrepare(i)
      BY <2>2, <1>4, NoneIsNew
    <3>2. op'[o].source = Selected
      <4>1. PICK p \in Operations :
              /\ op'[p] = [svc |-> "begun", journal |-> "none", source |-> Selected, image |-> i]
              /\ \A q \in Operations \ {p} : op'[q] = op[q]
        BY <3>1, Prepares DEF StorageTypes
      <4> QED  BY <2>2, <1>4, <4>1
    <3>3. \/ Selected = Base
          \/ /\ Selected \in Operations /\ Journal(Selected) = "complete"
             /\ op[Selected].svc # "none"
      BY SelectedIsAccepted DEF Accepted, Generations, JournalInv, Journal
    <3>4. op'[o].source = Base \/ op'[op'[o].source].journal = "complete"
      BY <3>2, <3>3, Keeps DEF Journal
    <3> QED  BY <3>4 DEF Accepted, Journal
  <2> QED  BY <2>1, <2>2
<1> QED  BY <1>1, <1>2, <1>3, <1>4 DEF AttemptInv

(* Only FillRoot calls an attempt prepared, and only a preparation gives   *)
(* one its service.json.                                                   *)
RecordedSoFar(o) ==
  /\ op'[o].svc = "prepared" => op[o].svc = "prepared" \/ (FillRoot /\ o = cmd.op)
  /\ o \in Recorded' => o \in Recorded \/ (RecordService /\ o = cmd.op)

LEMMA Recorders ==
  ASSUME StorageTypes, JournalInv, [Next]_vars, NEW o \in Operations
  PROVE  RecordedSoFar(o)
<1> USE DEF RecordedSoFar
<1>0. /\ o \in Recorded <=> op[o].svc \notin {"none", "begun"}
      /\ o \in Recorded' <=> op'[o].svc \notin {"none", "begun"}
  BY DEF Recorded
<1>1. ASSUME NEW i \in Images, BeginPrepare(i)
      PROVE  RecordedSoFar(o)
  <2>1. PICK p \in Operations :
          /\ op'[p] = [svc |-> "begun", journal |-> "none", source |-> Selected, image |-> i]
          /\ \A q \in Operations \ {p} : op'[q] = op[q]
    BY <1>1, Prepares DEF StorageTypes
  <2> QED  BY <1>0, <2>1
<1>2. CASE RecordService
  <2>1. cmd.op \in Operations
    BY <1>2 DEF RecordService, StorageTypes
  <2>2. Records(cmd.op, "allocated", Journal(cmd.op))
    BY <1>2, <2>1, Marks
  <2> QED  BY <1>0, <1>2, <2>1, <2>2 DEF Records
<1>3. CASE FillRoot
  <2>1. cmd.op \in Operations /\ op[cmd.op].svc = "allocated"
    BY <1>3 DEF FillRoot, StorageTypes
  <2>2. Records(cmd.op, "prepared", Journal(cmd.op))
    BY <1>3, <2>1, Marks
  <2> QED  BY <1>0, <1>3, <2>1, <2>2 DEF Records
<1>4. ASSUME NEW p \in Operations, Arm(p)
      PROVE  RecordedSoFar(o)
  <2>1. op[p].svc = "prepared" /\ Records(p, "prepared", "armed")
    BY <1>4, Marks DEF Arm
  <2> QED  BY <1>0, <2>1 DEF Records
<1>5. ASSUME NEW p \in Operations, Advance(p)
      PROVE  RecordedSoFar(o)
  <2>1. op[p].svc = "prepared"
    BY <1>5 DEF Advance
  <2>2. PICK j \in {"crossed", "complete"} : Records(p, "prepared", j)
    BY <1>5, Marks
  <2> QED  BY <1>0, <2>1, <2>2 DEF Records
<1>6. ASSUME NEW p \in Operations, Recover(p)
      PROVE  RecordedSoFar(o)
  <2>1. Records(p, op[p].svc, "recovered")
    BY <1>6, Marks
  <2> QED  BY <1>0, <2>1 DEF Records
<1>7. ASSUME NEW p \in Operations, Abandon(p)
      PROVE  RecordedSoFar(o)
  <2>1. op[p].svc \in {"allocated", "prepared"}
    BY <1>7 DEF Abandon
  <2>2. PICK j : Records(p, "abandoned", j)
    BY <1>7, Marks
  <2> QED  BY <1>0, <2>1, <2>2 DEF Records
<1>8. CASE UNCHANGED <<infra, op, assigned>>
  BY <1>0, <1>8
<1> HIDE DEF RecordedSoFar
<1> QED  BY WhoWrites, <1>1, <1>2, <1>3, <1>4, <1>5, <1>6, <1>7, <1>8

-----------------------------------------------------------------------------
(* The plan.                                                               *)

LEMMA WhoPlans ==
  ASSUME [Next]_vars
  PROVE  /\ infra' = infra
         /\ BeginRetire \/ EndRetire \/ plan' = plan
         /\ cmd'.do = "retire" =>
              \/ BeginRetire
              \/ ResumeRetire
              \/ cmd' = cmd /\ plan' = plan /\ (assigned' = assigned \/ cmd = Idle)
<1> DEFINE Claim ==
      /\ infra' = infra
      /\ BeginRetire \/ EndRetire \/ plan' = plan
      /\ cmd'.do = "retire" =>
           \/ BeginRetire
           \/ ResumeRetire
           \/ cmd' = cmd /\ plan' = plan /\ (assigned' = assigned \/ cmd = Idle)
<1> USE DEF Rest, guests, images
<1>u. CASE UNCHANGED vars
  BY <1>u DEF vars
<1>1. BeginBuild => Claim
  BY DEF BeginBuild
<1>2. \A i \in Images : Qualify(i) => Claim
  BY DEF Qualify
<1>3. \A i \in Images : BeginPrepare(i) => Claim
  BY DEF BeginPrepare
<1>4. \A o \in Operations : ResumePrepare(o) => Claim
  BY DEF ResumePrepare
<1>5. \A o \in Operations : Arm(o) \/ Advance(o) \/ Recover(o) \/ Abandon(o) => Claim
  BY DEF Arm, Advance, Recover, Abandon
<1>6. RecordConvergence => Claim
  BY DEF RecordConvergence
<1>7. BeginRetire => Claim
  BY DEF BeginRetire
<1>8. ResumeRetire => Claim
  BY DEF ResumeRetire
<1>9. \A i \in Images, p \in BOOLEAN : BeginCleanup(i, p) => Claim
  BY DEF BeginCleanup
<1>10. ResumeCleanup => Claim
  BY DEF ResumeCleanup
<1>11. PublishCandidate \/ EndRetire \/ EndCleanup \/ FillRoot => Claim
  BY DEF PublishCandidate, EndRetire, EndCleanup, FillRoot, Idle
<1>12. RecordService \/ AllocateRoot => Claim
  BY DEF RecordService, AllocateRoot
<1>13. \A g \in Generations : RemoveRoot(g) \/ UnlinkBoot(g) \/ Prove(g) => Claim
  BY DEF RemoveRoot, UnlinkBoot, Prove
<1>14. \A i \in Images : RemoveImage(i) => Claim
  BY DEF RemoveImage
<1>15. KillCommand => Claim
  BY DEF KillCommand, Idle
<1> HIDE DEF Claim
<1>c. Claim
  <2>u. CASE UNCHANGED vars
    BY <2>u DEF vars, Claim
  <2> QED
    BY <2>u, <1>1, <1>2, <1>3, <1>4, <1>5, <1>6, <1>7, <1>8, <1>9, <1>10, <1>11, <1>12, <1>13,
       <1>14, <1>15 DEF Next, CommandStep
<1> QED  BY <1>c DEF Claim

(* What a new plan deletes is neither selected nor, of a service, the      *)
(* generation before that.                                                 *)
LEMMA PlanStarts ==
  ASSUME StorageTypes, JournalInv, AttemptInv, BeginRetire
  PROVE  /\ plan' # None /\ plan'.current = assigned /\ assigned \in Operations
         /\ \/ Journal(assigned) = "complete"
            \/ Journal(assigned) = "recovered" /\ op[assigned].svc = "abandoned"
         /\ SelectedFrom(assigned) \notin plan'.items
         /\ ~infra => /\ Journal(assigned) = "complete"
                      /\ op[assigned].source \notin plan'.items
<1>1. /\ plan' = [items |-> Items, current |-> assigned, audit |-> converged]
      /\ Pending = {} /\ Installed # Base
  BY DEF BeginRetire
<1>2. plan' # None
  <2>1. "items" \in DOMAIN plan' /\ "items" \notin DOMAIN None
    BY <1>1 DEF None
  <2> QED  BY <2>1
<1>3. plan'.current = assigned /\ plan'.items = Items
  BY <1>1
<1>4. assigned \in Operations /\ Journal(assigned) \in {"complete", "recovered"}
  BY <1>1 DEF Installed, StorageTypes, Generations
<1>5. op[assigned] \in Attempts /\ assigned # Base
  BY <1>4, ConstantsAssumption DEF StorageTypes
<1>6. Journal(assigned) = "recovered" => op[assigned].svc = "abandoned"
  <2> SUFFICES ASSUME Journal(assigned) = "recovered" PROVE op[assigned].svc = "abandoned"
    OBVIOUS
  <2>1. op[assigned].svc \notin {"none", "begun", "allocated"}
    BY <1>4 DEF JournalInv
  <2>2. op[assigned].svc # "prepared"
    BY <1>1, <1>4 DEF Pending
  <2> QED  BY <2>1, <2>2, <1>5 DEF Attempts
<1>7. CASE Journal(assigned) = "complete"
  <2>1. Installed = assigned /\ SelectedFrom(assigned) = assigned
    BY <1>7, <1>5 DEF Installed, SelectedFrom
  <2>2. assigned \notin Items
    BY <1>7, <2>1 DEF Items, Recent, Unbooted
  <2>3. ~infra => op[assigned].source \notin Items
    BY <2>1 DEF Items, Recent, Unbooted
  <2> QED  BY <1>2, <1>3, <1>4, <1>7, <2>1, <2>2, <2>3
<1>8. CASE Journal(assigned) = "recovered"
  <2>1. infra /\ Installed = op[assigned].source /\ SelectedFrom(assigned) = op[assigned].source
    BY <1>1, <1>8, <1>5 DEF Installed, SelectedFrom
  <2>2. Accepted(op[assigned].source)
    BY <1>4, <1>5, <1>6, <1>8 DEF AttemptInv
  <2>3. op[assigned].source \notin Unbooted
    BY <2>2, ConstantsAssumption DEF Accepted, Unbooted
  <2>4. op[assigned].source \notin Items
    BY <2>1, <2>3 DEF Items, Recent
  <2> QED  BY <1>2, <1>3, <1>4, <1>6, <1>8, <2>1, <2>4
<1> QED  BY <1>4, <1>7, <1>8

LEMMA PlanNext ==
  ASSUME StorageTypes, JournalInv, AttemptInv, PlanInv, [Next]_vars
  PROVE  PlanInv'
<1>1. CASE BeginRetire
  <2>1. op' = op /\ assigned' = assigned /\ infra' = infra /\ Pending = {}
    BY <1>1 DEF BeginRetire, Rest, guests
  <2>2. Pending' = {}
    BY <2>1 DEF Pending, Journal
  <2> QED  BY <1>1, <2>1, <2>2, PlanStarts DEF PlanInv, SelectedFrom, Journal
<1>2. CASE EndRetire
  BY <1>2 DEF EndRetire, PlanInv, Idle
<1>3. CASE plan' = plan
  <2>1. infra' = infra
    BY WhoPlans
  <2>2. ASSUME plan # None
        PROVE  /\ op'[plan.current].source = op[plan.current].source
               /\ \/ Journal(plan.current)' = "complete" /\ Journal(plan.current) = "complete"
                  \/ /\ Journal(plan.current)' = "recovered"
                     /\ op'[plan.current] = op[plan.current]
                     /\ Journal(plan.current) = "recovered"
                     /\ op[plan.current].svc = "abandoned"
    <3>1. plan.current \in Operations /\ op[plan.current].svc # "none"
      BY <2>2 DEF PlanInv, JournalInv
    <3>2. \/ Journal(plan.current) = "complete"
          \/ Journal(plan.current) = "recovered" /\ op[plan.current].svc = "abandoned"
      BY <2>2 DEF PlanInv
    <3> QED  BY <1>3, <3>1, <3>2, Keeps DEF Journal
  <2>3. plan' # None =>
          /\ plan'.current \in Operations
          /\ \/ Journal(plan.current)' = "complete"
             \/ Journal(plan.current)' = "recovered" /\ op'[plan'.current].svc = "abandoned"
          /\ SelectedFrom(plan.current)' \notin plan'.items
          /\ ~infra' => /\ Journal(plan.current)' = "complete"
                        /\ op'[plan'.current].source \notin plan'.items
    <3> SUFFICES ASSUME plan # None
                 PROVE  /\ plan.current \in Operations
                        /\ \/ Journal(plan.current)' = "complete"
                           \/ /\ Journal(plan.current)' = "recovered"
                              /\ op'[plan.current].svc = "abandoned"
                        /\ SelectedFrom(plan.current)' \notin plan.items
                        /\ ~infra => /\ Journal(plan.current)' = "complete"
                                     /\ op'[plan.current].source \notin plan.items
      BY <1>3, <2>1
    <3>1. SelectedFrom(plan.current)' = SelectedFrom(plan.current)
      BY <1>3, <2>2 DEF SelectedFrom, Journal
    <3> QED  BY <2>2, <3>1 DEF PlanInv
  <2>4. cmd'.do = "retire" => Pending' = {} /\ plan' # None /\ assigned' = plan'.current
    <3> SUFFICES ASSUME cmd'.do = "retire"
                 PROVE  Pending' = {} /\ plan # None /\ assigned' = plan.current
      BY <1>3
    <3>1. CASE BeginRetire
      BY <3>1, <1>1, <1>3 DEF PlanInv
    <3>2. CASE ResumeRetire
      <4>1. op' = op /\ assigned' = assigned /\ Pending = {} /\ plan # None
            /\ assigned = plan.current
        BY <3>2 DEF ResumeRetire, Rest, guests, Overtaken
      <4>2. Pending' = {}
        BY <4>1 DEF Pending, Journal
      <4> QED  BY <4>1, <4>2
    <3>3. CASE cmd' = cmd /\ (assigned' = assigned \/ cmd = Idle)
      <4>1. assigned' = assigned /\ Pending = {} /\ plan # None /\ assigned = plan.current
        BY <3>3 DEF PlanInv, Idle
      <4>2. ~RecordService
        BY <3>3 DEF RecordService
      <4>3. Pending' = {}
        BY <4>1, <4>2, PendingGrows
      <4> QED  BY <4>1, <4>3
    <3> QED  BY <3>1, <3>2, <3>3, WhoPlans
  <2> QED  BY <2>3, <2>4, <1>3 DEF PlanInv, Journal, SelectedFrom
<1> QED  BY <1>1, <1>2, <1>3, WhoPlans

-----------------------------------------------------------------------------
(* The roots.                                                              *)

(* Only a retirement takes a part away, of a generation that its plan      *)
(* names, and never the configuration of an abandoned attempt.             *)
Cuts(g) ==
  /\ cmd.do = "retire" /\ g \in plan.items
  /\ \E part \in Deleted(g) : kept' = [kept EXCEPT ![g] = @ \ {part}]
  /\ UNCHANGED <<infra, op, assigned>>

LEMMA WhoCuts ==
  ASSUME StorageTypes, [Next]_vars
  PROVE  \/ \E g \in Generations : Cuts(g)
         \/ /\ \A g \in Generations : kept[g] \subseteq kept'[g]
            /\ FillRoot => kept'[cmd.op] = Parts
            /\ assigned' = assigned \/ \E o \in Operations : Arm(o) /\ assigned' = o
<1> USE DEF Rest, guests, images
<1>0. Operations \subseteq Generations /\ (cmd.do = "prepare" => cmd.op \in Operations)
  BY DEF StorageTypes, Generations
<1>1. CASE FillRoot
  <2>1. /\ cmd.op \in Generations /\ kept' = [kept EXCEPT ![cmd.op] = Parts]
        /\ assigned' = assigned
    BY <1>0, <1>1 DEF FillRoot
  <2> QED  BY <2>1 DEF StorageTypes
<1>2. CASE AllocateRoot
  <2>1. /\ cmd.op \in Generations /\ kept' = [kept EXCEPT ![cmd.op] = @ \cup {"root"}]
        /\ assigned' = assigned /\ ~FillRoot
    BY <1>0, <1>2 DEF AllocateRoot, FillRoot
  <2> QED  BY <2>1 DEF StorageTypes
<1>3. ASSUME NEW g \in Generations, RemoveRoot(g) PROVE Cuts(g)
  BY <1>3 DEF RemoveRoot, Cuts, Deleted, Parts
<1>4. ASSUME NEW g \in Generations, UnlinkBoot(g) PROVE Cuts(g)
  BY <1>4 DEF UnlinkBoot, Cuts
<1>5. ASSUME ~FillRoot, ~AllocateRoot,
             ~(\E g \in Generations : RemoveRoot(g) \/ UnlinkBoot(g))
      PROVE  /\ kept' = kept
             /\ assigned' = assigned \/ \E o \in Operations : Arm(o) /\ assigned' = o
  <2> DEFINE Claim == /\ kept' = kept
                      /\ assigned' = assigned \/ \E o \in Operations : Arm(o) /\ assigned' = o
  <2>u. UNCHANGED vars => Claim
    BY DEF vars
  <2>1. BeginBuild => Claim
    BY DEF BeginBuild
  <2>2. \A i \in Images : Qualify(i) \/ BeginPrepare(i) => Claim
    BY DEF Qualify, BeginPrepare
  <2>3. \A o \in Operations : Arm(o) => assigned' = o /\ kept' = kept
    BY DEF Arm
  <2>4. \A o \in Operations : ResumePrepare(o) \/ Advance(o) \/ Recover(o) \/ Abandon(o) => Claim
    BY DEF ResumePrepare, Advance, Recover, Abandon
  <2>5. RecordConvergence \/ BeginRetire \/ ResumeRetire \/ ResumeCleanup => Claim
    BY DEF RecordConvergence, BeginRetire, ResumeRetire, ResumeCleanup
  <2>6. \A i \in Images, p \in BOOLEAN : BeginCleanup(i, p) => Claim
    BY DEF BeginCleanup
  <2>7. PublishCandidate \/ RecordService \/ EndRetire \/ EndCleanup \/ KillCommand => Claim
    BY DEF PublishCandidate, RecordService, EndRetire, EndCleanup, KillCommand
  <2>8. \A g \in Generations : Prove(g) => Claim
    BY DEF Prove
  <2>9. \A i \in Images : RemoveImage(i) => Claim
    BY DEF RemoveImage
  <2>10. \A o \in Operations : Arm(o) => Claim
    BY <2>3
  <2> HIDE DEF Claim
  <2>11. Claim
    BY <1>5, <2>u, <2>1, <2>2, <2>4, <2>5, <2>6, <2>7, <2>8, <2>9, <2>10 DEF Next, CommandStep
  <2> QED  BY <2>11 DEF Claim
<1> QED  BY <1>1, <1>2, <1>3, <1>4, <1>5

LEMMA RootsNext ==
  ASSUME StorageTypes, JournalInv, AttemptInv, PlanInv, RecoverableRoots, [Next]_vars,
         StorageTypes', AttemptInv'
  PROVE  RecoverableRoots'
<1>p. \A g \in Generations : kept[g] \subseteq Parts /\ kept'[g] \subseteq Parts
  BY DEF StorageTypes
<1>s. Selected \in Generations /\ Selected = SelectedFrom(assigned)
  BY SelectedIsAccepted DEF Selected, SelectedFrom
<1>i. infra' = infra
  BY WhoPlans
<1>1. ASSUME NEW g \in Generations, Cuts(g)
      PROVE  RecoverableRoots'
  <2>1. /\ Pending = {} /\ plan # None /\ assigned = plan.current /\ g \in plan.items
        /\ op' = op /\ assigned' = assigned /\ assigned \in Operations
    BY <1>1 DEF Cuts, PlanInv
  <2>2. Pending' = {} /\ Selected' = Selected
    BY <2>1 DEF Pending, Journal, Selected
  <2>3. g # Selected
    BY <2>1, <1>s DEF PlanInv
  <2>4. PICK part \in Deleted(g) : kept' = [kept EXCEPT ![g] = @ \ {part}]
    BY <1>1 DEF Cuts
  <2>5. \A h \in Generations : h # g => kept'[h] = kept[h]
    BY <2>4 DEF StorageTypes
  <2>6. kept'[Selected] = Parts
    BY <2>3, <2>5, <1>s DEF RecoverableRoots
  <2>7. ~infra /\ Selected # Base => kept'[op[Selected].source] = Parts
    <3> SUFFICES ASSUME ~infra, Selected # Base PROVE kept'[op[Selected].source] = Parts
      OBVIOUS
    <3>1. Selected = assigned /\ op[assigned].source # g
      BY <2>1 DEF PlanInv, Selected
    <3>2. op[assigned].source \in Generations
      BY <2>1 DEF StorageTypes, Attempts
    <3> QED  BY <3>1, <3>2, <2>5 DEF RecoverableRoots
  <2>8. "cfg" \in kept'[assigned]
    <3>0. "cfg" \in kept[assigned] /\ assigned \in Generations
      BY <2>1, ConstantsAssumption DEF RecoverableRoots, Generations
    <3>1. CASE assigned = g
      <4>1. Journal(assigned) = "recovered" /\ op[assigned].svc = "abandoned"
        BY <2>1, <2>3, <3>1 DEF PlanInv, Selected
      <4>2. part # "cfg"
        BY <2>1, <2>4, <3>1, <4>1 DEF Deleted
      <4>3. kept'[g] = kept[g] \ {part}
        BY <2>4 DEF StorageTypes
      <4> QED  BY <3>0, <3>1, <4>2, <4>3
    <3>2. CASE assigned # g
      BY <3>0, <3>2, <2>5
    <3> QED  BY <3>1, <3>2
  <2> QED  BY <1>i, <2>1, <2>2, <2>6, <2>7, <2>8 DEF RecoverableRoots
<1>2. ASSUME \A g \in Generations : kept[g] \subseteq kept'[g],
             FillRoot => kept'[cmd.op] = Parts,
             assigned' = assigned \/ \E o \in Operations : Arm(o) /\ assigned' = o
      PROVE  RecoverableRoots'
  <2>w. \A g \in Generations : kept[g] = Parts => kept'[g] = Parts
    BY <1>2, <1>p
  <2>1. ASSUME NEW o \in Pending, op[o].svc = "prepared" PROVE kept'[o] = Parts
    BY <2>1, <2>w DEF RecoverableRoots, Pending, Generations
  <2>2. kept'[Selected'] = Parts
    <3>1. CASE Selected' = Selected
      BY <3>1, <1>s, <2>w DEF RecoverableRoots
    <3>2. ASSUME NEW o \in Pending, Advance(o), Selected' = o PROVE kept'[Selected'] = Parts
      BY <3>2, <2>1 DEF Advance
    <3> QED  BY <3>1, <3>2, SelectionMoves
  <2>3. ASSUME NEW o \in Pending'
        PROVE  /\ kept'[op'[o].source] = Parts
               /\ op'[o].svc = "prepared" => kept'[o] = Parts
    <3>1. op'[o].source = Selected'
      BY <2>3 DEF AttemptInv
    <3>2. ASSUME op'[o].svc = "prepared" PROVE kept'[o] = Parts
      <4>1. o \in Operations /\ Journal(o)' # "complete"
        BY <2>3 DEF Pending
      <4>2. CASE op[o].svc = "prepared"
        <5>1. Journal(o) # "complete"
          BY <4>1, <4>2, Keeps
        <5> QED  BY <4>1, <4>2, <5>1, <2>1 DEF Pending
      <4>3. CASE FillRoot /\ o = cmd.op
        BY <4>3, <1>2
      <4> QED  BY <3>2, <4>1, <4>2, <4>3, Recorders DEF RecordedSoFar
    <3> QED  BY <2>2, <3>1, <3>2
  <2>4. ~infra' /\ Selected' # Base => kept'[op'[Selected'].source] = Parts
    <3> SUFFICES ASSUME ~infra, Selected' # Base PROVE kept'[op'[Selected'].source] = Parts
      BY <1>i
    <3>1. CASE Selected' = Selected
      <4>1. Selected \in Operations /\ op[Selected].svc # "none"
        BY <3>1, <1>s, SelectedIsAccepted DEF Generations, Accepted, JournalInv
      <4>2. op'[Selected].source = op[Selected].source
        BY <4>1, Keeps
      <4>3. op[Selected].source \in Generations
        BY <4>1 DEF StorageTypes, Attempts
      <4> QED  BY <3>1, <4>1, <4>2, <4>3, <2>w DEF RecoverableRoots
    <3>2. ASSUME NEW o \in Pending, Selected' = o PROVE kept'[op'[Selected'].source] = Parts
      <4>1. op'[o].source = op[o].source /\ op[o].source = Selected
        BY Keeps DEF Pending, AttemptInv
      <4> QED  BY <3>2, <4>1, <1>s, <2>w DEF RecoverableRoots
    <3> QED  BY <3>1, <3>2, SelectionMoves
  <2>5. assigned' # Base => "cfg" \in kept'[assigned']
    <3>1. CASE assigned' = assigned
      <4>1. assigned \in Generations
        BY DEF StorageTypes
      <4> QED  BY <3>1, <4>1, <1>2 DEF RecoverableRoots
    <3>2. ASSUME NEW o \in Operations, Arm(o), assigned' = o PROVE "cfg" \in kept'[assigned']
      <4>1. o \in Pending /\ op[o].svc = "prepared"
        BY <3>2 DEF Arm, Pending
      <4> QED  BY <3>2, <4>1, <2>1 DEF Parts
    <3> QED  BY <3>1, <3>2, <1>2
  <2> QED  BY <2>2, <2>3, <2>4, <2>5 DEF RecoverableRoots
<1> QED  BY <1>1, <1>2, WhoCuts

-----------------------------------------------------------------------------
(* The images.                                                             *)

(* Only a cleanup breaks a whole image, and only one that its plan names;  *)
(* what it found unreferenced stays unreferenced until it ends.            *)
LEMMA WhoCleans ==
  ASSUME StorageTypes, [Next]_vars
  PROVE  /\ \A i \in Images : Whole(i) =>
              Whole(i)' \/ (cmd.do = "cleanup" /\ i \in cleanup.items)
         /\ retired \subseteq retired'
         /\ cmd'.do = "cleanup" =>
              \/ \E i \in Images, p \in BOOLEAN : BeginCleanup(i, p)
              \/ ResumeCleanup
              \/ cmd' = cmd /\ cleanup' = cleanup
         /\ cmd'.do = "prepare" =>
              \/ \E i \in Images : BeginPrepare(i)
              \/ \E o \in Operations : ResumePrepare(o)
              \/ cmd' = cmd
<1> DEFINE Same == store' = store /\ retired \subseteq retired'
           Goes == /\ cmd'.do = "cleanup" => cmd' = cmd /\ cleanup' = cleanup
                   /\ cmd'.do = "prepare" => cmd' = cmd
<1> USE DEF Rest, guests, images
<1>u. UNCHANGED vars => Same /\ Goes
  BY DEF vars
<1>1. BeginBuild => Goes /\ (\A i \in Images : Whole(i) => Whole(i)') /\ retired' = retired
  <2> SUFFICES ASSUME BeginBuild
               PROVE  Goes /\ (\A i \in Images : Whole(i) => Whole(i)') /\ retired' = retired
    OBVIOUS
  <2> DEFINE i == CHOOSE j \in Images : store[j] = "none"
  <2>1. i \in Images /\ store[i] = "none"
    BY DEF BeginBuild
  <2>2. store' = [store EXCEPT ![i] = "partial"] /\ cmd' = [do |-> "build", image |-> i]
        /\ retired' = retired
    BY DEF BeginBuild
  <2> HIDE DEF i
  <2>3. \A j \in Images : Whole(j) => Whole(j)'
    BY <2>1, <2>2 DEF Whole, StorageTypes
  <2> QED  BY <2>2, <2>3
<1>2. \A i \in Images : Qualify(i) => Same /\ Goes
  BY DEF Qualify
<1>3. \A i \in Images : BeginPrepare(i) => Same /\ cmd'.do = "prepare"
  BY DEF BeginPrepare
<1>4. \A o \in Operations : ResumePrepare(o) => Same /\ cmd'.do = "prepare"
  BY DEF ResumePrepare
<1>5. \A o \in Operations : Arm(o) \/ Advance(o) \/ Recover(o) \/ Abandon(o) => Same /\ Goes
  BY DEF Arm, Advance, Recover, Abandon
<1>6. RecordConvergence => Same /\ Goes
  BY DEF RecordConvergence
<1>7. BeginRetire \/ ResumeRetire => Same /\ Goes
  BY DEF BeginRetire, ResumeRetire
<1>8. \A i \in Images, p \in BOOLEAN : BeginCleanup(i, p) => Same /\ cmd'.do = "cleanup"
  BY DEF BeginCleanup
<1>9. ResumeCleanup => Same /\ cmd'.do = "cleanup"
  BY DEF ResumeCleanup
<1>10. PublishCandidate =>
         Goes /\ (\A i \in Images : Whole(i) => Whole(i)') /\ retired' = retired
  <2> SUFFICES ASSUME PublishCandidate
               PROVE  Goes /\ (\A i \in Images : Whole(i) => Whole(i)') /\ retired' = retired
    OBVIOUS
  <2>1. Goes /\ retired' = retired /\ cmd.image \in Images
    BY DEF PublishCandidate, Idle, StorageTypes
  <2>2. \A i \in Images : Whole(i) => Whole(i)'
    BY <2>1 DEF PublishCandidate, Whole, StorageTypes
  <2> QED  BY <2>1, <2>2
<1>11. RecordService \/ AllocateRoot => Same /\ Goes
  BY DEF RecordService, AllocateRoot
<1>12. FillRoot \/ EndRetire \/ EndCleanup \/ KillCommand => Same /\ Goes
  BY DEF FillRoot, EndRetire, EndCleanup, KillCommand, Idle
<1>13. \A g \in Generations : RemoveRoot(g) \/ UnlinkBoot(g) => Same /\ Goes
  BY DEF RemoveRoot, UnlinkBoot
<1>14. \A g \in Generations : Prove(g) => Same /\ Goes
  BY DEF Prove
<1>15. \A i \in Images : RemoveImage(i) =>
         /\ Goes /\ retired' = retired /\ cmd.do = "cleanup" /\ i \in cleanup.items
         /\ \A j \in Images : j # i => store'[j] = store[j]
  <2> TAKE i \in Images
  <2> HAVE RemoveImage(i)
  <2>1. Goes /\ retired' = retired /\ cmd.do = "cleanup" /\ i \in cleanup.items
    BY DEF RemoveImage
  <2>2. \E s : store' = [store EXCEPT ![i] = s]
    BY DEF RemoveImage
  <2> QED  BY <2>1, <2>2 DEF StorageTypes
<1>a. /\ \A i \in Images : Whole(i) =>
           Whole(i)' \/ (cmd.do = "cleanup" /\ i \in cleanup.items)
      /\ retired \subseteq retired'
  <2> HIDE DEF Goes
  <2>1. Same => /\ \A i \in Images : Whole(i) => Whole(i)'
                /\ retired \subseteq retired'
    BY DEF Whole
  <2>2. ASSUME NEW i \in Images, RemoveImage(i)
        PROVE  /\ \A j \in Images : Whole(j) =>
                    Whole(j)' \/ (cmd.do = "cleanup" /\ j \in cleanup.items)
               /\ retired \subseteq retired'
    BY <2>2, <1>15 DEF Whole
  <2> HIDE DEF Same
  <2> QED
    BY <2>1, <2>2, <1>u, <1>1, <1>2, <1>3, <1>4, <1>5, <1>6, <1>7, <1>8, <1>9, <1>10, <1>11,
       <1>12, <1>13, <1>14 DEF Next, CommandStep
<1>b. \/ Goes
      \/ \E i \in Images : BeginPrepare(i)
      \/ \E o \in Operations : ResumePrepare(o)
      \/ \E i \in Images, p \in BOOLEAN : BeginCleanup(i, p)
      \/ ResumeCleanup
  <2> HIDE DEF Goes, Same
  <2> QED
    BY <1>u, <1>1, <1>2, <1>5, <1>6, <1>7, <1>10, <1>11, <1>12, <1>13, <1>14, <1>15
    DEF Next, CommandStep
<1>c. ASSUME cmd'.do = "cleanup"
      PROVE  /\ \A i \in Images : ~BeginPrepare(i)
             /\ \A o \in Operations : ~ResumePrepare(o)
  BY <1>c, <1>3, <1>4
<1>d. ASSUME cmd'.do = "prepare"
      PROVE  /\ \A i \in Images, p \in BOOLEAN : ~BeginCleanup(i, p)
             /\ ~ResumeCleanup
  BY <1>d, <1>8, <1>9
<1> QED  BY <1>a, <1>b, <1>c, <1>d

LEMMA ImagesNext ==
  ASSUME StorageTypes, JournalInv, AttemptInv, ImagesInv, [Next]_vars, StorageTypes'
  PROVE  ImagesInv'
<1>t. \A o \in Operations : op[o].image \in Images
  BY DEF StorageTypes, Attempts
<1>k. ASSUME NEW o \in Recorded
      PROVE  op'[o].image = op[o].image
  BY Keeps DEF Recorded
<1>1. ASSUME NEW i \in Images, Whole(i),
             i \in Referenced \/ cmd.do # "cleanup"
      PROVE  Whole(i)'
  BY <1>1, WhoCleans DEF ImagesInv
<1>2. BoundImages'
  <2>1. ASSUME NEW o \in Recorded', o \notin retired' PROVE Whole(op[o].image)' 
                                                              /\ op'[o].image = op[o].image
    <3>0. o \in Operations /\ o \notin retired
      BY <2>1, WhoCleans DEF Recorded
    <3>1. CASE o \in Recorded
      <4>1. op[o].image \in Referenced /\ Whole(op[o].image)
        BY <3>0, <3>1 DEF Referenced, ImagesInv, BoundImages
      <4>2. op'[o].image = op[o].image
        BY <3>1, <1>k
      <4>3. store'[op[o].image] = "whole"
        BY <4>1, <1>1, <1>t, <3>0 DEF Whole
      <4> QED  BY <4>2, <4>3 DEF Whole
    <3>2. CASE RecordService /\ o = cmd.op
      <4>1. cmd.do = "prepare" /\ op[o].svc = "begun"
        BY <3>2 DEF RecordService
      <4>2. Whole(op[o].image)
        BY <3>2, <4>1 DEF ImagesInv
      <4>3. op'[o].image = op[o].image
        BY <3>0, <4>1, Keeps
      <4>4. store'[op[o].image] = "whole"
        BY <4>1, <4>2, <1>1, <1>t, <3>0 DEF Whole
      <4> QED  BY <4>3, <4>4 DEF Whole
    <3> QED  BY <3>0, <3>1, <3>2, <2>1, Recorders DEF RecordedSoFar
  <2>2. Base \notin retired' => Whole(BaseImage)'
    <3> SUFFICES ASSUME Base \notin retired' PROVE Whole(BaseImage)'
      OBVIOUS
    <3>1. Base \notin retired
      BY WhoCleans
    <3>2. Whole(BaseImage) /\ BaseImage \in Referenced
      BY <3>1 DEF ImagesInv, BoundImages, Referenced
    <3> QED  BY <3>2, <1>1, ConstantsAssumption
  <2> QED  BY <2>1, <2>2 DEF BoundImages, Whole
<1>3. ASSUME cmd'.do = "prepare" PROVE store'[op'[cmd'.op].image] = "whole"
  <2>1. ASSUME NEW i \in Images, BeginPrepare(i) PROVE store'[op'[cmd'.op].image] = "whole"
    <3>1. PICK o \in Operations :
            /\ cmd' = [do |-> "prepare", op |-> o]
            /\ op'[o] = [svc |-> "begun", journal |-> "none", source |-> Selected, image |-> i]
      BY <2>1, Prepares DEF StorageTypes
    <3>2. Whole(i) /\ store' = store
      BY <2>1 DEF BeginPrepare, Usable, images
    <3> QED  BY <3>1, <3>2 DEF Whole
  <2>2. ASSUME NEW o \in Operations, ResumePrepare(o)
        PROVE  store'[op'[cmd'.op].image] = "whole"
    BY <2>2 DEF ResumePrepare, Usable, images, guests, Whole
  <2>3. CASE cmd' = cmd
    <3>1. /\ cmd.do = "prepare" /\ cmd.op \in Operations /\ op[cmd.op].svc # "none"
          /\ Whole(op[cmd.op].image)
      BY <1>3, <2>3 DEF StorageTypes, AttemptInv, ImagesInv
    <3>2. op'[cmd.op].image = op[cmd.op].image
      BY <3>1, Keeps
    <3>3. Whole(op[cmd.op].image) /\ op[cmd.op].image \in Images /\ cmd.do # "cleanup"
      BY <3>1, <1>t
    <3> DEFINE i == op[cmd.op].image
    <3>4. store'[i] = "whole"
      BY <3>3, <1>1 DEF Whole
    <3> QED  BY <2>3, <3>2, <3>4
  <2> QED  BY <1>3, <2>1, <2>2, <2>3, WhoCleans
<1>4. ASSUME cmd'.do = "cleanup" PROVE cleanup'.items \cap Referenced' = {}
  <2>1. ASSUME NEW i \in Images, NEW p \in BOOLEAN, BeginCleanup(i, p)
        PROVE  cleanup'.items \cap Referenced' = {}
    <3>1. /\ cleanup' = [items |-> Removals(i, p), current |-> i]
          /\ op' = op /\ retired' = retired
      BY <2>1 DEF BeginCleanup, guests
    <3>2. Referenced' = Referenced
      BY <3>1 DEF Referenced, Recorded
    <3>3. Removals(i, p) \cap Referenced = {}
      BY DEF Removals
    <3> QED  BY <3>1, <3>2, <3>3
  <2>2. CASE ResumeCleanup
    <3>1. /\ cleanup' = cleanup /\ op' = op /\ retired' = retired
          /\ cleanup.items \cap Referenced = {}
      BY <2>2 DEF ResumeCleanup, guests
    <3>2. Referenced' = Referenced
      BY <3>1 DEF Referenced, Recorded
    <3> QED  BY <3>1, <3>2
  <2>3. CASE cmd' = cmd /\ cleanup' = cleanup
    <3>1. cleanup.items \cap Referenced = {}
      BY <1>4, <2>3 DEF ImagesInv
    <3>2. \A o \in Recorded' : o \in Recorded
      BY <1>4, <2>3, Recorders DEF RecordedSoFar, RecordService, Recorded
    <3>3. \A o \in Recorded' \ retired' :
            o \in Recorded \ retired /\ op'[o].image = op[o].image
      BY <3>2, <1>k, WhoCleans
    <3>4. Base \notin retired' => Base \notin retired
      BY WhoCleans
    <3>5. Referenced' \subseteq Referenced
      BY <3>3, <3>4 DEF Referenced
    <3> QED  BY <2>3, <3>1, <3>5
  <2> QED  BY <1>4, <2>1, <2>2, <2>3, WhoCleans
<1> QED  BY <1>2, <1>3, <1>4 DEF ImagesInv, Whole

-----------------------------------------------------------------------------
(* The theorems.                                                           *)

LEMMA StorageInit ==
  ASSUME Init
  PROVE  StorageInv
<1> USE ConstantsAssumption DEF Init
<1>0. \A o \in Operations : op[o] = Unused
  OBVIOUS
<1>1. StorageTypes
  BY DEF StorageTypes, Attempts, Unused, Generations, Parts, Idle
<1>2. Pending = {} /\ Recorded = {} /\ Selected = Base
  BY <1>0 DEF Pending, Recorded, Selected, Unused
<1>3. JournalInv /\ AttemptInv
  BY <1>0, <1>2 DEF JournalInv, AttemptInv, Unused, Idle, Journal
<1>4. PlanInv
  BY DEF PlanInv, Idle
<1>5. RecoverableRoots
  BY <1>2 DEF RecoverableRoots, Generations
<1>6. ImagesInv
  BY <1>2 DEF ImagesInv, BoundImages, Whole, Idle
<1> QED  BY <1>1, <1>3, <1>4, <1>5, <1>6 DEF StorageInv

(* Every state of preparing, retiring and cleaning up on a dom0 satisfies  *)
(* the inductive invariant: records, plans, roots and images agree.        *)
THEOREM StorageCorrect == Spec => []StorageInv
<1>1. Init => StorageInv
  BY StorageInit
<1>2. StorageInv /\ [Next]_vars => StorageInv'
  BY TypesNext, JournalNext, AttemptNext, PlanNext, RootsNext, ImagesNext DEF StorageInv
<1> QED  BY <1>1, <1>2, PTL DEF Spec

(* vm-common's retirement, interrupted and resumed at will, never removes  *)
(* a root or a configuration that a boot, a recovery or a return needs.    *)
THEOREM RootsRecoverable == Spec => []RecoverableRoots
<1>1. StorageInv => RecoverableRoots
  BY DEF StorageInv
<1> QED  BY <1>1, StorageCorrect, PTL

(* The cleanup of images, whose plan may be older than the attempt that    *)
(* uses an image, never breaks one that an attempt or a kept generation    *)
(* was made from.                                                          *)
THEOREM ImagesBound == Spec => []BoundImages
<1>1. StorageInv => BoundImages
  BY DEF StorageInv, ImagesInv
<1> QED  BY <1>1, StorageCorrect, PTL

=============================================================================
