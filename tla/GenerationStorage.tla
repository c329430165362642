------------------------- MODULE GenerationStorage -------------------------
(***************************************************************************)
(* What replacements leave behind on a dom0, and how it is removed again.  *)
(*                                                                         *)
(* Each attempt to replace the guest of a role has a directory, a root     *)
(* volume, boot files and the image it was made from.  Two commands remove *)
(* what is no longer needed: "--retire-older" the roots and boot files of  *)
(* older generations, and "cleanup" the images that nothing refers to any  *)
(* more.  Both save an exact plan before they delete and resume a saved    *)
(* plan before they make another.  A saved plan meets whatever has been    *)
(* prepared, armed, recovered, abandoned and built since.                  *)
(*                                                                         *)
(* Every command holds the build lock of the dom0 and may be killed        *)
(* anywhere.  A guest that is stopped, or has been reconfigured by hand,   *)
(* makes a command refuse, which changes nothing.  The retained data       *)
(* volume is no part of this: neither command names it.                    *)
(***************************************************************************)
EXTENDS Naturals, FiniteSets

CONSTANTS
    Operations,  \* attempts to replace the guest
    Base,        \* the original assignment, from before the first attempt
    Images,      \* identifiers of builds
    BaseImage,   \* the image the original assignment was made from
    MaxKills     \* bound: commands killed on the way

ASSUME ConstantsAssumption ==
    /\ Base \notin Operations
    /\ BaseImage \in Images

Generations == Operations \cup {Base}

Parts == {"root", "boot", "cfg"}  \* root volume, kernel and initramfs, new.cfg

VARIABLES
    infra,      \* the role is a controller or runner, which keeps one root
    op,         \* operations/<id>: service.json, journal.json, source and image
    assigned,   \* the operation that active/<role>.json selects
    kept,       \* what exists of each generation
    converged,  \* operations whose service.json records a convergence
    retired,    \* generations with retired.json
    plan,       \* the saved retirement plan that is not complete
    store,      \* candidates/<id> of each image
    qualified,  \* images with release evidence
    cleanup,    \* the saved image cleanup plan that is not complete
    cmd,        \* the command that holds the build lock
    kills

vars == <<infra, op, assigned, kept, converged, retired, plan,
          store, qualified, cleanup, cmd, kills>>

guests == <<op, assigned, kept, converged>>
images == <<store, qualified>>

None == [none |-> TRUE]
Idle == [do |-> "idle"]
Unused == [svc |-> "none", journal |-> "none", source |-> Base, image |-> BaseImage]

-----------------------------------------------------------------------------
(* What the records say.                                                   *)

Journal(o) == op[o].journal

\* A controller recovered to its source still has that source installed.
Selected ==
    IF assigned = Base THEN Base
    ELSE IF Journal(assigned) = "complete" THEN assigned
    ELSE op[assigned].source

Installed ==
    IF assigned = Base \/ Journal(assigned) \notin {"complete", "recovered"} THEN Base
    ELSE IF Journal(assigned) = "complete" THEN assigned
    ELSE IF infra THEN op[assigned].source ELSE Base

Pending ==
    {o \in Operations :
        /\ op[o].svc \in {"allocated", "prepared", "abandoned"}
        /\ Journal(o) # "complete"
        /\ ~(op[o].svc = "abandoned" /\ Journal(o) \in {"none", "recovered"})}

Whole(i) == store[i] = "whole"
Usable(i) == Whole(i) /\ i \in qualified

-----------------------------------------------------------------------------
(* The reader of all references, which the cleanup and the preflight of    *)
(* every build rely on.  It gives up rather than miss a reference.         *)

Recorded == {o \in Operations : op[o].svc \notin {"none", "begun"}}

ProofHolds(g) ==
    \/ kept[g] = {}
    \/ g \in Operations /\ op[g].svc = "abandoned" /\ kept[g] = {"cfg"}

\* A pointer may select a retired attempt only when it was recovered to a
\* source that is accepted and kept.
PointerReadable ==
    assigned \in retired =>
        /\ infra /\ op[assigned].svc = "abandoned" /\ Journal(assigned) = "recovered"
        /\ op[assigned].source \in Operations \ retired
        /\ Journal(op[assigned].source) = "complete"

Readable ==
    /\ \A o \in Operations : op[o].svc # "begun"
    /\ \A o \in Recorded :
          IF Journal(o) = "none" THEN op[o].svc = "abandoned"
          ELSE Journal(o) \in {"complete", "recovered"}
    /\ \A g \in retired : ProofHolds(g)
    /\ PointerReadable

Referenced ==
    {op[o].image : o \in Recorded \ retired}
        \cup (IF Base \in retired THEN {} ELSE {BaseImage})

-----------------------------------------------------------------------------
Init ==
    /\ infra \in BOOLEAN
    /\ op = [o \in Operations |-> Unused]
    /\ assigned = Base
    /\ kept = [g \in Generations |-> IF g = Base THEN Parts ELSE {}]
    /\ converged = {}
    /\ retired = {}
    /\ plan = None
    /\ store = [i \in Images |-> IF i = BaseImage THEN "whole" ELSE "none"]
    /\ qualified = {BaseImage}
    /\ cleanup = None
    /\ cmd = Idle
    /\ kills = 0

Rest == UNCHANGED <<infra, kills>>

-----------------------------------------------------------------------------
(* Builds: the directory, the artifacts by renames, then candidate.json.   *)
(* Operation and build identifiers are random, so any unused one stands    *)
(* for the others.                                                         *)

\* Refused before anything is downloaded when the references are in doubt.
Preflight == Readable

BeginBuild ==
    /\ cmd = Idle
    /\ Preflight
    /\ \E i \in Images : store[i] = "none"
    /\ LET i == CHOOSE j \in Images : store[j] = "none" IN
          /\ store' = [store EXCEPT ![i] = "partial"]
          /\ cmd' = [do |-> "build", image |-> i]
    /\ UNCHANGED <<guests, retired, plan, qualified, cleanup>> /\ Rest

PublishCandidate ==
    /\ cmd.do = "build"
    /\ store' = [store EXCEPT ![cmd.image] = "whole"]
    /\ cmd' = Idle
    /\ UNCHANGED <<guests, retired, plan, qualified, cleanup>> /\ Rest

(* The controller has fetched and judged the evidence.                     *)
Qualify(i) ==
    /\ Whole(i) /\ i \notin qualified
    /\ qualified' = qualified \cup {i}
    /\ UNCHANGED <<guests, retired, plan, store, cleanup, cmd>> /\ Rest

-----------------------------------------------------------------------------
(* An attempt: prepared, armed, taken past its boundary and completed, or  *)
(* recovered, or abandoned.                                                *)

(* The directory and old.cfg come before service.json.                     *)
BeginPrepare(i) ==
    /\ cmd = Idle
    /\ Pending = {}
    /\ Usable(i)
    /\ \E o \in Operations : op[o] = Unused
    /\ LET o == CHOOSE p \in Operations : op[p] = Unused IN
          /\ op' = [op EXCEPT ![o] = [svc |-> "begun", journal |-> "none",
                                      source |-> Selected, image |-> i]]
          /\ cmd' = [do |-> "prepare", op |-> o]
    /\ UNCHANGED <<assigned, kept, converged, retired, plan, images, cleanup>>
    /\ Rest

RecordService ==
    /\ cmd.do = "prepare"
    /\ op[cmd.op].svc = "begun"
    /\ op' = [op EXCEPT ![cmd.op].svc = "allocated"]
    /\ UNCHANGED <<assigned, kept, converged, retired, plan, images, cleanup, cmd>>
    /\ Rest

AllocateRoot ==
    /\ cmd.do = "prepare"
    /\ op[cmd.op].svc = "allocated"
    /\ "root" \notin kept[cmd.op]
    /\ kept' = [kept EXCEPT ![cmd.op] = @ \cup {"root"}]
    /\ UNCHANGED <<op, assigned, converged, retired, plan, images, cleanup, cmd>>
    /\ Rest

(* The image is copied and read back.                                      *)
FillRoot ==
    /\ cmd.do = "prepare"
    /\ op[cmd.op].svc = "allocated"
    /\ "root" \in kept[cmd.op]
    /\ Usable(op[cmd.op].image)
    /\ kept' = [kept EXCEPT ![cmd.op] = Parts]
    /\ op' = [op EXCEPT ![cmd.op].svc = "prepared"]
    /\ cmd' = Idle
    /\ UNCHANGED <<assigned, converged, retired, plan, images, cleanup>> /\ Rest

ResumePrepare(o) ==
    /\ cmd = Idle
    /\ op[o].svc = "allocated"
    /\ Usable(op[o].image)
    /\ cmd' = [do |-> "prepare", op |-> o]
    /\ UNCHANGED <<guests, retired, plan, images, cleanup>> /\ Rest

Arm(o) ==
    /\ cmd = Idle
    /\ op[o].svc = "prepared" /\ Journal(o) = "none"
    /\ op' = [op EXCEPT ![o].journal = "armed"]
    /\ assigned' = o
    /\ UNCHANGED <<kept, converged, retired, plan, images, cleanup, cmd>> /\ Rest

(* Past the boundary an attempt can only be completed; before it, the      *)
(* watchdog, boot recovery and operators recover it without the lock.      *)
Advance(o) ==
    /\ cmd = Idle
    /\ op[o].svc = "prepared"
    /\ \/ Journal(o) = "armed" /\ op' = [op EXCEPT ![o].journal = "crossed"]
       \/ Journal(o) = "crossed" /\ op' = [op EXCEPT ![o].journal = "complete"]
    /\ UNCHANGED <<assigned, kept, converged, retired, plan, images, cleanup, cmd>>
    /\ Rest

Recover(o) ==
    /\ Journal(o) = "armed"
    /\ op' = [op EXCEPT ![o].journal = "recovered"]
    /\ UNCHANGED <<assigned, kept, converged, retired, plan, images, cleanup, cmd>>
    /\ Rest

Abandon(o) ==
    /\ cmd = Idle
    /\ op[o].svc \in {"allocated", "prepared"}
    /\ Journal(o) \in {"none", "armed", "recovered"}
    /\ op' = [op EXCEPT ![o].svc = "abandoned",
                        ![o].journal = IF @ = "armed" THEN "recovered" ELSE @]
    /\ UNCHANGED <<assigned, kept, converged, retired, plan, images, cleanup, cmd>>
    /\ Rest

(* A controller's convergence is recorded in its service.json, under the   *)
(* transaction lock that a retirement also holds.                          *)
RecordConvergence ==
    /\ infra
    /\ cmd.do # "retire"
    /\ assigned # Base /\ Journal(assigned) = "complete"
    /\ converged' = converged \cup {assigned}
    /\ UNCHANGED <<op, assigned, kept, retired, plan, images, cleanup, cmd>>
    /\ Rest

-----------------------------------------------------------------------------
(* Retirement of older generations.                                        *)

\* Seeded fault: one generation is kept for every role.
RecentOne == {Installed}

\* An accepted generation's source is the one accepted before it.
Recent == {Installed} \cup (IF infra THEN {} ELSE {op[Installed].source})

History == {o \in Operations : Journal(o) = "complete"} \cup {Base}

Unbooted ==
    IF infra
    THEN {o \in Operations : op[o].svc = "abandoned" /\ Journal(o) = "recovered"}
    ELSE {}

Items == ((History \ Recent) \cup Unbooted) \ retired

\* What is deleted of a generation: an unbooted attempt keeps new.cfg,
\* which every reader of the attempt reads.
Deleted(g) == IF g \in Operations /\ op[g].svc = "abandoned" THEN {"root", "boot"} ELSE Parts

BeginRetire ==
    /\ cmd = Idle
    /\ plan = None
    /\ Pending = {}
    /\ Installed # Base
    /\ Items # {}
    /\ plan' = [items |-> Items, current |-> assigned, audit |-> converged]
    /\ cmd' = [do |-> "retire"]
    /\ UNCHANGED <<guests, retired, images, cleanup>> /\ Rest

\* A saved plan is bound to the assignment and to the records it has read.
Overtaken == plan # None /\ (assigned # plan.current \/ converged # plan.audit)

\* Seeded fault: a root that an interrupted run has removed is missed.
ResumeRetireIntact ==
    /\ cmd = Idle
    /\ plan # None
    /\ Pending = {}
    /\ ~Overtaken
    /\ \A g \in plan.items : "root" \in kept[g]
    /\ cmd' = [do |-> "retire"]
    /\ UNCHANGED <<guests, retired, plan, images, cleanup>> /\ Rest

ResumeRetire ==
    /\ cmd = Idle
    /\ plan # None
    /\ Pending = {}
    /\ ~Overtaken
    /\ cmd' = [do |-> "retire"]
    /\ UNCHANGED <<guests, retired, plan, images, cleanup>> /\ Rest

RemoveRoot(g) ==
    /\ cmd.do = "retire"
    /\ g \in plan.items /\ "root" \in kept[g]
    /\ kept' = [kept EXCEPT ![g] = @ \ {"root"}]
    /\ UNCHANGED <<op, assigned, converged, retired, plan, images, cleanup, cmd>>
    /\ Rest

UnlinkBoot(g) ==
    /\ cmd.do = "retire"
    /\ g \in plan.items /\ "root" \notin kept[g] /\ kept[g] \cap Deleted(g) # {}
    /\ \E part \in kept[g] \cap Deleted(g) : kept' = [kept EXCEPT ![g] = @ \ {part}]
    /\ UNCHANGED <<op, assigned, converged, retired, plan, images, cleanup, cmd>>
    /\ Rest

(* After all deletions, and the commit of the LVM metadata.                *)
Prove(g) ==
    /\ cmd.do = "retire"
    /\ \A h \in plan.items : kept[h] \cap Deleted(h) = {}
    /\ g \in plan.items \ retired
    /\ retired' = retired \cup {g}
    /\ UNCHANGED <<guests, plan, images, cleanup, cmd>> /\ Rest

EndRetire ==
    /\ cmd.do = "retire"
    /\ plan.items \subseteq retired
    /\ \A h \in plan.items : kept[h] \cap Deleted(h) = {}
    /\ plan' = None
    /\ cmd' = Idle
    /\ UNCHANGED <<guests, retired, images, cleanup>> /\ Rest

-----------------------------------------------------------------------------
(* Cleanup of images.                                                      *)

\* Images with complete evidence that neither the records, nor the image to
\* keep, nor the wish to preserve qualified ones holds.
Removals(current, preserve) ==
    {i \in Images : Whole(i)}
        \ (Referenced \cup {current} \cup (IF preserve THEN qualified ELSE {}))

BeginCleanup(current, preserve) ==
    /\ cmd = Idle
    /\ cleanup = None
    /\ Readable
    /\ Usable(current)
    /\ Removals(current, preserve) # {}
    /\ cleanup' = [items |-> Removals(current, preserve), current |-> current]
    /\ cmd' = [do |-> "cleanup"]
    /\ UNCHANGED <<guests, retired, plan, images>> /\ Rest

\* Seeded fault: a resumed plan is not compared with the references.
ResumeCleanupBlindly ==
    /\ cmd = Idle
    /\ cleanup # None
    /\ Readable
    /\ Whole(cleanup.current)
    /\ cmd' = [do |-> "cleanup"]
    /\ UNCHANGED <<guests, retired, plan, images, cleanup>> /\ Rest

ResumeCleanup ==
    /\ cmd = Idle
    /\ cleanup # None
    /\ Readable
    /\ cleanup.items \cap Referenced = {}
    /\ Whole(cleanup.current)
    /\ cmd' = [do |-> "cleanup"]
    /\ UNCHANGED <<guests, retired, plan, images, cleanup>> /\ Rest

(* The artifacts one by one, then candidate.json, then the directory.      *)
RemoveImage(i) ==
    /\ cmd.do = "cleanup"
    /\ i \in cleanup.items
    /\ \/ store[i] = "whole" /\ store' = [store EXCEPT ![i] = "cut"]
       \/ store[i] = "cut" /\ store' = [store EXCEPT ![i] = "bare"]
       \/ store[i] = "bare" /\ store' = [store EXCEPT ![i] = "gone"]
    /\ UNCHANGED <<guests, retired, plan, qualified, cleanup, cmd>> /\ Rest

EndCleanup ==
    /\ cmd.do = "cleanup"
    /\ \A i \in cleanup.items : store[i] = "gone"
    /\ cleanup' = None
    /\ cmd' = Idle
    /\ UNCHANGED <<guests, retired, plan, images>> /\ Rest

-----------------------------------------------------------------------------
KillCommand ==
    /\ cmd # Idle
    /\ kills < MaxKills
    /\ kills' = kills + 1
    /\ cmd' = Idle
    /\ UNCHANGED <<infra, guests, retired, plan, images, cleanup>>

CommandStep ==
    \/ PublishCandidate
    \/ RecordService \/ AllocateRoot \/ FillRoot
    \/ \E g \in Generations : RemoveRoot(g) \/ UnlinkBoot(g) \/ Prove(g)
    \/ EndRetire
    \/ \E i \in Images : RemoveImage(i)
    \/ EndCleanup

Next ==
    \/ BeginBuild
    \/ \E i \in Images : Qualify(i) \/ BeginPrepare(i)
    \/ \E o \in Operations :
          ResumePrepare(o) \/ Arm(o) \/ Advance(o) \/ Recover(o) \/ Abandon(o)
    \/ RecordConvergence
    \/ BeginRetire \/ ResumeRetire
    \/ \E i \in Images, p \in BOOLEAN : BeginCleanup(i, p)
    \/ ResumeCleanup
    \/ CommandStep
    \/ KillCommand

(* A command that runs goes on, and both deletions are repeated.           *)
Fairness ==
    /\ WF_vars(CommandStep)
    /\ SF_vars(ResumeRetire)
    /\ SF_vars(ResumeCleanup)

Spec == Init /\ [][Next]_vars /\ Fairness

-----------------------------------------------------------------------------
(* What is never removed, and what can always be removed.                  *)

(* "Keep the current and previous common OS roots", and for controllers    *)
(* the current one: whatever plans were interrupted and resumed, the       *)
(* selected generation can be booted again, so can the source that an      *)
(* unfinished attempt would return to, and the previous generation of a    *)
(* service; and the attempt that the pointer names keeps the configuration *)
(* that boot recovery reads before it does anything.                       *)
RecoverableRoots ==
    /\ kept[Selected] = Parts
    /\ \A o \in Pending :
          /\ kept[op[o].source] = Parts
          /\ op[o].svc = "prepared" => kept[o] = Parts
    /\ ~infra /\ Selected # Base => kept[op[Selected].source] = Parts
    /\ assigned # Base => "cfg" \in kept[assigned]

(* An image stays whole while an attempt may still copy it and while a     *)
(* generation made from it is not proved retired, although a cleanup plan  *)
(* may have been saved before the attempt was prepared.                    *)
BoundImages ==
    /\ \A o \in Recorded \ retired : Whole(op[o].image)
    /\ Base \notin retired => Whole(BaseImage)

(* Both deletions can be repeated to their end: an interrupted retirement  *)
(* unless its assignment or records have moved on, an interrupted cleanup  *)
(* unless one of its images has been taken into use.                       *)
DeletionsEnd ==
    /\ []<>(plan = None \/ Overtaken \/ Pending # {})
    /\ []<>(cleanup = None \/ ~Readable \/ cleanup.items \cap Referenced # {})

=============================================================================
