----------------------------- MODULE ColdEvidence -----------------------------
(***************************************************************************)
(* What one cold test of a router leaves behind on its dom0, from the      *)
(* first staged byte to the last removed file: the directory of the        *)
(* operation under cold-backups/, its backup volume and the guest that     *)
(* inspects the backup (router_cold_filesystem.py, router_cold_disk.py,    *)
(* router_cold_backup.py, router_cold_health.py, router_cold_supervisor.py)*)
(*                                                                         *)
(*   staging     boot artifacts for the inspector arrive part by part      *)
(*   capture     the metadata of the original is copied                    *)
(*   allocate    the backup volume is made                                 *)
(*   the cycle   a worker stops the original, copies its disk, inspects    *)
(*               the copy, opens the window and puts the original back     *)
(*   health      the boot fence is cleared                                 *)
(*   removal     unused staging, an unused backup with its boot artifacts, *)
(*               or a used backup with the inspector's files               *)
(*                                                                         *)
(* RouterColdTest has what the open window and the return do to the        *)
(* router; here the window is one state, "held".  Commands take the router *)
(* lock and may be killed at every durable write; the worker also holds    *)
(* the supervisor lock, from its start to its end.                         *)
(***************************************************************************)
EXTENDS Naturals

CONSTANTS
  PartsOf,   \* the number of parts of the kernel and of the initramfs
  Budget     \* bound: kills, failures, power losses and aged receipts

Artifacts == {"kernel", "initramfs"}
Written   == {"result.slot", "job.slot", "guest.cfg"}
Files     == Artifacts \cup Written
Kinds     == {"staging", "prepared", "used"}

ASSUME PartsAssumption == PartsOf \in [Artifacts -> Nat \ {0}]
ASSUME BudgetAssumption == Budget \in Nat

VARIABLES
  dir,      \* the directory of the operation and the intent of its staging
  phase,    \* of bootstrap-staging-state.json
  own,      \* the ledgers of files: who may have written what
  next,     \* parts received of each artifact
  capsule,  \* filesystem-bootstrap.json
  meta,     \* intent.json and manifest.json of the metadata
  disk,     \* disk.json: its stage and the hash of the source
  request,  \* supervised-request.json
  launch,   \* the grant, the worker's single launch and its failure
  proof,    \* the writes ledger and filesystem.json
  result,   \* supervisor-result.json and return-intent.json
  health,   \* health.json and completion.json
  removal,  \* intent and completion of the two removals of the backup
  clean,    \* plan, progress and completion of each collection of files
  marker,   \* cold-test.json
  work,     \* the names in filesystem/, and sizes of files in half parts
  lv,       \* the backup volume and what is on it
  live,     \* the original router runs
  runs,     \* the original's data: 1 until it has been restarted, then 2
  guest,    \* the inspector
  loops,    \* slots with a loop device
  sup,      \* the place of the worker outside the router lock
  hand,     \* the command that holds the router lock
  late,     \* what has expired: nothing, the grant, the window
  left      \* failures left

ledgers == <<dir, phase, own, next, capsule>>
records == <<meta, disk, request, launch, proof, result, health>>
ends    == <<removal, clean>>
xen     == <<live, runs, guest, loops>>
vars    == <<ledgers, records, ends, marker, work, lv, xen, sup, hand, late, left>>

Idle    == [do |-> "idle"]
NoPlan  == [saved |-> FALSE, files |-> {}, removed |-> {}, mark |-> "none", done |-> FALSE]

Init ==
  /\ dir = "none" /\ phase = "none"
  /\ own = [f \in Files |-> "none"] /\ next = [f \in Artifacts |-> 0]
  /\ capsule = FALSE /\ meta = "none"
  /\ disk = [stage |-> "none", hash |-> 0]
  /\ request = FALSE /\ launch = "none"
  /\ proof = "none"
  /\ result = [kind |-> "none", returning |-> FALSE, raised |-> FALSE]
  /\ health = [receipt |-> "none", complete |-> FALSE]
  /\ removal = [abort |-> "none", seen |-> "none", used |-> "none"]
  /\ clean = [k \in Kinds |-> NoPlan]
  /\ marker = "none"
  /\ work = [there |-> {}, size |-> [f \in Files |-> 0]]
  /\ lv = [there |-> FALSE, data |-> 0]
  /\ live = TRUE /\ runs = 1 /\ guest = "none" /\ loops = {}
  /\ sup = "idle" /\ hand = Idle
  /\ late = "nothing" /\ left = Budget

-----------------------------------------------------------------------------
(* What the commands look at.                                              *)

There(f) == f \in work.there
Full(f)  == IF f \in Artifacts THEN 2 * PartsOf[f] ELSE 2
Whole(f) == There(f) /\ work.size[f] = Full(f)

LockFree == hand = Idle
Supervised == sup \notin {"idle", "dead", "over"}

(* The accepted original runs, and no test has begun or has been cleared.  *)
Original == live /\ marker = "none"

Inspected == guest # "none" \/ loops # {}

(* Nothing says that an outage began.                                      *)
NoOutage ==
  /\ result = [result EXCEPT !.kind = "none", !.returning = FALSE]
  /\ proof # "proven" /\ ~health.complete

(* A grant leaves four files behind; only a finished failed parent whose   *)
(* grant has expired is sure never to arm.                                 *)
FailedBeforeArm == launch = "none" \/ (launch = "failed" /\ late # "nothing")

RefuseRetired == removal.abort = "none" /\ removal.used = "none"

Staged == dir = "intent" /\ phase # "none"
Ready  == phase = "ready" /\ capsule
Capsule == capsule /\ \A f \in Artifacts : Whole(f)

(* What a supervised request must find, each time it is read.              *)
Prepared ==
  /\ Original /\ meta = "manifest" /\ Capsule
  /\ disk.stage = "allocated" /\ lv.there
  /\ removal.abort = "none" /\ late = "nothing"

Take(do, pc) == hand' = [do |-> do, pc |-> pc]
With(do, pc, f) == hand' = [do |-> do, pc |-> pc, file |-> f]
At(do, pc)   == hand # Idle /\ hand.do = do /\ hand.pc = pc
Give         == hand' = Idle

Grow(f, n) == work' = [there |-> work.there \cup {f}, size |-> [work.size EXCEPT ![f] = n]]

-----------------------------------------------------------------------------
(* Staging of the boot artifacts.                                          *)

StartStaging ==
  /\ LockFree /\ Original /\ dir = "none"
  /\ dir' = "made"
  /\ Take("stage", "intent")
  /\ UNCHANGED <<phase, own, next, capsule, records, ends, marker, work, lv, xen, sup, late, left>>

RecordStaging ==
  /\ \/ /\ At("stage", "intent")
        /\ dir' = "intent" /\ Take("stage", "state") /\ UNCHANGED phase
     \/ /\ At("stage", "state")
        /\ phase' = "receiving" /\ Give /\ UNCHANGED dir
  /\ UNCHANGED <<own, next, capsule, records, ends, marker, work, lv, xen, sup, late, left>>

(* A part is taken only in its order, while the phase is open and no       *)
(* earlier write was interrupted.                                          *)
PartExpected(f) == own[f] \in {"none", "creating", "owned"} /\ next[f] < PartsOf[f]

\* Seeded fault: a receiver that read stdin for long does not see the phase.
ReceivePartLate(f) ==
  /\ LockFree /\ Staged /\ Original
  /\ PartExpected(f)
  /\ own' = [own EXCEPT ![f] = IF @ = "none" THEN "creating" ELSE @]
  /\ With("receive", IF own'[f] = "creating" THEN "create" ELSE "begin", f)
  /\ UNCHANGED <<dir, phase, next, capsule, records, ends, marker, work, lv, xen, sup, late, left>>

ReceivePart(f) ==
  /\ LockFree /\ Staged /\ Original /\ phase = "receiving"
  /\ PartExpected(f)
  /\ own' = [own EXCEPT ![f] = IF @ = "none" THEN "creating" ELSE @]
  /\ With("receive", IF own'[f] = "creating" THEN "create" ELSE "begin", f)
  /\ UNCHANGED <<dir, phase, next, capsule, records, ends, marker, work, lv, xen, sup, late, left>>

(* An empty file without a recorded inode is adopted.                      *)
CreateArtifact ==
  /\ hand # Idle /\ hand.do = "receive" /\ hand.pc \in {"create", "adopt"}
  /\ LET f == hand.file IN
     IF hand.pc = "create" /\ ~There(f)
       THEN Grow(f, 0) /\ With("receive", "adopt", f) /\ UNCHANGED own
       ELSE /\ work.size[f] = 0
            /\ own' = [own EXCEPT ![f] = "owned"]
            /\ With("receive", "begin", f) /\ UNCHANGED work
  /\ UNCHANGED <<dir, phase, next, capsule, records, ends, marker, lv, xen, sup, late, left>>

BeginPart ==
  /\ At("receive", "begin")
  /\ There(hand.file) /\ work.size[hand.file] = 2 * next[hand.file]
  /\ own' = [own EXCEPT ![hand.file] = "writing"]
  /\ With("receive", "append", hand.file)
  /\ UNCHANGED <<dir, phase, next, capsule, records, ends, marker, work, lv, xen, sup, late, left>>

(* An append reaches the disk in pieces.                                   *)
AppendPart ==
  /\ At("receive", "append")
  /\ LET f == hand.file IN
     /\ Grow(f, work.size[f] + 1)
     /\ With("receive", IF work.size[f] % 2 = 0 THEN "append" ELSE "received", f)
  /\ UNCHANGED <<ledgers, records, ends, marker, lv, xen, sup, late, left>>

RecordPart ==
  /\ At("receive", "received")
  /\ own'  = [own EXCEPT ![hand.file] = "owned"]
  /\ next' = [next EXCEPT ![hand.file] = @ + 1]
  /\ Give
  /\ UNCHANGED <<dir, phase, capsule, records, ends, marker, work, lv, xen, sup, late, left>>

FinishStaging ==
  /\ LockFree /\ Staged /\ Original /\ phase = "receiving"
  /\ work.there = Artifacts
  /\ \A f \in Artifacts : own[f] = "owned" /\ next[f] = PartsOf[f] /\ Whole(f)
  /\ capsule' = TRUE
  /\ Take("finish", "ready")
  /\ UNCHANGED <<dir, phase, own, next, records, ends, marker, work, lv, xen, sup, late, left>>

CloseReady ==
  /\ At("finish", "ready")
  /\ phase' = "ready" /\ Give
  /\ UNCHANGED <<dir, own, next, capsule, records, ends, marker, work, lv, xen, sup, late, left>>

-----------------------------------------------------------------------------
(* Metadata, backup volume, request and grant.                             *)

(* Only a completed staging can be captured.                               *)
Capture ==
  /\ LockFree
  /\ dir = "intent" /\ Ready /\ meta # "manifest"
  /\ meta' = "intent"
  /\ Take("capture", "manifest")
  /\ UNCHANGED <<ledgers, disk, request, launch, proof, result, health, ends, marker,
                 work, lv, xen, sup, late, left>>

CompleteCapture ==
  /\ At("capture", "manifest")
  /\ meta' = "manifest" /\ Give
  /\ UNCHANGED <<ledgers, disk, request, launch, proof, result, health, ends, marker,
                 work, lv, xen, sup, late, left>>

(* A volume whose identity was not recorded is never adopted.              *)
Allocate ==
  /\ LockFree /\ meta = "manifest" /\ RefuseRetired
  /\ disk.stage \in {"none", "planned"} /\ ~lv.there
  /\ disk' = [disk EXCEPT !.stage = "planned"]
  /\ Take("allocate", "lvcreate")
  /\ UNCHANGED <<ledgers, meta, request, launch, proof, result, health, ends, marker,
                 work, lv, xen, sup, late, left>>

AllocateVolume ==
  /\ \/ /\ At("allocate", "lvcreate")
        /\ lv' = [there |-> TRUE, data |-> 0]
        /\ Take("allocate", "record") /\ UNCHANGED disk
     \/ /\ At("allocate", "record")
        /\ disk' = [disk EXCEPT !.stage = "allocated"]
        /\ Give /\ UNCHANGED lv
  /\ UNCHANGED <<ledgers, meta, request, launch, proof, result, health, ends, marker,
                 work, xen, sup, late, left>>

StageRequest ==
  /\ LockFree /\ Prepared /\ ~request
  /\ request' = TRUE
  /\ UNCHANGED <<ledgers, meta, disk, launch, proof, result, health, ends, marker,
                 work, lv, xen, sup, hand, late, left>>

(* The controller grants the outage without a look at the dom0.            *)
Grant ==
  /\ request /\ launch = "none"
  /\ launch' = "granted"
  /\ UNCHANGED <<ledgers, meta, disk, request, proof, result, health, ends, marker,
                 work, lv, xen, sup, hand, late, left>>

Expire ==
  /\ \/ launch # "none" /\ late = "nothing" /\ late' = "grant"
     \/ marker # "none" /\ late = "grant"   /\ late' = "window"
  /\ UNCHANGED <<ledgers, records, ends, marker, work, lv, xen, sup, hand, left>>

(* The log of the launch is made once: no second worker is ever started.   *)
Launch ==
  /\ launch = "granted" /\ Prepared
  /\ ~Supervised /\ (hand # Idle => hand.do \notin {"abort", "retire"} \cup Kinds)
  /\ launch' = "launched"
  /\ sup' = "arm"
  /\ UNCHANGED <<ledgers, meta, disk, request, proof, result, health, ends, marker,
                 work, lv, xen, hand, late, left>>

(* A parent whose worker ended before it armed is recorded as failed.      *)
ReportFailure ==
  /\ launch = "launched" /\ sup = "dead"
  /\ marker = "none" /\ result.kind = "none"
  /\ launch' = "failed"
  /\ UNCHANGED <<ledgers, meta, disk, request, proof, result, health, ends, marker,
                 work, lv, xen, sup, hand, late, left>>

-----------------------------------------------------------------------------
(* The worker, up to the open window.  sup is its place; while it copies   *)
(* or inspects it holds the router lock.                                   *)

Worker(pc) == hand # Idle /\ hand.do = "worker" /\ hand.pc = pc
Work(pc)   == Take("worker", pc) /\ UNCHANGED sup
Leave(c)   == Give /\ sup' = c

Arm ==
  /\ sup = "arm" /\ LockFree /\ Prepared
  /\ marker' = "armed"
  /\ sup' = "stop"
  /\ UNCHANGED <<ledgers, records, ends, work, lv, xen, hand, late, left>>

StopOriginal ==
  /\ sup = "stop"
  /\ live' = FALSE
  /\ sup' = "copy"
  /\ UNCHANGED <<ledgers, records, ends, marker, work, lv, runs, guest, loops, hand,
                 late, left>>

(* The hash of the stopped original is recorded before a byte is copied;   *)
(* an original that has changed since is refused.                          *)
StartCopy ==
  /\ sup = "copy" /\ LockFree
  /\ RefuseRetired /\ ~live
  /\ disk.stage \in {"allocated", "copying", "copied"} /\ lv.there
  /\ disk.hash \in {0, runs}
  /\ disk' = IF disk.stage = "allocated" THEN [stage |-> "copying", hash |-> runs] ELSE disk
  /\ Work(IF disk.stage = "copied" THEN "compare" ELSE "dd")
  /\ UNCHANGED <<ledgers, meta, request, launch, proof, result, health, ends, marker,
                 work, lv, xen, late, left>>

CopyDisk ==
  /\ Worker("dd")
  /\ lv' = [lv EXCEPT !.data = runs]
  /\ Work("compare")
  /\ UNCHANGED <<ledgers, records, ends, marker, work, xen, late, left>>

CompareCopy ==
  /\ Worker("compare") /\ lv.data = disk.hash /\ runs = disk.hash
  /\ disk' = [disk EXCEPT !.stage = "copied"]
  /\ Leave("inspect")
  /\ UNCHANGED <<ledgers, meta, request, launch, proof, result, health, ends, marker,
                 work, lv, xen, late, left>>

(* What the inspection needs before it starts and when it ends.            *)
CopyStands ==
  /\ marker = "armed" /\ late # "window"
  /\ disk.stage = "copied" /\ ~live
  /\ lv.there /\ lv.data = disk.hash /\ runs = disk.hash

StartInspection ==
  /\ sup = "inspect" /\ LockFree
  /\ CopyStands /\ Capsule /\ guest = "none"
  /\ work.there \cap Written = {} /\ proof = "none"
  /\ proof' = "reserved"
  /\ Work("result.slot")
  /\ UNCHANGED <<ledgers, meta, disk, request, launch, result, health, ends, marker,
                 work, lv, xen, late, left>>

(* Each file is announced, created, owned, written and completed.  The     *)
(* slots come before their loop devices, the configuration after them.     *)
WriteInspectorFile ==
  \E f \in Written :
    /\ Worker(f)
    /\ \/ own[f] = "none"     /\ own' = [own EXCEPT ![f] = "creating"] /\ UNCHANGED work
       \/ own[f] = "creating" /\ ~There(f) /\ Grow(f, 0) /\ UNCHANGED own
       \/ own[f] = "creating" /\ There(f) /\ own' = [own EXCEPT ![f] = "writing"] /\ UNCHANGED work
       \/ own[f] = "writing"  /\ ~Whole(f) /\ Grow(f, work.size[f] + 1) /\ UNCHANGED own
       \/ own[f] = "writing"  /\ Whole(f) /\ own' = [own EXCEPT ![f] = "complete"] /\ UNCHANGED work
    /\ IF own'[f] # "complete" THEN Work(f)
       ELSE Work(CASE f = "result.slot" -> "job.slot"
                   [] f = "job.slot"    -> "losetup"
                   [] f = "guest.cfg"   -> "xl create")
    /\ UNCHANGED <<dir, phase, next, capsule, records, ends, marker, lv, xen, late, left>>

AttachSlots ==
  /\ Worker("losetup")
  /\ IF "result.slot" \notin loops
       THEN loops' = loops \cup {"result.slot"} /\ Work("losetup")
       ELSE loops' = loops \cup {"job.slot"} /\ Work("guest.cfg")
  /\ UNCHANGED <<ledgers, records, ends, marker, work, lv, live, runs, guest, late, left>>

(* The guest is created paused and checked; before it runs, the log of its *)
(* console is created beside its files, in no ledger.                      *)
BootInspector ==
  /\ \/ /\ Worker("xl create")
        /\ guest' = "paused" /\ Work("unpause") /\ UNCHANGED work
     \/ /\ Worker("unpause")
        /\ work' = [work EXCEPT !.there = @ \cup {"console.log"}]
        /\ guest' = "running" /\ Work("poll")
  /\ UNCHANGED <<ledgers, records, ends, marker, lv, live, runs, loops, late, left>>

(* The guest powers off, or is destroyed when its result is complete.      *)
EndInspector ==
  /\ Worker("poll")
  /\ guest' = "none" /\ Work("detach")
  /\ UNCHANGED <<ledgers, records, ends, marker, work, lv, live, runs, loops, late, left>>

DetachSlots ==
  /\ Worker("detach")
  /\ loops' = {} /\ Work("prove")
  /\ UNCHANGED <<ledgers, records, ends, marker, work, lv, live, runs, guest, late, left>>

Prove ==
  /\ Worker("prove") /\ CopyStands
  /\ proof' = "proven"
  /\ Leave("open")
  /\ UNCHANGED <<ledgers, meta, disk, request, launch, result, health, ends, marker,
                 work, lv, xen, late, left>>

(* The window itself, with all that RouterColdTest has in it.              *)
OpenWindow ==
  /\ sup = "open" /\ LockFree
  /\ marker = "armed" /\ late # "window" /\ ~live
  /\ proof = "proven" /\ disk.stage = "copied"
  /\ lv.there /\ lv.data = disk.hash /\ runs = disk.hash
  /\ marker' = "held"
  /\ sup' = "wait"
  /\ UNCHANGED <<ledgers, records, ends, work, lv, xen, hand, late, left>>

EndWait ==
  /\ sup = "wait"
  /\ sup' = "fence"
  /\ UNCHANGED <<ledgers, records, ends, marker, work, lv, xen, hand, late, left>>

-----------------------------------------------------------------------------
(* The return.                                                             *)

FenceNewWork ==
  /\ sup = "fence" /\ LockFree /\ marker # "none"
  /\ result' = [result EXCEPT !.returning = @ \/ marker = "held"]
  /\ sup' = "abort"
  /\ UNCHANGED <<ledgers, meta, disk, request, launch, proof, health, ends, marker,
                 work, lv, xen, hand, late, left>>

AbortReady ==
  IF disk.stage = "copied"
    THEN guest # "none" => Capsule /\ loops = {"result.slot", "job.slot"}
    ELSE guest = "none" /\ work.there \cap Written = {}

\* Seeded fault: the return takes the end of the worker for the end of its guest.
AbortNothing ==
  /\ sup = "abort" /\ LockFree
  /\ sup' = "return"
  /\ UNCHANGED <<ledgers, records, ends, marker, work, lv, xen, hand, late, left>>

(* An inspector left behind is destroyed and its slots detached.           *)
AbortInspection ==
  /\ sup = "abort" /\ LockFree
  /\ AbortReady
  /\ guest' = "none" /\ loops' = {}
  /\ sup' = "return"
  /\ UNCHANGED <<ledgers, records, ends, marker, work, lv, live, runs, hand, late, left>>

(* The original disk and its selectors come back, and the router starts.   *)
ReturnOriginal ==
  /\ sup = "return" /\ LockFree /\ marker # "none"
  /\ marker' = "restoring"
  /\ sup' = IF live THEN "verify" ELSE "start"
  /\ UNCHANGED <<ledgers, records, ends, work, lv, xen, hand, late, left>>

StartOriginal ==
  /\ sup = "start"
  /\ live' = TRUE /\ runs' = 2
  /\ sup' = "verify"
  /\ UNCHANGED <<ledgers, records, ends, marker, work, lv, guest, loops, hand, late, left>>

(* A worker that returned because of its own error reports that error.     *)
VerifyReturned ==
  /\ sup = "verify" /\ LockFree
  /\ live /\ marker = "restoring"
  /\ sup' = IF result.kind # "none" THEN "over" ELSE IF result.raised THEN "dead" ELSE "result"
  /\ UNCHANGED <<ledgers, records, ends, marker, work, lv, xen, hand, late, left>>

(* The result carries the time it was written at.                          *)
RecordResult ==
  /\ sup = "result"
  /\ \E k \in (IF health.complete THEN {"in time", "after"} ELSE {"in time"}) :
        result' = [result EXCEPT !.kind = k]
  /\ sup' = "over"
  /\ UNCHANGED <<ledgers, meta, disk, request, launch, proof, health, ends, marker,
                 work, lv, xen, hand, late, left>>

(* The parent of a worker that ended under the marker recovers itself, and *)
(* so may an operator; neither opens a window again.                       *)
Restart ==
  /\ ~Supervised /\ marker # "none"
  /\ hand # Idle => hand.do \notin {"abort", "retire"} \cup Kinds
  /\ sup' = "fence"
  /\ result' = [result EXCEPT !.raised = FALSE]
  /\ UNCHANGED <<ledgers, meta, disk, request, launch, proof, health, ends, marker,
                 work, lv, xen, hand, late, left>>

(* An error while the window opens begins the return; an error of the      *)
(* return ends the worker.  The inspection cleans up after itself, unless  *)
(* that fails too.                                                         *)
Raise ==
  /\ IF sup \in {"arm", "stop", "copy", "inspect", "open", "wait"} /\ marker # "none"
       THEN sup' = "fence" /\ result' = [result EXCEPT !.raised = TRUE]
       ELSE sup' = "dead" /\ UNCHANGED result
  /\ hand' = IF hand # Idle /\ hand.do = "worker" THEN Idle ELSE hand
  /\ UNCHANGED <<ledgers, meta, disk, request, launch, proof, health, ends, marker,
                 work, lv, live, runs, late>>

WorkerReady ==
  CASE sup = "arm"     -> Prepared
    [] sup = "copy"    -> /\ RefuseRetired /\ ~live /\ lv.there
                          /\ disk.stage \in {"allocated", "copying", "copied"}
                          /\ disk.hash \in {0, runs}
    [] sup = "inspect" -> /\ CopyStands /\ Capsule /\ guest = "none" /\ proof = "none"
                          /\ work.there \cap Written = {}
    [] sup = "open"    -> CopyStands /\ proof = "proven"
    [] sup = "fence"   -> marker # "none"
    [] sup = "abort"   -> AbortReady
    [] sup = "return"  -> marker # "none"
    [] sup = "verify"  -> live /\ marker = "restoring"
    [] OTHER -> TRUE

WorkerRefuses ==
  /\ Supervised
  /\ (hand = Idle /\ ~WorkerReady) \/ (Worker("prove") /\ ~CopyStands)
  /\ Raise /\ UNCHANGED <<guest, loops, left>>

-----------------------------------------------------------------------------
(* The health of the returned original, and the end of the boot fence.     *)

StageHealth ==
  /\ LockFree /\ marker = "restoring" /\ live
  /\ health' = [health EXCEPT !.receipt = "fresh"]
  /\ UNCHANGED <<ledgers, meta, disk, request, launch, proof, result, ends, marker,
                 work, lv, xen, sup, hand, late, left>>

(* The completion is durable before the marker goes.  A retry after the    *)
(* marker went only reads the completion.                                  *)
ClearFence ==
  /\ LockFree /\ marker = "restoring" /\ live /\ health.receipt = "fresh"
  /\ health' = [health EXCEPT !.complete = TRUE]
  /\ Take("clear", "unlink")
  /\ UNCHANGED <<ledgers, meta, disk, request, launch, proof, result, ends, marker,
                 work, lv, xen, sup, late, left>>

UnlinkMarker ==
  /\ At("clear", "unlink")
  /\ marker' = "none" /\ Give
  /\ UNCHANGED <<ledgers, records, ends, work, lv, xen, sup, late, left>>

-----------------------------------------------------------------------------
(* Removal of the backup volume: never used, or no longer needed.          *)

AbortAllowed ==
  /\ ~Supervised /\ Original /\ meta = "manifest" /\ NoOutage
  /\ disk.stage = "allocated" /\ FailedBeforeArm
  /\ IF removal.abort = "none" THEN lv.there ELSE removal.seen = launch

(* The intent binds the failure that was seen, if there was one.           *)
AbortPrepared ==
  /\ LockFree /\ AbortAllowed /\ removal.abort # "complete"
  /\ removal' = IF lv.there THEN [removal EXCEPT !.abort = "intent", !.seen = launch]
                            ELSE removal
  /\ Take("abort", IF lv.there THEN "lvremove" ELSE "complete")
  /\ UNCHANGED <<ledgers, records, clean, marker, work, lv, xen, sup, late, left>>

RetireAllowed ==
  /\ ~Supervised /\ Original /\ health.complete
  /\ result.kind = "in time" /\ disk.stage = "copied"
  /\ ~Inspected /\ work.there \subseteq Files
  /\ removal.used = "none" => lv.there
  /\ lv.there => lv.data = disk.hash

RetireCompleted ==
  /\ LockFree /\ RetireAllowed /\ removal.used # "complete"
  /\ removal' = IF lv.there THEN [removal EXCEPT !.used = "intent"] ELSE removal
  /\ Take("retire", IF lv.there THEN "lvremove" ELSE "complete")
  /\ UNCHANGED <<ledgers, records, clean, marker, work, lv, xen, sup, late, left>>

RemoveBackup ==
  /\ At("abort", "lvremove") \/ At("retire", "lvremove")
  /\ lv' = [there |-> FALSE, data |-> 0]
  /\ Take(hand.do, "complete")
  /\ UNCHANGED <<ledgers, records, ends, marker, work, xen, sup, late, left>>

CompleteRemoval ==
  /\ \/ At("abort", "complete")  /\ removal' = [removal EXCEPT !.abort = "complete"]
     \/ At("retire", "complete") /\ removal' = [removal EXCEPT !.used = "complete"]
  /\ Give
  /\ UNCHANGED <<ledgers, records, clean, marker, work, lv, xen, sup, late, left>>

-----------------------------------------------------------------------------
(* Collection of files.  The three collections differ in what allows them  *)
(* and in what they may take; the plan, the progress and the order of the  *)
(* writes are the same.                                                    *)

Claims(k) ==
  IF k = "prepared" THEN Artifacts
  ELSE {f \in IF k = "staging" THEN Artifacts ELSE Files :
          own[f] # "none" /\ (own[f] = "creating" => There(f))}

Measured(k, f) ==
  /\ There(f)
  /\ CASE k = "staging" -> work.size[f] \in
              2 * next[f] .. (2 * next[f] + IF own[f] = "writing" THEN 2 ELSE 0)
       [] k # "staging" /\ (f \in Artifacts \/ own[f] = "complete") -> Whole(f)
       [] OTHER -> own[f] = "creating" => work.size[f] = 0

Ledgered == {f \in Files : own[f] # "none"}

Allowed(k) ==
  /\ Original /\ ~lv.there /\ ~Inspected
  /\ work.there \subseteq Ledgered \cap (IF k = "used" THEN Files ELSE Artifacts)
  /\ CASE k = "staging"  -> /\ dir = "intent" /\ meta # "manifest" /\ NoOutage
                            /\ disk.stage = "none" /\ launch = "none"
       [] k = "prepared" -> /\ ~Supervised /\ capsule /\ NoOutage
                            /\ removal.abort = "complete"
                            /\ FailedBeforeArm /\ removal.seen = launch
       [] k = "used"     -> /\ ~Supervised /\ phase = "ready"
                            /\ removal.used = "complete" /\ health.complete

(* Retiring staging first closes its receivers.                            *)
StartCollection(k) ==
  /\ LockFree /\ Allowed(k) /\ ~clean[k].done
  /\ phase' = IF k = "staging" /\ phase # "retired" THEN "retiring" ELSE phase
  /\ Take(k, "plan")
  /\ UNCHANGED <<dir, own, next, capsule, records, ends, marker, work, lv, xen, sup, late, left>>

(* A saved plan is used again as it is.                                    *)
SavePlan(k) ==
  /\ At(k, "plan")
  /\ clean[k].saved \/ \A f \in Claims(k) : Measured(k, f)
  /\ clean' = IF clean[k].saved THEN clean
              ELSE [clean EXCEPT ![k].saved = TRUE, ![k].files = Claims(k)]
  /\ Take(k, "next")
  /\ UNCHANGED <<ledgers, records, removal, marker, work, lv, xen, sup, late, left>>

Rest(k)  == clean[k].files \ clean[k].removed
Rank     == [f \in Files |-> CASE f = "kernel"      -> 1
                              [] f = "initramfs"   -> 2
                              [] f = "result.slot" -> 3
                              [] f = "job.slot"    -> 4
                              [] f = "guest.cfg"   -> 5]
First(k) == CHOOSE f \in Rest(k) : \A g \in Rest(k) : Rank[f] <= Rank[g]

\* Seeded fault: a file goes without a mark.
MarkNothing(k) ==
  /\ At(k, "next") /\ Rest(k) # {} /\ There(First(k))
  /\ clean' = [clean EXCEPT ![k].mark = "none"]
  /\ Take(k, "unlink")
  /\ UNCHANGED <<ledgers, records, removal, marker, work, lv, xen, sup, late, left>>

(* A file is marked before it goes, and struck off after.                  *)
MarkFile(k) ==
  /\ At(k, "next") /\ Rest(k) # {} /\ There(First(k))
  /\ clean' = [clean EXCEPT ![k].mark = First(k)]
  /\ Take(k, "unlink")
  /\ UNCHANGED <<ledgers, records, removal, marker, work, lv, xen, sup, late, left>>

UnlinkFile(k) ==
  /\ At(k, "unlink")
  /\ work' = [work EXCEPT !.there = @ \ {First(k)}]
  /\ Take(k, "next")
  /\ UNCHANGED <<ledgers, records, ends, marker, lv, xen, sup, late, left>>

StrikeFile(k) ==
  /\ At(k, "next") /\ Rest(k) # {} /\ ~There(First(k))
  /\ clean[k].mark = First(k)
  /\ clean' = [clean EXCEPT ![k].removed = @ \cup {First(k)}, ![k].mark = "none"]
  /\ UNCHANGED <<ledgers, records, removal, marker, work, lv, xen, sup, hand, late, left>>

EndCollection(k) ==
  /\ At(k, "next") /\ Rest(k) = {} /\ work.there \cap clean[k].files = {}
  /\ phase' = IF k = "staging" THEN "retired" ELSE phase
  /\ Take(k, "complete")
  /\ UNCHANGED <<dir, own, next, capsule, records, ends, marker, work, lv, xen, sup, late, left>>

CompleteCollection(k) ==
  /\ At(k, "complete")
  /\ clean' = [clean EXCEPT ![k].done = TRUE]
  /\ Give
  /\ UNCHANGED <<ledgers, records, removal, marker, work, lv, xen, sup, late, left>>

Collect(k) ==
  SavePlan(k) \/ MarkFile(k) \/ UnlinkFile(k) \/ StrikeFile(k) \/ EndCollection(k)
    \/ CompleteCollection(k)

-----------------------------------------------------------------------------
(* Failures.                                                               *)

Spend == left > 0 /\ left' = left - 1

Killed ==
  /\ Spend
  /\ \/ /\ hand # Idle
        /\ hand' = Idle
        /\ sup' = IF hand.do = "worker" THEN "dead" ELSE sup
     \/ /\ Supervised
        /\ sup' = "dead"
        /\ hand' = IF hand # Idle /\ hand.do = "worker" THEN Idle ELSE hand
  /\ UNCHANGED <<ledgers, records, ends, marker, work, lv, xen, late>>

(* The worker finds an error; what it cleans up may fail as well.          *)
WorkerFails ==
  /\ Supervised /\ Spend /\ Raise
  /\ \/ UNCHANGED <<guest, loops>>
     \/ hand # Idle /\ hand.do = "worker" /\ guest' = "none" /\ loops' = {}

(* The boot fence keeps the router down as long as the marker is there.    *)
PowerLoss ==
  /\ Spend
  /\ live' = (marker = "none")
  /\ guest' = "none" /\ loops' = {} /\ hand' = Idle
  /\ sup' = IF Supervised THEN "dead" ELSE sup
  /\ UNCHANGED <<ledgers, records, ends, marker, work, lv, runs, late>>

(* A health receipt is fresh for two minutes.                              *)
AgeReceipt ==
  /\ health.receipt = "fresh" /\ ~health.complete /\ Spend
  /\ health' = [health EXCEPT !.receipt = "stale"]
  /\ UNCHANGED <<ledgers, meta, disk, request, launch, proof, result, ends, marker,
                 work, lv, xen, sup, hand, late>>

-----------------------------------------------------------------------------

Staging ==
  \/ StartStaging \/ RecordStaging \/ (\E f \in Artifacts : ReceivePart(f))
  \/ CreateArtifact \/ BeginPart \/ AppendPart \/ RecordPart
  \/ FinishStaging \/ CloseReady

Preparation ==
  \/ Capture \/ CompleteCapture \/ Allocate \/ AllocateVolume
  \/ StageRequest \/ Grant \/ Launch \/ ReportFailure

WorkerStep ==
  \/ Arm \/ StopOriginal \/ StartCopy \/ CopyDisk \/ CompareCopy
  \/ StartInspection \/ WriteInspectorFile \/ AttachSlots \/ BootInspector
  \/ EndInspector \/ DetachSlots \/ Prove \/ OpenWindow \/ EndWait
  \/ FenceNewWork \/ AbortInspection \/ ReturnOriginal \/ StartOriginal
  \/ VerifyReturned \/ RecordResult \/ WorkerRefuses

Recovery == StageHealth \/ ClearFence \/ UnlinkMarker

Removals ==
  AbortPrepared \/ RetireCompleted \/ \E k \in Kinds : StartCollection(k)

Removal ==
  \/ Removals \/ RemoveBackup \/ CompleteRemoval \/ \E k \in Kinds : Collect(k)

Failures == Killed \/ WorkerFails \/ PowerLoss \/ AgeReceipt

Next ==
  \/ Staging \/ Preparation \/ Expire \/ WorkerStep \/ Restart \/ Recovery
  \/ Removal \/ Failures

(* A command that runs goes on, the worker goes on when the lock is free,  *)
(* grants expire, a dead worker is restarted under the marker, a returned  *)
(* original is checked, and a removal is asked for again until it is done. *)
(* Nothing else is sure to be asked for.                                   *)
Continue ==
  \/ RecordStaging \/ CreateArtifact \/ BeginPart \/ AppendPart \/ RecordPart
  \/ CloseReady \/ CompleteCapture \/ AllocateVolume \/ UnlinkMarker
  \/ RemoveBackup \/ CompleteRemoval \/ (\E k \in Kinds : Collect(k))

Fairness ==
  /\ WF_vars(Continue) /\ WF_vars(Expire)
  /\ SF_vars(WorkerStep \/ Restart)
  /\ SF_vars(StageHealth \/ ClearFence)
  /\ SF_vars(Removals)

EvidenceSpec == Init /\ [][Next]_vars /\ Fairness

-----------------------------------------------------------------------------

(* No receiver that waited for the lock writes a boot file after staging   *)
(* was retired.                                                            *)
RetiredIsEmpty ==
  phase = "retired" => work.there = {}

(* The inspector and its loop devices never outlive the outage: when the   *)
(* original runs, nothing reads or holds the backup.                       *)
InspectorIsFenced ==
  live => ~Inspected

(* Whatever was begun to be removed is removed: staging that was closed,   *)
(* a prepared backup whose abort has its intent, unless the controller     *)
(* granted the outage afterwards, and a used backup, unless the fence was  *)
(* cleared before the worker recorded its result or the inspector ran.     *)
EvidenceEnds ==
  /\ phase = "retiring" ~> clean["staging"].done
  /\ removal.abort # "none" ~> (clean["prepared"].done \/ launch # removal.seen)
  /\ (disk.stage = "copied" /\ marker = "restoring") ~>
        \/ clean["used"].done
        \/ health.complete /\ result.kind # "in time"
        \/ "console.log" \in work.there

(* A cold test that went through is followed by the removal of its backup  *)
(* and of the inspector's files, as the commands for it and their tests    *)
(* have it.  The code leaves the log of the inspector's console in         *)
(* filesystem/, where both removals refuse an unknown file.                *)
UsedIsRetired ==
  (proof = "proven" /\ result.kind = "in time" /\ health.complete) ~> clean["used"].done

=============================================================================
