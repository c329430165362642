--------------------------- MODULE RouterTransaction ---------------------------
(***************************************************************************)
(* The replacement of the router of one dom0 by router_transaction.py and  *)
(* its dom0 adapter: the cutover worker and its supervisor, the recovery   *)
(* after a failed check, a lost worker or a reboot, the OpenRC boot        *)
(* recovery with its fence, and the retirement of the resources that a     *)
(* completed operation no longer needs.                                    *)
(*                                                                         *)
(* A router generation is a root disk with its Xen definition.  DHCP       *)
(* leases and identity live on that disk and change while the router runs, *)
(* so at any time only some disks hold the newest state: fresh.  A copy    *)
(* guest carries the state between two stopped disks.                      *)
(*                                                                         *)
(* Every command that changes a router runs under one lock; hand records   *)
(* what its holder does and where it is.  A place named like a phase is    *)
(* the durable write of that phase; any other place is an action of the    *)
(* adapter.  Between two places the process may be killed, an action may   *)
(* fail, a guest may exit and dom0 may lose power.                         *)
(***************************************************************************)
EXTENDS Naturals, FiniteSets

CONSTANTS
  Budget,  \* failures the environment may still inject
  None

VARIABLES
  \* Durable records on the dom0 data volume.
  accepted,  \* accepted.json: the selected generation, None before adoption
  pending,   \* pending.json
  complete,  \* complete.json of the operation
  evidence,  \* records of the enrollment, its device and the acceptance
  receipt,   \* directions whose copy result slot holds a complete receipt
  cleanup,   \* finalizer records: "none", "run" or "done"
  progress,  \* cleanup-progress.json
  gone,      \* resources of the operation that were retired
  marker,    \* phase of cold-test.json, "none" when absent
  \* The Xen definition router.cfg and its autostart link, in the memory of
  \* dom0 and as last committed by lbu.
  conf,
  saved,
  \* The live box.
  live,      \* generations whose domain runs
  dying,     \* running generations that were asked to shut down
  helper,    \* the copy or finalizer guest, or None
  fresh,     \* disks that hold the newest router state
  hand,      \* the command that holds transaction.lock
  sup,       \* the supervisor of the cutover worker
  signal,    \* the unlocked controller command between its check and its write
  mode,      \* "up", or the phase of the boot sequence
  left       \* failures still to come

records == <<accepted, pending, complete, evidence, receipt, cleanup>>
retired == <<progress, gone>>
xen     == <<live, dying, helper, fresh>>
actors  == <<sup, signal>>
vars    == <<records, retired, marker, conf, saved, xen, hand, actors, mode, left>>

Sides      == {"old", "candidate"}
Routers    == Sides \cup {"first"}
Directions == {"forward", "reverse"}

CutoverPhases == {"armed", "stopping-old", "copying-forward", "candidate-ready",
  "starting-candidate", "checking-candidate", "awaiting-enrollment",
  "stopping-candidate-for-finalization", "finalizing-candidate",
  "restarting-candidate", "checking-final-candidate", "awaiting-acceptance",
  "committing", "accepted"}
RecoveryPhases == {"fencing-candidate", "fencing-old", "copying-reverse",
  "old-ready", "starting-old", "checking-old", "rolled-back", "recovery-failed"}
Phases == CutoverPhases \cup RecoveryPhases

(* The phases in which the candidate may have served, and those in which   *)
(* the restored old router may have.                                       *)
CandidatePhases == CutoverPhases \
  {"armed", "stopping-old", "copying-forward", "candidate-ready"}
OldPhases == RecoveryPhases \ {"fencing-old", "copying-reverse"}

Pending == [phase: Phases, candidate_started: BOOLEAN, old_started: BOOLEAN,
            fenced: BOOLEAN]

ASSUME ConstantsAssumption ==
  /\ Budget \in Nat
  /\ None \notin Routers \cup Directions \cup {"finalizer"} \cup Pending

(* A pending record that contradicts its own production-start markers is   *)
(* refused when it is written and when it is read.                         *)
Valid(p) ==
  /\ p.phase \in CutoverPhases => (p.candidate_started = (p.phase \in CandidatePhases))
  /\ p.phase = "copying-reverse" => p.candidate_started
  /\ p.old_started => p.phase \in OldPhases

Idle == [do |-> "none", pc |-> "idle", failed |-> FALSE]

LockFree == hand = Idle /\ mode = "up"

Recovering == {"recover", "settle", "rollback"}

-----------------------------------------------------------------------------
(* The order of the steps.                                                 *)

(* The place that follows pc in the program hand.do executes.              *)
After(do, pc) ==
  CASE pc = "unlink"      -> "persist off"
    [] pc = "persist off" -> IF do = "cutover" THEN "attempt" ELSE "fence finalizer"
    [] pc = "attempt"         -> "stopping-old"
    [] pc = "stopping-old"    -> "stop old"
    [] pc = "stop old"        -> IF do = "cutover" THEN "copying-forward"
                                 ELSE IF do = "settle" THEN "start candidate"
                                 ELSE "copying-reverse"
    [] pc = "copying-forward" -> "copy forward"
    [] pc = "copy forward"    -> "wait forward"
    [] pc = "wait forward"    -> "candidate-ready"
    [] pc = "candidate-ready" -> "verify forward"
    [] pc = "verify forward"  -> "starting-candidate"
    [] pc = "starting-candidate"  -> "start candidate"
    [] pc = "start candidate" -> IF do = "settle" THEN "check candidate"
                                                  ELSE "checking-candidate"
    [] pc = "checking-candidate"  -> "check candidate"
    [] pc = "check candidate" -> IF do = "settle" THEN "select"
                                                  ELSE "awaiting-enrollment"
    [] pc = "awaiting-enrollment" -> "await enrollment"
    [] pc = "await enrollment"    -> "stopping-candidate-for-finalization"
    [] pc = "stopping-candidate-for-finalization" -> "stop candidate"
    [] pc = "finalizing-candidate" -> "finalize"
    [] pc = "finalize"             -> "await finalizer"
    [] pc = "await finalizer"      -> "restarting-candidate"
    [] pc = "restarting-candidate" -> "restart candidate"
    [] pc = "restart candidate"    -> "checking-final-candidate"
    [] pc = "checking-final-candidate" -> "check final"
    [] pc = "check final"          -> "awaiting-acceptance"
    [] pc = "awaiting-acceptance"  -> "await acceptance"
    [] pc = "await acceptance"     -> "committing"
    [] pc = "committing"           -> "commit"
    [] pc = "commit"               -> "accepted"
    [] pc = "accepted" -> IF do = "settle" THEN "stop old" ELSE "select"
    [] pc = "fence finalizer"   -> "fence copy"
    [] pc = "fence copy" -> IF do = "fence" THEN "kill candidate" ELSE "decide"
    [] pc = "kill candidate"    -> "kill old"
    [] pc = "kill old"          -> "recovery-failed"
    [] pc = "fencing-candidate" -> "stop candidate"
    [] pc = "fencing-old"       -> "stop old"
    [] pc = "copying-reverse"   -> "copy reverse"
    [] pc = "copy reverse"      -> "wait reverse"
    [] pc = "wait reverse"      -> "verify reverse"
    [] pc = "verify reverse"    -> "old-ready"
    [] pc = "old-ready"         -> "starting-old"
    [] pc = "starting-old"      -> "start old"
    [] pc = "start old"         -> "checking-old"
    [] pc = "checking-old"      -> "check old"
    [] pc = "check old"         -> "rolled-back"
    [] pc = "rolled-back"       -> "select"
    [] pc = "select"            -> "link"
    [] pc = "link"              -> "persist on"
    [] pc = "persist on"        -> "complete"
    [] pc = "complete"          -> "unpend"

Goto(pc) == hand' = [hand EXCEPT !.pc = pc]
Advance  == Goto(After(hand.do, hand.pc))
Run(do, pc) == hand' = [do |-> do, pc |-> pc, failed |-> FALSE]

(* A command that ends during boot recovery ends it, successfully or not,  *)
(* and the supervisor notices that its worker has ended.                   *)
Return(ok) ==
  /\ hand' = Idle
  /\ sup'  = IF sup = "watching" THEN "reaped" ELSE sup
  /\ mode' = CASE mode = "up" -> "up"
               [] mode = "recovery" -> IF ok THEN "xendomains" ELSE "fence"

Spend == left > 0 /\ left' = left - 1

Init ==
  /\ accepted = None
  /\ pending  = None
  /\ complete = None
  /\ evidence = {}
  /\ receipt  = {}
  /\ cleanup  = "none"
  /\ progress = "none"
  /\ gone     = {}
  /\ marker   = "none"
  /\ conf     = [gen |-> "old", auto |-> TRUE]
  /\ saved    = conf
  /\ live     = {"old"}
  /\ dying    = {}
  /\ helper   = None
  /\ fresh    = {"old"}
  /\ hand     = Idle
  /\ sup      = "idle"
  /\ signal   = "none"
  /\ mode     = "up"
  /\ left     = Budget

-----------------------------------------------------------------------------
(* What an action of the adapter needs; it raises an error otherwise.      *)

StopOf  == [old |-> "stop old",  candidate |-> "stop candidate"]
KillOf  == [old |-> "kill old",  candidate |-> "kill candidate"]
CopyOf  == [forward |-> "copy forward",   reverse |-> "copy reverse"]
WaitOf  == [forward |-> "wait forward",   reverse |-> "wait reverse"]
CheckOf == [forward |-> "verify forward", reverse |-> "verify reverse"]
Source  == [forward |-> "old",       reverse |-> "candidate"]
Target  == [forward |-> "candidate", reverse |-> "old"]

(* The generation that a start, a check or the selection concerns.         *)
Side ==
  IF hand.do = "rollback" THEN "old" ELSE "candidate"

Starts == {"start candidate", "restart candidate", "start old"}
Checks == {"check candidate", "check final", "check old"}

\* Seeded fault: a router that was asked to shut down counts as gone.
DomainsAsked == live \ dying

(* The router domains that xl lists.                                       *)
Domains == live

(* guest() refuses while another domain holds one of the two disks, and    *)
(* start() while the other router runs.                                    *)
Ready ==
  /\ hand.pc \in {StopOf[s] : s \in Sides} \cup {KillOf[s] : s \in Sides} => helper = None
  /\ hand.pc \in Starts => helper = None /\ Domains \subseteq {Side}
  /\ hand.pc \in Checks => Domains = {Side}
  /\ hand.pc = "select" => Domains = {Side} /\ accepted = Side
  /\ hand.pc \in {CopyOf[d] : d \in Directions} => Domains = {} /\ helper = None
  /\ hand.pc = "wait forward" => helper = "forward" \/ "forward" \in receipt
  /\ hand.pc = "wait reverse" => helper = "reverse" \/ "reverse" \in receipt
  /\ hand.pc \in {CheckOf[d] : d \in Directions} =>
       Domains = {} /\ helper = None /\ \E d \in receipt : hand.pc = CheckOf[d]
  /\ hand.pc = "await enrollment" => Domains = {"candidate"} \/ "enrolled" \in evidence
  /\ hand.pc = "await acceptance" => Domains = {"candidate"} \/ "acceptance" \in evidence
  /\ hand.pc = "finalize" => Domains = {} /\ helper = None /\ cleanup = "none"
  /\ hand.pc = "await finalizer" => helper = "finalizer" \/ cleanup = "ran"
  /\ hand.pc = "commit" => Domains = {"candidate"} /\ "acceptance" \in evidence

\* Seeded fault: the wait for the acceptance has no deadline.
WaitsForever == {WaitOf[d] : d \in Directions} \cup {"await enrollment", "await finalizer"}

(* These end with their deadline at the latest.                            *)
Waits == {WaitOf[d] : d \in Directions}
  \cup {"await enrollment", "await finalizer", "await acceptance"}

\* Seeded fault: a later checkpoint forgets that the old router was started.
RecordedAnew ==
  [phase             |-> hand.pc,
   candidate_started |-> \/ pending.candidate_started
                         \/ hand.pc = "starting-candidate"
                         \/ hand.pc = "accepted" /\ hand.do = "settle",
   old_started       |-> hand.pc = "starting-old",
   fenced            |-> hand.pc = "recovery-failed" /\ ~hand.failed]

(* The record that a checkpoint writes.                                    *)
Recorded ==
  [phase             |-> hand.pc,
   candidate_started |-> \/ pending.candidate_started
                         \/ hand.pc = "starting-candidate"
                         \/ hand.pc = "accepted" /\ hand.do = "settle",
   old_started       |-> pending.old_started \/ hand.pc = "starting-old",
   fenced            |-> hand.pc = "recovery-failed" /\ ~hand.failed]

Checkpoint ==
  /\ hand.pc \in Phases
  /\ Valid(Recorded)
  /\ pending' = Recorded
  /\ IF hand.pc = "recovery-failed"
       THEN Return(FALSE)
       ELSE Advance /\ UNCHANGED <<sup, mode>>
  /\ UNCHANGED <<accepted, complete, evidence, receipt, cleanup, retired,
                 marker, conf, saved, xen, signal, left>>

-----------------------------------------------------------------------------
(* Cutover.                                                                *)

(* The supervised baseline: the running legacy router becomes accepted.    *)
AdoptBaseline ==
  /\ LockFree
  /\ pending = None /\ accepted = None
  /\ conf = [gen |-> "old", auto |-> TRUE]
  /\ live = {"old"}
  /\ accepted' = "old"
  /\ UNCHANGED <<pending, complete, evidence, receipt, cleanup, retired,
                 marker, conf, saved, xen, hand, actors, mode, left>>

(* One supervised worker, which refuses anything but the accepted router   *)
(* running under its own definition, and records the operation.            *)
StartCutover ==
  /\ LockFree
  /\ sup = "idle"
  /\ marker = "none" /\ pending = None /\ complete = None
  /\ accepted = "old" /\ live = {"old"} /\ helper = None
  /\ conf = [gen |-> "old", auto |-> TRUE]
  /\ pending' = [phase |-> "armed", candidate_started |-> FALSE,
                 old_started |-> FALSE, fenced |-> FALSE]
  /\ sup' = "watching"
  /\ Run("cutover", "unlink")
  /\ UNCHANGED <<accepted, complete, evidence, receipt, cleanup, retired,
                 marker, conf, saved, xen, signal, mode, left>>

(* The autostart link goes first, in memory, then in the committed /etc.   *)
Unlink ==
  /\ hand.pc = "unlink"
  /\ conf' = [conf EXCEPT !.auto = FALSE]
  /\ Advance
  /\ UNCHANGED <<records, retired, marker, saved, xen, actors, mode, left>>

Persist ==
  /\ hand.pc \in {"persist off", "persist on"}
  /\ saved' = conf
  /\ Advance
  /\ UNCHANGED <<records, retired, marker, conf, xen, actors, mode, left>>

RecordAttempt ==
  /\ hand.pc = "attempt"
  /\ evidence' = evidence \cup {"attempt"}
  /\ Advance
  /\ UNCHANGED <<accepted, pending, complete, receipt, cleanup, retired,
                 marker, conf, saved, xen, actors, mode, left>>

(* A graceful stop asks the guest to shut down and destroys it when it     *)
(* stays; it returns once the guest is gone and its disk detached.         *)
AskShutdown(s) ==
  /\ hand.pc = StopOf[s] /\ Ready
  /\ s \in Domains \ dying
  /\ dying' = dying \cup {s}
  /\ UNCHANGED <<records, retired, marker, conf, saved, live, helper, fresh,
                 hand, actors, mode, left>>

(* A rollback copies the state back only from a candidate that may have    *)
(* served, and only until the old router has been started again.           *)
CopiesBack == pending.candidate_started /\ ~pending.old_started

Stop(s) ==
  /\ hand.pc = StopOf[s] /\ Ready
  /\ s \in Domains => s \in dying
  /\ live'  = live \ ({s} \cap Domains)
  /\ dying' = dying \ ({s} \cap Domains)
  /\ IF s = "candidate"
       THEN Goto(CASE hand.do = "cutover" -> "finalizing-candidate"
                   [] hand.do = "rollback" ->
                        IF CopiesBack THEN "fencing-old" ELSE "old-ready")
       ELSE Advance
  /\ UNCHANGED <<records, retired, marker, conf, saved, helper, fresh,
                 actors, mode, left>>

(* The copy guest starts with both disks and an empty result slot.         *)
StartCopy(d) ==
  /\ hand.pc = CopyOf[d] /\ Ready
  /\ receipt' = receipt \ {d}
  /\ helper'  = d
  /\ fresh'   = fresh \ {Target[d]}
  /\ Advance
  /\ UNCHANGED <<accepted, pending, complete, evidence, cleanup, retired,
                 marker, conf, saved, live, dying, actors, mode, left>>

(* The result is there: the guest and its loop devices are removed.        *)
EndCopy(d) ==
  /\ hand.pc = WaitOf[d]
  /\ d \in receipt
  /\ helper' = None
  /\ Advance
  /\ UNCHANGED <<records, retired, marker, conf, saved, live, dying, fresh,
                 actors, mode, left>>

VerifyCopy(d) ==
  /\ hand.pc = CheckOf[d] /\ Ready
  /\ Advance
  /\ UNCHANGED <<records, retired, marker, conf, saved, xen, actors, mode, left>>

(* The running router is the one whose disk then holds the newest state.   *)
Start ==
  /\ hand.pc \in Starts /\ Ready
  /\ live'  = {Side}
  /\ fresh' = {Side}
  /\ Advance
  /\ UNCHANGED <<records, retired, marker, conf, saved, dying, helper,
                 actors, mode, left>>

(* Gateway and WAN DNS answer through the running router.                  *)
CheckLocal ==
  /\ hand.pc \in Checks /\ Ready
  /\ Advance
  /\ UNCHANGED <<records, retired, marker, conf, saved, xen, actors, mode, left>>

AwaitEnrollment ==
  /\ hand.pc = "await enrollment"
  /\ "enrolled" \in evidence
  /\ Advance
  /\ UNCHANGED <<records, retired, marker, conf, saved, xen, actors, mode, left>>

(* The finalizer guest is recorded in its ledger before it starts.         *)
Finalize ==
  /\ hand.pc = "finalize" /\ Ready
  /\ cleanup' = "run"
  /\ helper'  = "finalizer"
  /\ Advance
  /\ UNCHANGED <<accepted, pending, complete, evidence, receipt, retired,
                 marker, conf, saved, live, dying, fresh, actors, mode, left>>

AwaitFinalizer ==
  /\ hand.pc = "await finalizer"
  /\ cleanup = "ran" /\ helper = None
  /\ cleanup' = "done"
  /\ Advance
  /\ UNCHANGED <<accepted, pending, complete, evidence, receipt, retired,
                 marker, conf, saved, xen, actors, mode, left>>

AwaitAcceptance ==
  /\ hand.pc = "await acceptance"
  /\ "acceptance" \in evidence
  /\ Advance
  /\ UNCHANGED <<records, retired, marker, conf, saved, xen, actors, mode, left>>

(* The accepted pointer is the atomic selection.                           *)
Commit ==
  /\ hand.pc = "commit" /\ Ready
  /\ accepted' = "candidate"
  /\ Advance
  /\ UNCHANGED <<pending, complete, evidence, receipt, cleanup, retired,
                 marker, conf, saved, xen, actors, mode, left>>

(* disarm(): the definition of the verified running side, then its link.   *)
Select ==
  /\ hand.pc = "select" /\ Ready
  /\ conf' = [conf EXCEPT !.gen = Side]
  /\ Advance
  /\ UNCHANGED <<records, retired, marker, saved, xen, actors, mode, left>>

Link ==
  /\ hand.pc = "link"
  /\ conf' = [conf EXCEPT !.auto = TRUE]
  /\ Advance
  /\ UNCHANGED <<records, retired, marker, saved, xen, actors, mode, left>>

(* finish(): the outcome is kept before the pending pointer goes.          *)
Complete ==
  /\ hand.pc = "complete"
  /\ complete' = pending
  /\ Advance
  /\ UNCHANGED <<accepted, pending, evidence, receipt, cleanup, retired,
                 marker, conf, saved, xen, actors, mode, left>>

Unpend ==
  /\ hand.pc = "unpend"
  /\ pending' = None
  /\ Return(TRUE)
  /\ UNCHANGED <<accepted, complete, evidence, receipt, cleanup, retired,
                 marker, conf, saved, xen, signal, left>>

-----------------------------------------------------------------------------
(* Recovery.                                                               *)

(* A finalizer or copy guest left by a lost worker is destroyed before a   *)
(* disk is touched.                                                        *)
FenceHelper ==
  /\ hand.pc \in {"fence finalizer", "fence copy"}
  /\ helper' = IF helper \in (IF hand.pc = "fence copy" THEN Directions ELSE {"finalizer"})
                 THEN None ELSE helper
  /\ Advance
  /\ UNCHANGED <<records, retired, marker, conf, saved, live, dying, fresh,
                 actors, mode, left>>

\* Seeded fault: the recorded phase decides, which lags behind the pointer.
DecideByPhase ==
  /\ hand.pc = "decide"
  /\ IF pending.phase = "accepted"
       THEN Run("settle", "accepted")
       ELSE Run("rollback", "fencing-candidate")
  /\ UNCHANGED <<records, retired, marker, conf, saved, xen, actors, mode, left>>

(* The accepted pointer alone decides which router recovery restores.      *)
Decide ==
  /\ hand.pc = "decide"
  /\ IF accepted = "candidate"
       THEN Run("settle", "accepted")
       ELSE Run("rollback", "fencing-candidate")
  /\ UNCHANGED <<records, retired, marker, conf, saved, xen, actors, mode, left>>

\* Seeded fault: the fence asks for a shutdown.
KillAsks(s) ==
  /\ hand.pc = KillOf[s] /\ Ready
  /\ dying' = dying \cup ({s} \cap live)
  /\ Advance
  /\ UNCHANGED <<records, retired, marker, conf, saved, live, helper, fresh,
                 actors, mode, left>>

(* Without waiting for a graceful shutdown.                                *)
Kill(s) ==
  /\ hand.pc = KillOf[s] /\ Ready
  /\ live'  = live \ {s}
  /\ dying' = dying \ {s}
  /\ Advance
  /\ UNCHANGED <<records, retired, marker, conf, saved, helper, fresh,
                 actors, mode, left>>

(* An action that raises, because its condition does not hold or because   *)
(* it runs out of its budget: cutover turns to recovery, recovery to the   *)
(* fence, and the fence goes on to its next writer.  A failed wait for a   *)
(* copy may still have removed its guest.                                  *)
FailCutover ==
  /\ hand.do = "cutover"
  /\ Run("recover", "unlink")
  /\ UNCHANGED <<sup, mode>>

FailRecovery ==
  /\ hand.do \in Recovering
  /\ Run("fence", "unlink")
  /\ UNCHANGED <<sup, mode>>

FailFence ==
  /\ hand.do = "fence"
  /\ IF hand.pc = "recovery-failed"
       THEN Return(FALSE)
       ELSE /\ hand' = [hand EXCEPT !.failed = TRUE,
                          !.pc = IF @ = "unlink" THEN "fence finalizer"
                                                 ELSE After("fence", @)]
            /\ UNCHANGED <<sup, mode>>

FailCleanup ==
  /\ hand.do = "cleanup"
  /\ Return(FALSE)

Fail ==
  /\ \/ Spend
     \/ /\ ~Ready \/ hand.pc \in Waits \/ (hand.pc \in Phases /\ ~Valid(Recorded))
        /\ UNCHANGED left
  /\ FailCutover \/ FailRecovery \/ FailFence \/ FailCleanup
  /\ helper' \in IF hand.pc \in {WaitOf[d] : d \in Directions}
                   THEN {helper, None} ELSE {helper}
  /\ UNCHANGED <<records, retired, marker, conf, saved, live, dying, fresh, signal>>

(* The local recover command, under the lock.                              *)
Recover ==
  /\ LockFree
  /\ pending # None /\ pending.phase # "recovery-failed"
  /\ Run("recover", "unlink")
  /\ UNCHANGED <<records, retired, marker, conf, saved, xen, actors, mode, left>>

(* Once its worker has ended, the supervisor recovers what is pending.     *)
SupervisorRecovers ==
  /\ sup = "reaped" /\ LockFree
  /\ sup' = "over"
  /\ IF pending # None /\ pending.phase # "recovery-failed"
       THEN Run("recover", "unlink") ELSE UNCHANGED hand
  /\ UNCHANGED <<records, retired, marker, conf, saved, xen, signal, mode, left>>

(* It takes the lock without waiting: any other command that holds it      *)
(* ends the supervisor.                                                    *)
SupervisorLoses ==
  /\ sup = "reaped" /\ hand # Idle
  /\ sup' = "over"
  /\ UNCHANGED <<records, retired, marker, conf, saved, xen, hand, signal, mode, left>>

(* A command that only reads, such as provisioning-status.                 *)
TakeStatus ==
  /\ LockFree
  /\ Run("status", "read")
  /\ UNCHANGED <<records, retired, marker, conf, saved, xen, actors, mode, left>>

EndStatus ==
  /\ hand.do = "status"
  /\ hand' = Idle
  /\ UNCHANGED <<records, retired, marker, conf, saved, xen, actors, mode, left>>

-----------------------------------------------------------------------------
(* Controller commands that take no lock.                                  *)

CheckEnrollment ==
  /\ mode = "up" /\ signal = "none"
  /\ pending # None /\ pending.phase = "awaiting-enrollment"
  /\ live = {"candidate"}
  /\ signal' = "device"
  /\ UNCHANGED <<records, retired, marker, conf, saved, xen, hand, sup, mode, left>>

PublishDevice ==
  /\ signal = "device"
  /\ evidence' = evidence \cup {"device"}
  /\ signal' = "enroll"
  /\ UNCHANGED <<accepted, pending, complete, receipt, cleanup, retired,
                 marker, conf, saved, xen, hand, sup, mode, left>>

PublishEnrollment ==
  /\ signal = "enroll"
  /\ evidence' = evidence \cup {"enrolled"}
  /\ signal' = "none"
  /\ UNCHANGED <<accepted, pending, complete, receipt, cleanup, retired,
                 marker, conf, saved, xen, hand, sup, mode, left>>

CheckAcceptance ==
  /\ mode = "up" /\ signal = "none"
  /\ pending # None /\ pending.phase = "awaiting-acceptance"
  /\ cleanup = "done" /\ "enrolled" \in evidence /\ "acceptance" \notin evidence
  /\ signal' = "accept"
  /\ UNCHANGED <<records, retired, marker, conf, saved, xen, hand, sup, mode, left>>

PublishAcceptance ==
  /\ signal = "accept"
  /\ evidence' = evidence \cup {"acceptance"}
  /\ signal' = "none"
  /\ UNCHANGED <<accepted, pending, complete, receipt, cleanup, retired,
                 marker, conf, saved, xen, hand, sup, mode, left>>

SignalLost ==
  /\ signal # "none"
  /\ signal' = "none"
  /\ UNCHANGED <<records, retired, marker, conf, saved, xen, hand, sup, mode, left>>

-----------------------------------------------------------------------------
(* Retirement of what a completed operation no longer needs.               *)

(* The controller proved that the candidate's device is gone, or that it   *)
(* never had one: then no enrollment was even attempted.                   *)
DeviceAbsent ==
  IF "device" \in evidence THEN TRUE
  ELSE ~complete.candidate_started /\ "attempt" \notin evidence

(* The native completion allows the plan, and the selected router runs.    *)
Planned ==
  /\ marker = "none" /\ pending = None /\ complete # None
  /\ accepted = (IF complete.phase = "accepted" THEN "candidate" ELSE "old")
  /\ conf = [gen |-> accepted, auto |-> TRUE]
  /\ live = {accepted}
  /\ complete.phase = "rolled-back" => DeviceAbsent

(* The place a retirement resumes from: the disk goes only with a recorded *)
(* intent, and its absence is believed only with that intent.  An accepted *)
(* candidate leaves no disk of this operation to retire.                   *)
StartCleanup ==
  /\ LockFree /\ Planned
  /\ IF complete.phase = "accepted" THEN Run("cleanup", "retire copy")
     ELSE IF "disk" \notin gone
       THEN progress \in {"none", "disk-removing"} /\ Run("cleanup", "disk-removing")
     ELSE IF progress \in {"disk-removing", "disk-removed"}
       THEN Run("cleanup", "disk-removed")
       ELSE progress # "none" /\ Run("cleanup", "unlink boot")
  /\ UNCHANGED <<records, retired, marker, conf, saved, xen, actors, mode, left>>

SaveProgress ==
  /\ hand.pc \in {"disk-removing", "disk-removed", "boot-removing", "cleaned"}
  /\ hand.pc = "disk-removed" => "boot" \notin gone
  /\ progress' = hand.pc
  /\ IF hand.pc = "cleaned"
       THEN Return(TRUE)
       ELSE /\ Goto(CASE hand.pc = "disk-removing" -> "lvremove"
                      [] hand.pc = "disk-removed"  -> "boot-removing"
                      [] hand.pc = "boot-removing" -> "unlink boot")
            /\ UNCHANGED <<sup, mode>>
  /\ UNCHANGED <<records, gone, marker, conf, saved, xen, signal, left>>

Retire ==
  /\ hand.pc \in {"lvremove", "unlink boot", "retire copy"}
  /\ gone' = gone \cup {CASE hand.pc = "lvremove"    -> "disk"
                          [] hand.pc = "unlink boot" -> "boot"
                          [] hand.pc = "retire copy" -> "copy"}
  /\ Goto(CASE hand.pc = "lvremove"    -> "disk-removed"
            [] hand.pc = "unlink boot" -> "retire copy"
            [] hand.pc = "retire copy" -> "cleaned")
  /\ UNCHANGED <<records, progress, marker, conf, saved, xen, actors, mode, left>>

-----------------------------------------------------------------------------
(* Guests, failures and the boot sequence.                                 *)

(* The copy guest fills its target and the result slot.                    *)
HelperCopies(d) ==
  /\ helper = d /\ d \notin receipt
  /\ receipt' = receipt \cup {d}
  /\ fresh'   = IF Source[d] \in fresh THEN fresh \cup {Target[d]} ELSE fresh
  /\ UNCHANGED <<accepted, pending, complete, evidence, cleanup, retired,
                 marker, conf, saved, live, dying, helper, hand, actors, mode, left>>

FinalizerEnds ==
  /\ helper = "finalizer"
  /\ helper'  = None
  /\ cleanup' = "ran"
  /\ UNCHANGED <<accepted, pending, complete, evidence, receipt, retired,
                 marker, conf, saved, live, dying, fresh, hand, actors, mode, left>>

HelperDies ==
  /\ helper # None
  /\ helper' = None
  /\ Spend
  /\ UNCHANGED <<records, retired, marker, conf, saved, live, dying, fresh,
                 hand, actors, mode>>

(* A router that was asked to shut down ends whenever it has finished.     *)
GuestEnds(s) ==
  /\ s \in dying
  /\ live'  = live \ {s}
  /\ dying' = dying \ {s}
  /\ UNCHANGED <<records, retired, marker, conf, saved, helper, fresh,
                 hand, actors, mode, left>>

GuestDies ==
  /\ live # {}
  /\ live'  = {}
  /\ dying' = {}
  /\ Spend
  /\ UNCHANGED <<records, retired, marker, conf, saved, helper, fresh,
                 hand, actors, mode>>

ProcessKilled ==
  /\ hand # Idle
  /\ Spend
  /\ Return(FALSE)
  /\ UNCHANGED <<records, retired, marker, conf, saved, xen, signal>>

PowerLoss ==
  /\ Spend
  /\ live' = {} /\ dying' = {} /\ helper' = None
  /\ conf' = saved
  /\ hand' = Idle
  /\ sup' = IF sup = "idle" THEN "idle" ELSE "over"
  /\ signal' = "none"
  /\ mode' = "recovery"
  /\ UNCHANGED <<records, retired, marker, saved, fresh>>

(* Other roles of the box commit /etc for their own definitions.           *)
OtherCommit ==
  /\ mode = "up" /\ saved # conf
  /\ saved' = conf
  /\ UNCHANGED <<records, retired, marker, conf, xen, hand, actors, mode, left>>

BootVerified ==
  \/ accepted = None
  \/ conf = [gen |-> accepted, auto |-> TRUE]

(* A router test in progress refuses recovery, so that the link is fenced. *)
BootRecover ==
  /\ mode = "recovery" /\ hand = Idle
  /\ IF marker = "none" /\ pending # None /\ pending.phase # "recovery-failed"
       THEN Run("recover", "unlink") /\ UNCHANGED mode
       ELSE /\ mode' = IF marker = "none" /\ pending = None /\ BootVerified
                         THEN "xendomains" ELSE "fence"
            /\ UNCHANGED hand
  /\ UNCHANGED <<records, retired, marker, conf, saved, xen, actors, left>>

(* The link goes from memory even when its removal cannot be committed.    *)
FenceAutostart ==
  /\ mode = "fence"
  /\ conf' = [conf EXCEPT !.auto = FALSE]
  /\ \/ saved' = conf' /\ UNCHANGED left
     \/ Spend /\ UNCHANGED saved
  /\ mode' = "xendomains"
  /\ UNCHANGED <<records, retired, marker, xen, hand, actors>>

Xendomains ==
  /\ mode = "xendomains"
  /\ mode' = "up"
  /\ IF conf.auto /\ live = {}
       THEN live' = {conf.gen} /\ fresh' = {conf.gen}
       ELSE UNCHANGED <<live, fresh>>
  /\ UNCHANGED <<records, retired, marker, conf, saved, dying, helper, hand,
                 actors, left>>

-----------------------------------------------------------------------------

Worker ==
  \/ Checkpoint \/ Unlink \/ Persist \/ RecordAttempt
  \/ \E s \in Sides : AskShutdown(s) \/ Stop(s) \/ Kill(s)
  \/ \E d \in Directions : StartCopy(d) \/ EndCopy(d) \/ VerifyCopy(d)
  \/ Start \/ CheckLocal \/ AwaitEnrollment \/ Finalize \/ AwaitFinalizer
  \/ AwaitAcceptance \/ Commit \/ Select \/ Link \/ Complete \/ Unpend
  \/ FenceHelper \/ Decide \/ SaveProgress \/ Retire \/ EndStatus

Commands ==
  \/ AdoptBaseline \/ StartCutover \/ Recover \/ SupervisorRecovers
  \/ SupervisorLoses \/ TakeStatus \/ StartCleanup

Controller ==
  \/ CheckEnrollment \/ PublishDevice \/ PublishEnrollment
  \/ CheckAcceptance \/ PublishAcceptance \/ SignalLost

Guests ==
  \/ \E d \in Directions : HelperCopies(d)
  \/ FinalizerEnds \/ \E s \in Sides : GuestEnds(s)

Failures == Fail \/ HelperDies \/ GuestDies \/ ProcessKilled \/ PowerLoss

Boot == BootRecover \/ FenceAutostart \/ Xendomains

RouterNext ==
  \/ Worker \/ Commands \/ Controller \/ Guests \/ Failures \/ OtherCommit \/ Boot

(* A running command goes on, an action that cannot succeed raises, the    *)
(* guests finish, and dom0 boots.  Nothing forces a failure, a controller, *)
(* an operator or a supervisor to act.                                     *)
Fairness ==
  /\ WF_vars(Worker)
  /\ WF_vars(Fail /\ left' = left)
  /\ WF_vars(Boot)
  /\ WF_vars(Guests)

Spec == Init /\ [][RouterNext]_vars /\ Fairness

-----------------------------------------------------------------------------

TypeOK ==
  /\ accepted \in Routers \cup {None}
  /\ pending \in Pending \cup {None}
  /\ complete \in Pending \cup {None}
  /\ evidence \subseteq {"attempt", "device", "enrolled", "acceptance"}
  /\ receipt \subseteq Directions
  /\ cleanup \in {"none", "run", "ran", "done"}
  /\ progress \in {"none", "disk-removing", "disk-removed", "boot-removing", "cleaned"}
  /\ gone \subseteq {"disk", "boot", "copy"}
  /\ {conf, saved} \subseteq [gen: Routers \cup {None}, auto: BOOLEAN]
  /\ live \subseteq Routers
  /\ dying \subseteq live
  /\ helper \in Directions \cup {"finalizer", "first-finalizer", None}
  /\ fresh \subseteq Sides \cup {"backup"}
  /\ sup \in {"idle", "watching", "reaped", "over"}
  /\ signal \in {"none", "device", "enroll", "accept"}
  /\ mode \in {"up", "recovery", "fence", "xendomains"}
  /\ left \in 0..Budget

Failed == pending # None /\ pending.phase = "recovery-failed"

(* Two routers never run together, and no router runs while a copy or      *)
(* finalizer guest holds a disk: stop(), start() and copy() each look      *)
(* before they act, and boot follows a recovery that fenced the helpers.   *)
OneRouter ==
  /\ Cardinality(live) <= 1
  /\ helper # None => live = {}

(* Leases and identity survive every cutover and rollback: some disk holds *)
(* the newest state, and only such a disk is started, by a command or by   *)
(* the boot.  In particular no rollback repeated after a reboot copies the *)
(* candidate's older state over a restarted old router (old_started), and  *)
(* none starts an old router whose copy is not complete.                   *)
StateIsKept ==
  /\ fresh # {}
  /\ live \cap Sides \subseteq fresh
  /\ hand.pc \in Starts /\ Ready => Side \in fresh
  /\ mode = "xendomains" /\ conf.auto => conf.gen \in fresh \cup {"first"}

(* A recovery that gives up says whether the fence was confirmed; if it    *)
(* was, no router and no helper runs, and neither this boot nor the next   *)
(* one starts a router by itself.                                          *)
FailedIsFenced ==
  Failed /\ pending.fenced =>
    /\ live = {} /\ helper = None
    /\ ~conf.auto /\ ~saved.auto

(* Without an operation in progress only the selected router runs or is    *)
(* booted, and a finished operation agrees with the selection, whichever   *)
(* worker, recovery or boot finished it.                                   *)
SettledIsSelected ==
  pending = None /\ marker = "none" /\ accepted # None =>
    /\ live \subseteq {accepted}
    /\ conf.auto => conf.gen = accepted
    /\ saved.auto => saved.gen = accepted
    /\ complete # None =>
         accepted = (IF complete.phase = "accepted" THEN "candidate" ELSE "old")

(* Once the failures are over, a running cutover or recovery ends with a   *)
(* settled operation, or with a recorded failure and its fence.            *)
OperationEnds ==
  (left = 0 /\ hand.do \in {"cutover", "fence"} \cup Recovering)
    ~> (pending = None \/ Failed)

(* The router keeps the promise every other role has: one selected         *)
(* generation that changes once, and never a retired one in service.       *)
Selection == INSTANCE GenerationSelection WITH
  Roles       <- {"router"},
  Generations <- Sides,
  Trials      <- {"candidate"},
  Base        <- "old",
  selected    <- [r \in {"router"} |-> IF accepted = "candidate" THEN accepted ELSE "old"],
  retired     <- [r \in {"router"} |-> IF accepted = "candidate" THEN {"old"} ELSE {}],
  running     <- [r \in {"router"} |-> IF live \cap Sides = {} THEN None
                                         ELSE CHOOSE s \in live \cap Sides : TRUE]

(* Every start, exit and commit of a router is a step that the promise of  *)
(* GenerationSelection allows.                                             *)
ImplementsSelection == Selection!Spec

=============================================================================
