---------------------------- MODULE RouterColdTest ----------------------------
(***************************************************************************)
(* The supervised cold test of a first router installation, added to the   *)
(* router transaction: router_cold_cycle.py with the window, the return    *)
(* and the archive it drives, and the first installation that runs inside  *)
(* the window.                                                             *)
(*                                                                         *)
(* The window sets the original router aside: the test marker fences boot, *)
(* the original stops, its disk is copied to a backup and renamed, and its *)
(* selectors go, so that the box looks as if it had no router.  A first    *)
(* installation then creates a router of its own.  The return stops that   *)
(* router, archives its records, removes its selectors, retires its disk   *)
(* and puts the original back.  The marker stays until a health check of   *)
(* the original clears it.                                                 *)
(*                                                                         *)
(* cycle is the place of the cold worker outside the transaction lock;     *)
(* while it holds the lock for several durable writes, hand.do = "cold".   *)
(* A worker that ends early is run again by its supervisor or an operator, *)
(* and begins with the return.                                             *)
(***************************************************************************)
EXTENDS RouterTransaction

VARIABLES
  cycle,   \* the cold worker: "idle", "dead", "over" or the step it is at
  window,  \* the durable records of the window
  test     \* the durable records and the disk of the first installation

(* No guest is named like the absence of one.                              *)
ASSUME ColdAssumption == None # "first-finalizer"

cold  == <<cycle, window, test>>
cvars == <<vars, cold>>

Opening   == {"arm", "stop", "backup", "hold", "open", "wait"}
Returning == {"fence", "return", "stop-test", "archive", "remove", "retire",
              "put-back", "restore", "commit", "start", "verify"}

MarkerPhases == {"armed", "holding", "held", "opening", "open", "restoring"}
Stages       == {"none", "planned", "allocated", "prepared", "enrolled", "verified"}

ColdInit ==
  /\ Init
  /\ cycle  = "idle"
  /\ window = [expired   |-> FALSE,    \* past the deadline that arm recorded
               held      |-> FALSE,    \* the original disk has its hold name
               backup    |-> FALSE,    \* its copy is complete and verified
               ready     |-> "no",     \* the ready record and the return request
               returning |-> FALSE,    \* return-intent.json
               archive   |-> "none",   \* disk stage in the archived records
               removing  |-> FALSE,    \* selectors-removal.json
               raised    |-> FALSE,    \* this worker reports an error when it ends
               result    |-> FALSE]    \* supervisor-result.json
  /\ test   = [stage  |-> "none",      \* installation.json
               disk   |-> "none",      \* candidate-disk.json
               lv     |-> FALSE,       \* the logical volume
               booted |-> FALSE,       \* initial-boot-intent.json
               final  |-> "none"]      \* the offline finalization

(* Every router guest is stopped and no helper holds a disk.               *)
Located == live = {} /\ helper = None

(* The box looks as if it had no router.                                   *)
Bare == accepted = None /\ conf = [gen |-> None, auto |-> FALSE]

(* What the archive accepts: installation.json, accepted.json and the disk *)
(* record agree.                                                           *)
Consistent ==
  /\ (test.stage = "verified") = (accepted = "first")
  /\ IF test.stage = "planned" THEN test.disk \in {"none", "planned"} /\ ~test.lv
                               ELSE test.disk \in {"allocated", "cloned"} /\ test.lv

(* The disk record as the archive keeps it.                                *)
DiskRecord == IF test.disk = "none" THEN "no-disk" ELSE test.disk

(* What the worker needs at each place; it raises an error otherwise.      *)
ColdReady ==
  /\ cycle = "backup" => Located
  /\ cycle = "hold" => /\ marker = "armed" /\ ~window.expired
                       /\ accepted = "old" /\ Located
  /\ cycle = "open" => /\ marker = "held" /\ ~window.expired
                       /\ accepted = "old" /\ Located
                       /\ conf = [gen |-> "old", auto |-> TRUE]
  /\ cycle = "return" /\ marker # "open" => test.stage = "none"
  /\ cycle = "stop-test" /\ test.stage # "none" =>
       IF test.booted THEN helper = None ELSE Located
  /\ cycle = "archive" => /\ pending = None /\ Located
                          /\ IF test.stage = "none"
                               THEN Bare /\ test.disk = "none" /\ ~test.lv
                               ELSE Consistent
  /\ cycle = "remove" => pending = None /\ Located /\ DiskRecord = window.archive
  /\ cycle = "retire" =>
       /\ pending = None /\ Located /\ Bare
       /\ test.disk \in {"none", "planned", "aborted", "retired"} => ~test.lv
  /\ cycle = "put-back" =>
       live = {} \/ (live = {"old"} /\ marker \in {"armed", "restoring"})
  /\ cycle = "restore" =>
       \/ live = {"old"}
       \/ /\ Located /\ test.stage = "none"
          /\ {accepted, conf.gen} \subseteq {None, "old"}
  /\ cycle = "start" => Located
  /\ cycle = "verify" => /\ live = {"old"} /\ accepted = "old" /\ marker = "restoring"
                         /\ pending = None /\ test.stage = "none"

(* The places at which the worker takes the transaction lock.              *)
Locking == {"backup", "hold", "open", "fence", "archive", "remove", "retire",
            "put-back", "restore", "verify"}

At(c)      == cycle = c /\ mode = "up" /\ ColdReady /\ (c \in Locking => hand = Idle)
Step(pc)   == hand.do = "cold" /\ hand.pc = pc
Cold(pc)   == hand' = [do |-> "cold", pc |-> pc, failed |-> FALSE] /\ UNCHANGED cycle
Release(c) == hand' = Idle /\ cycle' = c

-----------------------------------------------------------------------------
(* Opening the window.                                                     *)

(* Arming writes the boot fence before anything stops.  It refuses a       *)
(* router that is not the accepted baseline, and a backup already used.    *)
Arm ==
  /\ LockFree
  /\ cycle \in {"idle", "dead"} /\ ~window.result /\ ~window.backup
  /\ marker = "none" /\ pending = None /\ test.stage = "none"
  /\ accepted = "old" /\ live = {"old"} /\ conf = saved
  /\ marker' = "armed"
  /\ cycle'  = "stop"
  /\ window' = [window EXCEPT !.expired = FALSE, !.raised = FALSE]
  /\ UNCHANGED <<records, retired, conf, saved, xen, hand, actors, mode, left, test>>

(* The graceful stop of the original takes no lock.                        *)
AskOriginal ==
  /\ At("stop")
  /\ "old" \in live \ dying
  /\ dying' = dying \cup {"old"}
  /\ UNCHANGED <<records, retired, marker, conf, saved, live, helper, fresh,
                 hand, actors, mode, left, cold>>

StopOriginal ==
  /\ At("stop")
  /\ "old" \in live => "old" \in dying
  /\ live'  = live \ {"old"}
  /\ dying' = dying \ {"old"}
  /\ cycle' = "backup"
  /\ UNCHANGED <<records, retired, marker, conf, saved, helper, fresh, hand,
                 actors, mode, left, window, test>>

\* Seeded fault: the receipt of the backup comes before its data.
CopyOriginalLater ==
  /\ At("backup")
  /\ window' = [window EXCEPT !.backup = TRUE]
  /\ cycle'  = "hold"
  /\ UNCHANGED <<vars, test>>

(* The copy is verified against the stopped original and inspected.        *)
CopyOriginal ==
  /\ At("backup")
  /\ window' = [window EXCEPT !.backup = TRUE]
  /\ fresh'  = IF "old" \in fresh THEN fresh \cup {"backup"} ELSE fresh
  /\ cycle'  = "hold"
  /\ UNCHANGED <<records, retired, marker, conf, saved, live, dying, helper,
                 hand, actors, mode, left, test>>

(* hold() and open_target() take the lock for several durable writes.      *)
Hold ==
  /\ At("hold")
  /\ Cold("holding")
  /\ UNCHANGED <<records, retired, marker, conf, saved, xen, actors, mode, left,
                 window, test>>

OpenTarget ==
  /\ At("open")
  /\ Cold("opening")
  /\ UNCHANGED <<records, retired, marker, conf, saved, xen, actors, mode, left,
                 window, test>>

(* The ready record, and the end of the wait by a signal or the deadline.  *)
PublishReady ==
  /\ At("wait") /\ window.ready = "no"
  /\ window' = [window EXCEPT !.ready = "ready"]
  /\ UNCHANGED <<vars, cycle, test>>

EndWait ==
  /\ At("wait") /\ window.ready # "no"
  /\ window.expired \/ window.ready = "return"
  /\ cycle' = "fence"
  /\ UNCHANGED <<vars, window, test>>

Expire ==
  /\ marker # "none" /\ ~window.expired
  /\ window' = [window EXCEPT !.expired = TRUE]
  /\ UNCHANGED <<vars, cycle, test>>

(* The controller ends an open window early.                               *)
SignalReturn ==
  /\ LockFree
  /\ window.ready = "ready"
  /\ marker = "open" /\ ~window.expired /\ ~window.returning
  /\ window' = [window EXCEPT !.ready = "return"]
  /\ UNCHANGED <<vars, cycle, test>>

-----------------------------------------------------------------------------
(* Returning the original.                                                 *)

(* A worker that finds the marker recovers, whatever it was doing before.  *)
Restart ==
  /\ mode = "up" /\ marker # "none"
  /\ cycle \in {"dead", "over"}
  /\ cycle'  = "fence"
  /\ window' = [window EXCEPT !.raised = FALSE]
  /\ UNCHANGED <<vars, test>>

(* The return intent stops new stages of the first installation.           *)
FenceNewWork ==
  /\ At("fence")
  /\ window' = [window EXCEPT !.returning = @ \/ marker = "open"]
  /\ cycle'  = "return"
  /\ UNCHANGED <<vars, test>>

BeginReturn ==
  /\ At("return")
  /\ cycle' = IF marker = "open" THEN "stop-test" ELSE "put-back"
  /\ UNCHANGED <<vars, window, test>>

StopTest ==
  /\ At("stop-test")
  /\ live'  = IF test.stage = "none" THEN live ELSE live \ {"first"}
  /\ dying' = dying \cap live'
  /\ cycle' = IF window.archive = "none" THEN "archive" ELSE "remove"
  /\ UNCHANGED <<records, retired, marker, conf, saved, helper, fresh, hand,
                 actors, mode, left, window, test>>

(* The sealed manifest of the test's records, or the proof that no         *)
(* installation began, after which there is nothing to remove.             *)
Archive ==
  /\ At("archive")
  /\ IF test.stage = "none"
       THEN cycle' = "put-back" /\ UNCHANGED window
       ELSE /\ window' = [window EXCEPT !.archive = DiskRecord]
            /\ cycle' = "remove"
  /\ UNCHANGED <<vars, test>>

RemoveSelectors ==
  /\ At("remove")
  /\ Cold("removal")
  /\ UNCHANGED <<records, retired, marker, conf, saved, xen, actors, mode, left,
                 window, test>>

\* Seeded fault: the disk is recorded as retired and left in place.
RetireDiskInName ==
  /\ At("retire")
  /\ Cold("disk-retired")
  /\ UNCHANGED <<records, retired, marker, conf, saved, xen, actors, mode, left,
                 window, test>>

RetireDisk ==
  /\ At("retire")
  /\ Cold(IF test.lv THEN "disk-retiring" ELSE "disk-retired")
  /\ UNCHANGED <<records, retired, marker, conf, saved, xen, actors, mode, left,
                 window, test>>

(* The disk of an original that does not run is put back; one that still   *)
(* runs because its window was only armed is left alone.                   *)
RestoreDisk ==
  /\ At("put-back")
  /\ IF live = {"old"} /\ marker = "restoring"
       THEN cycle' = "verify" /\ UNCHANGED hand
       ELSE Cold("restoring")
  /\ UNCHANGED <<records, retired, marker, conf, saved, xen, actors, mode, left,
                 window, test>>

RestoreMetadata ==
  /\ At("restore")
  /\ IF live = {"old"}
       THEN cycle' = "verify" /\ UNCHANGED hand
       ELSE Cold("put-definition")
  /\ UNCHANGED <<records, retired, marker, conf, saved, xen, actors, mode, left,
                 window, test>>

CommitOriginal ==
  /\ At("commit")
  /\ saved' = conf
  /\ cycle' = "start"
  /\ UNCHANGED <<records, retired, marker, conf, xen, hand, actors, mode, left,
                 window, test>>

StartOriginal ==
  /\ At("start")
  /\ live'  = {"old"}
  /\ fresh' = {"old"}
  /\ cycle' = "verify"
  /\ UNCHANGED <<records, retired, marker, conf, saved, dying, helper, hand,
                 actors, mode, left, window, test>>

(* A worker that recovers from an error of its own reports that error;     *)
(* only the next one records the result.                                   *)
VerifyRestored ==
  /\ At("verify")
  /\ cycle'  = IF window.raised THEN "dead" ELSE "over"
  /\ window' = [window EXCEPT !.result = @ \/ ~window.raised]
  /\ UNCHANGED <<vars, test>>

(* The separate health check of the running original removes the fence.    *)
ClearFence ==
  /\ LockFree
  /\ marker = "restoring"
  /\ pending = None /\ test.stage = "none"
  /\ accepted = "old" /\ live = {"old"}
  /\ conf = [gen |-> "old", auto |-> TRUE] /\ saved = conf
  /\ marker' = "none"
  /\ UNCHANGED <<records, retired, conf, saved, xen, hand, actors, mode, left, cold>>

-----------------------------------------------------------------------------
(* The worker's steps while it holds the lock.                             *)

(* The place after a step, in the same hold of the lock or after it.       *)
Proceed ==
  CASE hand.pc = "holding"             -> Cold("rename-away")
    [] hand.pc = "rename-away"         -> Cold("held")
    [] hand.pc = "held"                -> Release("open")
    [] hand.pc = "opening"             -> Cold("unlink-link")
    [] hand.pc = "removal"             -> Cold("unlink-link")
    [] hand.pc = "unlink-link"         -> Cold("unlink-definition")
    [] hand.pc = "unlink-definition"   -> Cold("unlink-accepted")
    [] hand.pc = "unlink-accepted"     -> Cold(IF marker = "opening" THEN "persist-bare"
                                               ELSE "unlink-installation")
    [] hand.pc = "unlink-installation" -> Cold("persist-bare")
    [] hand.pc = "persist-bare"        -> IF marker = "opening" THEN Cold("open")
                                          ELSE Release("retire")
    [] hand.pc = "open"                -> Release("wait")
    [] hand.pc = "disk-retiring"       -> Cold("remove-disk")
    [] hand.pc = "remove-disk"         -> Cold("disk-retired")
    [] hand.pc = "disk-retired"        -> Release("put-back")
    [] hand.pc = "restoring"           -> IF window.held THEN Cold("repair")
                                          ELSE Release("restore")
    [] hand.pc = "repair"              -> Cold("rename-back")
    [] hand.pc = "rename-back"         -> Release("restore")
    [] hand.pc = "put-definition"      -> Cold("put-accepted")
    [] hand.pc = "put-accepted"        -> Cold("put-link")
    [] hand.pc = "put-link"            -> Release("commit")

(* The phase of the marker is durable before the step it announces.        *)
MarkPhase ==
  /\ \E p \in MarkerPhases : Step(p)
  /\ marker' = hand.pc
  /\ Proceed
  /\ UNCHANGED <<records, retired, conf, saved, xen, actors, mode, left, window, test>>

Rename ==
  /\ Step("rename-away") \/ Step("rename-back")
  /\ window' = [window EXCEPT !.held = Step("rename-away")]
  /\ Proceed
  /\ UNCHANGED <<records, retired, marker, conf, saved, xen, actors, mode, left, test>>

(* Only a held original, cold since the copy, is ever written from the     *)
(* backup.                                                                 *)
Repair ==
  /\ Step("repair")
  /\ fresh' = IF "backup" \in fresh THEN fresh \cup {"old"} ELSE fresh \ {"old"}
  /\ Proceed
  /\ UNCHANGED <<records, retired, marker, conf, saved, live, dying, helper,
                 actors, mode, left, window, test>>

(* The removal of the test's selectors is announced by its intent.         *)
RecordRemoval ==
  /\ Step("removal")
  /\ window' = [window EXCEPT !.removing = TRUE]
  /\ Proceed
  /\ UNCHANGED <<records, retired, marker, conf, saved, xen, actors, mode, left, test>>

(* Selectors go one by one; what is already gone is passed over.           *)
UnlinkBoot ==
  /\ Step("unlink-link") \/ Step("unlink-definition")
  /\ conf' = IF Step("unlink-link") THEN [conf EXCEPT !.auto = FALSE]
                                    ELSE [conf EXCEPT !.gen = None]
  /\ Proceed
  /\ UNCHANGED <<records, retired, marker, saved, xen, actors, mode, left, window, test>>

UnlinkAccepted ==
  /\ Step("unlink-accepted")
  /\ accepted' = None
  /\ Proceed
  /\ UNCHANGED <<pending, complete, evidence, receipt, cleanup, retired, marker,
                 conf, saved, xen, actors, mode, left, window, test>>

UnlinkInstallation ==
  /\ Step("unlink-installation")
  /\ test' = [test EXCEPT !.stage = "none"]
  /\ Proceed
  /\ UNCHANGED <<records, retired, marker, conf, saved, xen, actors, mode, left, window>>

PersistBare ==
  /\ Step("persist-bare")
  /\ saved' = conf
  /\ Proceed
  /\ UNCHANGED <<records, retired, marker, conf, xen, actors, mode, left, window, test>>

(* The record of the test disk says what is about to happen to it.         *)
RetireTestDisk ==
  /\ \E p \in {"disk-retiring", "remove-disk", "disk-retired"} : Step(p)
  /\ test' = IF Step("remove-disk") THEN [test EXCEPT !.lv = FALSE]
             ELSE [test EXCEPT !.disk =
               IF @ = "none" THEN "none"
               ELSE IF @ \in {"planned", "aborted"} THEN "aborted"
               ELSE IF Step("disk-retiring") THEN "retiring" ELSE "retired"]
  /\ Proceed
  /\ UNCHANGED <<records, retired, marker, conf, saved, xen, actors, mode, left,
                 window>>

(* The accepted pointer comes after its definition, the link last.         *)
PutBack ==
  /\ \E p \in {"put-definition", "put-accepted", "put-link"} : Step(p)
  /\ accepted' = IF Step("put-accepted") THEN "old" ELSE accepted
  /\ conf' = CASE Step("put-definition") -> [conf EXCEPT !.gen = "old"]
               [] Step("put-link")       -> [conf EXCEPT !.auto = TRUE]
               [] Step("put-accepted")   -> conf
  /\ Proceed
  /\ UNCHANGED <<pending, complete, evidence, receipt, cleanup, retired, marker,
                 saved, xen, actors, mode, left, window, test>>

-----------------------------------------------------------------------------
(* The first installation inside the window, one locked command a stage.   *)

InWindow == marker = "open" /\ ~window.expired /\ ~window.returning

Install(pc) == hand' = [do |-> "install", pc |-> pc, failed |-> FALSE]
Doing(pc)   == hand.do = "install" /\ hand.pc = pc

(* A preparation resumes where the records say an earlier one stopped.     *)
ResumesAt(pc) ==
  \/ pc = "plan"      /\ test.stage = "none"
  \/ pc = "plan-disk" /\ test.stage = "planned" /\ test.disk \in {"none", "planned"} /\ ~test.lv
  \/ pc = "allocated" /\ test.stage = "planned"   /\ test.disk = "allocated"
  \/ pc = "clone"     /\ test.stage = "allocated" /\ test.disk = "allocated"
  \/ pc = "prepared"  /\ test.stage = "allocated" /\ test.disk = "cloned"

StartPreparation ==
  /\ LockFree /\ InWindow /\ Bare
  /\ \E pc \in {"plan", "plan-disk", "allocated", "clone", "prepared"} :
       ResumesAt(pc) /\ Install(pc)
  /\ UNCHANGED <<records, retired, marker, conf, saved, xen, actors, mode, left, cold>>

(* The disk and its record change without a look at the window.            *)
Allocate ==
  /\ hand.do = "install"
  /\ \/ /\ hand.pc = "plan-disk"
        /\ test' = [test EXCEPT !.disk = "planned"]
        /\ Install("lvcreate")
     \/ /\ hand.pc = "lvcreate"
        /\ test' = [test EXCEPT !.lv = TRUE]
        /\ Install("record-disk")
     \/ /\ hand.pc = "record-disk"
        /\ test' = [test EXCEPT !.disk = "allocated"]
        /\ Install("allocated")
     \/ /\ hand.pc = "clone"
        /\ test' = [test EXCEPT !.disk = "cloned"]
        /\ Install("prepared")
  /\ UNCHANGED <<records, retired, marker, conf, saved, xen, actors, mode, left,
                 cycle, window>>

(* The installation record looks at the window each time it moves on.      *)
RecordInstallation ==
  /\ hand.do = "install" /\ InWindow
  /\ hand.pc \in {"plan", "allocated", "prepared", "verified"}
  /\ test' = [test EXCEPT !.stage = IF hand.pc = "plan" THEN "planned" ELSE hand.pc]
  /\ CASE hand.pc = "plan"      -> Install("plan-disk")
       [] hand.pc = "allocated" -> Install("clone")
       [] hand.pc = "prepared"  -> hand' = Idle
       [] hand.pc = "verified"  -> Install("accept")
  /\ UNCHANGED <<records, retired, marker, conf, saved, xen, actors, mode, left,
                 cycle, window>>

(* The boot intent comes before the guest; a recorded guest is not booted  *)
(* twice.                                                                  *)
StartFirst ==
  /\ LockFree /\ InWindow /\ Bare
  /\ test.stage = "prepared" /\ test.disk = "cloned"
  /\ test' = [test EXCEPT !.booted = TRUE]
  /\ IF live = {"first"} THEN hand' = hand ELSE Install("xl-create")
  /\ UNCHANGED <<records, retired, marker, conf, saved, xen, actors, mode, left,
                 cycle, window>>

BootFirst ==
  /\ Doing("xl-create") /\ live = {}
  /\ live' = {"first"}
  /\ hand' = Idle
  /\ UNCHANGED <<records, retired, marker, conf, saved, dying, helper, fresh,
                 actors, mode, left, cold>>

EnrollFirst ==
  /\ LockFree /\ InWindow /\ accepted = None
  /\ test.stage = "prepared" /\ live = {"first"}
  /\ test' = [test EXCEPT !.stage = "enrolled"]
  /\ UNCHANGED <<vars, cycle, window>>

(* The enrolled disk is finalized offline: the router stops, a guest with  *)
(* the disk alone runs once, and the router starts from the same           *)
(* definition.                                                             *)
StopFirst ==
  /\ LockFree /\ InWindow /\ accepted = None
  /\ test.stage = "enrolled" /\ test.final = "none" /\ live \subseteq {"first"}
  /\ live' = {}
  /\ test' = [test EXCEPT !.final = "stopped"]
  /\ UNCHANGED <<records, retired, marker, conf, saved, dying, helper, fresh, hand,
                 actors, mode, left, cycle, window>>

FinalizeFirst ==
  /\ LockFree /\ InWindow /\ test.stage = "enrolled" /\ Located
  /\ \/ /\ test.final = "stopped"
        /\ helper' = "first-finalizer"
        /\ test' = [test EXCEPT !.final = "running"]
     \/ /\ test.final = "ran"
        /\ UNCHANGED <<helper, test>>
  /\ Install("await-first-finalizer")
  /\ UNCHANGED <<records, retired, marker, conf, saved, live, dying, fresh,
                 actors, mode, left, cycle, window>>

FirstFinalizerEnds ==
  /\ helper = "first-finalizer"
  /\ helper' = None
  /\ test' = [test EXCEPT !.final = "ran"]
  /\ UNCHANGED <<records, retired, marker, conf, saved, live, dying, fresh, hand,
                 actors, mode, left, cycle, window>>

RecordFinal ==
  /\ Doing("await-first-finalizer")
  /\ helper = None /\ test.final = "ran"
  /\ test' = [test EXCEPT !.final = "finalized"]
  /\ hand' = Idle
  /\ UNCHANGED <<records, retired, marker, conf, saved, xen, actors, mode, left,
                 cycle, window>>

StartFinal ==
  /\ LockFree /\ InWindow /\ Bare /\ Located
  /\ test.stage = "enrolled" /\ test.final \in {"finalized", "booted"}
  /\ live' = {"first"}
  /\ test' = [test EXCEPT !.final = "booted"]
  /\ UNCHANGED <<records, retired, marker, conf, saved, dying, helper, fresh, hand,
                 actors, mode, left, cycle, window>>

(* The final boot is bound to the enrolled record: an acceptance that      *)
(* stopped between the stage and the pointer is refused for ever.          *)
StartAcceptance ==
  /\ LockFree /\ InWindow
  /\ test.final = "booted" /\ live = {"first"}
  /\ \/ test.stage = "enrolled" /\ accepted = None    /\ Install("verified")
     \/ test.stage = "verified" /\ accepted = "first" /\ Install("define")
  /\ UNCHANGED <<records, retired, marker, conf, saved, xen, actors, mode, left, cold>>

AcceptFirst ==
  /\ Doing("accept") /\ InWindow
  /\ accepted' = "first"
  /\ Install("define")
  /\ UNCHANGED <<pending, complete, evidence, receipt, cleanup, retired, marker,
                 conf, saved, xen, actors, mode, left, cold>>

InstallAutostart ==
  /\ hand.do = "install"
  /\ \/ /\ hand.pc = "define" /\ live = {"first"}
        /\ conf' = [conf EXCEPT !.gen = "first"]
        /\ Install("link-first") /\ UNCHANGED saved
     \/ /\ hand.pc = "link-first"
        /\ conf' = [conf EXCEPT !.auto = TRUE]
        /\ Install("persist-first") /\ UNCHANGED saved
     \/ /\ hand.pc = "persist-first"
        /\ saved' = conf
        /\ hand' = Idle /\ UNCHANGED conf
  /\ UNCHANGED <<records, retired, marker, xen, actors, mode, left, cold>>

InstallReady ==
  CASE hand.pc \in {"plan", "allocated", "prepared", "verified", "accept"} -> InWindow
    [] hand.pc = "xl-create" -> live = {}
    [] hand.pc = "define"    -> live = {"first"}
    [] hand.pc = "await-first-finalizer" -> helper # None \/ test.final = "ran"
    [] OTHER -> TRUE

-----------------------------------------------------------------------------
(* Errors, kills and power loss.                                           *)

(* An error while the window opens begins the return in the same worker;   *)
(* an error of the return ends the worker.                                 *)
Raise ==
  IF cycle \in Opening
    THEN cycle' = "fence" /\ window' = [window EXCEPT !.raised = TRUE]
    ELSE cycle' = "dead" /\ UNCHANGED window

ColdRefuses ==
  /\ mode = "up" /\ hand.do # "cold" /\ cycle \in Opening \cup Returning
  /\ ~ColdReady
  /\ cycle \in Locking => hand = Idle
  /\ Raise
  /\ UNCHANGED <<vars, test>>

ColdFails ==
  /\ mode = "up" /\ cycle \in Opening \cup Returning
  /\ Spend
  /\ Raise
  /\ hand' = IF hand.do = "cold" THEN Idle ELSE hand
  /\ UNCHANGED <<records, retired, marker, conf, saved, xen, actors, mode, test>>

(* The lock is taken without waiting.  A return that finds it taken starts *)
(* again from its beginning.                                               *)
LockBusy ==
  /\ mode = "up" /\ cycle \in Locking
  /\ hand # Idle /\ hand.do # "cold"
  /\ Spend
  /\ IF cycle \in Opening THEN Raise ELSE cycle' = "fence" /\ UNCHANGED window
  /\ UNCHANGED <<records, retired, marker, conf, saved, xen, hand, actors, mode, test>>

ColdKilled ==
  /\ cycle \in Opening \cup Returning
  /\ Spend
  /\ cycle' = "dead"
  /\ hand'  = IF hand.do = "cold" THEN Idle ELSE hand
  /\ UNCHANGED <<records, retired, marker, conf, saved, xen, actors, mode, window, test>>

InstallFails ==
  /\ hand.do = "install"
  /\ Spend \/ (~InstallReady /\ UNCHANGED left)
  /\ hand' = Idle
  /\ UNCHANGED <<records, retired, marker, conf, saved, xen, actors, mode, cold>>

(* The held original is damaged while the window is open.                  *)
Damage ==
  /\ marker = "open" /\ hand.do # "cold"
  /\ window.held /\ "backup" \in fresh /\ "old" \in fresh
  /\ Spend
  /\ fresh' = fresh \ {"old"}
  /\ UNCHANGED <<records, retired, marker, conf, saved, live, dying, helper, hand,
                 actors, mode, cold>>

ColdPowerLoss ==
  /\ PowerLoss
  /\ cycle' = IF cycle \in {"idle", "over"} THEN cycle ELSE "dead"
  /\ UNCHANGED <<window, test>>

-----------------------------------------------------------------------------

(* Bound: a behaviour has a cutover or a cold test, not one after the      *)
(* other.  A cutover tried while the marker is set stays possible.         *)
OneOperation ==
  /\ marker = "none" /\ marker' # "none" => complete = None
  /\ pending = None /\ pending' # None => cycle = "idle" \/ marker # "none"

(* The commands of the router transaction, which know the marker.          *)
Transaction ==
  /\ \/ Worker \/ Commands \/ Controller \/ Guests \/ Boot \/ OtherCommit
     \/ Fail \/ HelperDies \/ GuestDies
     \/ hand.do # "cold" /\ ProcessKilled
  /\ UNCHANGED cold

ColdStep ==
  \/ AskOriginal \/ StopOriginal \/ CopyOriginal \/ Hold \/ OpenTarget
  \/ PublishReady \/ EndWait
  \/ FenceNewWork \/ BeginReturn \/ StopTest \/ Archive \/ RemoveSelectors
  \/ RetireDisk \/ RestoreDisk \/ RestoreMetadata \/ CommitOriginal
  \/ StartOriginal \/ VerifyRestored
  \/ MarkPhase \/ Rename \/ Repair \/ RecordRemoval \/ UnlinkBoot
  \/ UnlinkAccepted \/ UnlinkInstallation \/ PersistBare \/ RetireTestDisk \/ PutBack
  \/ ColdRefuses

ColdCommands == Arm \/ Expire \/ SignalReturn \/ Restart \/ ClearFence

InstallStep ==
  \/ Allocate \/ RecordInstallation \/ BootFirst \/ AcceptFirst \/ InstallAutostart
  \/ RecordFinal \/ FirstFinalizerEnds \/ InstallFails

InstallCommands ==
  \/ StartPreparation \/ StartFirst \/ EnrollFirst \/ StopFirst \/ FinalizeFirst
  \/ StartFinal \/ StartAcceptance

ColdFailures == ColdFails \/ LockBusy \/ ColdKilled \/ Damage \/ ColdPowerLoss

ColdNext ==
  /\ \/ Transaction \/ ColdStep \/ ColdCommands \/ InstallStep \/ InstallCommands
     \/ ColdFailures
  /\ OneOperation

(* The worker, a started command and the guests go on; the deadline comes; *)
(* a worker that ended is run again while the marker is set.  Other        *)
(* commands may take the lock again and again, but not for ever.           *)
ColdFairness ==
  /\ Fairness
  /\ SF_cvars(ColdStep)
  /\ WF_cvars(InstallStep)
  /\ WF_cvars(Expire)
  /\ SF_cvars(Restart)

ColdSpec == ColdInit /\ [][ColdNext]_cvars /\ ColdFairness

-----------------------------------------------------------------------------

(* The marker goes only when nothing of the test is left and the original  *)
(* router is selected, committed and running; and the original is set      *)
(* aside, in name or selectors, only under the marker.                     *)
ClearedIsOriginal ==
  marker = "none" =>
    /\ ~window.held
    /\ test.stage = "none" /\ ~test.lv /\ "first" \notin live
    /\ "first" \notin {accepted, conf.gen, saved.gen}

(* The state the original had when it stopped survives the whole test: its *)
(* disk or the verified backup holds it until the original runs again, and *)
(* a backup never overwrites what the restarted original has written.      *)
OriginalIsKept ==
  marker # "none" => /\ fresh \cap {"old", "backup"} # {}
                     /\ "old" \in live => "old" \in fresh

=============================================================================
