------------------------------ MODULE VmService ------------------------------
(***************************************************************************)
(* A service update, from the controller to the dom0: the controller's     *)
(* session (vm_service_updates.py, vm_service_execution.py) asks the dom0  *)
(* dispatcher (vm-service-update, vm_service_engine.py) for one bounded    *)
(* action after another, and the dispatcher calls the transaction.         *)
(*                                                                         *)
(* The dispatcher holds the build lock and reads the journal before it     *)
(* waits for the transaction lock, so what it saw may be stale when its    *)
(* call runs.  The controller, the dispatcher and dom0 fail independently. *)
(***************************************************************************)
EXTENDS VmTransaction

VARIABLES
  svc,      \* service.json: the recorded stage of the service update
  reboot,   \* service.json: the reboot verification
  fresh,    \* operations whose guest booted anew since reboot-start
  drv,      \* the dispatcher holding the build lock, and the stage it read
  ses       \* the controller's session: its operation and its next request

records == <<svc, reboot, fresh>>
svars   == <<vars, records, drv, ses>>

NoDriver  == [op |-> None, act |-> "none", seen |-> "none", pc |-> "idle"]
NoSession == [op |-> None, next |-> "none"]

SInit ==
  /\ Init
  /\ svc    = [o \in Ops |-> "none"]
  /\ reboot = [o \in Ops |-> "required"]
  /\ fresh  = {}
  /\ drv    = NoDriver
  /\ ses    = NoSession

(* A recorded service operation blocks every other until it is complete,   *)
(* or abandoned with the old generation back.                              *)
Unfinished ==
  {o \in Services :
     /\ svc[o] # "none"
     /\ stage[o] # "complete"
     /\ ~(svc[o] = "abandoned" /\ stage[o] \in {"none", "recovered"})}

(* A generation that was not running and now is has booted anew.           *)
Freshen ==
  fresh' = fresh \cup {o \in Ops : guest[RoleOf[o]] # o /\ guest'[RoleOf[o]] = o}

(* A verified copy is recorded whatever the service record said before.    *)
RecordCopy ==
  svc' = [o \in Ops |-> IF o \in ready' \ ready THEN "finalized" ELSE svc[o]]

-----------------------------------------------------------------------------
(* The controller.                                                         *)

Begin(o, first) ==
  /\ ses = NoSession
  /\ mode = "up"
  /\ ses' = [op |-> o, next |-> first]
  /\ UNCHANGED <<vars, records, drv>>

(* A new update starts only while nothing is unfinished; a resumed or      *)
(* abandoned one must be what is unfinished.                               *)
BeginUpdate(o)  == o \in Services /\ svc[o] = "none" /\ Unfinished = {} /\ Begin(o, "prepare")
BeginResume(o)  == Unfinished = {o} /\ Begin(o, "prepare")
BeginAbandon(o) == Unfinished = {o} /\ Begin(o, "abandon")

(* What the session asks for once an answer shows the recorded state.      *)
Following(o, act) ==
  CASE act = "prepare"       -> "advance"
    [] act = "abandon"       -> "none"
    [] stage[o] = "complete" -> "none"
    [] stage[o] = "booted"   -> IF reboot[o] = "required" THEN "reboot-start"
                                ELSE IF reboot[o] = "pending" THEN "reboot-complete"
                                ELSE "checks"
    [] OTHER                 -> "advance"

(* The build lock is taken without waiting; the journal is read first.     *)
Request ==
  /\ mode = "up"
  /\ ses.next \notin {"none", "answer"}
  /\ drv = NoDriver
  /\ drv' = [op |-> ses.op, act |-> ses.next, seen |-> stage[ses.op], pc |-> "call"]
  /\ ses' = [ses EXCEPT !.next = "answer"]
  /\ UNCHANGED <<vars, records>>

(* A session ends when the controller dies or cannot take the build lock.  *)
SessionEnds ==
  /\ ses # NoSession
  /\ ses' = NoSession
  /\ UNCHANGED <<vars, records, drv>>

Answered == ses.next = "answer" /\ ses.op = drv.op

Answer ==
  /\ drv' = NoDriver
  /\ ses' = IF ~Answered THEN ses
            ELSE IF Following(drv.op, drv.act) = "none" THEN NoSession
            ELSE [ses EXCEPT !.next = Following(drv.op, drv.act)]

Error ==
  /\ drv' = NoDriver
  /\ ses' = IF Answered THEN NoSession ELSE ses

-----------------------------------------------------------------------------
(* The dispatcher: prepare().                                              *)

Calls(act) == drv.act = act /\ drv.pc = "call"

(* Allocation freezes the running source, with nothing uncommitted in /etc. *)
(* The transaction lock, held from here to the prepared record, is taken   *)
(* twice, which allows other commands in between that the code does not.   *)
Allocate ==
  LET o == drv.op
  IN  /\ Calls("prepare")
      /\ svc[o] = "none"
      /\ Unfinished = {}
      /\ saved = cfg
      /\ Stage(o)
      /\ svc' = [svc EXCEPT ![o] = "allocated"]
      /\ UNCHANGED <<reboot, fresh, drv, ses>>

Prepare ==
  LET o == drv.op
  IN  /\ Calls("prepare")
      /\ svc[o] = "allocated"
      /\ LockFree
      /\ Commit \/ (saved = cfg /\ UNCHANGED vars)
      /\ svc' = [svc EXCEPT ![o] = "prepared"]
      /\ UNCHANGED <<reboot, fresh>>
      /\ Answer

(* A prepared operation is returned as it is.                              *)
Prepared ==
  /\ Calls("prepare")
  /\ svc[drv.op] \in {"prepared", "finalized", "abandoned"}
  /\ UNCHANGED <<vars, records>>
  /\ Answer

-----------------------------------------------------------------------------
(* The dispatcher: advance, checks and the reboot evidence.                *)

Wait(pc) == drv' = [drv EXCEPT !.pc = pc] /\ UNCHANGED <<reboot, ses>>

\* Seeded fault: a stopped operation starts without its finalized state.
InvokeUnfinalized ==
  LET o == drv.op
  IN  /\ Calls("advance")
      /\ \/ drv.seen = "none" /\ svc[o] # "allocated" /\ Arm(o)
         \/ drv.seen = "armed" /\ Stop(o)
         \/ drv.seen = "stopped" /\ Start(o)
         \/ drv.seen \in {"starting", "booted"} /\ StartAgain(o)
         \/ drv.seen = "tested" /\ Accept(o)
         \/ drv.seen = "accepted" /\ Complete(o)
      /\ Freshen
      /\ UNCHANGED svc
      /\ Wait("wait")

(* Each stage that was read has one transaction call, which reads the      *)
(* journal again under its lock and refuses a stage that has moved on.     *)
Invoke ==
  LET o == drv.op
  IN  /\ Calls("advance")
      /\ \/ drv.seen = "none" /\ svc[o] # "allocated" /\ Arm(o)
         \/ drv.seen = "armed" /\ Stop(o)
         \/ drv.seen = "stopped" /\ o \in ready /\ Start(o)
         \/ drv.seen \in {"starting", "booted"} /\ StartAgain(o)
         \/ drv.seen = "tested" /\ Accept(o)
         \/ drv.seen = "accepted" /\ Complete(o)
      /\ Freshen
      /\ UNCHANGED svc
      /\ Wait("wait")

Copy ==
  LET o == drv.op
  IN  /\ Calls("advance")
      /\ drv.seen = "stopped"
      /\ Finalize(o) \/ Rejoin(o)
      /\ UNCHANGED <<svc, fresh>>
      /\ Wait("copying")

Copied ==
  LET o == drv.op
  IN  /\ Calls("advance")
      /\ drv.seen = "stopped"
      /\ ResumeFinalizer(o)
      /\ RecordCopy
      /\ UNCHANGED fresh
      /\ Wait("call")

(* A finished copy goes on to the start within the same request.           *)
CopyDone ==
  /\ drv.pc = "copying"
  /\ hand = Idle
  /\ drv.op \in ready
  /\ Wait("call")
  /\ UNCHANGED <<vars, svc, fresh>>

Done ==
  /\ drv.act = "advance"
  /\ drv.pc = "wait" \/ (drv.pc = "call" /\ drv.seen = "complete")
  /\ hand = Idle
  /\ UNCHANGED <<vars, records>>
  /\ Answer

(* The controller's checks are written after the reboot was verified.      *)
Checks ==
  LET o == drv.op
  IN  /\ Calls("checks")
      /\ reboot[o] = "complete"
      /\ Tested(o)
      /\ UNCHANGED records
      /\ Answer

(* Reboot evidence is recorded without the transaction lock.               *)
Witnessed(o) == mode = "up" /\ drv.seen # "none" /\ stage[o] = "booted" /\ Finds(o, {o})

RebootStart ==
  LET o == drv.op
  IN  /\ Calls("reboot-start")
      /\ Witnessed(o)
      /\ IF reboot[o] = "required"
           THEN /\ reboot' = [reboot EXCEPT ![o] = "pending"]
                /\ fresh'  = fresh \ {o}
           ELSE UNCHANGED <<reboot, fresh>>
      /\ UNCHANGED <<vars, svc>>
      /\ Answer

RebootComplete ==
  LET o == drv.op
  IN  /\ Calls("reboot-complete")
      /\ Witnessed(o)
      /\ reboot[o] = "pending"
      /\ o \in fresh
      /\ reboot' = [reboot EXCEPT ![o] = "complete"]
      /\ UNCHANGED <<vars, svc, fresh>>
      /\ Answer

-----------------------------------------------------------------------------
(* The dispatcher: abandon().                                              *)

(* Before arm there is nothing to recover: the source must still run.      *)
AbandonUnarmed ==
  LET o == drv.op
  IN  /\ Calls("abandon")
      /\ drv.seen = "none"
      /\ mode = "up"
      /\ guest[RoleOf[o]] = source[o].gen
      /\ DefinitionUnchanged(o)
      /\ Commit \/ (saved = cfg /\ UNCHANGED vars)
      /\ svc' = [svc EXCEPT ![o] = "abandoned"]
      /\ UNCHANGED <<reboot, fresh>>
      /\ Answer

(* Before boot the old generation is recovered ...                         *)
AbandonRecovers ==
  LET o == drv.op
  IN  /\ Calls("abandon")
      /\ drv.seen \in {"armed", "stopping", "stopped", "recovered"}
      /\ o \notin fin
      /\ Recover(o)
      /\ UNCHANGED <<svc, fresh>>
      /\ Wait("wait")

\* Seeded fault: a failed recovery is declared recovered.
AbandonedAnyway ==
  LET o == drv.op
  IN  /\ drv.act = "abandon" /\ drv.pc = "wait"
      /\ hand = Idle
      /\ stage' = [stage EXCEPT ![o] = "recovered"]
      /\ svc' = [svc EXCEPT ![o] = "abandoned"]
      /\ UNCHANGED <<pending, watched, source, pointer, intent, copied, ready>>
      /\ UNCHANGED <<cfg, saved, xen, watcher, expired, hand, boot>>
      /\ UNCHANGED <<reboot, fresh>>
      /\ Answer

(* ... and the attempt is retired once it runs again.                      *)
Abandoned ==
  LET o == drv.op
  IN  /\ drv.act = "abandon" /\ drv.pc = "wait"
      /\ hand = Idle
      /\ stage[o] = "recovered"
      /\ Finds(o, {source[o].gen})
      /\ svc' = [svc EXCEPT ![o] = "abandoned"]
      /\ UNCHANGED <<vars, reboot, fresh>>
      /\ Answer

(* Any request may fail instead, between its transaction calls.            *)
Fails ==
  /\ drv # NoDriver
  /\ drv.pc = "call" \/ hand = Idle
  /\ UNCHANGED <<vars, records>>
  /\ Error

Dispatch ==
  \/ Allocate \/ Prepare \/ Prepared \/ Invoke \/ Copy \/ Copied \/ CopyDone
  \/ Done \/ Checks \/ RebootStart \/ RebootComplete
  \/ AbandonUnarmed \/ AbandonRecovers \/ Abandoned \/ Fails

Controller ==
  \/ \E o \in Ops : BeginUpdate(o) \/ BeginResume(o) \/ BeginAbandon(o)
  \/ Request \/ SessionEnds

-----------------------------------------------------------------------------
(* Everything else on the box.                                             *)

(* The candidate reboots inside its domain.                                *)
GuestReboots(r) ==
  /\ guest[r] \in Ops \ fresh
  /\ fresh' = fresh \cup {guest[r]}
  /\ UNCHANGED <<vars, svc, reboot, drv, ses>>

(* A transaction call that dies takes its dispatcher with it.              *)
DispatcherKilled ==
  /\ "kill" \in Faults
  /\ drv # NoDriver
  /\ Killed \/ (hand = Idle /\ UNCHANGED vars)
  /\ Error
  /\ UNCHANGED records

BoxLosesPower ==
  /\ PowerLoss
  /\ drv' = NoDriver
  /\ ses' = NoSession
  /\ UNCHANGED records

(* Adoption, recovery, runtime reconciliation, the watchdog, boot and the  *)
(* environment do not pass the dispatcher.                                 *)
Beside ==
  /\ \/ \E o \in Adoptions : Stage(o) \/ AdoptOld(o)
     \/ \E o \in Ops : Recover(o) \/ Watch(o)
     \/ \E r \in Roles, want \in Wants : Reconcile(r, want)
     \/ Step \/ Boot
     \/ Killed /\ drv = NoDriver
     \/ \E r \in Roles : GuestExits(r)
     \/ \E o \in Ops : Expire(o) \/ FinalizerExits(o) \/ WatchGivesUp(o)
  /\ Freshen
  /\ RecordCopy
  /\ UNCHANGED <<reboot, drv, ses>>

SNext ==
  \/ Controller \/ Dispatch \/ Beside
  \/ \E r \in Roles : GuestReboots(r)
  \/ DispatcherKilled \/ BoxLosesPower

SSpec == SInit /\ [][SNext]_svars

-----------------------------------------------------------------------------

(* A service is accepted only after its reboot was verified, and starts    *)
(* only after its retained state was finalized, although the dispatcher    *)
(* decides both from a journal it read before it had the lock.             *)
AcceptedIsVerified ==
  \A o \in Services :
    /\ stage[o] \in {"tested", "accepted", "complete"} => reboot[o] = "complete"
    /\ Crossed(o) => o \in ready

(* Sessions and the dispatcher only ever do what the transaction allows.   *)
ImplementsTransaction == Spec

=============================================================================
