--------------------------- MODULE RouterPreparation ---------------------------
(***************************************************************************)
(* How a router's disk comes to be, and how what is left over goes away:   *)
(* one operation on one dom0, from its staged request on.                  *)
(*                                                                         *)
(*   prepare    a volume is allocated and recorded, a template is copied   *)
(*              to it, and a guest without network makes it this box's     *)
(*              router (router_candidate_disk.py,                          *)
(*              router_candidate_preparation.py, router_candidate.py)      *)
(*   finalize   once the router of a first installation has enrolled and   *)
(*              stopped, a second guest takes its first-contact access     *)
(*              away again (router_initial_finalization.py,                *)
(*              router_initial_contact.py)                                 *)
(*   clean up   a replacement that was never launched is removed           *)
(*              (router_preparation_cleanup.py)                            *)
(*   reclaim    the template is removed once nothing refers to it          *)
(*              (router_template_retention.py)                             *)
(*                                                                         *)
(* Every command holds the router lock from its start to its end, or until *)
(* it is killed; a helper guest survives its command.                      *)
(***************************************************************************)
EXTENDS Naturals, Sequences, FiniteSets

CONSTANTS
  Modes,     \* "initial", "replacement": which operations to look at
  Mishaps    \* bound: kills, failures, timeouts, expired grants, power losses

ASSUME ModesAssumption   == Modes \subseteq {"initial", "replacement"}
ASSUME MishapsAssumption == Mishaps \in Nat

VARIABLES
  job,       \* what was requested: mode, first contact, a printer's service
  op,        \* the records of the operation and of the router it leads to
  candidate, \* candidate-disk.json, and whether the volume exists
  root,      \* the content of the volume
  aid,       \* the files of each helper run
  helper,    \* the helper guest
  run,       \* the command that holds the lock
  granted,   \* the controller's grants that are still live
  cleaning,  \* the plan and the progress of the cleanup
  tmpl,      \* the template's files, and whether its removal has begun
  mishaps    \* how many more failures may happen

preparationVars == <<job, op, candidate, root, aid, helper, run, granted, cleaning,
                     tmpl, mishaps>>

Helpers   == {"prepare", "finalize"}
Templates == {"os", "kernel"}
Seeding   == <<"key", "interfaces", "firewall", "config", "link">>
\* Seeded fault: the address of the first contact is left in place.
RetiringMost == <<"key", "link", "config", "interfaces">>

Retiring  == <<"key", "link", "config", "interfaces", "firewall">>
Access    == {Seeding[i] : i \in DOMAIN Seeding}
OwnFiles  == <<"bootstrap", "slot">>

Jobs == {j \in [mode : Modes, contact : BOOLEAN, printer : BOOLEAN] :
           j.mode = "initial" => j.contact}

Unrun   == [slot |-> "none", loop |-> FALSE, cfg |-> FALSE,
            ledger |-> "none", result |-> FALSE]
NoGuest == [kind |-> "none", at |-> "none"]
NoRun   == [pc |-> "idle", kind |-> "prepare", ok |-> FALSE]
Unplanned == [made |-> FALSE, rec |-> "none", lv |-> FALSE, files |-> <<>>,
              phase |-> "none", removed |-> 0, inflight |-> FALSE, done |-> FALSE]

PreparationInit ==
  /\ job \in Jobs
  /\ op = [staged |-> FALSE, boot |-> FALSE, install |-> "none", accepted |-> FALSE,
           launched |-> FALSE, router |-> "off", stopped |-> FALSE]
  /\ candidate = [rec |-> "none", lv |-> FALSE]
  /\ root = [os |-> "blank", access |-> {}, tools |-> FALSE, identity |-> FALSE]
  /\ aid = [k \in Helpers |-> Unrun]
  /\ helper = NoGuest /\ run = NoRun /\ granted = {} /\ cleaning = Unplanned
  /\ tmpl = [files |-> Templates, removing |-> FALSE]
  /\ mishaps = Mishaps

-----------------------------------------------------------------------------
(* What the records say.                                                   *)

Initial == job.mode = "initial"

\* The helper kind of the command that runs, and its files.
Mine == aid[run.kind]

\* A guest of this run exists, whether or not its command still does.
Alive(k) == helper.kind = k

Traces(k) == aid[k].slot # "none" \/ aid[k].cfg \/ aid[k].result

\* A recorded installation, a pending operation or an accepted router
\* refers to the volume.
Owned == op.install # "none" \/ op.launched

\* The cleanup's view: a replacement that nothing was launched from.
Unused == ~Initial /\ ~op.launched

\* Seeded fault: an operation that is not finished holds nothing.
ReferencedWhenDone ==
  op.staged /\ IF Initial THEN op.accepted ELSE ~cleaning.done

\* An unfinished operation, or the accepted router, needs the template.
Referenced ==
  /\ op.staged
  /\ IF Initial THEN op.install # "verified" \/ op.accepted ELSE ~cleaning.done

\* Seeded fault: any answer will do, an empty slot too.
AcceptedAnswer(k) == aid[k].slot # "none"

\* The slot holds a complete answer that the command accepts.
Accepted(k) == aid[k].slot = "whole"

\* The guest has said that it is done, well or not.
Answered(k) == aid[k].slot \in {"whole", "failed"}

Goto(pc) == run' = [run EXCEPT !.pc = pc]
Mishap    == mishaps > 0 /\ mishaps' = mishaps - 1
Aid(k, f, v) == aid' = [aid EXCEPT ![k][f] = v]

-----------------------------------------------------------------------------
(* Preparation: the volume.                                                *)

\* The controller's playbook places the request and the boot artifacts.  It
\* takes no lock and looks at no template.
Stage ==
  /\ ~op.staged
  /\ op' = [op EXCEPT !.staged = TRUE, !.boot = TRUE]
  /\ UNCHANGED <<job, candidate, root, aid, helper, run, granted, cleaning, tmpl, mishaps>>

IssueGrant(g) ==
  /\ CASE g = "prepare"  -> op.staged
       [] g = "finalize" -> op.stopped
       [] g = "clean"    -> cleaning.made
  /\ g \notin granted
  /\ granted' = granted \cup {g}
  /\ UNCHANGED <<job, op, candidate, root, aid, helper, run, cleaning, tmpl, mishaps>>

ExpireGrant(g) ==
  /\ g \in granted /\ Mishap
  /\ granted' = granted \ {g}
  /\ UNCHANGED <<job, op, candidate, root, aid, helper, run, cleaning, tmpl>>

\* Nothing of an earlier router may be there.
FreshTarget == op.router = "off" /\ ~op.accepted

\* The template and the boot artifacts are the approved ones, whole.
Assets == tmpl.files = Templates /\ op.boot

Begin ==
  /\ run = NoRun /\ op.staged /\ "prepare" \in granted
  /\ Assets
  /\ IF Initial
     THEN /\ FreshTarget
          /\ op.install \in {"none", "planned", "allocated", "prepared"}
          /\ run' = [NoRun EXCEPT !.pc =
                 CASE op.install = "none"     -> "plan"
                   [] op.install = "prepared" -> "verify"
                   [] OTHER                   -> "disk"]
     ELSE /\ ~Owned
          /\ run' = [NoRun EXCEPT !.pc = "disk"]
  /\ UNCHANGED <<job, op, candidate, root, aid, helper, granted, cleaning, tmpl, mishaps>>

\* The grant must still be live after the hashes.
PlanInstallation ==
  /\ run.pc = "plan" /\ "prepare" \in granted
  /\ op' = [op EXCEPT !.install = "planned"]
  /\ Goto("disk")
  /\ UNCHANGED <<job, candidate, root, aid, helper, granted, cleaning, tmpl, mishaps>>

\* No volume without its record, and none that an earlier command recorded
\* only as planned.
MayAllocate ==
  /\ candidate.rec \in {"none", "planned"}
  /\ ~candidate.lv
  /\ Initial => op.install = "planned"

MayContinue == candidate.rec \in {"allocated", "cloned"} /\ candidate.lv

RecordPlanned ==
  /\ run.pc = "disk" /\ MayAllocate
  /\ candidate' = [candidate EXCEPT !.rec = "planned"]
  /\ Goto("lvcreate")
  /\ UNCHANGED <<job, op, root, aid, helper, granted, cleaning, tmpl, mishaps>>

AllocateDisk ==
  /\ run.pc = "lvcreate"
  /\ candidate' = [candidate EXCEPT !.lv = TRUE]
  /\ Goto("uuid")
  /\ UNCHANGED <<job, op, root, aid, helper, granted, cleaning, tmpl, mishaps>>

RecordAllocated ==
  /\ run.pc = "uuid"
  /\ candidate' = [candidate EXCEPT !.rec = "allocated"]
  /\ Goto("own")
  /\ UNCHANGED <<job, op, root, aid, helper, granted, cleaning, tmpl, mishaps>>

ContinueDisk ==
  /\ run.pc = "disk" /\ MayContinue
  /\ Goto("own")
  /\ UNCHANGED <<job, op, candidate, root, aid, helper, granted, cleaning, tmpl, mishaps>>

\* The installation records the volume's identity before anything is copied.
RecordOwned ==
  /\ run.pc = "own"
  /\ op' = [op EXCEPT !.install = IF @ = "planned" THEN "allocated" ELSE @]
  /\ Goto("clone")
  /\ UNCHANGED <<job, candidate, root, aid, helper, granted, cleaning, tmpl, mishaps>>

\* A clone that was recorded as complete is taken as it is.
KeepClone ==
  /\ run.pc = "clone" /\ candidate.rec = "cloned"
  /\ Goto("helper")
  /\ UNCHANGED <<job, op, candidate, root, aid, helper, granted, cleaning, tmpl, mishaps>>

\* A disk whose preparation has started is never copied over.
MayClone == candidate.rec = "allocated" /\ aid["prepare"].ledger = "none" /\ ~Traces("prepare")

StartClone ==
  /\ run.pc = "clone" /\ MayClone
  /\ root' = [os |-> "part", access |-> {}, tools |-> FALSE, identity |-> FALSE]
  /\ Goto("copy")
  /\ UNCHANGED <<job, op, candidate, aid, helper, granted, cleaning, tmpl, mishaps>>

FinishClone ==
  /\ run.pc = "copy"
  /\ root' = [root EXCEPT !.os = "template", !.tools = TRUE]
  /\ Goto("checksum")
  /\ UNCHANGED <<job, op, candidate, aid, helper, granted, cleaning, tmpl, mishaps>>

RecordCloned ==
  /\ run.pc = "checksum" /\ root.os = "template"
  /\ candidate' = [candidate EXCEPT !.rec = "cloned"]
  /\ Goto("helper")
  /\ UNCHANGED <<job, op, root, aid, helper, granted, cleaning, tmpl, mishaps>>

\* A prepared installation is only looked at again.
VerifyPrepared ==
  /\ run.pc = "verify" /\ candidate.rec = "cloned" /\ candidate.lv
  /\ Goto("helper")
  /\ UNCHANGED <<job, op, candidate, root, aid, helper, granted, cleaning, tmpl, mishaps>>

-----------------------------------------------------------------------------
(* The helper runs: one protocol for the preparer and for the finalizer.   *)

\* Without a ledger there must be no file that one would have explained.
MayRun ==
  /\ ~Alive(run.kind)
  /\ candidate.rec = "cloned" /\ candidate.lv
  /\ Mine.ledger = "none" => ~Traces(run.kind)

\* A run that was recorded is never repeated: its result is read, or not.
FindRun ==
  /\ run.pc = "helper" /\ MayRun
  /\ Goto(IF Mine.ledger = "none" THEN "slot" ELSE "collect")
  /\ UNCHANGED <<job, op, candidate, root, aid, helper, granted, cleaning, tmpl, mishaps>>

CreateSlot ==
  /\ run.pc = "slot"
  /\ Aid(run.kind, "slot", "empty")
  /\ Goto("attach")
  /\ UNCHANGED <<job, op, candidate, root, helper, granted, cleaning, tmpl, mishaps>>

AttachSlot ==
  /\ run.pc = "attach"
  /\ Aid(run.kind, "loop", TRUE)
  /\ Goto("define")
  /\ UNCHANGED <<job, op, candidate, root, helper, granted, cleaning, tmpl, mishaps>>

Define ==
  /\ run.pc = "define"
  /\ Aid(run.kind, "cfg", TRUE)
  /\ Goto("ledger")
  /\ UNCHANGED <<job, op, candidate, root, helper, granted, cleaning, tmpl, mishaps>>

RecordRun ==
  /\ run.pc = "ledger"
  /\ Aid(run.kind, "ledger", "booting")
  /\ Goto("boot")
  /\ UNCHANGED <<job, op, candidate, root, helper, granted, cleaning, tmpl, mishaps>>

\* The finalizer's grant is read once more between the ledger and the guest.
MayBoot == run.kind = "finalize" => "finalize" \in granted

BootHelper ==
  /\ run.pc = "boot" /\ MayBoot
  /\ helper' = [kind |-> run.kind, at |-> "start"]
  /\ Goto("wait")
  /\ UNCHANGED <<job, op, candidate, root, aid, granted, cleaning, tmpl, mishaps>>

\* A guest that has answered, or has gone, is destroyed before its slot is read.
AwaitHelper ==
  /\ run.pc = "wait"
  /\ Answered(run.kind) \/ ~Alive(run.kind)
  /\ helper' = NoGuest
  /\ Goto("collect")
  /\ UNCHANGED <<job, op, candidate, root, aid, granted, cleaning, tmpl, mishaps>>

\* One that does not answer is destroyed where it stands.
GiveUp ==
  /\ run.pc = "wait" /\ Alive(run.kind) /\ ~Answered(run.kind)
  /\ Mishap
  /\ helper' = NoGuest
  /\ Goto("detach")
  /\ UNCHANGED <<job, op, candidate, root, aid, granted, cleaning, tmpl>>

CollectResult ==
  /\ run.pc = "collect" /\ Accepted(run.kind)
  /\ Aid(run.kind, "result", TRUE)
  /\ Goto("save")
  /\ UNCHANGED <<job, op, candidate, root, helper, granted, cleaning, tmpl, mishaps>>

CompleteRun ==
  /\ run.pc = "save"
  /\ Aid(run.kind, "ledger", "prepared")
  /\ run' = [run EXCEPT !.pc = "detach", !.ok = TRUE]
  /\ UNCHANGED <<job, op, candidate, root, helper, granted, cleaning, tmpl, mishaps>>

\* The loop goes on every way out, unless a guest remains.
DetachSlot ==
  /\ run.pc = "detach" /\ ~Alive(run.kind)
  /\ Aid(run.kind, "loop", FALSE)
  /\ IF run.ok THEN Goto("record") ELSE run' = NoRun
  /\ UNCHANGED <<job, op, candidate, root, helper, granted, cleaning, tmpl, mishaps>>

RecordPrepared ==
  /\ run.pc = "record"
  /\ op' = [op EXCEPT !.install = IF @ = "allocated" THEN "prepared" ELSE @]
  /\ run' = NoRun
  /\ UNCHANGED <<job, candidate, root, aid, helper, granted, cleaning, tmpl, mishaps>>

-----------------------------------------------------------------------------
(* Inside the helper guests.                                               *)

In(kind, at)   == helper = [kind |-> kind, at |-> at]
Then(at)       == helper' = [helper EXCEPT !.at = at]
OnlyRoot       == UNCHANGED <<job, op, candidate, aid, run, granted, cleaning, tmpl, mishaps>>

\* The clone is exactly the template, and carries no machine's identity.
Generic        == root.os = "template" /\ root.access = {} /\ ~root.identity

Personalize ==
  /\ In("prepare", "start") /\ Generic
  /\ root' = [root EXCEPT !.os = "mixed"]
  /\ Then("files") /\ OnlyRoot

WriteFiles ==
  /\ In("prepare", "files")
  /\ root' = [root EXCEPT !.os = "personal"]
  /\ Then(IF job.contact THEN "verify" ELSE "tools") /\ OnlyRoot

\* Without first contact the SSH server goes at once.
RetireTools ==
  /\ helper.at = "tools"
  /\ root' = [root EXCEPT !.tools = FALSE]
  /\ Then(IF helper.kind = "prepare" THEN "verify" ELSE "report") /\ OnlyRoot

\* A printer's service is linked into the runlevel that is then compared
\* with the services of every router.
MayVerify ==
  /\ root.os = "personal" /\ root.access = {} /\ ~root.identity
  /\ root.tools = job.contact
  /\ ~job.printer

VerifyFiles ==
  /\ In("prepare", "verify") /\ MayVerify
  /\ Then(IF job.contact THEN "seed" ELSE "report")
  /\ UNCHANGED root /\ OnlyRoot

\* The next of the first-contact files, in their order.
Seed ==
  /\ In("prepare", "seed")
  /\ LET todo == {i \in DOMAIN Seeding : Seeding[i] \notin root.access} IN
       /\ todo # {}
       /\ \E i \in todo :
            /\ \A j \in todo : i <= j
            /\ root' = [root EXCEPT !.access = @ \cup {Seeding[i]}]
            /\ Then(IF todo = {i} THEN "report" ELSE "seed")
  /\ OnlyRoot

\* The finalizer looks at everything before it removes anything.
VerifyAccess ==
  /\ In("finalize", "start")
  /\ root.identity
  /\ Then("withdraw")
  /\ UNCHANGED root /\ OnlyRoot

Withdraw ==
  /\ In("finalize", "withdraw")
  /\ LET todo == {i \in DOMAIN Retiring : Retiring[i] \in root.access} IN
       IF todo = {} THEN Then("tools") /\ UNCHANGED root
       ELSE \E i \in todo :
              /\ \A j \in todo : i <= j
              /\ root' = [root EXCEPT !.access = @ \ {Retiring[i]}]
              /\ Then("withdraw")
  /\ OnlyRoot

Report ==
  /\ helper.at = "report"
  /\ Aid(helper.kind, "slot", "whole")
  /\ Then("halted")
  /\ UNCHANGED <<job, op, candidate, root, run, granted, cleaning, tmpl, mishaps>>

\* A refusal or an error is reported too.
GuestRefuses ==
  \/ In("prepare", "start") /\ ~Generic
  \/ In("prepare", "verify") /\ ~MayVerify
  \/ In("finalize", "start") /\ ~root.identity

GuestFails ==
  /\ helper.at \notin {"none", "halted", "report"}
  /\ IF GuestRefuses THEN UNCHANGED mishaps ELSE Mishap
  /\ Aid(helper.kind, "slot", "failed")
  /\ Then("halted")
  /\ UNCHANGED <<job, op, candidate, root, run, granted, cleaning, tmpl>>

\* A guest may power off, or only halt and stay.
GuestLeaves ==
  /\ helper.at = "halted"
  /\ helper' = NoGuest
  /\ UNCHANGED <<job, op, candidate, root, aid, run, granted, cleaning, tmpl, mishaps>>

-----------------------------------------------------------------------------
(* What becomes of a prepared disk.  The steps of the first installation   *)
(* are here in outline; RouterColdTest has them within a cold test.        *)

OnlyOp == UNCHANGED <<job, candidate, root, aid, helper, run, granted, cleaning, tmpl, mishaps>>

FirstBoot ==
  /\ run = NoRun /\ Initial /\ op.install = "prepared" /\ op.router = "off"
  /\ op' = [op EXCEPT !.router = "first"] /\ OnlyOp

Enroll ==
  /\ run = NoRun /\ op.install = "prepared" /\ op.router = "first"
  /\ op' = [op EXCEPT !.install = "enrolled"]
  /\ root' = [root EXCEPT !.identity = TRUE]
  /\ UNCHANGED <<job, candidate, aid, helper, run, granted, cleaning, tmpl, mishaps>>

StopRouter ==
  /\ run = NoRun /\ op.install = "enrolled" /\ op.router # "final"
  /\ op' = [op EXCEPT !.router = "off", !.stopped = TRUE] /\ OnlyOp

BeginFinal ==
  /\ run = NoRun /\ op.install = "enrolled" /\ op.stopped /\ "finalize" \in granted
  /\ op.router = "off"
  /\ run' = [NoRun EXCEPT !.pc = "helper", !.kind = "finalize"]
  /\ UNCHANGED <<job, op, candidate, root, aid, helper, granted, cleaning, tmpl, mishaps>>

StartFinal ==
  /\ run = NoRun /\ op.install = "enrolled" /\ op.router = "off"
  /\ aid["finalize"].ledger = "prepared" /\ ~Alive("finalize")
  /\ op' = [op EXCEPT !.router = "final"] /\ OnlyOp

VerifyFinal ==
  /\ run = NoRun /\ op.install = "enrolled" /\ op.router = "final"
  /\ op' = [op EXCEPT !.install = "verified"] /\ OnlyOp

AcceptFirst ==
  /\ run = NoRun /\ op.install = "verified" /\ ~op.accepted
  /\ op' = [op EXCEPT !.accepted = TRUE] /\ OnlyOp

\* A replacement is armed and its worker started: RouterTransaction.
LaunchRouter ==
  /\ run = NoRun /\ Unused
  /\ aid["prepare"].ledger = "prepared" /\ candidate.lv /\ op.boot
  /\ op' = [op EXCEPT !.launched = TRUE] /\ OnlyOp

-----------------------------------------------------------------------------
(* Cleanup of a replacement that was not launched.                         *)

Present(f) == IF f = "bootstrap" THEN op.boot ELSE aid["prepare"].slot # "none"

\* A volume that its record does not explain is left alone.
Plannable ==
  /\ candidate.lv => candidate.rec \in {"planned", "allocated", "cloned"}
  /\ ~candidate.lv => candidate.rec \in {"none", "planned"}

Plan ==
  /\ run = NoRun /\ op.staged /\ ~cleaning.made
  /\ Unused /\ Plannable
  /\ cleaning' = [Unplanned EXCEPT !.made = TRUE, !.rec = candidate.rec, !.lv = candidate.lv,
                             !.files = SelectSeq(OwnFiles, Present)]
  /\ UNCHANGED <<job, op, candidate, root, aid, helper, run, granted, tmpl, mishaps>>

\* The grant and the reasons for the plan, read again before every removal.
Fresh == "clean" \in granted /\ Unused

StartCleanup ==
  /\ run = NoRun /\ cleaning.made /\ ~cleaning.done /\ Fresh
  /\ run' = [NoRun EXCEPT !.pc = IF cleaning.phase = "none" THEN "fence" ELSE "look"]
  /\ UNCHANGED <<job, op, candidate, root, aid, helper, granted, cleaning, tmpl, mishaps>>

\* What no ledger explains is preserved.
MayFence ==
  IF aid["prepare"].ledger = "none"
  THEN cleaning.lv => ~Alive("prepare") /\ ~Traces("prepare")
  ELSE cleaning.lv
\* Seeded fault: the helper is left to end by itself.
FenceNothing ==
  /\ run.pc = "fence" /\ MayFence
  /\ Alive("prepare") => Fresh /\ aid["prepare"].loop
  /\ Goto("unloop")
  /\ UNCHANGED <<job, op, candidate, root, aid, helper, granted, cleaning, tmpl, mishaps>>


FenceGuest ==
  /\ run.pc = "fence" /\ MayFence
  /\ Alive("prepare") => Fresh /\ aid["prepare"].loop
  /\ helper' = NoGuest
  /\ Goto("unloop")
  /\ UNCHANGED <<job, op, candidate, root, aid, granted, cleaning, tmpl, mishaps>>

FenceLoop ==
  /\ run.pc = "unloop"
  /\ aid["prepare"].loop => Fresh
  /\ Aid("prepare", "loop", FALSE)
  /\ Goto("fenced")
  /\ UNCHANGED <<job, op, candidate, root, helper, granted, cleaning, tmpl, mishaps>>

SaveFenced ==
  /\ run.pc = "fenced"
  /\ cleaning' = [cleaning EXCEPT !.phase = "fenced"]
  /\ Goto("look")
  /\ UNCHANGED <<job, op, candidate, root, aid, helper, granted, tmpl, mishaps>>

\* The plan may be older than the last helper: look again.
Unhelped ==
  /\ ~Alive("prepare")
  /\ \A i \in DOMAIN cleaning.files : cleaning.files[i] = "slot" => ~aid["prepare"].loop

Look ==
  /\ run.pc = "look" /\ Unhelped
  /\ Goto(IF cleaning.phase \in {"fenced", "disk-removing"} THEN "intend" ELSE "absent")
  /\ UNCHANGED <<job, op, candidate, root, aid, helper, granted, cleaning, tmpl, mishaps>>

IntendDisk ==
  /\ run.pc = "intend" /\ Fresh
  /\ cleaning' = [cleaning EXCEPT !.phase = "disk-removing"]
  /\ Goto(IF cleaning.rec = "none" THEN "gone" ELSE "retire")
  /\ UNCHANGED <<job, op, candidate, root, aid, helper, granted, tmpl, mishaps>>

\* The volume that the plan inspected is still the recorded one.
SameVolume == candidate.rec \in {"planned", "aborted"} \/ cleaning.lv

\* A planned volume that was never made, or one that is removed already.
RecordAbsent ==
  /\ run.pc = "retire" /\ SameVolume
  /\ ~candidate.lv /\ ~Owned
  /\ candidate.rec \in {"planned", "aborted", "retiring", "retired"}
  /\ candidate' = [candidate EXCEPT !.rec = IF @ \in {"planned", "aborted"} THEN "aborted" ELSE "retired"]
  /\ Goto("gone")
  /\ UNCHANGED <<job, op, root, aid, helper, granted, cleaning, tmpl, mishaps>>

\* A volume made but not recorded is taken by the identity the plan saw.
AdoptVolume ==
  /\ run.pc = "retire" /\ candidate.lv /\ candidate.rec = "planned"
  /\ cleaning.lv /\ cleaning.rec = "planned"
  /\ candidate' = [candidate EXCEPT !.rec = "allocated"]
  /\ Goto("retire")
  /\ UNCHANGED <<job, op, root, aid, helper, granted, cleaning, tmpl, mishaps>>

RetireVolume ==
  /\ run.pc = "retire" /\ SameVolume
  /\ candidate.lv /\ ~Owned
  /\ candidate.rec \in {"allocated", "cloned", "retiring"}
  /\ candidate' = [candidate EXCEPT !.rec = "retiring"]
  /\ Goto("lvremove")
  /\ UNCHANGED <<job, op, root, aid, helper, granted, cleaning, tmpl, mishaps>>

RemoveVolume ==
  /\ run.pc = "lvremove"
  /\ candidate' = [candidate EXCEPT !.lv = FALSE]
  /\ root' = [os |-> "blank", access |-> {}, tools |-> FALSE, identity |-> FALSE]
  /\ Goto("retire")
  /\ UNCHANGED <<job, op, aid, helper, granted, cleaning, tmpl, mishaps>>

SaveRetired ==
  /\ run.pc = "gone"
  /\ cleaning' = [cleaning EXCEPT !.phase = "disk-retired"]
  /\ Goto("absent")
  /\ UNCHANGED <<job, op, candidate, root, aid, helper, granted, tmpl, mishaps>>

CheckAbsent ==
  /\ run.pc = "absent" /\ ~candidate.lv
  /\ Goto("files")
  /\ UNCHANGED <<job, op, candidate, root, aid, helper, granted, cleaning, tmpl, mishaps>>

Next1 == cleaning.files[cleaning.removed + 1]
More  == cleaning.removed < Len(cleaning.files)
\* Seeded fault: a file is removed without its intent.
IntendNothing ==
  /\ run.pc = "files" /\ More /\ Fresh
  /\ Present(Next1)
  /\ cleaning' = [cleaning EXCEPT !.phase = "files-retiring"]
  /\ Goto("unlink")
  /\ UNCHANGED <<job, op, candidate, root, aid, helper, granted, tmpl, mishaps>>


IntendFile ==
  /\ run.pc = "files" /\ More /\ Fresh
  /\ Present(Next1)
  /\ cleaning' = [cleaning EXCEPT !.phase = "files-retiring", !.inflight = TRUE]
  /\ Goto("unlink")
  /\ UNCHANGED <<job, op, candidate, root, aid, helper, granted, tmpl, mishaps>>

UnlinkArtifact ==
  /\ run.pc = "unlink" /\ Fresh
  /\ IF Next1 = "bootstrap"
     THEN op' = [op EXCEPT !.boot = FALSE] /\ UNCHANGED aid
     ELSE Aid("prepare", "slot", "none") /\ UNCHANGED op
  /\ Goto("strike")
  /\ UNCHANGED <<job, candidate, root, helper, granted, cleaning, tmpl, mishaps>>

\* A file that is gone was removed by an earlier attempt that meant to.
FindRemoved ==
  /\ run.pc = "files" /\ More /\ Fresh
  /\ ~Present(Next1) /\ cleaning.inflight
  /\ Goto("strike")
  /\ UNCHANGED <<job, op, candidate, root, aid, helper, granted, cleaning, tmpl, mishaps>>

StrikeArtifact ==
  /\ run.pc = "strike"
  /\ cleaning' = [cleaning EXCEPT !.phase = "files-retiring", !.removed = @ + 1, !.inflight = FALSE]
  /\ Goto("files")
  /\ UNCHANGED <<job, op, candidate, root, aid, helper, granted, tmpl, mishaps>>

CompleteCleanup ==
  /\ run.pc = "files" /\ ~More
  /\ cleaning' = [cleaning EXCEPT !.phase = "complete"]
  /\ Goto("seal")
  /\ UNCHANGED <<job, op, candidate, root, aid, helper, granted, tmpl, mishaps>>

SealCleanup ==
  /\ run.pc = "seal"
  /\ cleaning' = [cleaning EXCEPT !.done = TRUE]
  /\ run' = NoRun
  /\ UNCHANGED <<job, op, candidate, root, aid, helper, granted, tmpl, mishaps>>

-----------------------------------------------------------------------------
(* Removal of the template.                                                *)

StartReclaim ==
  /\ run = NoRun /\ tmpl.files # {} /\ ~Referenced
  /\ run' = [NoRun EXCEPT !.pc = "reclaim"]
  /\ tmpl' = [tmpl EXCEPT !.removing = TRUE]
  /\ UNCHANGED <<job, op, candidate, root, aid, helper, granted, cleaning, mishaps>>

\* A request may have been staged meanwhile: the references are read again.
ReclaimFile ==
  /\ run.pc = "reclaim" /\ ~Referenced
  /\ \E f \in tmpl.files : tmpl' = [tmpl EXCEPT !.files = @ \ {f}]
  /\ IF Cardinality(tmpl.files) = 1 THEN run' = NoRun ELSE UNCHANGED run
  /\ UNCHANGED <<job, op, candidate, root, aid, helper, granted, cleaning, mishaps>>

-----------------------------------------------------------------------------
(* Refusals and failures.                                                  *)

\* The checks that a step finds failed.
Refused ==
  \/ run.pc = "plan"     /\ "prepare" \notin granted
  \/ run.pc = "disk"     /\ ~MayAllocate /\ ~MayContinue
  \/ run.pc = "clone"    /\ ~MayClone /\ candidate.rec # "cloned"
  \/ run.pc = "verify"   /\ ~(candidate.rec = "cloned" /\ candidate.lv)
  \/ run.pc = "helper"   /\ ~MayRun
  \/ run.pc = "boot"     /\ ~MayBoot
  \/ run.pc = "collect"  /\ ~Accepted(run.kind)
  \/ run.pc = "detach"   /\ Alive(run.kind)
  \/ run.pc = "fence"    /\ ~(MayFence /\ (Alive("prepare") => Fresh /\ aid["prepare"].loop))
  \/ run.pc = "unloop"   /\ aid["prepare"].loop /\ ~Fresh
  \/ run.pc = "look"     /\ ~Unhelped
  \/ run.pc \in {"intend", "unlink"} /\ ~Fresh
  \/ run.pc = "retire"   /\ \/ ~SameVolume \/ Owned
                            \/ candidate.lv /\ candidate.rec \in {"aborted", "retired"}
                            \/ candidate.lv /\ candidate.rec = "planned"
                               /\ ~(cleaning.lv /\ cleaning.rec = "planned")
                            \/ ~candidate.lv /\ candidate.rec \in {"allocated", "cloned"}
  \/ run.pc = "absent"   /\ candidate.lv
  \/ run.pc = "files" /\ More /\ ~(Fresh /\ (Present(Next1) \/ cleaning.inflight))
  \/ run.pc = "reclaim"  /\ Referenced

Refuse ==
  /\ Refused
  /\ IF run.pc \in {"boot", "collect"} THEN Goto("detach") ELSE run' = NoRun
  /\ UNCHANGED <<job, op, candidate, root, aid, helper, granted, cleaning, tmpl, mishaps>>

\* The command dies, or one of the programs it runs fails; a guest goes on.
Kill ==
  /\ run # NoRun /\ Mishap
  /\ run' = NoRun
  /\ UNCHANGED <<job, op, candidate, root, aid, helper, granted, cleaning, tmpl>>

LosePower ==
  /\ Mishap
  /\ run' = NoRun /\ helper' = NoGuest
  /\ aid' = [k \in Helpers |-> [aid[k] EXCEPT !.loop = FALSE]]
  /\ op' = [op EXCEPT !.router = "off"]
  /\ UNCHANGED <<job, candidate, root, granted, cleaning, tmpl>>

-----------------------------------------------------------------------------
PreparationStep ==
  \/ PlanInstallation \/ RecordPlanned \/ AllocateDisk \/ RecordAllocated \/ ContinueDisk
  \/ RecordOwned \/ KeepClone \/ StartClone \/ FinishClone \/ RecordCloned \/ VerifyPrepared

HelperStep ==
  \/ FindRun \/ CreateSlot \/ AttachSlot \/ Define \/ RecordRun \/ BootHelper
  \/ AwaitHelper \/ CollectResult \/ CompleteRun \/ DetachSlot \/ RecordPrepared

CleanupStep ==
  \/ FenceGuest \/ FenceLoop \/ SaveFenced \/ Look \/ IntendDisk \/ RecordAbsent
  \/ AdoptVolume \/ RetireVolume \/ RemoveVolume \/ SaveRetired \/ CheckAbsent
  \/ IntendFile \/ UnlinkArtifact \/ FindRemoved \/ StrikeArtifact \/ CompleteCleanup \/ SealCleanup

CommandStep == PreparationStep \/ HelperStep \/ CleanupStep \/ ReclaimFile \/ Refuse

\* A guest that cannot go on ends by its refusal.
GuestStep ==
  \/ Personalize \/ WriteFiles \/ RetireTools \/ VerifyFiles \/ Seed
  \/ VerifyAccess \/ Withdraw \/ Report \/ (GuestRefuses /\ GuestFails)

Lifecycle ==
  FirstBoot \/ Enroll \/ StopRouter \/ StartFinal \/ VerifyFinal \/ AcceptFirst \/ LaunchRouter

Failure ==
  \/ Kill \/ LosePower \/ GiveUp \/ GuestFails
  \/ \E g \in {"prepare", "finalize", "clean"} : ExpireGrant(g)

PreparationNext ==
  \/ Stage \/ Begin \/ BeginFinal \/ Plan \/ StartCleanup \/ StartReclaim
  \/ \E g \in {"prepare", "finalize", "clean"} : IssueGrant(g)
  \/ CommandStep \/ GuestStep \/ GuestLeaves \/ Lifecycle \/ Failure

\* A command that runs and a guest that works go on; the controller grants
\* again and repeats a preparation or a cleanup that was begun.
PreparationFairness ==
  /\ WF_preparationVars(CommandStep) /\ WF_preparationVars(GuestStep)
  /\ \A g \in {"prepare", "finalize", "clean"} : WF_preparationVars(IssueGrant(g))
  /\ SF_preparationVars(Begin) /\ SF_preparationVars(BeginFinal) /\ SF_preparationVars(StartCleanup)

PreparationSpec ==
  PreparationInit /\ [][PreparationNext]_preparationVars /\ PreparationFairness

-----------------------------------------------------------------------------
(* Properties.                                                             *)

Complete == [os |-> "personal", access |-> IF job.contact THEN Access ELSE {},
             tools |-> job.contact, identity |-> FALSE]

(* A disk is recorded as prepared only when the whole preparation has been *)
(* done to it and nothing works on it: the ledger of the run, on which a   *)
(* launch relies, and the installation record (prepare, execute).          *)
PreparedIsWhole ==
  /\ aid["prepare"].ledger = "prepared" /\ candidate.lv
       /\ op.install \in {"none", "allocated", "prepared"} => root = Complete /\ ~Alive("prepare")
  /\ op.install = "prepared" => aid["prepare"].ledger = "prepared"

(* No volume, slot or boot artifact goes, and no router starts, while a    *)
(* helper guest is alive on it (fence, retire, start_final).               *)
HelperIsFenced ==
  \A k \in Helpers : Alive(k) =>
    /\ candidate.lv /\ aid[k].slot # "none" /\ aid[k].loop /\ op.boot
    /\ op.router = "off"

(* When the finalized router runs, the first-contact access and its server *)
(* are gone and the identity it enrolled with is still there (retire,      *)
(* start_final).                                                           *)
AccessIsRetired ==
  op.router = "final" \/ op.install = "verified" =>
    root.access = {} /\ ~root.tools /\ root.identity

(* From its first record until it is verified or cleaned up, an operation  *)
(* keeps the template that it was begun with (references, guard).          *)
TemplateIsKept ==
  /\ op.install \notin {"none", "verified"} => tmpl.files = Templates
  /\ candidate.rec # "none" /\ ~Initial /\ ~cleaning.done => tmpl.files = Templates

\* What a cleanup never takes: helper files that no ledger explains, a guest
\* or a volume newer than its plan, and a preparation that went on since.
CleanupStuck ==
  \/ aid["prepare"].ledger = "none" /\ Traces("prepare")
  \/ Alive("prepare") \/ aid["prepare"].loop
  \/ /\ ~cleaning.lv
     /\ \/ candidate.lv \/ aid["prepare"].ledger # "none"
        \/ candidate.rec \notin {"none", "planned", "aborted"}

(* A cleanup that was planned is completed by repeating it, however often  *)
(* it is killed, unless the replacement is launched or is in a state that  *)
(* the code preserves for inspection.                                      *)
CleanupEnds ==
  cleaning.made ~> (cleaning.done \/ op.launched \/ CleanupStuck)

=============================================================================
