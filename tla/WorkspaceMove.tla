----------------------------- MODULE WorkspaceMove -----------------------------
(***************************************************************************)
(* The move of an open Codex discussion from one AIR runner to another:    *)
(* the durable controller job of air-workspace, the bounded helper         *)
(* klokast-codex-handoff that it calls on the two runners, and the user    *)
(* who may open, continue and close the discussion on either of them.      *)
(*                                                                         *)
(* The history of the discussion is the set of its finished turns, and     *)
(* stands for its digest too.  A move copies it; the source keeps its      *)
(* copy, which a later return replaces.  A helper holds operation.lock of  *)
(* its runner and, for some of its steps, the native writer lock of the    *)
(* discussion.  It outlives a job that has given it up.  An operation is   *)
(* resumed by a new job, from the phase that the job has read and from the *)
(* receipts on the runners.  A job reads the record before it asks for the *)
(* installation lock, so that another may have changed it since.           *)
(***************************************************************************)
EXTENDS Naturals

CONSTANTS
  Runners,   \* boxes that have an AIR runner
  First,     \* the runner on which the discussion is open at the start
  Ops,       \* move operations
  From, To,  \* origin and destination of each operation
  Turns,     \* how many turns the user may finish
  Faults,    \* kinds of failures and of interference, of FaultKinds
  Budget,    \* how many of them may happen
  None

FaultKinds == {"early", "kill", "timeout", "restart", "open", "close"}

(* The places of a helper that carries out each command.                   *)
Closing  == {"close", "freeze", "recheck", "archive", "quiesce", "seal", "closed"}
Exports  == {"export", "moved"}
Imports  == {"import", "remove", "strip", "removed", "install", "fill", "imported", "here"}
Restores == {"restore", "launch", "list", "await", "verified"}

Helpers == [op : Ops, pc : Closing \cup Exports \cup Imports \cup Restores]

(* What the ledger and the placement of a runner say.                      *)
Ledgers          == [op : Ops, phase : {"moved", "here"}]
PlacementRecords == [op : Ops, phase : {"draining", "starting", "ready"}, current : Runners \cup {None}]

ASSUME ConstantsAssumption ==
  /\ First \in Runners
  /\ From \in [Ops -> Runners] /\ To \in [Ops -> Runners]
  /\ \A m \in Ops : From[m] # To[m]
  /\ Faults \subseteq FaultKinds
  /\ {Turns, Budget} \subseteq Nat
  /\ None \notin Runners \cup Ops \cup Helpers \cup Ledgers \cup PlacementRecords

VARIABLES
  \* On each runner.
  copy,       \* the discussion in the Codex home: how much of which history
  writer,     \* its native writer: "none", "idle", or "active" in a turn
  frozen,     \* its client is stopped by a closing helper
  ledger,     \* handoffs/threads/<session>.json
  placement,  \* placement.json
  helper,     \* the running helper: its operation and place, or None
  \* The receipts of each operation on its origin and its destination.
  manifest,   \* phase of manifest.json
  panes,      \* its tmux panes still exist
  source,     \* source.json with its export
  dest,       \* destination.json with previous.json
  restored,   \* restored.json; "listed" once it names its tmux sessions
  \* On the controller.
  record,     \* operation.json: phase and previous placement
  job,        \* the job that holds the installation lock
  early,      \* what a job that does not hold it yet has read, or NotRead
  overtaken,  \* a job went on from a phase that another had changed
  turns,      \* turns finished so far
  strayed,    \* the user opened a runner that was not the placement
  left        \* failures and interference still to come

discussion == <<copy, writer, frozen>>
receipts   == <<ledger, manifest, panes, source, dest, restored>>
waiting    == <<early, overtaken>>
user       == <<turns, strayed, left>>
moveVars   == <<discussion, placement, helper, receipts, record, job, waiting, user>>

NoJob    == [op |-> None, pc |-> "idle", wait |-> FALSE]
NotRead  == [op |-> None, phase |-> "prepared", prev |-> None]
Whole(h) == [kind |-> "whole", h |-> h]
Part(h)  == [kind |-> "part", h |-> h]
Absent   == [kind |-> "none", h |-> {}]

MoveInit ==
  /\ copy      = [r \in Runners |-> IF r = First THEN Whole({}) ELSE Absent]
  /\ writer    = [r \in Runners |-> IF r = First THEN "idle" ELSE "none"]
  /\ frozen    = [r \in Runners |-> FALSE]
  /\ ledger    = [r \in Runners |-> None]
  /\ placement = [r \in Runners |-> None]
  /\ helper    = [r \in Runners |-> None]
  /\ manifest  = [m \in Ops |-> "none"]
  /\ panes     = [m \in Ops |-> FALSE]
  /\ source    = [m \in Ops |-> [phase |-> "none", sha |-> {}]]
  /\ dest      = [m \in Ops |-> [phase |-> "none", sha |-> {}, prev |-> {}]]
  /\ restored  = [m \in Ops |-> "none"]
  /\ record    = [m \in Ops |-> [phase |-> "prepared", prev |-> None]]
  /\ job       = NoJob
  /\ early     = NotRead
  /\ overtaken = FALSE
  /\ turns     = 0
  /\ strayed   = FALSE
  /\ left      = Budget

Spend(f) == f \in Faults /\ left > 0 /\ left' = left - 1

-----------------------------------------------------------------------------
(* The controller job.  A place named like a phase is the durable write of *)
(* that phase.                                                             *)

JobPhases == {"closing", "copying", "restoring", "publishing", "complete"}
Calls     == {"close", "export", "import", "restore", "verify"}
Origins   == {"inspect", "close", "export",
              "origin draining", "origin starting", "origin ready"}
Drains    == {"origin draining", "destination draining"}
Starts    == {"origin starting", "destination starting"}
Readies   == {"origin ready", "destination ready"}

JobAfter(pc) ==
  CASE pc = "prepared"             -> "inspect"
    [] pc = "inspect"              -> "vacant"
    [] pc = "vacant"               -> "closing"
    [] pc = "closing"              -> "origin draining"
    [] pc = "origin draining"      -> "destination draining"
    [] pc = "destination draining" -> "park"
    [] pc = "park"                 -> "close"
    [] pc = "close"                -> "copying"
    [] pc = "copying"              -> "origin starting"
    [] pc = "origin starting"      -> "destination starting"
    [] pc = "destination starting" -> "export"
    [] pc = "export"               -> "import"
    [] pc = "import"               -> "restoring"
    [] pc = "restoring"            -> "restore"
    [] pc = "restore"              -> "publishing"
    [] pc = "publishing"           -> "verify"
    [] pc = "verify"               -> "origin ready"
    [] pc = "origin ready"         -> "destination ready"
    [] pc = "destination ready"    -> "complete"

(* The runner that a place of the job concerns.                            *)
Box == IF job.pc \in Origins THEN From[job.op] ELSE To[job.op]

JobGoto(pc) == job' = [job EXCEPT !.pc = pc, !.wait = FALSE]

Known(m) == {placement[From[m]], placement[To[m]]} \ {None}

(* The placement that the job takes for the current one.                   *)
Current(m) ==
  IF placement[From[m]] # None THEN placement[From[m]] ELSE placement[To[m]]

(* The published placements belong to this move or precede it.             *)
Agreed(m) ==
  Known(m) # {} =>
    /\ IF record[m].phase = "prepared"
         THEN /\ Known(m) = {Current(m)}
              /\ Current(m).phase = "ready" => Current(m).current = From[m]
         ELSE \A p \in Known(m) : p.op = m \/ p = record[m].prev
    /\ Current(m).phase # "ready" => Current(m).op = m

(* What each place needs; it raises an error otherwise.  A helper finds    *)
(* operation.lock free.                                                    *)
JobReady ==
  /\ job.pc \in {"inspect", "vacant", "park"} \cup Calls => helper[Box] = None
  /\ job.pc = "check"   => Agreed(job.op)
  /\ job.pc = "inspect" => manifest[job.op] # "none" \/ writer[Box] # "none"
  /\ job.pc \in {"vacant", "park"} => writer[Box] = "none"

TakesUp(m) == job' = [op |-> m, pc |-> "check", wait |-> FALSE]

(* A job that gets the lock before another job changes what it has read.   *)
Begin(m) ==
  /\ job = NoJob
  /\ record[m].phase # "complete"
  /\ TakesUp(m)
  /\ UNCHANGED <<discussion, placement, helper, receipts, record, waiting, user>>

(* A job that has read the record and not yet asked for the lock.          *)
ReadEarly(m) ==
  /\ Spend("early")
  /\ early = NotRead
  /\ early' = [op |-> m, phase |-> record[m].phase, prev |-> record[m].prev]
  /\ UNCHANGED <<discussion, placement, helper, receipts, record, job, overtaken,
                 turns, strayed>>

(* It writes back what it has read, and continues from there.  The lock    *)
(* refuses it while another job has it.                                    *)
BeginLate ==
  /\ early # NotRead
  /\ early' = NotRead
  /\ IF job # NoJob \/ early.phase = "complete"
       THEN UNCHANGED <<record, job, overtaken>>
       ELSE LET read == [phase |-> early.phase, prev |-> early.prev] IN
            /\ record' = [record EXCEPT ![early.op] = read]
            /\ overtaken' = (overtaken \/ record[early.op] # read)
            /\ TakesUp(early.op)
  /\ UNCHANGED <<discussion, placement, helper, receipts, user>>

(* The checks of the start, and of a destination without open discussion.  *)
Check ==
  /\ job.pc \in {"check", "vacant", "park"} /\ JobReady
  /\ JobGoto(JobAfter(IF job.pc = "check" THEN record[job.op].phase ELSE job.pc))
  /\ UNCHANGED <<discussion, placement, helper, receipts, record, waiting, user>>

(* The inventory of the source is taken once for each operation.           *)
Inspect ==
  /\ job.pc = "inspect" /\ JobReady
  /\ manifest' = [manifest EXCEPT ![job.op] = IF @ = "none" THEN "inventoried" ELSE @]
  /\ panes' = [panes EXCEPT ![job.op] = @ \/ manifest[job.op] = "none"]
  /\ JobGoto(JobAfter(job.pc))
  /\ UNCHANGED <<discussion, placement, helper, ledger, source, dest, restored,
                 record, waiting, user>>

(* A resumed job starts at its recorded phase without recording it again.  *)
Checkpoint ==
  /\ job.pc \in JobPhases
  /\ record' = [record EXCEPT ![job.op] =
       [phase |-> job.pc,
        prev  |-> IF @.phase = "prepared" /\ Known(job.op) # {}
                    THEN Current(job.op) ELSE @.prev]]
  /\ IF job.pc = "complete" THEN job' = NoJob ELSE JobGoto(JobAfter(job.pc))
  /\ UNCHANGED <<discussion, placement, helper, receipts, waiting, user>>

(* The origin first: it must deny new connections before the destination   *)
(* starts.                                                                 *)
Publish ==
  /\ job.pc \in Drains \cup Starts \cup Readies
  /\ placement' = [placement EXCEPT ![Box] =
       [op      |-> job.op,
        phase   |-> CASE job.pc \in Drains  -> "draining"
                      [] job.pc \in Starts  -> "starting"
                      [] job.pc \in Readies -> "ready",
        current |-> CASE job.pc \in Drains  -> From[job.op]
                      [] job.pc \in Starts  -> None
                      [] job.pc \in Readies -> To[job.op]]]
  /\ JobGoto(JobAfter(job.pc))
  /\ UNCHANGED <<discussion, helper, receipts, record, waiting, user>>

(* A helper call that takes more than one step.                            *)
Call ==
  /\ job.pc \in Calls /\ ~job.wait /\ JobReady
  /\ helper' = [helper EXCEPT ![Box] =
       [op |-> job.op, pc |-> IF job.pc = "verify" THEN "restore" ELSE job.pc]]
  /\ job' = [job EXCEPT !.wait = TRUE]
  /\ UNCHANGED <<discussion, placement, receipts, record, waiting, user>>

JobRefuses ==
  /\ job # NoJob /\ ~job.wait /\ ~JobReady
  /\ job' = NoJob
  /\ UNCHANGED <<discussion, placement, helper, receipts, record, waiting, user>>

-----------------------------------------------------------------------------
(* A helper.  Its reply goes to the job that waits for it.                 *)

Doing(r, pc) == helper[r] # None /\ helper[r].pc = pc
Op(r)        == helper[r].op
Awaited(r)   == job.wait /\ Box = r

Then(r, pc) ==
  /\ helper' = [helper EXCEPT ![r].pc = pc]
  /\ UNCHANGED job

Succeed(r) ==
  /\ helper' = [helper EXCEPT ![r] = None]
  /\ IF Awaited(r) THEN JobGoto(JobAfter(job.pc)) ELSE UNCHANGED job

(* The helper ends without a reply, for whatever reason.                   *)
Fail(r) ==
  /\ helper' = [helper EXCEPT ![r] = None]
  /\ job' = IF Awaited(r) THEN NoJob ELSE job

(* The native writer lock of the discussion is held over these places.     *)
Locked(r) ==
  helper[r] # None /\ helper[r].pc \in
    {"moved", "remove", "strip", "removed", "install", "fill", "imported", "here"}

\* Seeded fault: a ledger of any other move refuses, an older one too.
SupersededByAny(r) ==
  source[Op(r)].phase # "none" /\ ledger[r] # None /\ ledger[r].op # Op(r)

(* A saved export is used again, unless the discussion was handed on since.*)
Superseded(r) ==
  LET m == Op(r) IN
  /\ source[m].phase # "none" /\ ledger[r] # None /\ ledger[r].op # m
  /\ ~(source[m].phase = "sealing" /\ ledger[r].phase = "here")

\* Seeded fault: the source is not compared with what was sealed.
SealedOnce(r) == copy[r].kind = "whole"

(* The source is still what was sealed.                                    *)
Sealed(r) == copy[r] = Whole(source[Op(r)].sha)

\* Seeded fault: the retained copy is replaced as it is.
EarlierUnread(r) ==
  ledger[r] # None /\ ledger[r].phase = "moved" /\ copy[r].kind = "whole"

(* The copy that an earlier move left here, as its receipts describe it.   *)
Earlier(r) ==
  /\ ledger[r] # None /\ ledger[r].phase = "moved"
  /\ copy[r] = Whole(source[ledger[r].op].sha)

(* What each place needs; it raises an error otherwise.                    *)
HelperReady(r) ==
  LET m == Op(r) IN
  CASE Doing(r, "close")   -> \/ manifest[m] = "closed" \/ writer[r] = "idle"
                              \/ manifest[m] = "closing" /\ writer[r] = "none"
    [] Doing(r, "freeze")  -> writer[r] # "none" /\ panes[m]
    [] Doing(r, "recheck") -> writer[r] = "idle"
    [] Doing(r, "quiesce") -> writer[r] = "none"
    [] Doing(r, "seal")    -> ~Superseded(r) /\ (source[m].phase = "none" => writer[r] = "none")
    [] Doing(r, "export")  -> ~Superseded(r) /\ writer[r] = "none" /\ Sealed(r)
    [] Doing(r, "import")  ->
         /\ ledger[r] # [op |-> m, phase |-> "moved"]
         /\ IF dest[m].phase = "imported"
              THEN ledger[r] = [op |-> m, phase |-> "here"]
              ELSE writer[r] = "none"
         /\ dest[m].phase = "none" => copy[r] = Absent \/ Earlier(r)
    [] Doing(r, "remove")  -> copy[r] = Absent \/ copy[r].h = dest[m].prev
    [] Doing(r, "install") -> copy[r] = Absent \/ copy[r].h = dest[m].sha
    [] Doing(r, "restore") ->
         CASE restored[m] = "complete" -> writer[r] # "none"
           [] restored[m] = "starting" -> writer[r] = "none"
           [] restored[m] = "none"     -> copy[r] = Whole(dest[m].sha)
           [] OTHER                    -> TRUE
    [] Doing(r, "await")    -> writer[r] # "none"
    [] Doing(r, "verified") -> writer[r] # "none"
    [] OTHER                -> TRUE

(* The TUIs that a helper has stopped continue when it fails.              *)
HelperRefuses(r) ==
  /\ helper[r] # None /\ ~HelperReady(r)
  /\ Fail(r)
  /\ frozen' = [frozen EXCEPT ![r] = @ /\ ~Doing(r, "recheck")]
  /\ UNCHANGED <<copy, writer, placement, receipts, record, waiting, user>>

(* workspace-close.  Idle is seen before the client is stopped, and again  *)
(* after it.                                                               *)
Close(r) ==
  /\ Doing(r, "close") /\ HelperReady(r)
  /\ IF manifest[Op(r)] = "closed" THEN Succeed(r)
     ELSE Then(r, IF writer[r] = "none" THEN "quiesce" ELSE "freeze")
  /\ UNCHANGED <<discussion, placement, receipts, record, waiting, user>>

(* The inventory is taken again, which forgets that a closure had begun.   *)
Freeze(r) ==
  /\ Doing(r, "freeze") /\ HelperReady(r)
  /\ frozen' = [frozen EXCEPT ![r] = TRUE]
  /\ manifest' = [manifest EXCEPT ![Op(r)] = "inventoried"]
  /\ Then(r, "recheck")
  /\ UNCHANGED <<copy, writer, placement, ledger, panes, source, dest, restored,
                 record, waiting, user>>

Recheck(r) ==
  /\ Doing(r, "recheck") /\ HelperReady(r)
  /\ manifest' = [manifest EXCEPT ![Op(r)] = "closing"]
  /\ Then(r, "archive")
  /\ UNCHANGED <<discussion, placement, ledger, panes, source, dest, restored,
                 record, waiting, user>>

(* The native archive ends the writer, in a turn or not.                   *)
Archive(r) ==
  /\ Doing(r, "archive")
  /\ writer' = [writer EXCEPT ![r] = "none"]
  /\ frozen' = [frozen EXCEPT ![r] = FALSE]
  /\ Then(r, "quiesce")
  /\ UNCHANGED <<copy, placement, receipts, record, waiting, user>>

Quiesce(r) ==
  /\ Doing(r, "quiesce") /\ HelperReady(r)
  /\ Then(r, "seal")
  /\ UNCHANGED <<discussion, placement, receipts, record, waiting, user>>

(* The export is saved once.                                               *)
Seal(r) ==
  /\ Doing(r, "seal") /\ HelperReady(r)
  /\ source' = [source EXCEPT ![Op(r)] =
       IF @.phase = "none" THEN [phase |-> "sealing", sha |-> copy[r].h] ELSE @]
  /\ Then(r, "closed")
  /\ UNCHANGED <<discussion, placement, ledger, manifest, panes, dest, restored,
                 record, waiting, user>>

Closed(r) ==
  /\ Doing(r, "closed")
  /\ manifest' = [manifest EXCEPT ![Op(r)] = "closed"]
  /\ Succeed(r)
  /\ UNCHANGED <<discussion, placement, ledger, panes, source, dest, restored,
                 record, waiting, user>>

(* export: the receipt, then the ledger.                                   *)
Export(r) ==
  /\ Doing(r, "export") /\ HelperReady(r)
  /\ source' = [source EXCEPT ![Op(r)].phase = "moved"]
  /\ Then(r, "moved")
  /\ UNCHANGED <<discussion, placement, ledger, manifest, panes, dest, restored,
                 record, waiting, user>>

(* The end of an export, and of an import.                                 *)
Own(r) ==
  /\ Doing(r, "moved") \/ Doing(r, "here")
  /\ ledger' = [ledger EXCEPT ![r] = [op |-> Op(r), phase |-> helper[r].pc]]
  /\ Succeed(r)
  /\ UNCHANGED <<discussion, placement, manifest, panes, source, dest, restored,
                 record, waiting, user>>

(* import.  The receipt is written before the older copy is touched.       *)
Import(r) ==
  LET m == Op(r) IN
  /\ Doing(r, "import") /\ HelperReady(r)
  /\ IF dest[m].phase = "none"
       THEN dest' = [dest EXCEPT ![m] =
              [phase |-> IF copy[r] = Absent THEN "importing" ELSE "replacing",
               sha |-> source[m].sha, prev |-> copy[r].h]]
       ELSE UNCHANGED dest
  /\ CASE dest[m].phase = "imported"   -> Succeed(r)
       [] dest'[m].phase = "replacing" -> Then(r, "remove")
       [] dest'[m].phase = "importing" -> Then(r, "install")
  /\ UNCHANGED <<discussion, placement, ledger, manifest, panes, source, restored,
                 record, waiting, user>>

(* The rows of the older copy, and then its files.                         *)
Remove(r) ==
  /\ Doing(r, "remove") /\ HelperReady(r)
  /\ copy' = [copy EXCEPT ![r] = IF @ = Absent THEN @ ELSE Part(@.h)]
  /\ Then(r, "strip")
  /\ UNCHANGED <<writer, frozen, placement, receipts, record, waiting, user>>

Strip(r) ==
  /\ Doing(r, "strip")
  /\ copy' = [copy EXCEPT ![r] = Absent]
  /\ Then(r, "removed")
  /\ UNCHANGED <<writer, frozen, placement, receipts, record, waiting, user>>

Removed(r) ==
  /\ Doing(r, "removed")
  /\ dest' = [dest EXCEPT ![Op(r)].phase = "importing"]
  /\ Then(r, "install")
  /\ UNCHANGED <<discussion, placement, ledger, manifest, panes, source, restored,
                 record, waiting, user>>

(* Files and rows are added to what an interrupted import left.            *)
Install(r) ==
  /\ Doing(r, "install") /\ HelperReady(r)
  /\ copy' = [copy EXCEPT ![r] = IF @ = Absent THEN Part(dest[Op(r)].sha) ELSE @]
  /\ Then(r, "fill")
  /\ UNCHANGED <<writer, frozen, placement, receipts, record, waiting, user>>

Fill(r) ==
  /\ Doing(r, "fill")
  /\ copy' = [copy EXCEPT ![r] = Whole(dest[Op(r)].sha)]
  /\ Then(r, "imported")
  /\ UNCHANGED <<writer, frozen, placement, receipts, record, waiting, user>>

Imported(r) ==
  /\ Doing(r, "imported")
  /\ dest' = [dest EXCEPT ![Op(r)].phase = "imported"]
  /\ Then(r, "here")
  /\ UNCHANGED <<discussion, placement, ledger, manifest, panes, source, restored,
                 record, waiting, user>>

(* workspace-restore.  The intent is recorded before the native start.     *)
Restore(r) ==
  LET m == Op(r)
      running == restored[m] = "listed" /\ writer[r] # "none" IN
  /\ Doing(r, "restore") /\ HelperReady(r)
  /\ restored' = [restored EXCEPT ![m] =
       IF @ = "complete" \/ running THEN @ ELSE "starting"]
  /\ CASE restored[m] = "complete" -> Succeed(r)
       [] running                  -> Then(r, "await")
       [] OTHER                    -> Then(r, "launch")
  /\ UNCHANGED <<discussion, placement, ledger, manifest, panes, source, dest,
                 record, waiting, user>>

Launch(r) ==
  /\ Doing(r, "launch")
  /\ writer' = [writer EXCEPT ![r] = IF @ = "none" THEN "idle" ELSE @]
  /\ Then(r, "list")
  /\ UNCHANGED <<copy, frozen, placement, receipts, record, waiting, user>>

(* The staged sessions are recorded, and later renamed.                    *)
Staged(r) ==
  /\ \/ Doing(r, "list") /\ Then(r, "await")
     \/ Doing(r, "await") /\ HelperReady(r) /\ Then(r, "verified")
  /\ restored' = [restored EXCEPT ![Op(r)] =
       IF Doing(r, "list") THEN "listed" ELSE "complete"]
  /\ UNCHANGED <<discussion, placement, ledger, manifest, panes, source, dest,
                 record, waiting, user>>

Verified(r) ==
  /\ Doing(r, "verified") /\ HelperReady(r)
  /\ Succeed(r)
  /\ UNCHANGED <<discussion, placement, receipts, record, waiting, user>>

-----------------------------------------------------------------------------
(* The user.  The placement warns him; it does not stop him.               *)

Invited(r) ==
  IF placement[r] = None THEN r = First ELSE placement[r].current = r

Open(r) ==
  /\ Spend("open")
  /\ writer[r] = "none" /\ copy[r].kind = "whole" /\ ~Locked(r)
  /\ writer' = [writer EXCEPT ![r] = "idle"]
  /\ strayed' = (strayed \/ ~Invited(r))
  /\ UNCHANGED <<copy, frozen, placement, helper, receipts, record, job, waiting, turns>>

CloseClient(r) ==
  /\ Spend("close")
  /\ writer[r] = "idle"
  /\ writer' = [writer EXCEPT ![r] = "none"]
  /\ UNCHANGED <<copy, frozen, placement, helper, receipts, record, job, waiting, turns, strayed>>

BeginTurn(r) ==
  /\ writer[r] = "idle" /\ ~frozen[r] /\ turns < Turns
  /\ \A s \in Runners : writer[s] # "active"
  /\ writer' = [writer EXCEPT ![r] = "active"]
  /\ UNCHANGED <<copy, frozen, placement, helper, receipts, record, job, waiting, user>>

EndTurn(r) ==
  /\ writer[r] = "active"
  /\ writer' = [writer EXCEPT ![r] = "idle"]
  /\ turns' = turns + 1
  /\ copy' = [copy EXCEPT ![r] = Whole(@.h \cup {turns'})]
  /\ UNCHANGED <<frozen, placement, helper, receipts, record, job, waiting, strayed, left>>

-----------------------------------------------------------------------------
(* Failures.  A killed helper leaves its stopped clients stopped; a new     *)
(* tmux server may number its panes as the old one did.                     *)

KillHelper(r) ==
  /\ Spend("kill")
  /\ helper[r] # None
  /\ Fail(r)
  /\ UNCHANGED <<discussion, placement, receipts, record, waiting, turns, strayed>>

(* The job dies, or its ssh times out: the helper goes on.                 *)
GiveUp ==
  /\ Spend("timeout")
  /\ job # NoJob
  /\ job' = NoJob
  /\ UNCHANGED <<discussion, placement, helper, receipts, record, waiting, turns, strayed>>

Restart(r) ==
  /\ Spend("restart")
  /\ Fail(r)
  /\ writer' = [writer EXCEPT ![r] = "none"]
  /\ frozen' = [frozen EXCEPT ![r] = FALSE]
  /\ panes' \in {panes, [m \in Ops |-> panes[m] /\ From[m] # r]}
  /\ UNCHANGED <<copy, placement, ledger, manifest, source, dest, restored, record,
                 waiting, turns, strayed>>

-----------------------------------------------------------------------------
JobStep == Check \/ Inspect \/ Checkpoint \/ Publish \/ Call \/ JobRefuses

HelperStep(r) ==
  \/ Close(r) \/ Freeze(r) \/ Recheck(r) \/ Archive(r) \/ Quiesce(r) \/ Seal(r) \/ Closed(r)
  \/ Export(r) \/ Own(r)
  \/ Import(r) \/ Remove(r) \/ Strip(r) \/ Removed(r) \/ Install(r) \/ Fill(r) \/ Imported(r)
  \/ Restore(r) \/ Launch(r) \/ Staged(r) \/ Verified(r)
  \/ HelperRefuses(r)

UserStep(r) == Open(r) \/ CloseClient(r) \/ BeginTurn(r) \/ EndTurn(r)

MoveNext ==
  \/ \E m \in Ops : Begin(m) \/ ReadEarly(m)
  \/ BeginLate
  \/ JobStep \/ GiveUp
  \/ \E r \in Runners : HelperStep(r) \/ UserStep(r) \/ KillHelper(r) \/ Restart(r)

(* The runners know of the move, whatever its record says.                 *)
Begun(m) == manifest[m] # "none"

(* Somebody resumes an operation that has begun again and again.  A job    *)
(* that has read early may wait for ever.                                  *)
MoveFairness ==
  /\ WF_moveVars(JobStep)
  /\ \A r \in Runners : WF_moveVars(HelperStep(r))
  /\ WF_moveVars(\E r \in Runners : EndTurn(r))
  /\ \A m \in Ops : SF_moveVars(Begun(m) /\ Begin(m))

MoveSpec == MoveInit /\ [][MoveNext]_moveVars /\ MoveFairness

-----------------------------------------------------------------------------
(* The discussion is never open on two runners, and every runner on which  *)
(* it is open or offered has all its turns.                                *)
NeitherLostNorForked ==
  /\ \A r \in Runners : writer[r] # "none" \/ Invited(r) => copy[r] = Whole(1..turns)
  /\ \A r, s \in Runners : writer[r] # "none" /\ writer[s] # "none" => r = s

(* As long as the user opens the discussion only where the published       *)
(* placement has it, and no job has gone on from a phase that another job  *)
(* changed after it was read, a move neither loses nor forks the history,  *)
(* wherever it is interrupted.                                             *)
OneHistory == ~strayed /\ ~overtaken => NeitherLostNorForked

(* What a user is told who opens the discussion only where the placement   *)
(* has it.  A job of air-workspace that has read its record before another *)
(* completed the move breaks it: it offers the origin again.               *)
SelectionHasHistory == ~strayed => NeitherLostNorForked

EndsNoTurn(r) == writer[r] = "active" /\ writer'[r] = "none" => left' < left

KeepsTurns(r) ==
  copy[r].kind = "whole" /\ copy'[r] # copy[r] =>
    \/ copy'[r].kind = "whole" /\ copy[r].h \subseteq copy'[r].h
    \/ helper[r] # None /\ copy[r].h \subseteq dest[Op(r)].sha

(* A move ends no turn that runs, and removes a whole copy only for a      *)
(* bundle that contains all its turns: even turns of a copy that the user  *)
(* has continued where he should not, and for a job that was overtaken.    *)
NothingIsCut == [][\A r \in Runners : EndsNoTurn(r) /\ KeepsTurns(r)]_moveVars

(* The reasons for which a resumed move refuses for good: what the code    *)
(* asks the operator to reconcile, and the two places between a receipt    *)
(* and its ledger where an interrupted helper is taken for a later move.   *)
Reconcile(m) ==
  LET r == From[m]
      s == To[m] IN
  \/ manifest[m] = "inventoried" /\ writer[r] = "none"
  \/ manifest[m] \in {"inventoried", "closing"} /\ ~panes[m] /\ writer[r] # "none"
  \/ source[m].phase = "sealing" /\ copy[r] # Whole(source[m].sha)
  \/ record[m].phase = "copying" /\ writer[r] # "none"
  \/ writer[s] # "none" /\ dest[m].phase # "imported"
  \/ dest[m].phase = "none" /\ ledger[s] # None /\ ledger[s].phase = "moved" /\ ~Earlier(s)
  \/ dest[m].phase = "imported" /\ restored[m] = "none" /\ copy[s] # Whole(dest[m].sha)
  \/ restored[m] = "complete" /\ writer[s] = "none"
  \/ restored[m] = "starting" /\ writer[s] # "none" /\ helper[s] = None
  \/ ~Agreed(m)

Interrupted(m) ==
  \/ source[m].phase = "moved" /\ ledger[From[m]] # [op |-> m, phase |-> "moved"]
     /\ helper[From[m]] = None
  \/ dest[m].phase = "imported" /\ ledger[To[m]] # [op |-> m, phase |-> "here"]
     /\ helper[To[m]] = None

(* A job that was overtaken has set the record back behind what the runners*)
(* have done, and they refuse what it asks for again.                      *)
SetBack(m) ==
  \/ source[m].phase = "moved" /\ record[m].phase \in {"prepared", "closing"}
  \/ restored[m] # "none" /\ record[m].phase = "copying"

(* Once nothing fails any more, every move that has taken its inventory is *)
(* completed by resuming it, or stops at one of these reasons.             *)
Ended(m) == record[m].phase = "complete" \/ Reconcile(m) \/ Interrupted(m) \/ SetBack(m)

MoveEnds == left = 0 ~> \A m \in Ops : Begun(m) => Ended(m)

=============================================================================
