# Klokast Box: verification of guest replacement, retained data, authority, workspace moves and resources

Klokast Box runs a household's services as Xen guests on a small physical box. `dom0`
is diskless Alpine: it boots from a medium on which `lbu commit` stores `/etc`, and
keeps images, volumes and operation records on a data volume. The controller, a guest
called `ops`, drives the boxes through ansible and ssh; two boxes may each have one,
of which one is active. The delicate things the software does are to *replace a
running guest by a new generation of itself*, a service or the router everything else
depends on, without ever running an old generation on data a newer one has written; to
*remove what replacements leave behind* without removing what something still returns
to; to *hand authority from one controller to the other* without ever having two; to
*take a guest's data with it*, onto a disk that survives the guest, and to back that
disk up; to *move an open discussion* of its development workspace between boxes
without losing or forking it; and to *bring the firewalls of the hosts to the rules
that applications are granted*; whatever crashes in between. This directory models
these operations, checks the models with TLC and proves theorems about them with
TLAPS.

## 1. The system

### 1.1 Components, their state and operations

| Component (source) | State | Operations | Modelled by |
|---|---|---|---|
| VM transaction engine (`ansible/roles/vm-update-recovery/files/vm_update_engine.py`, `vm_update_native.py`) | per operation `request.json`, `journal.json`, `runtime.json`, `old.cfg`/`new.cfg`; per role `active/<role>.json`; `/etc/xen/<role>.cfg` and its `auto/` link; the live domains | `stage_adoption`, `arm`, `adopt_old`, `step` (stop, start, tested, accept, complete), `recover`, `reconcile`, `fence_autostart` | `VmTransaction` |
| Watchdog (`vm-update-transaction watch`) | one process per armed operation | poll the journal, recover a late operation, end | `VmTransaction` |
| Boot recovery (`vm-update-transaction boot-recover`, `klokast-vm-update-recovery.openrc`) | none of its own | recover every pointer, or fence all converted roles; then `xendomains` | `VmTransaction` |
| State finalizer (`ansible/roles/vm-service-update/files/vm_service_finalization.py`, `ansible/lib/xen_build_runtime.py`) | a networkless domain holding both disks, `result.slot`, `router-state-ready.json` | run, wait again, resume from a result, destroy | `VmTransaction` |
| Service driver on dom0 (`vm-service-update`, `vm_service_engine.py`) | `service.json` (stage, reboot verification), the build lock | prepare, advance, checks, reboot-start, reboot-complete, abandon | `VmService` |
| Service update on the controller (`ansible/lib/vm_service_updates.py`, `vm_service_execution.py`, `vm_service_runtime.py`) | the session, its operation and what it asks next | update, `--resume`, `--abandon-unbooted` | `VmService` |
| Router transaction (`ansible/lib/router_transaction.py`, `router_dom0.py`, `router_executor.py`, `router_records.py`, `router_native.py`) | `pending.json` with its phase and two production-start markers, `accepted.json`, `complete.json`, evidence and copy receipts; `router.cfg` and its link; the routers, the copy guest | adopt, cutover, recover, fence, enrollment and acceptance, cleanup | `RouterTransaction` |
| Router cold test (`ansible/lib/router_cold_*.py`) | `cold-test.json` (the marker), the worker, the window's and the archive's records, backup and held disk | arm, open the window, return, archive, restore, clear | `RouterColdTest` |
| Cold-test evidence (`router_cold_filesystem.py`, `router_cold_disk.py`, `router_cold_backup.py`, `router_cold_health.py`, `router_cold_supervisor.py`) | the directory of a test under `cold-backups/`: staged boot files and their ledgers, the metadata, the backup volume and its record, the worker's request, launch and result, the health receipt, the plans of three removals | stage, capture, allocate, run the outage, clear the fence, retire staging, an unused and a used backup | `ColdEvidence` |
| Router first installation and preparation (`ansible/lib/router_initial_*.py`, `router_candidate_*.py`, `router_preparation_cleanup.py`, `router_template_retention.py`) | `installation.json`, the candidate's disk record and volume, the ledger and files of each helper run, the boot intent, the offline finalization, the cleanup's plan, the template | prepare, start, enrol, finalize, accept, clean up, reclaim | `RouterPreparation` (the disk and its helpers), `RouterColdTest` (the steps inside the window) |
| Retained data (`ansible/roles/vm-retained-data/files/retained_data.py`, `ansible/roles/vm-template-builder/files/vm_router_state.py` and `vm_infrastructure_storage.py`, `vm_disk_backup.py` and `vm_backup_verify.py` beside the first) | the marker files on a disk, its datasets with their measurements; the backup's snapshot, volume and records, the trial's volume and guest; the seeded disk with its progress, receipt and marker | copy, stage and final sync; back up, verify; seed, migrate, repeat after a lost finalizer | `RetainedData`, `RetainedBackup`, `SeededState` |
| Controller authority switch (`ansible/lib/controller_switch.py`) | switch record with its phase; controller locks on both boxes; the Instance's clones and main branch | prepare .. complete, resume | `ControllerSwitch` |
| Controller guard and availability (`ansible/bin/ops-controller-ha`, `klokast-controller-guard`) | `controller-ha.json` marker of each box | guard, demote, emergency promotion | `ControllerSwitch` |
| Workspace move (`ansible/bin/air-workspace`, `ansible/lib/codex_handoff.py`, `codex_workspace.py`, `codex_discussion.py`, `air_workspace.py`) | `operation.json` on the controller; on each runner `placement.json`, the Codex home, `handoffs/` with receipts and the ledger of each discussion; `operation.lock` | inspect, close, export, import, restore, publish, resume | `WorkspaceMove` |
| Controller replacement and retirement (`ops_replacement.py`, `ops_retirement.py`) | receipts | sequential procedures | not modelled |
| Retirement and image cleanup (`vm_service_retirement.py`, `ops_retirement.py`, `vm-template-cleanup`, `vm-template-build-dom0`) | `retirement.json` and `cleanup.json` with the saved plans, `retired.json` of each generation, the candidates' directories | build, retire older, clean up images, resume either | `GenerationStorage` |
| Update discovery and maintenance (`platform_updates.py`, `platform_maintenance.py`) | caches | mostly read-only | the qualification of an image, in `GenerationStorage` |
| Platform resources (`platform_resource_compiler.py`, `_model.py`, `_runtime.py`, `_guests.py`, `roles/app-resources`) | the registry and manifests; on each host the effective files with their owners, and the kernel's rules; the shared guests | compile, full and scoped apply, guests-only apply, reconcile, reload, verify | `AppResources` |
| Platform network, proxy and VPN, the Go command line (`internal/`, `cmd/`), applications, roles and playbooks, schemas, vendored code | – | rendering, validation, deployment, provisioning | not modelled |

In this revision the controller's wrapper does not start a router cutover: what it
sends are recovery of an existing operation, cleanup, and the commands of the cold
test and the first installation. The executor on dom0 has the whole program, its boot
recovery is installed on every box, and `RouterTransaction` models all of it.

### 1.2 How they interact

The controller's session asks the dom0 dispatcher over ssh for one bounded action
after another. The dispatcher takes the *build lock* without waiting, reads
`journal.json`, and calls the transaction engine, which waits for the *transaction
lock* (`flock`) and reads the journal again. The watchdog, an operator's `recover`,
`reconcile` from the desired state, the finalizer and boot recovery all use the same
transaction lock. Xen changes by itself: guests exit, and answer shutdown requests
late. `lbu commit` stores all of `/etc`, whichever command asked for it, so one role's
commit persists what another role left there.

The *build lock* is also what keeps builds, preparations, retirements and image
cleanups of one dom0 apart. A retirement or a cleanup saves its exact plan, deletes,
and resumes a saved plan before it makes another; what has been prepared, armed,
recovered or accepted since is compared with the plan then. Every build and every
cleanup first reads all records on the box, and refuses when it cannot.

The router is excluded from the engine's operations and has a transaction of its own,
with its own lock. A supervised worker carries a cutover through; its supervisor,
which takes the lock without waiting, recovers when the worker has ended; the
controller adds evidence (enrollment, acceptance) without the lock; a cold-test
marker, where there is one, turns boot recovery into a fence. The cold worker holds
the lock for short stretches only, between which the first installation's commands
run.

The evidence of a cold test is written by several commands before, during and after
the outage, each under the router lock; the supervised worker holds a second lock from
its start to its end, and the guest that inspects the backup survives either. The disk
of a router is made by a helper guest that survives the command that started it; what
a killed command left is explained, or not, by the ledger of its run.

A retained disk is filled by a guest without network, which can be lost with its page
cache at any time; dom0 learns of it only through the result the guest writes, and the
next attempt only through the markers on the disk. A backup is taken from an LVM
snapshot while the disk's guest goes on writing.

A controller switch runs on the controller that gives authority up. It holds the locks
of both boxes through child processes, publishes the new placement through the
Instance's Git history, then demotes itself and activates the other side; each phase
is recorded so that the same command can resume. The guard of each controller compares
its marker with its own clone of the Instance.

A workspace move is a durable job on the controller that calls a bounded helper on the
two runners over ssh, one call after another, under the installation lock; it reads its
record before it asks for the lock. It publishes the placement on both
runners, at first a refusal of new connections. The helper takes a lock of its runner
and, where it touches the discussion, the native writer lock. The user is an actor of
his own: the placement warns him but does not stop him from opening the copy that a
move has left behind.

An apply of the application resources compiles the registry it has read, takes the
installation lock, starts and stops shared guests, and then visits the routers,
through Ansible, and the Podman guests, through ssh: on each it writes and removes
snippets, reloads nftables and verifies. The registry can be edited meanwhile, and a
host that boots loads whatever is on its disk.

### 1.3 What is hard about it

* Every command can be killed, and the box can lose power, between any two durable
  writes; what is in `/etc` then falls back to the last `lbu commit` while the records
  on the data volume stay.
* What the dispatcher and the controller decide from may be stale when the decision is
  carried out.
* Requests to Xen outlive the command that made them (shutdowns, the finalizer's and
  the copy guest's domains).
* The watchdog, the deadline and the lock all have time limits that interact.
* Operations of one role follow each other; a delayed command may belong to an
  operation that history has moved past.
* A saved deletion plan may be resumed when what it calls old has become what the next
  recovery returns to; and the readers of all records must understand every state in
  which a command can have been killed.
* The router's state lives on its disk and changes while it runs, so that the same
  copy is right before a restart and destroys state after it.
* A failed recovery has to fence, and the fence itself can fail halfway.
* What a guest has written is not what its disk holds after it is lost; a marker that
  promises the data must reach the disk after them, and a repeated attempt must not
  trust what an earlier one left when the old guest has run again since.
* A file or volume may have been made by a command that was killed before its record;
  a removal must take what its own operation made, all of it, and nothing else.
* The cold test makes the box look as if it never had a router; everything that runs
  at boot, or is repeated, must still know.
* A switch is interrupted between a change on one box and its record on the other, and
  resumed when an operator, a promotion or the opposite switch has changed either.
* A helper outlives the job that called it; its effect and its reply are apart, and a
  receipt and the ledger that points at it are two writes.
* The copy that a move leaves on its source is complete and can be opened, so that the
  return has to know whether somebody has continued on it.
* A rule may have several owners, an apply may be for some of them only, and one that
  is cut off leaves a disk and a kernel that differ.

`PROJECT.json` lists the single hazards with their lines and properties.

### 1.4 What makes each component correct

* Engine: once an operation is past its *write boundary* (the candidate may have
  written production data), the old generation never runs again; before it, the
  candidate never becomes the assignment; one dom0 replaces one guest at a time;
  history is inert; a late operation is recovered.
* Boot recovery: xendomains starts only what the journals select.
* Finalizer: the copy has the disks alone, and no start uses a stale copy.
* Service driver: a service is accepted only when finalized and after a verified
  reboot; abandoning retires.
* Retirement and cleanup: whatever can be selected, recovered to or resumed keeps its
  root, boot files and image; an interrupted deletion can be repeated to its end.
* Router transaction: never two routers, nor a router beside a copy; every start is
  from a disk with the newest state; a recovery that gave up is fenced; accepted
  pointer, definition, outcome and running router agree when settled; a started
  operation ends.
* Cold test: the original's state survives; nothing starts a router by itself inside
  the window; the fence goes only when nothing of the test is left, and the original
  can be brought back (it cannot always: 3.3).
* Cold-test evidence: nothing is written after a retirement; the inspecting guest
  never outlives the outage; a removal that was begun ends (a used backup's cannot:
  3.3).
* Router preparation: what is recorded as prepared is whole, and nobody works on it;
  no helper guest loses what it works on; the final router has no first-contact
  access; a template stays while an operation that needs it is unfinished; a planned
  cleanup can be repeated to its end.
* Retained data: a disk that shows a result holds it, whatever is lost; the final sync
  leaves nothing behind; a verified backup is a finished generation of one disk, with
  the contents its record measured unless production has had the disk since; the guest
  in production always has the last state.
* Controller switch: never two active markers; a push changes the placement over the
  history the switch was started from, and drops nothing (it may carry commits that
  change nothing: 3.3); a switch interrupted after its push can be completed.
* Workspace move: every turn survives; where the user follows the placement the
  discussion is open once and whole wherever it is offered (unless a job goes on from
  a stale record: 3.3); a running turn is not cut; a resumed move ends or stops at a
  reason that can be named.
* Platform resources: what a successful apply was asked for is on disk and in force
  where it went, across reboots; no full apply interrupts a rule that is still granted;
  repeated full applies converge on the routers; a scoped apply leaves what others own
  alone (it does not always: 3.3).

## 2. Modules

| Module | Role |
|---|---|
| `GenerationSelection` | the abstract promise: per role one *selected* generation, the set of *retired* ones, and what is *running* |
| `VmTransaction` | the engine, its watchdog, finalizer, boot recovery and failures; refines `GenerationSelection` |
| `VmService` | the controller's session and the dom0 dispatcher over `VmTransaction` (EXTENDS it); refines `VmTransaction` |
| `GenerationStorage` | builds, preparations, retirements and image cleanups over the outcomes of the transactions |
| `RouterTransaction` | the router's adoption, cutover, recovery, boot and retirement; refines `GenerationSelection` |
| `RouterColdTest` | the cold test and the first installation inside its window, over `RouterTransaction` (EXTENDS it) |
| `ControllerSwitch` | the planned switch, the emergency promotion and the guard on two boxes |
| `WorkspaceMove` | the controller job, the helpers and the user of a moved discussion |
| `AppResources` | the compilation, the applies and the hosts of the application resources |
| `ColdEvidence` | the files, the volume and the inspector of one cold test, from staging to the removals |
| `RouterPreparation` | a router's disk, its two helper guests, the cleanup and the template |
| `RetainedData` | the copy of a guest's data to a disk of its own |
| `RetainedBackup` | the backup of a disk and the trial of it, beside `RetainedData` (EXTENDS it) |
| `SeededState` | how the first replacement of a role takes its state to a retained disk |
| `MCVmTransaction`, `MCVmService`, `MCStorage`, `MCRouter`, `MCApplications`, `MCInstallation`, `MCRetained` | the small instances (`ControllerSwitch` needs none). The last three put two chapters each into one run: `WorkspaceMove` and `AppResources`, `RouterPreparation` and `ColdEvidence`, the two of a retained disk. No step belongs to both chapters, so a behaviour stays in the one it begins in |
| `VmTransactionProofs` (with `VmService`'s and `GenerationSelection`'s), `RouterTransactionProofs` (with `RouterColdTest`'s), `RouterPreparationProofs`, `ColdEvidenceProofs`, `ControllerSwitchProofs`, `GenerationStorageProofs`, `ApplicationProofs` (`AppResources`, `WorkspaceMove`), `RetainedProofs` | theorems |

Operators whose comment begins with *Seeded fault* are variants of the operator that
follows them, each with one plausible mistake. Nothing uses them in the
specifications; substituting one for its original must break the property named next
to it in `PROJECT.json`, which shows that the property depends on the code.

In all modules a command is split wherever another actor or a failure can show: after
each durable record, definition write, `lbu commit`, Xen or ssh call, and wait. The
validations whose data the properties do not tell apart are the step's freedom to
refuse.

### 2.1 VmTransaction

| Variable | In the code |
|---|---|
| `stage`, `pending`, `watched` | `journal.json`: stage, `old_shutdown_pending`, the recorded watcher |
| `source` | `request.json`/`old.cfg`: the old generation, and which operation wrote its definition |
| `pointer` | `active/<role>.json` |
| `intent` | `runtime.json` (or the request's autostart) |
| `copied`, `ready` | the finalizer's `result.slot`; the record that its result was verified |
| `cfg`, `saved` | `/etc/xen/<role>.cfg` and its autostart link, in memory and as last committed |
| `guest`, `dying`, `fin` | the live domain of the role, an unanswered shutdown request, the finalizer's domain |
| `watcher`, `expired` | live watchdogs; operations past their deadline or silent past their heartbeat |
| `hand` | the command that holds the transaction lock: operation, command, place, and the guest it remembers |
| `mode`, `bootq` | the boot sequence and the pointers still to be recovered |

A *generation* is named by the operation that created it, `Base` being the first one.
`Crossed(o)` is the code's own decision in `recover()` whether the candidate is kept.
The final re-check of a guest is part of the step whose outcome depends on it.
`assignment()` is three steps (`WriteConfig`, `WriteLink`, `Persist`) used by five
commands.

Abstractions, each of which allows at least what the code does:

* A command may refuse or run out of its budget between any two steps (`Refuse`), so
  the wording and data of its validations are not repeated; within recovery the same
  is `RecoveryFails`, which records it.
* The order of pointers in boot recovery is arbitrary (the code sorts the files).
* Commands during boot recovery other than its own are left out: OpenRC starts no
  service that could send them before it ends.
* The heartbeat file and the clock are one event, `Expire`.
* A shutdown that was asked for may be answered at any later time, or never.
* A failed finalizer run may be repeated, where the code sometimes stops.
* `Adoptions` holds the operations that are used to adopt a running guest, whichever
  request kind they have.

### 2.2 VmService

Adds `svc` and `reboot` (`service.json`), `fresh` (the guest's boot identity has
changed), `drv` (the dispatcher, the stage it read, and how far it is) and `ses` (the
controller's session). The dispatcher reads the stage in `Request`; `Invoke` later
makes the transaction call that belongs to the stage it *read*, whose own guard
re-reads the journal. A session can end at any time while its dispatcher goes on; a
dispatcher can be killed; power can be lost. `prepare()` holds the transaction lock
throughout; the model takes it twice (`Allocate`, `Prepare`).

### 2.3 RouterTransaction

| Variable | In the code |
|---|---|
| `accepted`, `pending`, `complete` | `accepted.json`; `pending.json` with its phase, the two production-start markers and whether the fence is confirmed; the outcome in `complete.json` |
| `evidence` | the records of the enrollment, its device and the acceptance |
| `receipt`, `cleanup` | the copy guest's result slots by direction; the records of its retirement |
| `progress`, `gone` | `cleanup-progress.json`; the resources of the operation that are retired |
| `marker` | the phase of `cold-test.json` |
| `conf`, `saved` | `router.cfg` and its autostart link, in memory and as last committed by `lbu` |
| `live`, `dying`, `helper` | the router domains, unanswered shutdown requests, the copy or finalizer guest |
| `fresh` | the disks that hold the newest router state (a ghost of the data on them) |
| `hand` | the holder of `transaction.lock`: command and place |
| `sup`, `signal` | the worker's supervisor; the unlocked controller command between its check and its write |
| `mode` | the boot sequence |
| `left` | failures still to come |

There is one operation, from the generation `old` to the generation `candidate`,
preceded by the adoption of `old`. A place named like a phase is the durable write of
that phase; `After` gives the order, which differs between cutover, the two directions
of recovery and a fence. The state a router writes while it runs makes its own disk
the only fresh one; a copy makes the target fresh as well. A router is started, by a
command as well as by `xendomains`, from whatever disk its place or the definition
names: that this is always a fresh one is `StateIsKept`, not a guard.

### 2.4 RouterColdTest

Adds `cycle` (the place of the cold worker outside the lock), `window` (the window's
records: expiry, hold name, backup, ready record, return intent, archive, selector
removal, result) and `test` (`installation.json`, `candidate-disk.json`, the logical
volume, `initial-boot-intent.json`, the offline finalization). The first
installation's commands run between the worker's stretches under the lock, each with
its own guard on the records. A worker that ends early is run again by its supervisor
and begins with the return. *One operation* is a bound: a behaviour contains a cutover
or a cold test, not one after the other.

### 2.5 ControllerSwitch

| Variable | In the code |
|---|---|
| `marker` | `controller-ha.json` of each box: role and active box |
| `head`, `file`, `staged`, `upstream` | each Instance clone's history, working files and whether its index holds a change; the main branch |
| `record` | the switch record of each box: phase, the history it was started from and what it said |
| `proc`, `lock` | the place of a running switch; the holder of each box's controller lock |
| `up` | the boxes that can be contacted |
| `promo` | the emergency promotion |
| `left` | failures and interference still to come |

A commit holds a placement and the text of everything else, of a set `Texts`, and has an
author. A text can come back, so that an edit with its revert, and a commit that
changes nothing, leave the contents as they were and the history longer. Interference
(`Faults`) is a killed command, a lost lock, a lost box, somebody else's commit, an edit
in a clone that is left, given up or committed there, a manual demotion and an emergency
promotion. `git add` and `git commit` are two steps; an edit by hand leaves the index as
it is or commits and resets it. Abstractions: a marker write and the last check
before it are one step; an operator does not edit the clone of a box on which a switch
runs, and promotes only when none runs (the runbook's precondition); a marker write
sent to the other box does not arrive after the command that sent it has given up;
provider credentials are in order. `SwitchCompletes` is about one unfinished record,
because two stale ones block each other until one is given up by hand.

### 2.6 WorkspaceMove

| Variable | In the code |
|---|---|
| `copy`, `writer`, `frozen` | the discussion in the Codex home of each runner, its native writer, its client stopped by a closing helper |
| `ledger`, `placement` | `handoffs/threads/<session>.json`; `placement.json` |
| `helper` | the process that holds `operation.lock`: operation and place |
| `manifest`, `panes` | `manifest.json`; whether its tmux panes still exist |
| `source`, `dest`, `restored` | `source.json` with its export; `destination.json` with `previous.json`; `restored.json` |
| `record`, `job` | `operation.json`; the holder of the installation lock |
| `early`, `overtaken` | what a waiting job has read of `operation.json`; whether a job went on from a record that another had changed (a ghost) |
| `turns`, `strayed`, `left` | finished turns; whether the user opened an uninvited copy; interference to come |

A history is the set of its finished turns and stands for its digest, so a copy is
compared as the code compares digests. `JobAfter` orders the places of the job; `Check`
enters at the recorded phase. The user opens any whole copy whose writer lock is
free.

A job reads `operation.json` before it asks for the installation lock, and writes back
what it has read when it has the lock. `Begin` is a job whose lock comes before anybody
has changed the record. `ReadEarly` and `BeginLate` are the other one: between the two,
any job may begin, go on and end. The fault `early` bounds how often. What the job
decides from its manifest, which the record carries too, is taken from the receipts.

### 2.7 AppResources

| Variable | In the code |
|---|---|
| `reg` | the registry: enabled apps, their boxes, optional resources, boxes with the access capability, shared guests wanted |
| `files` | the snippets of each host, by the owners in their headers (`{}`: no file) |
| `live` | the rules the kernel enforces |
| `up` | the boxes whose backend guest runs |
| `run` | the apply that holds the installation lock: place, scope, the registry it compiled, hosts to do |
| `ended` | scope and registry of the last apply, when it ended well |
| `edits`, `kills`, `reboots` | how much interference there has been |

A rule is named by its resource and host; its addresses, ports and the text of its
snippet are what the name stands for. `Owners` and `Compiles` are the compiler: whose
entries it reads for a scope, which claims merge, what it refuses. Compiling and
taking the lock are one step, so that a plan overtaken by another apply in between is
not modelled, and a killed apply ends on its host at once, where the code's remote
script may go on for a while. Left out: the ledgers' metadata digests, DHCP
reservations and LAN print files (which follow the snippets), the second pass for
application VMs, box access, applications that have moved, applications with a stopped
runtime, and the fixed platform and VPN rules.

### 2.8 GenerationStorage

| Variable | In the code |
|---|---|
| `infra` | whether the role is a controller or runner (`ops`), which keeps one root, or a service, which keeps two |
| `op` | per operation: the stage of `service.json` (`begun`: the directory without it), the stage of `journal.json`, the source generation, the image |
| `assigned` | `active/<role>.json` |
| `kept` | of each generation: root volume, kernel and initramfs, `new.cfg` |
| `converged` | the operations whose `service.json` records a convergence |
| `retired`, `plan` | `retired.json`; the saved retirement plan with the assignment and the records it has read |
| `store`, `qualified`, `cleanup` | the candidates' directories; release evidence; the saved cleanup plan |
| `cmd`, `kills` | the holder of the build lock; failures so far |

The transaction is reduced to its outcome (armed, crossed, complete, recovered); how
it gets there is `VmTransaction`. `Readable` is the reader of all references, which
raises rather than miss one. New identifiers are random in the code; an unused one is
chosen. Left out: the refusals that depend on what runs on the box (they change
nothing), disposable guests that outlive their command, the caches of build inputs,
and the legacy controller history.

### 2.9 ColdEvidence

| Variable | In the code |
|---|---|
| `dir`, `phase` | the operation's directory with the intent of its staging; `bootstrap-staging-state.json` |
| `own`, `next`, `capsule` | the ledgers of files; the parts received; `filesystem-bootstrap.json` |
| `meta`, `disk` | `intent.json` and `manifest.json` of the metadata; `disk.json` |
| `request`, `launch`, `proof`, `result` | `supervised-request.json`; grant and single launch; the writes ledger and `filesystem.json`; `supervisor-result.json` and `return-intent.json` |
| `health`, `removal`, `clean` | the health receipt and `completion.json`; intent and completion of the removals of the volume; plan, progress and completion of each collection of files |
| `marker` | the phase of `cold-test.json` |
| `work`, `lv` | the files in `filesystem/` with their sizes; the backup volume and its data |
| `live`, `runs`, `guest`, `loops` | the original router and its data; the inspector and its loop devices |
| `sup`, `hand` | the worker's place outside the router lock; the command that holds it |
| `late`, `left` | what has expired; failures still to come |

The open window, `RouterColdTest`'s subject, is one state. One file of a boot artifact
is written in halves of its parts, so that a receiver can be killed inside one. Left
out: a capsule from an older version, a guest whose creation Xen completes after the
command that asked for it has ended, the device receipt and the test's identity
(taken as available), dom0's look at the controller's grant. A refusal in a state that
cannot be reached is a disabled step.

### 2.10 RouterPreparation

| Variable | In the code |
|---|---|
| `job` | the request: first installation or replacement, first contact, a printer's service |
| `op` | the records of the operation and of the router it leads to |
| `candidate`, `root` | `candidate-disk.json` and whether the volume exists; what is on it |
| `aid`, `helper` | the files of each helper run (slot, loop device, `guest.cfg`, ledger, result); the live helper |
| `run`, `granted` | the holder of the router lock; the controller's grants that are still fresh |
| `cleaning`, `tmpl` | the plan and progress of the cleanup; the template's files and its removal |

The content of the volume is what the properties tell apart: whose router it is, which
of the first-contact files are on it, the enrollment server, the identity. A helper goes
on when its command is killed. A behaviour has one operation. Left out: the first boot
and the enrollment are an outline (`Lifecycle`), other operations' references to the
template are one choice, the grants of the stop and of the final boot are folded into
the steps that use them. Nothing in this revision produces the request of a
replacement's preparation; the code that serves it is modelled.

### 2.11 RetainedData and RetainedBackup

`old` and `stopped` are the disk in use and its writers; `seen` and `durable` the new
disk with and without what its guest holds in memory; `run` the attempt that writes
it; `use` what the caller has done with it. A dataset is the set of versions its files
come from: a loss leaves any mixture of what was synced and what was not, per dataset.
The marker files (`Pending`, `identity`) and the three measured records are on the
disk like data. Who stops writers and adopts a finished disk is not in the source; the
model does it as the functions' contracts ask. Once a disk is in production its guest
writes it file by file (`Serve`), and what it wrote reaches the disk at any later time
(`Flush`), so a snapshot of it may show datasets half written: such a backup is
"crash-consistent" only (`vm_disk_backup.py:5-6`), and the trial accepts it. Comparisons
that fail before anything is written are left out where they only end the command.

`RetainedBackup` adds `bk` (the backup: place, snapshot with what it showed and whether
production had the disk then, volume, records) and `vf` (the trial: place, restored
volume, slots, guest, report). The backup command and the trial exclude each other, the
guest in production and a copy go on beside them. Tampering from outside is not
modelled, nor the older kind of backup that keeps no content.

### 2.12 SeededState

`role` is one of the three ways (`router`, `ops`, `air`), `home` and `root` where
production keeps its state, `written` what it has ever written (a ghost), `op` and
`stage` the replacement under way, `clone` its new root, `disk` and `safe` the retained
disk with and without the finalizer's memory, `fin` the finalizer. Router and `air` get
a new zeroed disk per operation until one is adopted; `ops` writes again and again to
the mirror volume it has. A comparison that fails is a refusal where something is
already written, and a disabled step before. A finalizer that is lost is booted again by
the same operation, or the operation is given up and the old guest runs on. Left out:
the machine identity, ssh host keys and WAN leases, which have files of their own and no
order among them, and the shared guests (3.3).

## 3. Runs

Every run finishes within five minutes on two cores. `CHECK_DEADLOCK FALSE` is set
except for `shared`: an operation happens once, so a box whose operations have ended
and whose guests run has nothing more to do.

| Run | Instance | Question |
|---|---|---|
| `one_role` | one router-like role: an adoption, a historical operation (its candidate runs before acceptance), a service update; every failure; 1,294,382 states | no rollback past the boundary (`NoRollback`); the copy is exclusive and the last (`CopyIsSafe`); recovered guests are not lost (`RecoveredIsSafe`); definitions after boundaries (`BoundaryBeforeDefinition`); what boot decides (`BootDecides`); `ImplementsPromise` |
| `service` | one update with sessions, dispatcher, all failures; 353,228 | acceptance is verified (`AcceptedIsVerified`); `ImplementsTransaction` |
| `router` | adoption, cutover, recovery and retirement, or a cold test; two failures; 135,127 | `OneRouter`, newest state (`StateIsKept`), `FailedIsFenced`, the original kept (`ClearedIsOriginal`, `OriginalIsKept`), `OperationEnds`, `ImplementsSelection` |
| `controllers` | switches in both directions, two interferences of any of seven kinds, two texts; 259,182 | never two active (`OneMarker`); a push goes over the history the switch was started from and changes the placement only (`PushesOverItsBase`); `SwitchCompletes` |
| `applications` | a move there and back; one turn; two failures, reopenings or early reads. Or two applications that share a rule, one of which may take an exclusive one of its own; a router and a Podman guest; 220,957 in all | `OneHistory`; `NothingIsCut`; `MoveEnds`. What a successful apply was asked for is on disk and in force where it went (`AppliedIsInForce`); `NoOutage`; `RoutersConverge` |
| `storage` | three attempts from two builds, a role of either kind, one killed command; 434,472 | what can be returned to is kept (`RecoverableRoots`); images in use stay whole (`BoundImages`); `DeletionsEnd` |
| `installation` | a first installation's or a replacement's disk; two failures. Or one cold test from staging to the last removal, with an artifact of one part and one of two; two failures; 123,482 in all | `PreparedIsWhole`, `HelperIsFenced`, `AccessIsRetired`, `TemplateIsKept`, `CleanupEnds`. `RetiredIsEmpty`, `InspectorIsFenced`, `EvidenceEnds` |
| `retained` | two datasets, seeded by up to three operations, or copied, backed up and tried; 1,692,235 up to symmetry | `FinishedIsWhole`, `NothingIsLost`, `VerifiedIsFinished`, `ServesLatestState` |
| `swept` | *violation* | commits that change nothing, left in the clone between two attempts, are pushed by a resumed switch |
| `stale_move` | *violation* | a job that read its record before another completed the move offers the origin again |
| `shared` | *violation* | a scoped apply removes a rule that another application still owns |
| `used_backup` | *violation*, without any failure | the backup of a cold test that went through cannot be retired |

### 3.1 Bounds

`VmTransaction` and `VmService`: the sets themselves, one role, one to three
operations; no counter or queue is cut. One role with two operations has every
interference between successive operations of a role (superseded history, sources that
are themselves candidates, retired generations); the third adds the mixture of kinds.
Several roles on one dom0 are not in a run: the properties of `one_role` are theorems
for any number of roles, and so is `OneAtATime`. `Faults` names the failures a run
injects: `kill`, `power`, `exit` (a guest ends by itself), `late` (deadline or
heartbeat), `lockwait` (the watchdog's call times out on the lock). Failures are not
counted: each may occur at any step and any number of times. `Wants` is the set of
runtime states a reconcile may ask for.

The router, the cold test's evidence, the preparation, the switch and the moves count
failures, from `Budget = 2` or `Mishaps = 2`: one failure to interrupt and one to hit the
recovery of the first. The theorems about `RouterTransaction` and `ControllerSwitch`
hold for any number. `Length = 3` allows, besides the first commit, one of the switch
and one foreign; with two `Texts` a text can change and come back. `Turns = 1` tells a
copy with the turn from one without. Two moves, there and back, are the shortest
sequence in which receipts and a copy of an earlier move are met; the theorems hold for
any number. An early read and one failure, or two early reads, fit into the budget;
`stale_move` needs no failure beside the early read.

`ColdEvidence`: a part is the unit of a grant and of a retry; two parts of one file
and one of another have a kill inside a part, between parts and between files.
`used_backup` has `Budget = 0`: its violation needs no failure.

`AppResources`: two applications that claim one rule are what sharing needs, one box has
both kinds of host; two edits, one killed apply and one reboot (`MaxEdits`, `MaxKills`,
`MaxReboots`) allow an edit before and during an apply that is cut off. In the run both
applications are enabled at the start.

`GenerationStorage`: three attempts are the shortest history in which a generation is
older than what any role keeps; two images, one of them the first one's, let an
attempt choose an image that a saved cleanup names. `MaxKills = 1` interrupts one
command; retirement and cleanup resume whatever else has happened.

`RetainedData`: two datasets, so that one may be copied when the other is not; each
changes once (`MaxWrites`), which tells old from new; one failure. `SeededState`: two
files, two changes, three operations and two lost finalizers, the shortest history in
which a disk was filled, its operation given up, the old guest has run on, and the
next operation is itself interrupted. All theorems about the two hold for any numbers.

### 3.2 Fairness

The router's worker and its supervisor, a failing action, the boot sequence and the
answers of guests are weakly fair (bounded waits in the code). In the cold test the
clock passes the deadline, the installation's running command goes on, the worker is
weakly fair inside a stretch and strongly fair in obtaining the lock, which it polls,
and an ended worker is run again by its supervisor (strong: it may be killed again).
In `ColdEvidence` a command that runs goes on and the clock passes what it has to; the
worker and its restart, the check of a returned original and the removals are strongly
fair, because each needs a lock that others take in between and is asked for again. In
`RouterPreparation` a command and a helper guest go on, the controller grants again
what has expired, and a preparation, a finalization or a cleanup that was begun is
repeated (the runbooks' "repeat the command").

A controller switch, a job that holds its lock, a helper and a turn go on weakly fairly
(a job that has read its record early may wait for ever); a switch's lock is obtained, a
lost box returns; and *somebody resumes an unfinished operation again and again* (a
move: one whose inventory was taken), which is what the runbooks ask for. A running
apply of resources goes on, and the full apply is repeated. The command that holds the
build lock goes on, and retirement and cleanup are repeated ("Repeat cleanup to resume
an interrupted deletion", `doc/platform-updates.md`). No failure is ever assumed to
happen, and the last ones are finite in number because `left` and `mishaps` are. The
safety runs `one_role`, `service` and `retained` assume nothing (`retained` uses
symmetry, which liveness would forbid).

### 3.3 Disagreements met

The four violation runs are described under `findings` in `PROJECT.json`. `shared` is a
compilation of some owners that is applied to files of all. `used_backup`: the console
of the guest that inspects a backup is logged into the directory of its files, and the
two removals that follow accept no file they have not listed. `swept`: a resumed switch
compares the names of the files that differ between the two ends of its history, not
the commits between them. `stale_move`: `air-workspace` reads `operation.json` at `:110`
and takes the installation lock at `:114`; a job that has read `closing` and waited
while another completed the move goes on from there, and tells both runners that the
origin is current. From then on the moved discussion is open where nobody is told to
look and the origin offers its old copy; the job is refused where it parks the
destination, and so is each that resumes it.

More were met and have no run of their own:

* A helper killed between the receipt `imported` and the ledger
  (`codex_handoff.py:226`), or in a return between the receipt `moved` and the ledger
  (`:153-154`), makes every retry refuse, since the older ledger is taken for a later
  handoff. The runbook (`klokast-ops/runbooks/07-codex-on-ops.md`, "An interrupted
  move remains unavailable until resumed") and the comment in `receive` ("A lost reply
  can resume either side of the replacement boundary") promise that it resumes.
  Nothing is lost; `MoveEnds` names the two places in `Interrupted`.
* `MoveEnds` names the ends of an overtaken job in `SetBack`: its record says less than
  the runners have done, and they refuse to do it again.
* A switch killed between `git add` and `git commit` (`controller_switch.py:95-96`)
  leaves a staged file, which `:83` refuses ("unrelated or staged edits") each time the
  switch is resumed, until somebody resets the index by hand. `SwitchCompletes` speaks
  of switches that have published their placement.
* An adoption killed between its journal and its pointer (`vm_update_engine.py:386`)
  is not repaired at boot, and an attempt killed inside `arm` before its pointer
  (`:431`) can neither be resumed nor abandoned.
* nftables of a Podman guest is reloaded only when the same run changed a snippet
  (`platform_resource_runtime.py:467`), so an apply cut off in between makes every
  later one fail its verification until the guest reboots; `RoutersConverge` speaks of
  routers for this reason. DHCP reservations
  (`roles/app-resources/tasks/main.yml:154`) have the same condition.
* An apply visits the hosts its plan names (`platform_resource_compiler.py:1023`): a
  host of an application that has been moved to another box keeps its snippets.
* `advance` arms any operation without a journal, whatever `service.json` says
  (`vm-service-update:81`): a session resumed from an older status arms an attempt
  that has been abandoned meanwhile, although "This retires only the unfinished
  attempt" (`vm_service_engine.py:316`). The attempt then completes as any other.
* A retirement plan is bound to the assignment and the convergence records it has read
  (`vm_service_retirement.py:209-214`). Once an attempt has been armed, or a
  convergence recorded, after an interrupted retirement, the plan is refused for ever
  and no new one is made; `doc/platform-updates.md:537` says "Repeat cleanup to resume
  an interrupted deletion." `DeletionsEnd` names the case `Overtaken`.
* `prepare` killed between its directory (`vm_service_engine.py:205`) and
  `service.json` (`:219`) leaves a directory that nothing resumes or abandons, at
  which every later build preflight and cleanup of the box stops.
* An attempt abandoned before it was armed keeps its root and its hold on its image
  for ever: retirement reads `journal.json` (`vm_service_retirement.py:66`).
* The watchdog asks for the journal under the transaction lock, in a bounded call
  (`vm-update-transaction:98`). A copy of state that holds the lock for longer ends
  the watchdog, and a later deadline is enforced by nobody until the next boot or
  command.
* A first installation's grant that expires between the creation of the test's disk
  and its record leaves a disk no installing command is allowed to go on with
  (`router_records.py:199-210`), and the archive refuses an unrecorded one
  (`router_cold_test_state.py:318`): the original router cannot be returned, although
  "Recovery of an existing window remains available after that grant expires"
  (`router_cold_cycle.py:3-4`). The same happens to a first installation killed
  between its stage `verified` and `accepted.json`: every retry compares the
  installation's record with the hash the final boot saw
  (`router_initial_finalization.py:398`), which the stage has changed, and the archive
  refuses a verified test without an assignment (`:311`).
  `test_retry_after_verified_stage_finishes_same_generation`
  (`tests/test_router_initial_acceptance.py:138`) replaces that check.
* A cold test's fence can be cleared before its worker has recorded its result
  (`router_cold_health.py:164`), after which the removal of the used backup finds no
  result that fits. An outage interrupted while it copies, a volume whose UUID was not
  recorded, a staging killed between its directory and its intent, and an outage
  granted after the abort of a prepared backup had its intent are preserved for
  inspection; `EvidenceEnds` names what it excludes.
* A router with a printer's service can never be prepared: the personalization enables
  `avahi-daemon` (`router_personalize.py:250`, `:39`), the verification wants exactly
  the common services (`router_candidate.py:203-206`).
* A killed finalizer of a first installation is never run again, and its grant can
  expire between its ledger and its boot; an enrollment whose intent exists is refused
  by the boot's retry (`router_initial_boot.py:78`), although `provision-router`
  (`:454`) promises to "reconcile the same attempt", and a lost receipt of an enrolled
  router is not rebuilt. `CleanupStuck` names what a cleanup of a replacement leaves
  for inspection.
* A killed backup leaves its snapshot, and the disk, now a snapshot's origin, is
  refused by every later backup (`vm_disk_backup.py:250`, `:230`); a killed trial
  leaves its volume, slots and guest (`vm_backup_verify.py:232`); an interrupted copy,
  stage or final sync makes its destination unusable. All three need an operator, and
  the code says so for the first (`:297-298`).
* An operation of `ops` that is given up after its disk was seeded blocks every later
  one, since the mirror volume carries the progress of another operation.
* The shared guests' finalizer (`vm_dmz_personalize.py:67`, `:107`) writes its marker
  and copies `platform-tailscale-state` in place and without a sync; a repeated
  finalizer adopts whatever it finds there.

Known and not covered: the engine's recovery budget runs by wall clock
(`vm_update_engine.py:554`); `recover()` uses the guest it found before a long commit
(`:574`); the fence removes a link in memory only (`:650`); a router operation that
was rolled back without an attempt cannot be cleaned up (`router_dom0.py:216`); two
sessions of different roles race to begin (`vm_service_updates.py:60`).

## 4. Proofs

TLAPS proves the following for every value of the constants that satisfies the
modules' assumptions: any roles, operations, applications, runners and data, any
budget of failures. The assumptions are the modules' `ASSUME`s, which TLC evaluates in
the runs; `AppResources` has none. That `None` is no runner, operation or record is
assumed where a variable may hold either. A theorem that states a property of a run is
marked with it. The specifications' fairness is not used.

### 4.1 VmTransactionProofs

First half, about the records:

* `CommandCorrect`: `Spec => []CommandInv`, the type invariant strengthened by two
  facts without which it is not inductive. `SourceKnown`: an operation with a journal
  has a frozen source, so that the generation a recovery publishes exists. `HandInv`:
  the command that holds the lock is at a place that fits its name and the stage its
  operation has recorded; that is what the code relies on when it does not re-read the
  journal inside a command. One step per action. `TypeCorrect` (*TypeOK*) follows.
* Four lemmas say what one step may change: `JournalNext` (the table of journal moves,
  and that only the assigned operation, the command's own or a new one is written),
  `SourceNext`, `DefinitionNext`, `PointerNext`. The next theorems use only these and
  never look at an action again.
* `BoundaryFinal`: no step undoes a crossed boundary, by cases on the journal move.
* `BoundaryFirst` (*BoundaryBeforeDefinition*): definitions in memory and on the
  medium name only crossed candidates. Inductive with the same fact about frozen
  sources (`DefinitionsCrossed`), since recovery publishes a source.
* `OneAtATime`: at most one assignment is unsettled. The strengthening is
  `PublishSettled`: between arm's record and its pointer the others stay settled.
* `HistoryInert`: a superseded operation is never written or assigned again.

Second half, about what runs. `NoRollback` is not inductive, nor with any one fact
beside it: that an old guest does not start depends on the definition `xendomains`
reads, on who was asked to shut down, on the copy, and on the sequence of assignments.
`PromiseInv` (theorem `PromiseHolds`) is `CommandInv`, `DefinitionsCrossed`,
`PublishSettled` and

* `AssignmentInv`: a pointer names a recorded operation of its role (`PointerInv`); an
  operation that has begun and is not settled is the one assigned (`OpenInv`), and so
  is what a command works on (`HeldInv`); a role without assignment keeps its first
  definition (`FirstInv`); an assignment about to be stored starts from what is
  selected (`FollowsInv`), and what a crossed operation replaced is not selected again
  (`RetiredInv`);
* `LiveInv`: a command that goes on to the live guest has published its decision
  (`PublishedInv`); boot recovery has decided or fenced every role before `xendomains`
  reads definitions (`BootInv`); a role runs nothing, what is selected, or a candidate
  on trial (`GuestInv`), and nothing between the confirmed stop and the start
  (`StoppedInv`); a copy runs only after the stop, and alone (`CopyInv`); an update's
  unanswered shutdown request is remembered until the guest has gone (`DyingInv`).

From it: `NeverRollsBack` (*NoRollback*), `CopySafe` (*CopyIsSafe*), `RecoveredSafe`
(*RecoveredIsSafe*), `BootRecoveryDecides` (*BootDecides*) and `KeepsPromise`
(*ImplementsPromise*), the refinement of `GenerationSelection`: each action selects,
retires, starts or stops as the promise allows, or stutters. `RetiredForever`
(*NeverRetired* of `GenerationSelection`, under the mapping) is what the promise is
for: it is inductive for the promise's own steps (`PromiseRetires`), and `KeepsPromise`
makes them the transaction's.

### 4.2 VmTransactionProofs, last part: VmService

`FollowsTransaction` (*ImplementsTransaction*): each action of the dispatcher and the
controller is one transaction call or changes nothing of the transaction
(`DispatchCalls`, `ServiceSteps`), so all theorems of 4.1 hold of `SSpec`.
`AcceptedOnlyVerified` (*AcceptedIsVerified*): a service crosses its boundary only by
the record `starting`, and is accepted only from `tested` (`WaysIn`, from
`JournalNext`); those two records are written only by an `Invoke` of an operation
whose finalization is ready and by `Checks` after a complete reboot (`OnlyWhenReady`;
every other step is `Quiet`); neither fact is taken back (`ReadyStays`,
`VerifiedStays`). The dispatcher acts on a stage it read earlier: that the transaction
call reads the journal again is what the proof needs.

### 4.3 RouterTransactionProofs

The transaction alone (`Spec`):

* `RouterInv`: the type invariant and seven parts. `HandInv` (the place of the lock's
  holder fits the recorded phase), `Apart` (no two routers, and none beside a helper
  guest), `HelperGone` (no helper is left where a router can be started without a look
  at it), `PendingInv` (whoever moves a router has a pending operation on a baseline),
  `FinishInv` (the end of an operation runs on the side it selects), `BaselineInv`
  (before adoption), and `SettledIsSelected`. "Never two routers" is not inductive
  alone: a start is safe because of what the holder's place says about the stop before
  it. `TypeCorrect`, `OneRouterRuns` (*OneRouter*), `SettledSelection` follow.
* `ImplementsPromise` (*ImplementsSelection*), the refinement of
  `GenerationSelection`. The mapping selects what `accepted.json` names. Two more
  invariants are needed: `NoWayBack` (once the candidate is accepted, the old router
  does not run, no definition starts it and no rollback is under way) and `LinkGone`
  (a cutover gets there only with the autostart link gone, in memory and on the boot
  medium). From `NoWayBack` alone, `RetiredForever` (*NeverRetired*, under this mapping).
* `StateKept` (*StateIsKept*), with `FreshInv`: which disk holds the newest state
  follows from the records alone. Until the candidate's first start is recorded it is
  the old disk; from then until the old one's restart is recorded, the candidate's;
  after that, the old one's; with nothing pending, the selected one's, and only then
  does a boot start a router (`ServedInv`, `RecordInv`). Each place of a command knows
  which of the two starts are recorded (`StartedInv`), and a receipt or a copy guest
  belongs to one operation and direction (`CopiesInv`). This is why both markers must
  be on disk before their start, and why a copy's receipt is not reused the other way.
* `FenceHolds` (*FailedIsFenced*), with `FenceInv`: each place of the fence means that
  what lies before it is done, unless the fence itself has failed and said so.

The transaction with the cold test beside it (`ColdSpec`, the specification the run
`router` checks). `ColdInv` has two regimes. Until a test is armed, all of the above
holds and no step of a test is possible (`BeforeATest`). Arming asks for a settled
baseline, and from then on `TestInv` holds (`ArmBegins`, `TestStep`):

* `Quiet` and `HoldsLock`: no cutover is pending or can begin, since it refuses the
  marker; so of the transaction's commands only those that read do anything
  (`OnlyStatus`), and the lock is held by them, the installation or the cold worker.
* `MarkerInv`: each place of the worker fixes the phase of the marker, because the
  phase is durable before what it announces. A boot that starts a router by itself met
  no marker.
* `AsideInv`: an original under its hold name does not run, and the backup keeps its
  state; under its own name its disk has the newest. `OriginalIsKept` alone is not
  inductive: a repair is harmless only because it is made under the hold name.
* `FirstInv` and `NoTest`: the selectors of the test go after their archive, the disk
  after the selectors, and the marker leaves `open` after the disk. Hence clearing the
  marker finds nothing of the test, whichever worker came how far.
* `HelperInv`: the first finalizer runs with every router stopped.

`ClearedCorrect` (*ClearedIsOriginal*) and `OriginalKept` (*OriginalIsKept*) follow,
and the transaction's promises hold here too: `ColdOneRouter` (*OneRouter*),
`ColdStateKept` (*StateIsKept*), `ColdFenceHolds` (*FailedIsFenced*) and
`ColdImplements` (*ImplementsSelection*). They are about any number of failures, and
under the bound *one operation* of 2.4: a test after a completed cutover, or a cutover
after a test, is outside the model and so outside the theorems.

### 4.4 ControllerSwitchProofs

`SwitchInv` is the type invariant (with every history's commits known), `OneMarker`,
and `AuthorityInv`: a promotion runs alone and activates only beside a controller seen
inactive, and a switch about to activate the other box holds both locks and has left
its own inactive. `TypeCorrect` and `NeverTwoActive` (*OneMarker*) follow.

`PlacesOverItsBase` (*PushesOverItsBase*), over histories of any length, in which
contents may come back. It needs `ChangeInv`: a switch is started from a clean clone
(`RecordInv`); until it has published, the history it was started from stays in the
clone, and once it publishes, also in main (`KeptInv`); where a clone or its last commit
names the other controller, the history is still that base, or the first commit over it
is one that names the other controller, or main has named it since (`PlacementInv`); and
what a command has read stays true while it holds both locks (`PublishInv`). The lemma
`Pushes` is the property of one push. That main has not moved, or only to the same
placement, comes from the comparison with the recorded commit after the pull (`AtBase`),
and from Git's refusal to push over what the clone does not have. The theorem says
nothing of *which* commits lie between the base and what is pushed: that is the run
`swept`.

### 4.5 GenerationStorageProofs

`StorageCorrect`: `StorageInv` is the types (`StorageTypes`), `JournalInv` (a journal
exists from the preparation on), `AttemptInv` (at most one attempt is under way, and
it starts from and returns to what is selected; a recorded source was accepted),
`PlanInv` (a saved retirement names nothing that its own assignment selects, nor a
service's previous generation; while it runs nothing is pending and the assignment is
the plan's), `RecoverableRoots` and `ImagesInv` (a preparation's image is whole; a
running cleanup's plan avoids everything referenced). The argument: the records
`complete` and `abandoned` are final, so what a plan's assignment selects is fixed;
only a completion changes what is selected (`SelectionMoves`), only a recorded service
adds a pending attempt (`PendingGrows`), only a retirement takes roots away
(`WhoCuts`), only a cleanup breaks images (`WhoCleans`). `RootsRecoverable`
(*RecoverableRoots*) and `ImagesBound` (*BoundImages*) follow.

### 4.6 ApplicationProofs: AppResources

`ResourcesCorrect`: `ResourcesInv` is `HostInv` (types; a guest that is down enforces
nothing), `RunInv` (where the apply is, and that the host it works on runs), `DoneInv`
(a host it has done holds what was granted, on disk and in force) and
`AppliedIsInForce`. One lemma carries it (`OthersKept`): a step leaves the disk of
every host but the visited one alone, and changes its kernel only by loading that disk
or by going down. `AppliedHolds` (*AppliedIsInForce*) and `NothingOut` (*NoOutage*)
follow.

### 4.7 ApplicationProofs: WorkspaceMove

`MoveCorrect`: `MoveSpec => [](~overtaken => MoveInv)`. Until a job goes on from a record
that another has changed, `MoveInv` relates the record on the controller to what its two
runners say; afterwards it is false (`stale_move`). A job that has read early and finds
the record as it was begins like any other (`StepIs`). *OneHistory* is far from
inductive: the history travels from a copy into an export and from the export into
another copy, helpers of jobs that gave up go on meanwhile, and an earlier move may be
resumed at any time. Its parts, in the order in which they
need each other:

* `RunnerTypes`, `ReceiptTypes`, `ControllerTypes`; `ReachedInv` (a runner that has a
  copy was the first or was the end of a move);
* `StageInv`: what the two runners of a move publish, by its recorded phase; `OfferInv`:
  no two moves are under way and no two runners are offered; `PrevInv`: the previous
  placement of a move is one that had ended and that it has replaced before it copies.
  That is what the comparison with `previous_placement` in a resumed job gives.
  There are only six publications that change anything (`PublishMoves`), and each is
  one of the only move under way (`OnlyMover`);
* `JobPhaseInv`, `JobPlaceInv`, `WaitInv`: what the job has recorded, seen and called by
  its place. It reads the placements once, at `Check`; that nobody else publishes until
  it ends is the installation lock;
* `StageOfHelper`, `HelperInv`: a helper that its job has given up still finds the
  placements of its phase. The lock of its runner keeps a second one out, and the job
  cannot leave the phase while the helper it needs is refused;
* `ReceiptInv`, `LedgerInv`: what the receipts of a move mean by its recorded phase, and
  a ledger that says *moved* has an export;
* `KeeperInv`, `TravelInv`, `KeptInv`: who has the discussion. `Keeps(r)`: `r` is
  offered, or it is the origin of a move under way that has not handed over, or the
  destination of one that has received. At most one runner keeps it, it has every turn
  a move has carried, and between the two ends of a move nobody does, while the export
  has all of it. The steps that matter are a publication, an export, an import, the
  removal of an older copy and a turn (`FlowSteps`), one lemma each.

`OneHistoryHolds` (*OneHistory*) is `KeeperInv` with `KeptInv`. `NothingCut`, which is
*NothingIsCut* for steps before any job was overtaken, needs of the invariant that a
helper holds the writer lock where it changes a copy, and that `previous.json` is
contained in the bundle that replaces it.

### 4.8 RetainedProofs

* `SeedingCorrect` and `LatestStateServed` (*ServesLatestState*), about `SeedSpec`:
  `SeedInv` is the types, `StageInv` (a finalizer runs only while the guest is
  stopped, and no receipt on the disk is of an operation that has not stopped it yet),
  `MemoryInv` (only the copy of `ops` and `air` leaves anything in memory, and that is
  contents of files), `PathInv` (which role's finalizer comes to which place),
  `MigrationInv` (how much of the old root is on the disk at each place, and what a
  receipt of this very operation promises) and `LatestInv`. So a disk that an earlier
  operation filled is not adopted after the old guest has run again.
* `RetainedCorrect`, about `RetainedBackup`'s `Spec`: `DataInv` (`RestInv`,
  `MeasureInv`, `AdoptedInv`, `ClaimInv`, `CopyInv`, `StagingInv`) says for each place
  of an attempt which markers and data survive a loss at it, as long as production has
  not got the disk, and `BackupInv` (`ShotInv`: a snapshot of the new disk shows something a loss could have left;
  `VolumeInv`, `TrialInv`) what the backup's and the trial's records mean. The
  backup's half uses of a step of the data only what a loss may leave (`DataStep`).
  `FinishedCopiesAreWhole` (*FinishedIsWhole*), `FinalSyncLosesNothing`
  (*NothingIsLost*) and `VerifiedBackupsAreFinished` (*VerifiedIsFinished*) follow.

### 4.9 RouterPreparationProofs

`PreparationCorrect`: `PreparationInv` is the types (`RecordTypes`, `ActorTypes`) and
seven parts, one lemma each, one step per action that touches what the part reads:

* `RequestInv` (nothing is recorded for what was not requested, and a command that
  copies found the template whole), `FilesInv` (the preparer's slot and ledger exist
  only beside a complete clone, the finalizer's only after the enrollment);
* `PlaceInv` and `HolderInv`: what the lock's holder has checked or written by the
  place it is at. Under the lock nobody else undoes it, except a guest that an earlier,
  killed command left; that is why a cleanup looks for the helper again and why a run
  that was recorded is never started a second time;
* `GuestInv`: a live guest has a recorded and unfinished run, its slot, loop device,
  volume and boot artifacts, and no router runs;
* `WholeInv` and `FinalInv`: how far the guest is determines what the disk holds, and
  what a complete answer in the slot or a ledger `prepared` says of the disk later,
  when neither the guest nor its command is there.

`PreparedDisksAreWhole` (*PreparedIsWhole*), `HelpersAreFenced` (*HelperIsFenced*),
`FinalAccessIsRetired` (*AccessIsRetired*) and `TemplateStays` (*TemplateIsKept*)
follow. That an answer is accepted only when it is complete, that a clone is made only
without ledger and traces, and that a cleanup fences before it removes are the facts
the proofs cite.

### 4.10 ColdEvidenceProofs

`EvidenceCorrect`: `EvidenceInv` is the types (`StagingTypes`, `OutageTypes`, `BoxTypes`,
`RemovalTypes`) and

* `ClosedInv` and `PlanInv`, for `RetiredStagingIsEmpty` (*RetiredIsEmpty*): who may be at
  work is bounded by how far staging has come, and once staging is being retired no
  name can come to `filesystem/` that its saved plan does not list. A plan is resumed
  as it was saved, however much later; that no writer is left when it is saved is what
  makes it complete;
* `OutageInv`, for `InspectorsAreFenced` (*InspectorIsFenced*): the worker's commands run
  only in the two places of the supervisor between stop and return, and the places of
  the return come after the abort of the inspection, whoever started it;
* `BackupInv`: the stage of `disk.json` with the holder of the lock, the grant and the
  data of the original. The original writes again only when no copy can follow, and
  every abort needs a backup that was never copied. `BackupOutlivesOutage` follows: from
  the comparison of the copy to the completed health check the volume is there and
  holds what the original had when it was stopped. It is stated only here
  (`BackupIsKept`).

### 4.11 Only model-checked

Every safety property of the passing runs is a theorem about the specification that the
run checks, or, in `applications`, `installation` and `retained`, about the one of its
two chapters that it belongs to, with one exception: `NothingIsCut` is proved until a
job is overtaken, and checked by TLC also after that.

Liveness under fairness is outside the prover's reach: `OperationEnds`,
`SwitchCompletes`, `MoveEnds`, `RoutersConverge`, `DeletionsEnd`, `EvidenceEnds`,
`CleanupEnds`.

## 5. What is left

Not modelled, and why:

* *Inside modelled components*: a superseded plan that is given up by hand, image and
  volume allocation beyond the records that decide a retry; the router's qualification
  before arming and the contents of the copied state; several discussions with their
  lineage, the relay of a single discussion, `recover-source` and maintenance
  reservations; records of a workspace move on a controller that loses authority in
  between; the shared guests' storage.
* *Controller replacement*, *update discovery and maintenance*: sequential procedures,
  with receipts but one actor.
* *Network, proxy and VPN, the Go command line, ansible roles and playbooks,
  applications, schemas*: validation, rendering and provisioning; no state that
  several actors change.

Next: a cold test after a completed cutover, which needs the baseline of a test to be
either router.

## 6. Running it

    tlc -workers 2 -config OneRole.cfg MCVmTransaction.tla
    tlc -workers 2 -config Service.cfg MCVmService.tla
    tlc -workers 2 -config Storage.cfg MCStorage.tla
    tlc -workers 2 -config Router.cfg MCRouter.tla
    tlc -workers 2 -config Retained.cfg MCRetained.tla
    for c in Controllers Swept; do tlc -workers 2 -config $c.cfg ControllerSwitch.tla; done
    for c in Installation UsedBackup; do tlc -workers 2 -config $c.cfg MCInstallation.tla; done
    for c in Applications StaleMove Shared; do
      tlc -workers 2 -config $c.cfg MCApplications.tla
    done
    for m in VmTransaction RouterTransaction RouterPreparation ColdEvidence \
             ControllerSwitch GenerationStorage Application Retained; do tlapm ${m}Proofs.tla; done
