---------------------------- MODULE VmTransaction ----------------------------
(***************************************************************************)
(* The protected VM replacement transaction of one dom0, as executed by    *)
(* vm_update_engine.py, its watchdog, the finalizer of                     *)
(* vm_service_finalization.py and the OpenRC boot recovery.                *)
(*                                                                         *)
(* Every command that changes a role runs under the box's transaction      *)
(* lock.  A command is split at each durable write, each change of the     *)
(* live Xen state and each wait, and hand records how far the command that *)
(* holds the lock has got.  Between two steps guests may exit, the process *)
(* may be killed, or dom0 may lose power.                                  *)
(*                                                                         *)
(* A generation is the root disk and boot definition of one guest.  The    *)
(* candidate generation of operation o is named o; Base is the generation  *)
(* every role ran before its first operation.                              *)
(***************************************************************************)
EXTENDS Naturals, FiniteSets

CONSTANTS
  Roles,        \* the service guests of the box
  Ops,          \* operations; each names the candidate generation it creates
  RoleOf,       \* the role an operation replaces
  Historical,   \* operations of the kinds vm-switch.v1 to v3
  Adoptions,    \* operations that adopt the running guest and have no candidate
  Independent,  \* router, ops and air: fenced only once they have a pointer
  Routers,      \* roles whose candidate needs the finalizer's written proof
  Base,         \* the generation installed before any operation
  Wants,        \* runtime states the approved desired state may ask for
  Faults,       \* which failures the environment may inject
  None

ASSUME ConstantsAssumption ==
  /\ RoleOf \in [Ops -> Roles]
  /\ Historical \subseteq Ops
  /\ Adoptions \subseteq Ops
  /\ Historical \cap Adoptions = {}
  /\ Independent \subseteq Roles
  /\ Routers \subseteq Roles
  /\ Wants \subseteq {"running", "stopped"}
  /\ Faults \subseteq {"kill", "power", "exit", "lockwait", "late"}
  /\ Base \notin Ops
  /\ None \notin Ops \cup Roles \cup {Base}

VARIABLES
  \* Durable records, on the dom0 data volume.
  stage,    \* journal.json: the recorded stage, "none" before arm
  pending,  \* journal.json: operations whose old_shutdown_pending is true
  watched,  \* journal.json: operations whose watchdog identity is recorded
  source,   \* request.json: the old generation and who wrote its definition
  pointer,  \* active/<role>.json
  intent,   \* runtime.json, or the request's autostart when it is absent
  copied,   \* result.slot: finalizer runs that reported success
  ready,    \* router-state-ready.json and the finalized service record
  \* The Xen definitions of dom0, in memory and as last committed by lbu.
  cfg,
  saved,
  \* The live box.
  guest,    \* the generation the role's domain runs, or None
  dying,    \* whose shutdown request the domain has not answered yet
  fin,      \* operations whose finalizer domain is running
  watcher,  \* operations whose watchdog process is alive
  expired,  \* operations past their deadline, or silent past their heartbeat
  hand,     \* the command holding the transaction lock
  mode,     \* "up", or the phase of the boot sequence
  bootq     \* roles whose pointer boot recovery has still to process

durable == <<stage, pending, watched, source, pointer, intent, copied, ready>>
xen     == <<guest, dying, fin>>
boot    == <<mode, bootq>>
vars    == <<durable, cfg, saved, xen, watcher, expired, hand, boot>>

Services    == Ops \ (Historical \cup Adoptions)
Generations == Ops \cup {Base}

PostBoot  == {"starting", "booted", "tested", "accepted", "complete"}
PreAccept == {"armed", "stopping", "stopped", "starting", "booted", "tested",
              "recovering"}
Terminal  == {"adopted", "accepted", "complete", "recovered", "recovery-failed"}
Settled   == {"adopted", "complete", "recovered"}

Idle == [op |-> None, do |-> "none", pc |-> "idle", found |-> FALSE]

-----------------------------------------------------------------------------

(* recover() keeps the candidate from this stage on and never returns to   *)
(* the old generation.                                                     *)
Crossed(o) ==
  stage[o] \in (IF o \in Historical THEN {"accepted", "complete"} ELSE PostBoot)

Selected(o) == IF Crossed(o) THEN o ELSE source[o].gen

Current(o) == pointer[RoleOf[o]] = o

(* step() refuses a late or silent operation, except after a service boot. *)
InTime(o) ==
  o \in expired /\ stage[o] \in PreAccept
    => o \in Services /\ stage[o] \in PostBoot

(* guest() refuses while any other domain holds a disk of the transaction. *)
Clear(o) == \A x \in fin : RoleOf[x] # RoleOf[o]

(* guest(sides) returns the role's domain, or refuses an unknown one.      *)
Finds(o, gens) == Clear(o) /\ guest[RoleOf[o]] \in gens

Either(o) == {None, source[o].gen, o}

LockFree == hand = Idle /\ mode = "up"

Take(o, do, pc) == hand' = [op |-> o, do |-> do, pc |-> pc, found |-> FALSE]
Goto(pc)        == hand' = [hand EXCEPT !.pc = pc]
At(do, pc)      == hand.do = do /\ hand.pc = pc

(* The command returns; during boot recovery the next pointer follows.     *)
Return ==
  /\ hand'  = Idle
  /\ bootq' = bootq \ {RoleOf[hand.op]}

Record(o, s) == stage' = [stage EXCEPT ![o] = s]

Init ==
  /\ stage   = [o \in Ops |-> "none"]
  /\ pending = {}
  /\ watched = {}
  /\ source  = [o \in Ops |-> [gen |-> None, by |-> None]]
  /\ pointer = [r \in Roles |-> None]
  /\ intent  = [o \in Ops |-> "running"]
  /\ copied  = {}
  /\ ready   = {}
  /\ cfg     = [r \in Roles |-> [gen |-> Base, by |-> None, auto |-> TRUE]]
  /\ saved   = cfg
  /\ guest   = [r \in Roles |-> Base]
  /\ dying   = [r \in Roles |-> "none"]
  /\ fin     = {}
  /\ watcher = {}
  /\ expired = {}
  /\ hand    = Idle
  /\ mode    = "up"
  /\ bootq   = {}

-----------------------------------------------------------------------------
(* Publishing a boot definition: Transaction.assignment().                 *)

\* Seeded fault: recovery always publishes the old side.
SideOld(do, o) ==
  CASE do \in {"start", "accept", "complete"} -> o
    [] do \in {"adopt", "recover"}            -> source[o].gen
    [] do = "reconcile" -> IF stage[o] = "complete" THEN o ELSE source[o].gen

(* The definition each command publishes.                                  *)
Side(do, o) ==
  CASE do \in {"start", "accept", "complete"} -> o
    [] do = "adopt"                           -> source[o].gen
    [] do = "recover"   -> IF Crossed(o) THEN o ELSE source[o].gen
    [] do = "reconcile" -> IF stage[o] = "complete" THEN o ELSE source[o].gen

(* The definition is replaced and the autostart link removed.              *)
WriteConfig ==
  LET r == RoleOf[hand.op]
  IN  /\ hand.pc = "config"
      /\ cfg' = [cfg EXCEPT ![r] = [gen  |-> Side(hand.do, hand.op),
                                    by   |-> hand.op,
                                    auto |-> FALSE]]
      /\ Goto("link")
      /\ UNCHANGED <<durable, saved, xen, watcher, expired, boot>>

(* The link returns only while the role is meant to run.                   *)
WriteLink ==
  LET r == RoleOf[hand.op]
  IN  /\ hand.pc = "link"
      /\ cfg' = [cfg EXCEPT ![r].auto = (intent[hand.op] = "running")]
      /\ Goto("persist")
      /\ UNCHANGED <<durable, saved, xen, watcher, expired, boot>>

(* lbu commits the whole of /etc, whatever other roles have there.         *)
Persist ==
  /\ hand.pc = "persist"
  /\ saved' = cfg
  /\ CASE hand.do = "start"     -> Goto("create") /\ UNCHANGED bootq
       [] hand.do = "complete"  -> Goto("finish") /\ UNCHANGED bootq
       [] hand.do = "reconcile" -> Goto("runtime") /\ UNCHANGED bootq
       [] hand.do = "recover" /\ stage[hand.op] = "recovering"
                                -> Goto("restart") /\ UNCHANGED bootq
       [] OTHER                 -> Return
  /\ UNCHANGED <<durable, cfg, xen, watcher, expired, mode>>

Assignment == WriteConfig \/ WriteLink \/ Persist

(* Preparing and abandoning an operation commit /etc as well, the latter   *)
(* without the transaction lock.                                           *)
Commit ==
  /\ mode = "up"
  /\ saved # cfg
  /\ saved' = cfg
  /\ UNCHANGED <<durable, cfg, xen, watcher, expired, hand, boot>>

-----------------------------------------------------------------------------
(* Staging, arming and adopting.                                           *)

(* prepare() and stage_adoption() freeze the running generation and its    *)
(* installed definition into request.json and old.cfg.                     *)
Stage(o) ==
  LET r == RoleOf[o]
  IN  /\ LockFree
      /\ source[o].gen = None
      /\ cfg[r].auto
      /\ guest[r] = cfg[r].gen
      /\ source' = [source EXCEPT ![o] = [gen |-> cfg[r].gen, by |-> cfg[r].by]]
      /\ UNCHANGED <<stage, pending, watched, pointer, intent, copied, ready>>
      /\ UNCHANGED <<cfg, saved, xen, watcher, expired, hand, boot>>

OthersSettled ==
  \A r \in Roles : pointer[r] # None => stage[pointer[r]] \in Settled

DefinitionUnchanged(o) ==
  LET now == cfg[RoleOf[o]] IN source[o] = [gen |-> now.gen, by |-> now.by]

(* The same role's previous operation must have selected the old side.     *)
FollowsPrevious(o) ==
  LET p == pointer[RoleOf[o]]
  IN  p # None => /\ source[o] = [gen |-> Selected(p), by |-> p]
                  /\ intent[p] = "running"

Arm(o) ==
  /\ LockFree
  /\ o \notin Adoptions
  /\ source[o].gen # None
  /\ stage[o] = "none"
  /\ OthersSettled
  /\ FollowsPrevious(o)
  /\ DefinitionUnchanged(o)
  /\ Finds(o, {source[o].gen})
  /\ Record(o, "armed")
  /\ Take(o, "arm", "publish")
  /\ UNCHANGED <<pending, watched, source, pointer, intent, copied, ready>>
  /\ UNCHANGED <<cfg, saved, xen, watcher, expired, boot>>

AdoptOld(o) ==
  /\ LockFree
  /\ o \in Adoptions
  /\ source[o].gen # None
  /\ stage[o] = "none"
  /\ pointer[RoleOf[o]] = None
  /\ OthersSettled
  /\ DefinitionUnchanged(o)
  /\ cfg[RoleOf[o]].auto
  /\ Finds(o, {source[o].gen})
  /\ Record(o, "adopted")
  /\ Take(o, "adopt", "publish")
  /\ UNCHANGED <<pending, watched, source, pointer, intent, copied, ready>>
  /\ UNCHANGED <<cfg, saved, xen, watcher, expired, boot>>

(* The pointer is stored after the journal record it names.                *)
Publish ==
  LET o == hand.op
  IN  /\ hand.pc = "publish"
      /\ pointer' = [pointer EXCEPT ![RoleOf[o]] = o]
      /\ Goto(IF hand.do = "arm" THEN "watch" ELSE "config")
      /\ UNCHANGED <<stage, pending, watched, source, intent, copied, ready>>
      /\ UNCHANGED <<cfg, saved, xen, watcher, expired, boot>>

StartWatch ==
  /\ hand.pc = "watch"
  /\ watcher' = watcher \cup {hand.op}
  /\ Goto("bind")
  /\ UNCHANGED <<durable, cfg, saved, xen, expired, boot>>

(* The journal names the watchdog, without which stop is refused.          *)
BindWatch ==
  /\ hand.pc = "bind"
  /\ watched' = watched \cup {hand.op}
  /\ Return
  /\ UNCHANGED <<stage, pending, source, pointer, intent, copied, ready>>
  /\ UNCHANGED <<cfg, saved, xen, watcher, expired, mode>>

Arming == Publish \/ StartWatch \/ BindWatch

-----------------------------------------------------------------------------
(* step("stop"): a graceful shutdown of the old generation.                *)

Stop(o) ==
  /\ LockFree
  /\ Current(o)
  /\ stage[o] = "armed"
  /\ InTime(o)
  /\ o \in watched \cap watcher
  /\ Record(o, "stopping")
  /\ pending' = pending \cup {o}
  /\ Take(o, "stop", "shutdown")
  /\ UNCHANGED <<watched, source, pointer, intent, copied, ready>>
  /\ UNCHANGED <<cfg, saved, xen, watcher, expired, boot>>

Shutdown ==
  LET o == hand.op
      r == RoleOf[o]
  IN  /\ At("stop", "shutdown")
      /\ Finds(o, {None, source[o].gen})
      /\ dying' = IF guest[r] = None THEN dying
                                     ELSE [dying EXCEPT ![r] = "update"]
      /\ Goto("gone")
      /\ UNCHANGED <<durable, cfg, saved, guest, fin, watcher, expired, boot>>

Stopped ==
  LET o == hand.op
  IN  /\ At("stop", "gone")
      /\ Finds(o, {None})
      /\ Record(o, "stopped")
      /\ pending' = pending \ {o}
      /\ Return
      /\ UNCHANGED <<watched, source, pointer, intent, copied, ready>>
      /\ UNCHANGED <<cfg, saved, xen, watcher, expired, mode>>

Stopping == Shutdown \/ Stopped

-----------------------------------------------------------------------------
(* finalize() and resume_finalizer(): the networkless domain that writes   *)
(* the retained state into the candidate while both guests are down.       *)

CanFinalize(o) == LockFree /\ o \in Services \ (ready \cup expired)

\* Seeded fault: the copy starts before the source was stopped.
FinalizeEarly(o) ==
  /\ CanFinalize(o)
  /\ o \notin copied
  /\ stage[o] \in {"armed", "stopped"}
  /\ fin' = fin \cup {o}
  /\ Take(o, "finalize", "copy")
  /\ UNCHANGED <<durable, cfg, saved, guest, dying, watcher, expired, boot>>

Finalize(o) ==
  /\ CanFinalize(o)
  /\ o \notin copied
  /\ stage[o] = "stopped"
  /\ Finds(o, {None})
  /\ fin' = fin \cup {o}
  /\ Take(o, "finalize", "copy")
  /\ UNCHANGED <<durable, cfg, saved, guest, dying, watcher, expired, boot>>

(* An interrupted finalizer that still runs is waited for again.           *)
Rejoin(o) ==
  /\ CanFinalize(o)
  /\ o \in fin
  /\ hand' = [op |-> o, do |-> "finalize", pc |-> "copy", found |-> TRUE]
  /\ UNCHANGED <<durable, cfg, saved, xen, watcher, expired, boot>>

(* One that has ended is recorded by its result, whatever the journal says *)
(* by now.                                                                 *)
ResumeFinalizer(o) ==
  /\ CanFinalize(o)
  /\ o \in copied \ fin
  /\ ready' = ready \cup {o}
  /\ UNCHANGED <<stage, pending, watched, source, pointer, intent, copied>>
  /\ UNCHANGED <<cfg, saved, xen, watcher, expired, hand, boot>>

(* The domain is destroyed once its result is complete, then recorded.     *)
Finalized ==
  /\ At("finalize", "copy")
  /\ fin'    = fin \ {hand.op}
  /\ copied' = copied \cup {hand.op}
  /\ ready'  = ready \cup {hand.op}
  /\ Return
  /\ UNCHANGED <<stage, pending, watched, source, pointer, intent>>
  /\ UNCHANGED <<cfg, saved, guest, dying, watcher, expired, mode>>

(* A failed or late run destroys its domain on the way out, one that was   *)
(* only waited for stays.                                                  *)
FinalizeFails ==
  /\ At("finalize", "copy")
  /\ fin' = IF hand.found THEN fin ELSE fin \ {hand.op}
  /\ Return
  /\ UNCHANGED <<durable, cfg, saved, guest, dying, watcher, expired, mode>>

\* Seeded fault: the result is kept under the role's name.
FinalizerExitsByRole(o) ==
  /\ o \in fin
  /\ ~(hand.op = o /\ hand.do = "finalize")
  /\ fin' = fin \ {o}
  /\ copied' = copied \cup {RoleOf[o]}
  /\ UNCHANGED <<stage, pending, watched, source, pointer, intent, ready>>
  /\ UNCHANGED <<cfg, saved, guest, dying, watcher, expired, hand, boot>>

(* A finalizer whose command was killed ends by itself, done or not.       *)
FinalizerExits(o) ==
  /\ o \in fin
  /\ ~(hand.op = o /\ hand.do = "finalize")
  /\ fin' = fin \ {o}
  /\ \E done \in BOOLEAN : copied' = IF done THEN copied \cup {o} ELSE copied
  /\ UNCHANGED <<stage, pending, watched, source, pointer, intent, ready>>
  /\ UNCHANGED <<cfg, saved, guest, dying, watcher, expired, hand, boot>>

-----------------------------------------------------------------------------
(* step("start"), "tested", "accept" and "complete".                       *)

\* Seeded fault: the boundary is recorded only after the boot.
StartUnrecorded(o) ==
  /\ LockFree
  /\ Current(o)
  /\ stage[o] = "stopped"
  /\ InTime(o)
  /\ Finds(o, {None})
  /\ RoleOf[o] \in Routers => o \in ready
  /\ Take(o, "start", IF o \in Services THEN "config" ELSE "create")
  /\ UNCHANGED <<durable, cfg, saved, xen, watcher, expired, boot>>

(* A service records "starting" and selects the candidate before Xen is    *)
(* asked to create it; the historical kinds create it first.               *)
Start(o) ==
  /\ LockFree
  /\ Current(o)
  /\ stage[o] = "stopped"
  /\ InTime(o)
  /\ Finds(o, {None})
  /\ RoleOf[o] \in Routers => o \in ready
  /\ Record(o, "starting")
  /\ Take(o, "start", IF o \in Services THEN "config" ELSE "create")
  /\ UNCHANGED <<pending, watched, source, pointer, intent, copied, ready>>
  /\ UNCHANGED <<cfg, saved, xen, watcher, expired, boot>>

(* A lost create response is resumed on the candidate's disks only.        *)
StartAgain(o) ==
  /\ LockFree
  /\ Current(o)
  /\ o \in Services
  /\ stage[o] \in {"starting", "booted"}
  /\ Take(o, "start", "config")
  /\ UNCHANGED <<durable, cfg, saved, xen, watcher, expired, boot>>

Create ==
  LET o == hand.op
  IN  /\ At("start", "create")
      /\ Finds(o, {None, o})
      /\ guest' = [guest EXCEPT ![RoleOf[o]] = o]
      /\ Goto("verify")
      /\ UNCHANGED <<durable, cfg, saved, dying, fin, watcher, expired, boot>>

Booted ==
  LET o == hand.op
  IN  /\ At("start", "verify")
      /\ Finds(o, {o})
      /\ Record(o, "booted")
      /\ Return
      /\ UNCHANGED <<pending, watched, source, pointer, intent, copied, ready>>
      /\ UNCHANGED <<cfg, saved, xen, watcher, expired, mode>>

Tested(o) ==
  /\ LockFree
  /\ Current(o)
  /\ stage[o] = "booted"
  /\ InTime(o)
  /\ Record(o, "tested")
  /\ UNCHANGED <<pending, watched, source, pointer, intent, copied, ready>>
  /\ UNCHANGED <<cfg, saved, xen, watcher, expired, hand, boot>>

(* Acceptance is durable before the assignment is published.               *)
Accept(o) ==
  /\ LockFree
  /\ Current(o)
  /\ stage[o] = "tested"
  /\ InTime(o)
  /\ Finds(o, {o})
  /\ Record(o, "accepted")
  /\ Take(o, "accept", "config")
  /\ UNCHANGED <<pending, watched, source, pointer, intent, copied, ready>>
  /\ UNCHANGED <<cfg, saved, xen, watcher, expired, boot>>

Complete(o) ==
  /\ LockFree
  /\ Current(o)
  /\ stage[o] = "accepted"
  /\ Finds(o, {o})
  /\ Take(o, "complete", "config")
  /\ UNCHANGED <<durable, cfg, saved, xen, watcher, expired, boot>>

Completed ==
  LET o == hand.op
  IN  /\ At("complete", "finish")
      /\ Record(o, "complete")
      /\ Return
      /\ UNCHANGED <<pending, watched, source, pointer, intent, copied, ready>>
      /\ UNCHANGED <<cfg, saved, xen, watcher, expired, mode>>

Starting == Create \/ Booted

-----------------------------------------------------------------------------
(* recover(): by an operator, the watchdog or boot recovery.               *)

(* Past the write boundary, and on a settled old side, recovery publishes  *)
(* the selected definition again and changes no guest.                     *)
Keep(o) ==
  /\ Crossed(o) \/ stage[o] \in {"adopted", "recovered"}
  /\ Finds(o, {None, Selected(o)})
  /\ Take(o, "recover", "config")
  /\ UNCHANGED stage

(* Otherwise the old generation is restored.                               *)
Restore(o) ==
  /\ ~Crossed(o)
  /\ stage[o] \in PreAccept
  /\ Record(o, "recovering")
  /\ Take(o, "recover", "destroy")

RecoverCall(o) ==
  /\ Current(o)
  /\ hand = Idle
  /\ mode = "up" \/ (mode = "booting" /\ RoleOf[o] \in bootq)
  /\ Keep(o) \/ Restore(o)
  /\ UNCHANGED <<pending, watched, source, pointer, intent, copied, ready>>
  /\ UNCHANGED <<cfg, saved, xen, expired, boot>>

Recover(o) == RecoverCall(o) /\ UNCHANGED watcher

\* Seeded fault: an outstanding shutdown is forgotten.
DestroyOnly ==
  LET o == hand.op
      r == RoleOf[o]
  IN  /\ At("recover", "destroy")
      /\ Finds(o, Either(o))
      /\ guest' = [guest EXCEPT ![r] = IF @ = o THEN None ELSE @]
      /\ dying' = [dying EXCEPT ![r] = IF guest[r] = o THEN "none" ELSE @]
      /\ hand'  = [hand EXCEPT !.pc    = "config",
                               !.found = guest[r] = source[o].gen]
      /\ UNCHANGED <<durable, cfg, saved, fin, watcher, expired, boot>>

(* A candidate is destroyed, an old guest is remembered as found.          *)
Destroy ==
  LET o == hand.op
      r == RoleOf[o]
  IN  /\ At("recover", "destroy")
      /\ Finds(o, Either(o))
      /\ guest' = [guest EXCEPT ![r] = IF @ = o THEN None ELSE @]
      /\ dying' = [dying EXCEPT ![r] = IF guest[r] = o THEN "none" ELSE @]
      /\ hand'  = [hand EXCEPT !.pc    = IF o \in pending THEN "drain" ELSE "config",
                               !.found = guest[r] = source[o].gen]
      /\ UNCHANGED <<durable, cfg, saved, fin, watcher, expired, boot>>

(* An outstanding shutdown is asked for again ...                          *)
Drain ==
  LET r == RoleOf[hand.op]
  IN  /\ At("recover", "drain")
      /\ dying' = [dying EXCEPT ![r] = IF hand.found /\ guest[r] # None
                                         THEN "update" ELSE @]
      /\ Goto("drained")
      /\ UNCHANGED <<durable, cfg, saved, guest, fin, watcher, expired, boot>>

(* ... and its completion is durable before old disks start again.         *)
Drained ==
  LET o == hand.op
  IN  /\ At("recover", "drained")
      /\ Finds(o, {None})
      /\ pending' = pending \ {o}
      /\ hand'    = [hand EXCEPT !.pc = "config", !.found = FALSE]
      /\ UNCHANGED <<stage, watched, source, pointer, intent, copied, ready>>
      /\ UNCHANGED <<cfg, saved, xen, watcher, expired, boot>>

(* The restart decision uses the guest found before the definition was     *)
(* published.                                                              *)
Restart ==
  LET r == RoleOf[hand.op]
  IN  /\ At("recover", "restart")
      /\ hand.found \/ guest[r] = None
      /\ guest' = IF hand.found THEN guest
                                ELSE [guest EXCEPT ![r] = cfg[r].gen]
      /\ Goto("confirm")
      /\ UNCHANGED <<durable, cfg, saved, dying, fin, watcher, expired, boot>>

Confirm ==
  LET o == hand.op
  IN  /\ At("recover", "confirm")
      /\ Finds(o, {source[o].gen})
      /\ Record(o, "recovered")
      /\ Return
      /\ UNCHANGED <<pending, watched, source, pointer, intent, copied, ready>>
      /\ UNCHANGED <<cfg, saved, xen, watcher, expired, mode>>

Restoring == hand.do = "recover" /\ stage[hand.op] = "recovering"

(* Whatever goes wrong while restoring, its budget included, is recorded.  *)
RecoveryFails ==
  /\ Restoring
  /\ Record(hand.op, "recovery-failed")
  /\ hand' = Idle
  /\ mode' = IF mode = "booting" THEN "fence" ELSE mode
  /\ UNCHANGED <<pending, watched, source, pointer, intent, copied, ready>>
  /\ UNCHANGED <<cfg, saved, xen, watcher, expired, bootq>>

Recovering == Destroy \/ Drain \/ Drained \/ Restart \/ Confirm \/ RecoveryFails

-----------------------------------------------------------------------------
(* reconcile_assignment(): the approved running or stopped state.          *)

Reconcile(r, want) ==
  LET p == pointer[r]
  IN  /\ LockFree
      /\ p # None
      /\ stage[p] \in Settled
      /\ Finds(p, {None, Selected(p)})
      /\ intent' = [intent EXCEPT ![p] = want]
      /\ Take(p, "reconcile", "config")
      /\ UNCHANGED <<stage, pending, watched, source, pointer, copied, ready>>
      /\ UNCHANGED <<cfg, saved, xen, watcher, expired, boot>>

Runtime ==
  LET p == hand.op
      r == RoleOf[p]
  IN  /\ At("reconcile", "runtime")
      /\ Finds(p, {None, Selected(p)})
      /\ \/ /\ intent[p] = "stopped" /\ guest[r] # None
            /\ dying' = [dying EXCEPT ![r] = "runtime"]
            /\ UNCHANGED guest
         \/ /\ intent[p] = "running" /\ guest[r] = None
            /\ guest' = [guest EXCEPT ![r] = cfg[r].gen]
            /\ UNCHANGED dying
         \/ /\ (intent[p] = "running") = (guest[r] # None)
            /\ UNCHANGED <<guest, dying>>
      /\ Goto("reached")
      /\ UNCHANGED <<durable, cfg, saved, fin, watcher, expired, boot>>

Reached ==
  LET p == hand.op
  IN  /\ At("reconcile", "reached")
      /\ Finds(p, IF intent[p] = "running" THEN {Selected(p)} ELSE {None})
      /\ Return
      /\ UNCHANGED <<durable, cfg, saved, xen, watcher, expired, mode>>

Reconciling == Runtime \/ Reached

-----------------------------------------------------------------------------
(* A command may refuse, or run out of its time budget, between any two    *)
(* steps.  Failures while restoring or copying have actions of their own.  *)

Refuse ==
  /\ hand # Idle
  /\ mode = "up"
  /\ ~Restoring
  /\ hand.do # "finalize"
  /\ hand' = Idle
  /\ UNCHANGED <<durable, cfg, saved, xen, watcher, expired, boot>>

(* A killed command cleans nothing up; its finalizer domain keeps running. *)
Killed ==
  /\ "kill" \in Faults
  /\ hand # Idle
  /\ mode = "up"
  /\ hand' = Idle
  /\ UNCHANGED <<durable, cfg, saved, xen, watcher, expired, boot>>

GuestExits(r) ==
  /\ "exit" \in Faults \/ dying[r] # "none"
  /\ guest[r] # None
  /\ guest' = [guest EXCEPT ![r] = None]
  /\ dying' = [dying EXCEPT ![r] = "none"]
  /\ UNCHANGED <<durable, cfg, saved, fin, watcher, expired, hand, boot>>

(* The recorded deadline passes, or the controller falls silent.           *)
Expire(o) ==
  /\ "late" \in Faults
  /\ stage[o] \in PreAccept
  /\ o \notin expired
  /\ expired' = expired \cup {o}
  /\ UNCHANGED <<durable, cfg, saved, xen, watcher, hand, boot>>

-----------------------------------------------------------------------------
(* The watchdog: it polls the journal under the lock until the operation   *)
(* is terminal or late.                                                    *)

WatchEnds(o) ==
  /\ LockFree
  /\ o \in watcher
  /\ stage[o] \in Terminal
  /\ watcher' = watcher \ {o}
  /\ UNCHANGED <<durable, cfg, saved, xen, expired, hand, boot>>

WatchRecovers(o) ==
  /\ o \in watcher \cap expired
  /\ stage[o] \notin Terminal
  /\ RecoverCall(o)
  /\ watcher' = watcher \ {o}

(* Its status call gives up after 180 seconds, the wait for a lock that a  *)
(* copying finalizer holds for longer included.                            *)
WatchGivesUp(o) ==
  /\ "lockwait" \in Faults
  /\ o \in watcher
  /\ hand.do = "finalize"
  /\ watcher' = watcher \ {o}
  /\ UNCHANGED <<durable, cfg, saved, xen, expired, hand, boot>>

-----------------------------------------------------------------------------
(* Power loss and the boot sequence: boot-recover, fence-autostart and     *)
(* then xendomains.                                                        *)

PowerLoss ==
  /\ "power" \in Faults
  /\ cfg'     = saved
  /\ guest'   = [r \in Roles |-> None]
  /\ dying'   = [r \in Roles |-> "none"]
  /\ fin'     = {}
  /\ watcher' = {}
  /\ hand'    = Idle
  /\ mode'    = "booting"
  /\ bootq'   = {r \in Roles : pointer[r] # None}
  /\ UNCHANGED <<durable, saved, expired>>

\* Seeded fault: xendomains does not wait for every pointer.
BootRecoveredEarly ==
  /\ mode = "booting"
  /\ hand = Idle
  /\ mode' = "start"
  /\ UNCHANGED <<durable, cfg, saved, xen, watcher, expired, hand, bootq>>

BootRecovered ==
  /\ mode = "booting"
  /\ hand = Idle
  /\ bootq = {}
  /\ mode' = "start"
  /\ UNCHANGED <<durable, cfg, saved, xen, watcher, expired, hand, bootq>>

(* The first role that cannot be recovered ends boot recovery.             *)
BootRecoveryFails ==
  /\ mode = "booting"
  /\ hand' = Idle
  /\ mode' = "fence"
  /\ UNCHANGED <<durable, cfg, saved, xen, watcher, expired, bootq>>

Fenced(r) == r \in Independent => pointer[r] # None

Fence ==
  /\ mode = "fence"
  /\ cfg' = [r \in Roles |-> [cfg[r] EXCEPT !.auto = @ /\ ~Fenced(r)]]
  /\ mode' = "start"
  /\ UNCHANGED <<durable, saved, xen, watcher, expired, hand, bootq>>

(* Autostart skips a role that boot recovery started.                      *)
XenDomains ==
  /\ mode = "start"
  /\ guest' = [r \in Roles |-> IF guest[r] = None /\ cfg[r].auto
                                  THEN cfg[r].gen ELSE guest[r]]
  /\ mode' = "up"
  /\ UNCHANGED <<durable, cfg, saved, dying, fin, watcher, expired, hand, bootq>>

Boot == BootRecovered \/ BootRecoveryFails \/ Fence \/ XenDomains

-----------------------------------------------------------------------------

(* The calls an operator or the controller makes on an operation.          *)
Call(o) ==
  \/ Stage(o) \/ Arm(o) \/ AdoptOld(o)
  \/ Stop(o) \/ Finalize(o) \/ Rejoin(o) \/ ResumeFinalizer(o)
  \/ Start(o) \/ StartAgain(o)
  \/ Tested(o) \/ Accept(o) \/ Complete(o) \/ Recover(o)

(* The next step of the command that holds the lock.                       *)
Step ==
  \/ Assignment \/ Arming \/ Stopping \/ Finalized \/ FinalizeFails
  \/ Starting \/ Completed \/ Recovering \/ Reconciling \/ Refuse

Watch(o) == WatchEnds(o) \/ WatchRecovers(o)

Environment ==
  \/ Killed \/ PowerLoss
  \/ \E r \in Roles : GuestExits(r)
  \/ \E o \in Ops : Expire(o) \/ FinalizerExits(o) \/ WatchGivesUp(o)

Next ==
  \/ \E o \in Ops : Call(o) \/ Watch(o)
  \/ \E r \in Roles, want \in Wants : Reconcile(r, want)
  \/ Commit \/ Step \/ Boot \/ Environment

Spec == Init /\ [][Next]_vars

-----------------------------------------------------------------------------

Stages == {"none", "armed", "stopping", "stopped", "starting", "booted",
           "tested", "accepted", "complete", "adopted", "recovering",
           "recovered", "recovery-failed"}

Definition == [gen : Generations, by : Ops \cup {None}, auto : BOOLEAN]

Commands == {"none", "arm", "adopt", "stop", "finalize", "start", "accept",
             "complete", "recover", "reconcile"}

Places == {"idle", "publish", "watch", "bind", "config", "link", "persist",
           "shutdown", "gone", "copy", "create", "verify", "finish",
           "destroy", "drain", "drained", "restart", "confirm", "runtime",
           "reached"}

Hands == [op : Ops \cup {None}, do : Commands, pc : Places, found : BOOLEAN]

(* The type of every record and of the live box.                           *)
TypeOK ==
  /\ stage \in [Ops -> Stages]
  /\ pending \subseteq Ops
  /\ watched \subseteq Ops
  /\ source \in [Ops -> [gen : Generations \cup {None}, by : Ops \cup {None}]]
  /\ pointer \in [Roles -> Ops \cup {None}]
  /\ intent \in [Ops -> {"running", "stopped"}]
  /\ copied \subseteq Ops
  /\ ready \subseteq Ops
  /\ cfg \in [Roles -> Definition]
  /\ saved \in [Roles -> Definition]
  /\ guest \in [Roles -> Generations \cup {None}]
  /\ dying \in [Roles -> {"none", "update", "runtime"}]
  /\ fin \subseteq Ops
  /\ watcher \subseteq Ops
  /\ expired \subseteq Ops
  /\ hand \in Hands
  /\ mode \in {"up", "booting", "fence", "start"}
  /\ bootq \subseteq Roles

(* Once an operation has crossed its write boundary (recovery keeps the    *)
(* candidate), the generation it replaced never runs again, whatever is    *)
(* killed, recovered, rebooted or reconciled afterwards.                   *)
NoRollback ==
  \A o \in Ops : Crossed(o) => guest[RoleOf[o]] # source[o].gen

(* The state copy has the disks to itself: neither generation runs while   *)
(* a finalizer domain is alive, even one whose command was killed.  After  *)
(* a copy was started the source runs again only if the operation has been *)
(* given up, so no candidate starts from a stale copy.                     *)
CopyIsSafe ==
  /\ \A o \in fin : guest[RoleOf[o]] = None
  /\ \A o \in fin \cup copied :
       guest[RoleOf[o]] = source[o].gen
         => stage[o] \in {"recovering", "recovered", "recovery-failed"}

(* A recovered role is not lost to the shutdown request of its own update. *)
RecoveredIsSafe ==
  \A o \in Ops :
    Current(o) /\ stage[o] = "recovered" => dying[RoleOf[o]] # "update"

(* A definition names a candidate, in memory or on the boot medium, only   *)
(* after the journal has durably crossed the boundary.                     *)
BoundaryBeforeDefinition ==
  \A r \in Roles :
    \A d \in {cfg[r], saved[r]} : d.gen \in Ops => Crossed(d.gen)

(* One dom0 replaces one guest at a time.                                  *)
OneReplacement ==
  \A r, s \in Roles :
    /\ pointer[r] # None /\ stage[pointer[r]] \notin Settled
    /\ pointer[s] # None /\ stage[pointer[s]] \notin Settled
    => r = s

(* No step takes an operation back over its write boundary.                *)
BoundaryIsFinal ==
  [][\A o \in Ops : Crossed(o) => Crossed(o)']_vars

(* An operation that is no longer its role's assignment never acts again.  *)
HistoryIsInert ==
  [][\A o \in Ops :
       stage[o] # "none" /\ ~Current(o) /\ hand.op # o
         => stage'[o] = stage[o] /\ ~Current(o)']_vars

(* Boot recovery that succeeds leaves no role undecided: each pointer is   *)
(* settled or past its boundary, and its definition follows the approved   *)
(* runtime state.                                                          *)
BootDecides ==
  [][mode = "booting" /\ mode' = "start" =>
       \A r \in Roles : pointer[r] # None =>
         LET p == pointer[r]
         IN  /\ stage[p] \in Settled \/ Crossed(p)
             /\ cfg[r] = [gen  |-> Selected(p),
                          by   |-> p,
                          auto |-> intent[p] = "running"]]_vars

(* The transaction implements the promise of GenerationSelection.          *)
SelectedOf(r) == IF pointer[r] = None THEN Base ELSE Selected(pointer[r])

RetiredOf(r) == {source[o].gen : o \in {x \in Ops : RoleOf[x] = r /\ Crossed(x)}}

Promise == INSTANCE GenerationSelection WITH
  Trials   <- Historical,
  selected <- [r \in Roles |-> SelectedOf(r)],
  retired  <- [r \in Roles |-> RetiredOf(r)],
  running  <- guest

(* Every step of the journal, Xen and the boot sequence is a selection, a  *)
(* start or an exit that the promise allows, or changes nothing of it.     *)
ImplementsPromise == Promise!Spec

=============================================================================
