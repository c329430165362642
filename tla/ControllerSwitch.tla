--------------------------- MODULE ControllerSwitch ---------------------------
(***************************************************************************)
(* The switch of the active controller between two boxes: the phases of    *)
(* controller_switch.py with the locks on both controllers, the record on  *)
(* the old one and the Instance placement it publishes through Git, and    *)
(* the emergency promotion and demotion of ops-controller-ha.              *)
(*                                                                         *)
(* A controller may run Platform-wide operations when its own marker and   *)
(* its own clone of the Instance both name it active.  The switch runs on  *)
(* the old controller, o, and activates the other one, n.  proc[o] is its  *)
(* place: it goes on only while it holds the locks of both boxes, and it   *)
(* may end anywhere and be resumed from the phase it recorded last.        *)
(*                                                                         *)
(* The Instance is a history of commits.  What a commit holds is the       *)
(* placement and the text of everything else; two commits may hold the     *)
(* same, and who made them tells them apart.  A clone has a head, working  *)
(* files and an index, which matters where it holds a change of its own.   *)
(***************************************************************************)
EXTENDS Naturals, Sequences

CONSTANTS
  Low, High,  \* the two boxes, in the order in which they are locked
  First,      \* the box whose controller is active at the start
  Texts,      \* what everything but the placement may say
  Faults,     \* kinds of failures and of interference, of FaultKinds
  Budget,     \* how many of them may happen
  Length,     \* commits after which no new switch is started
  None

FaultKinds == {"kill", "lock", "contact", "commit", "edit", "demote", "promote"}

Boxes == {Low, High}

ASSUME ConstantsAssumption ==
  /\ Low # High
  /\ First \in Boxes
  /\ Faults \subseteq FaultKinds
  /\ Texts # {}
  /\ {Budget, Length} \subseteq Nat
  /\ None \notin Boxes

VARIABLES
  marker,    \* controller-ha.json of each box
  head,      \* committed history of each box's Instance clone
  file,      \* working files of each clone
  staged,    \* whether a clone's index holds a change that is not committed
  upstream,  \* the history of the Instance's main branch
  record,    \* the last switch recorded on each box
  proc,      \* place of the switch that runs on each box
  lock,      \* the switch that holds the controller locks of each box
  up,        \* boxes that can be contacted
  promo,     \* the emergency promotion
  left       \* failures and interference still to come

git   == <<head, file, staged, upstream>>
vars  == <<marker, git, record, proc, lock, up, promo, left>>

Other(b)  == IF b = Low THEN High ELSE Low
Last(s)   == s[Len(s)]
Behind(s, t) == Len(s) <= Len(t) /\ SubSeq(t, 1, Len(s)) = s

Contents == [active: Boxes, text: Texts]
Commits  == [active: Boxes, text: Texts, by: Boxes \cup {None}]

Content(c)   == [active |-> c.active, text |-> c.text]
Commit(c, b) == [active |-> c.active, text |-> c.text, by |-> b]
Tree(b)      == Content(Last(head[b]))
Clean(b)     == file[b] = Tree(b) /\ ~staged[b]

Roles   == {"active", "standby", "fenced"}
Phases  == {"prepared", "publishing", "published", "synchronized", "demoted",
            "activated", "complete"}
Places  == {"idle", "lock low", "lock high", "open", "write", "add", "commit",
            "push", "pushed", "ready", "demote", "verify demotion", "activate",
            "record activation"} \cup Phases

Mark(b, r, a) == marker' = [marker EXCEPT ![b] = [role |-> r, box |-> a]]
Active(b) == marker[b].role = "active"

(* klokast-controller-guard --require-active.                              *)
Guard(b) == Active(b) /\ marker[b].box = b /\ file[b].active = b

Start == [active |-> First, text |-> CHOOSE t \in Texts : TRUE]

Init ==
  /\ marker   = [b \in Boxes |-> [role |-> IF b = First THEN "active" ELSE "standby",
                                  box  |-> First]]
  /\ head     = [b \in Boxes |-> <<Commit(Start, None)>>]
  /\ file     = [b \in Boxes |-> Start]
  /\ staged   = [b \in Boxes |-> FALSE]
  /\ upstream = <<Commit(Start, None)>>
  /\ record   = [b \in Boxes |-> None]
  /\ proc     = [b \in Boxes |-> "idle"]
  /\ lock     = [b \in Boxes |-> None]
  /\ up       = Boxes
  /\ promo    = None
  /\ left     = Budget

-----------------------------------------------------------------------------
(* The switch, and what each place needs; it raises an error otherwise.    *)

Goto(o, pc) == proc' = [proc EXCEPT ![o] = pc]

\* Seeded fault: the lock child on the other box outlives the command.
ReleaseHere(o) ==
  /\ Goto(o, "idle")
  /\ lock' = [lock EXCEPT ![o] = IF @ = o THEN None ELSE @]

(* The end of the command: its lock children see the end of their input.   *)
Release(o) ==
  /\ Goto(o, "idle")
  /\ lock' = [b \in Boxes |-> IF lock[b] = o THEN None ELSE lock[b]]

SavePhase(o, phase) == record' = [record EXCEPT ![o].phase = phase]

(* check(): both lock children still run.                                  *)
Locked(o) == \A b \in Boxes : lock[b] = o

(* states(): both controllers answer, and not both are active.             *)
Reachable == up = Boxes /\ ~(Active(Low) /\ Active(High))

(* require_readiness(): a clean clone that matches main, with a placement. *)
Current(b, a) == head[b] = upstream /\ Clean(b) /\ file[b].active = a

\* Seeded fault: a resumed switch trusts its record of the demotion.
DemotedAsRecorded(o) == record[o].phase = "demoted"

(* The old controller is still as the demotion left it.                    *)
Demoted(o) == ~Active(o) /\ marker[o].box = Other(o)

Original(o) == record[o].file
Expected(o) == [record[o].file EXCEPT !.active = Other(o)]

(* git pull --ff-only: a clone ahead of main stays as it is.               *)
Pullable(b) == Behind(head[b], upstream) \/ Behind(upstream, head[b])
Pulled(b)   == IF Behind(head[b], upstream) THEN upstream ELSE head[b]

\* Seeded fault: what main says is compared, not which commit it is.
SaysTheSame(o) == Content(Last(Pulled(o))) = record[o].file

(* The history is still the one the switch was started from.               *)
AtBase(o) == Pulled(o) = record[o].base

(* All the commits over the base change the placement and nothing else.    *)
OnlyPlacementDiffers(o) ==
  LET from == Content(Last(record[o].base)) IN
  Tree(o) # from /\ Tree(o) = [from EXCEPT !.active = Tree(o).active]

Needs(o, pc) ==
  LET n == Other(o) IN
  CASE pc = "open" -> record[o] = None \/ record[o].phase = "complete" =>
                        Clean(o) /\ Len(head[o]) < Length
    [] pc = "lock low"  -> Low \in up
    [] pc = "lock high" -> High \in up
    [] pc = "prepared" -> /\ Locked(o) /\ Reachable
                          /\ Active(o) /\ marker[n] = [role |-> "standby", box |-> o]
                          /\ \A b \in Boxes : Current(b, o)
    [] pc = "publishing" -> /\ file[o] \in {Original(o), Expected(o)} /\ ~staged[o]
                            /\ file[o] = Original(o) =>
                                 Clean(o) /\ Pullable(o) /\ AtBase(o)
    [] pc \in {"write", "add"} -> Locked(o)
    [] pc = "push" -> /\ Locked(o) /\ Behind(upstream, head[o])
                      /\ OnlyPlacementDiffers(o)
    [] pc = "published" -> Locked(o) /\ n \in up /\ Clean(n) /\ Pullable(n)
    [] pc = "ready" -> n \in up /\ Current(n, n)
    [] pc = "synchronized" -> Locked(o) /\ Reachable /\ ~Active(n)
    [] pc \in {"demote", "activate"} -> Locked(o)
    [] pc = "verify demotion" -> /\ Reachable
                                 /\ marker[o] = [role |-> "standby", box |-> n]
    [] pc = "demoted" -> /\ Locked(o) /\ Reachable
                         /\ Demoted(o)
                         /\ Active(n) \/ marker[n].role = "standby"
    [] pc = "activated" -> /\ Locked(o) /\ Reachable
                           /\ ~Active(o) /\ Active(n) /\ marker[n].box = n
                           /\ Guard(n)
    [] OTHER -> TRUE

At(o, pc) == proc[o] = pc /\ o \in up /\ Needs(o, pc)

Rest == <<up, promo, left>>

(* The command locks Low before High, on each both of its locks at once.   *)
Begin(o) ==
  /\ proc[o] = "idle" /\ o \in up /\ promo = None
  /\ Goto(o, "lock low")
  /\ UNCHANGED <<marker, git, record, lock, Rest>>

Lock(o) ==
  \E b \in Boxes :
    /\ At(o, IF b = Low THEN "lock low" ELSE "lock high")
    /\ lock[b] = None
    /\ lock' = [lock EXCEPT ![b] = o]
    /\ Goto(o, IF b = Low THEN "lock high" ELSE "open")
    /\ UNCHANGED <<marker, git, record, Rest>>

(* A recorded switch is resumed; a new one needs the last one complete.    *)
Open(o) ==
  /\ At(o, "open")
  /\ IF record[o] = None \/ record[o].phase = "complete"
       THEN /\ record' = [record EXCEPT ![o] =
                 [phase |-> "prepared", base |-> head[o], file |-> file[o]]]
            /\ Goto(o, "prepared")
       ELSE Goto(o, record[o].phase) /\ UNCHANGED record
  /\ UNCHANGED <<marker, git, lock, Rest>>

Prepare(o) ==
  /\ At(o, "prepared")
  /\ SavePhase(o, "publishing")
  /\ Goto(o, "publishing")
  /\ UNCHANGED <<marker, git, lock, Rest>>

(* publish(): the change that an earlier attempt left is used again, but   *)
(* not one that it left in the index.                                      *)
Pull(o) ==
  /\ At(o, "publishing")
  /\ IF file[o] = Original(o)
       THEN Goto(o, "write") /\ head' = [head EXCEPT ![o] = Pulled(o)]
       ELSE Goto(o, "add") /\ UNCHANGED head
  /\ UNCHANGED <<marker, file, staged, upstream, record, lock, Rest>>

Write(o) ==
  /\ At(o, "write")
  /\ file' = [file EXCEPT ![o] = Expected(o)]
  /\ Goto(o, "add")
  /\ UNCHANGED <<marker, head, staged, upstream, record, lock, Rest>>

AddPlacement(o) ==
  /\ At(o, "add")
  /\ IF file[o] = Tree(o)
       THEN Goto(o, "push") /\ UNCHANGED staged
       ELSE Goto(o, "commit") /\ staged' = [staged EXCEPT ![o] = TRUE]
  /\ UNCHANGED <<marker, head, file, upstream, record, lock, Rest>>

CommitPlacement(o) ==
  /\ At(o, "commit")
  /\ head' = [head EXCEPT ![o] = Append(@, Commit(file[o], o))]
  /\ staged' = [staged EXCEPT ![o] = FALSE]
  /\ Goto(o, "push")
  /\ UNCHANGED <<marker, file, upstream, record, lock, Rest>>

Push(o) ==
  /\ At(o, "push")
  /\ upstream' = head[o]
  /\ Goto(o, "pushed")
  /\ UNCHANGED <<marker, head, file, staged, record, lock, Rest>>

(* Phases that are recorded once their work is done.                       *)
RecordAfter(o, pc, phase) ==
  /\ At(o, pc)
  /\ SavePhase(o, phase)
  /\ Goto(o, phase)
  /\ UNCHANGED <<marker, git, lock, Rest>>

RecordPhase(o) ==
  \/ RecordAfter(o, "pushed", "published")
  \/ RecordAfter(o, "ready", "synchronized")
  \/ RecordAfter(o, "verify demotion", "demoted") /\ ~Guard(o)
  \/ RecordAfter(o, "record activation", "activated")

Synchronize(o) ==
  LET n == Other(o) IN
  /\ At(o, "published")
  /\ head' = [head EXCEPT ![n] = Pulled(n)]
  /\ file' = [file EXCEPT ![n] = Content(Last(Pulled(n)))]
  /\ Goto(o, "ready")
  /\ UNCHANGED <<marker, staged, upstream, record, lock, Rest>>

(* The markers are read; then, in one step with a last check of the locks, *)
(* a marker is written; and the markers are read again.                    *)
Decide(o) ==
  /\ \/ /\ At(o, "synchronized")
        /\ Goto(o, IF Active(o) THEN "demote" ELSE "verify demotion")
     \/ /\ At(o, "demoted")
        /\ Goto(o, IF Active(Other(o)) THEN "record activation" ELSE "activate")
  /\ UNCHANGED <<marker, git, record, lock, Rest>>

Demote(o) ==
  /\ At(o, "demote")
  /\ Mark(o, "standby", Other(o))
  /\ Goto(o, "verify demotion")
  /\ UNCHANGED <<git, record, lock, Rest>>

Activate(o) ==
  /\ At(o, "activate") /\ Other(o) \in up
  /\ Mark(Other(o), "active", Other(o))
  /\ Goto(o, "record activation")
  /\ UNCHANGED <<git, record, lock, Rest>>

Complete(o) ==
  /\ At(o, "activated")
  /\ SavePhase(o, "complete")
  /\ Release(o)
  /\ UNCHANGED <<marker, git, Rest>>

(* A box that does not answer, or a condition that does not hold, ends     *)
(* the command.                                                            *)
Refuse(o) ==
  /\ proc[o] # "idle" /\ o \in up
  /\ \/ ~Needs(o, proc[o])
     \/ proc[o] = "activate" /\ Other(o) \notin up
     \/ proc[o] = "verify demotion" /\ Guard(o)
  /\ Release(o)
  /\ UNCHANGED <<marker, git, record, Rest>>

-----------------------------------------------------------------------------
(* Failures and interference.                                              *)

Spend(kind) == kind \in Faults /\ left > 0 /\ left' = left - 1

Kill(o) ==
  /\ proc[o] # "idle" /\ Spend("kill")
  /\ Release(o)
  /\ UNCHANGED <<marker, git, record, up, promo>>

(* A lock stays busy for 300 s.                                            *)
GiveUp(o) ==
  /\ proc[o] \in {"lock low", "lock high"}
  /\ lock[IF proc[o] = "lock low" THEN Low ELSE High] # None
  /\ Spend("lock")
  /\ Release(o)
  /\ UNCHANGED <<marker, git, record, up, promo>>

(* A lock child reaches its 1800 s, or its connection ends.                *)
LoseLock(b) ==
  /\ lock[b] # None /\ Spend("lock")
  /\ lock' = [lock EXCEPT ![b] = None]
  /\ UNCHANGED <<marker, git, record, proc, up, promo>>

(* A box stops, with the switch that runs on it and the lock held there.   *)
LoseContact(b) ==
  /\ b \in up /\ Spend("contact")
  /\ up'   = up \ {b}
  /\ proc' = [proc EXCEPT ![b] = "idle"]
  /\ lock' = [c \in Boxes |-> IF c = b \/ lock[c] = b THEN None ELSE lock[c]]
  /\ UNCHANGED <<marker, git, record, promo>>

Return(b) ==
  /\ b \notin up /\ promo = None
  /\ up' = up \cup {b}
  /\ UNCHANGED <<marker, git, record, proc, lock, promo, left>>

(* Commits that arrive in main from elsewhere, whatever they say.          *)
CommitElsewhere ==
  /\ Spend("commit")
  /\ \E c \in Contents : upstream' = Append(upstream, Commit(c, None))
  /\ UNCHANGED <<marker, head, file, staged, record, proc, lock, up, promo>>

PullByHand(b) ==
  /\ "commit" \in Faults
  /\ proc[b] = "idle" /\ Clean(b)
  /\ Behind(head[b], upstream) /\ head[b] # upstream
  /\ head' = [head EXCEPT ![b] = upstream]
  /\ file' = [file EXCEPT ![b] = Content(Last(upstream))]
  /\ UNCHANGED <<marker, staged, upstream, record, proc, lock, Rest>>

(* Somebody edits a clone while no switch runs there, or gives up what has *)
(* been changed in it, or commits what is there without pushing it: other  *)
(* settings, their revert, or nothing new at all.                          *)
EditByHand(b) ==
  /\ proc[b] = "idle" /\ Spend("edit")
  /\ \E c \in {[file[b] EXCEPT !.text = t] : t \in Texts} \cup {Tree(b)} :
       file' = [file EXCEPT ![b] = c]
  /\ \/ staged' = staged /\ UNCHANGED head
     \/ /\ staged' = [staged EXCEPT ![b] = FALSE]
        /\ head' \in {head, [head EXCEPT ![b] = Append(@, Commit(file'[b], b))]}
  /\ UNCHANGED <<marker, upstream, record, proc, lock, up, promo>>

(* ops-controller-ha demote.                                               *)
DemoteByHand(b) ==
  /\ b \in up /\ Spend("demote")
  /\ Mark(b, "standby", Other(b))
  /\ UNCHANGED <<git, record, proc, lock, up, promo>>

-----------------------------------------------------------------------------
(* Emergency promotion of n, which takes no lock.  The operator fences the *)
(* other box, keeps switches from running meanwhile, and has placed n in   *)
(* the Instance.                                                           *)

Standby(n) == marker[n] = [role |-> "standby", box |-> Other(n)]

Fenced(o) == ~Active(o) /\ marker[o].role \in {"standby", "fenced"} /\ marker[o].box = Other(o)

Promote(n) ==
  /\ promo = None /\ Spend("promote")
  /\ n \in up /\ \A b \in Boxes : proc[b] = "idle"
  /\ Standby(n) /\ Current(n, n)
  /\ LET o == Other(n) IN
       IF o \in up
         THEN /\ UNCHANGED marker
              /\ promo' = [box |-> n, pc |-> IF Fenced(o) THEN "activate" ELSE "demote"]
         ELSE /\ Mark(o, "fenced", n)
              /\ promo' = [box |-> n, pc |-> "activate"]
  /\ UNCHANGED <<git, record, proc, lock, up>>

PromotionDemotes ==
  /\ promo # None /\ promo.pc = "demote"
  /\ Other(promo.box) \in up
  /\ Mark(Other(promo.box), "standby", promo.box)
  /\ promo' = [promo EXCEPT !.pc = "activate"]
  /\ UNCHANGED <<git, record, proc, lock, up, left>>

PromotionActivates ==
  /\ promo # None /\ promo.pc = "activate"
  /\ promo.box \in up
  /\ Mark(promo.box, "active", promo.box)
  /\ promo' = None
  /\ UNCHANGED <<git, record, proc, lock, up, left>>

PromotionEnds ==
  /\ promo # None /\ promo' = None
  /\ UNCHANGED <<marker, git, record, proc, lock, up, left>>

-----------------------------------------------------------------------------

SwitchStep(o) ==
  \/ Lock(o) \/ Open(o) \/ Prepare(o) \/ Pull(o) \/ Write(o) \/ AddPlacement(o)
  \/ CommitPlacement(o) \/ Push(o) \/ RecordPhase(o) \/ Synchronize(o) \/ Decide(o) \/ Demote(o)
  \/ Activate(o) \/ Complete(o) \/ Refuse(o)

Interference ==
  \/ CommitElsewhere
  \/ \E b \in Boxes : Kill(b) \/ GiveUp(b) \/ LoseLock(b) \/ LoseContact(b) \/ PullByHand(b)
                      \/ EditByHand(b) \/ DemoteByHand(b)

Promotion ==
  \/ \E n \in Boxes : Promote(n)
  \/ PromotionDemotes \/ PromotionActivates \/ PromotionEnds

Next ==
  \/ \E b \in Boxes : Begin(b) \/ SwitchStep(b) \/ Return(b)
  \/ Interference \/ Promotion

(* A started command goes on and gets a lock that is free again and again, *)
(* a box comes back, and an operator resumes a switch again and again.     *)
Fairness ==
  \A b \in Boxes : /\ WF_vars(SwitchStep(b)) /\ SF_vars(Lock(b)) /\ WF_vars(Return(b))
                   /\ SF_vars(Begin(b) /\ record[b] # None /\ record[b].phase # "complete")

Spec == Init /\ [][Next]_vars /\ Fairness

-----------------------------------------------------------------------------

Record == [phase: Phases, base: Seq(Commits), file: Contents]

\* A box without a switch has no record.
ASSUME NoneAssumption == None \notin Record

TypeOK ==
  /\ marker \in [Boxes -> [role: Roles, box: Boxes]]
  /\ head \in [Boxes -> Seq(Commits)]
  /\ file \in [Boxes -> Contents]
  /\ staged \in [Boxes -> BOOLEAN]
  /\ upstream \in Seq(Commits)
  /\ record \in [Boxes -> Record \cup {None}]
  /\ proc \in [Boxes -> Places]
  /\ lock \in [Boxes -> Boxes \cup {None}]
  /\ up \subseteq Boxes
  /\ promo \in [box: Boxes, pc: {"demote", "activate"}] \cup {None}
  /\ left \in 0..Budget

(* "No transition may publish two active markers", whichever switches of   *)
(* either direction, crashes, resumptions and promotions follow each other *)
(* and whatever happens to the locks between a check and a marker write.   *)
OneMarker == ~(Active(Low) /\ Active(High))

(* Main has named the other controller since the switch was started.       *)
Placed(o) ==
  \E i \in DOMAIN upstream : i > Len(record[o].base) /\ upstream[i].active = Other(o)

(* A switch publishes its placement over the history it was started from:  *)
(* main has not moved since, unless to the same placement, a push drops no *)
(* commit of main, and what main says after it is what it said at the      *)
(* start, with the placement changed - whatever was edited, committed and  *)
(* pulled in the clone and in main between the attempts.                   *)
PushesOverItsBase ==
  [][\A o \in Boxes : proc[o] = "push" /\ proc'[o] = "pushed" =>
       /\ upstream = record[o].base \/ Placed(o)
       /\ Behind(upstream, upstream')
       /\ Content(Last(upstream')) = Expected(o)]_vars

(* "No unrelated commit may be swept into an interrupted switch push": a   *)
(* push that adds to main adds one commit to the recorded base.  The code  *)
(* compares the contents of the two ends, so that commits which cancel     *)
(* each other out, left in the clone between two attempts, go along.       *)
PushesItsChange ==
  [][\A o \in Boxes : proc[o] = "push" /\ proc'[o] = "pushed" =>
       \/ upstream' = upstream
       \/ upstream = record[o].base /\ Len(upstream') = Len(upstream) + 1]_vars

(* No switch runs, and the only unfinished record is of one that ended     *)
(* after its placement was published, beside the markers that one of its   *)
(* phases leaves.                                                          *)
Resumable(o) ==
  LET n == Other(o) IN
  /\ proc[o] = "idle" /\ proc[n] = "idle"
  /\ record[o] # None /\ (record[n] = None \/ record[n].phase = "complete")
  /\ Last(upstream).active = n
  /\ Clean(n) /\ Behind(head[n], upstream)
  /\ \/ /\ record[o].phase \in {"published", "synchronized"}
        /\ ~Active(n) /\ marker[n].role = "standby"
        /\ Active(o) \/ marker[o] = [role |-> "standby", box |-> n]
     \/ /\ record[o].phase \in {"demoted", "activated"}
        /\ marker[o] = [role |-> "standby", box |-> n]
        /\ \/ record[o].phase = "demoted" /\ marker[n].role = "standby"
           \/ Active(n) /\ Guard(n)

(* "Repeat with the reported operation ID after an interruption": a switch *)
(* that was interrupted after its push is completed by resuming it, unless *)
(* the other box, once active, has begun to switch back.                   *)
SwitchCompletes ==
  \A o \in Boxes :
    (left = 0 /\ promo = None /\ Resumable(o))
      ~> \/ record[o] # None /\ record[o].phase = "complete"
         \/ Active(Other(o)) /\ proc[Other(o)] # "idle"

=============================================================================
