--------------------------- MODULE ApplicationProofs ---------------------------
(***************************************************************************)
(* Theorems about what the users of an Instance have on their boxes: the   *)
(* firewall rules of their applications, for any applications, boxes and   *)
(* manifests and any number of edits, killed applies and reboots; and the  *)
(* discussions that they move between runners, for any runners, moves,     *)
(* turns and failures.                                                     *)
(***************************************************************************)
EXTENDS AppResources, WorkspaceMove, TLAPS

-----------------------------------------------------------------------------
(* Application resources.                                                  *)

(* What the kernel and the disk of each host hold.  A guest that is down   *)
(* enforces nothing.                                                       *)
HostInv ==
    /\ files \in [Hosts -> [Resources -> SUBSET Apps]]
    /\ live \in [Hosts -> SUBSET Resources]
    /\ up \subseteq Boxes
    /\ reboots \in Nat
    /\ \A b \in Boxes \ up : live[<<b, "backend">>] = {}

(* The applies, by where they are.                                         *)
AtGuests ==
    /\ run.pc = "guests"
    /\ run.todo = Visited(run.reg, run.scope)
    /\ run.boxes \subseteq Boxes

AtGuestsOnly == run.pc = "guests only" /\ run.boxes \subseteq Boxes

BetweenHosts == run.pc = "hosts"

HostRecord ==
    run = [pc |-> run.pc, scope |-> run.scope, reg |-> run.reg,
           todo |-> run.todo, host |-> run.host, changed |-> run.changed]

OnHost ==
    /\ HostRecord
    /\ run.pc \in {"snippets", "verify"}
    /\ run.host \in run.todo
    /\ Running(run.host)

Visiting == run.pc \in {"guests", "hosts", "snippets", "verify"}

RunInv ==
    /\ run = Idle \/ AtGuests \/ AtGuestsOnly \/ BetweenHosts \/ OnHost
    /\ run # Idle => run.scope \subseteq Apps
    /\ Visiting => run.todo \subseteq Hosts /\ ended = NoApply

(* A host has what the scope S was granted by the registry r.              *)
Granted(S, owners) == owners # {} /\ InScope(S, owners)

Holds(r, S, h) ==
    \A x \in Resources :
        Granted(S, Owners(r, S, h, x)) =>
            files[h][x] = Owners(r, S, h, x) /\ (Running(h) => x \in live[h])

(* The hosts that the apply has done have what it was asked for.           *)
DoneInv ==
    Visiting =>
        \A h \in Visited(run.reg, run.scope) \ run.todo : Holds(run.reg, run.scope, h)

ResourcesInv == HostInv /\ RunInv /\ DoneInv /\ AppliedIsInForce

-----------------------------------------------------------------------------

(* At the start there is no apply, and none has ended.                     *)
LEMMA ResourcesInit == Init => ResourcesInv
<1> SUFFICES ASSUME Init PROVE ResourcesInv
    OBVIOUS
<1>1. HostInv
    BY DEF Init, HostInv, Hosts, Roles
<1>2. RunInv /\ DoneInv
    BY DEF Init, RunInv, DoneInv, Visiting, Idle
<1>3. AppliedIsInForce
    BY DEF Init, AppliedIsInForce
<1> QED BY <1>1, <1>2, <1>3 DEF ResourcesInv

(* A compilation gives a rule to applications of its scope.                *)
LEMMA OwnersAreApps ==
    ASSUME NEW r, NEW S \in SUBSET Apps, NEW h, NEW x
    PROVE  Owners(r, S, h, x) \in SUBSET Apps
BY DEF Owners, Selected

(* An apply visits hosts and guests of the boxes.                          *)
LEMMA VisitedAreHosts ==
    ASSUME NEW r, NEW S
    PROVE  Visited(r, S) \subseteq Hosts
BY DEF Visited, ResourceHosts

(* Each box has a backend.                                                 *)
LEMMA BackendHost ==
    ASSUME NEW b \in Boxes
    PROVE  /\ <<b, "backend">> \in Hosts
           /\ BoxOf(<<b, "backend">>) = b /\ RoleOf(<<b, "backend">>) = "backend"
BY DEF Hosts, Roles, BoxOf, RoleOf

(* A host is its box and its role.                                         *)
LEMMA HostIsPair ==
    ASSUME NEW h \in Hosts
    PROVE  /\ h = <<BoxOf(h), RoleOf(h)>>
           /\ BoxOf(h) \in Boxes
           /\ RoleOf(h) \in {"router", "backend"}
BY DEF Hosts, Roles, BoxOf, RoleOf

(* The place of an apply tells what it has read and what is left to do.    *)
LEMMA Shapes ==
    ASSUME RunInv
    PROVE  /\ run.pc \in {"snippets", "verify"} => OnHost
           /\ run.pc = "guests" => AtGuests
           /\ run.pc = "guests only" => AtGuestsOnly
           /\ run.pc = "hosts" => BetweenHosts
<1>1. run = Idle => run.pc = "idle"
    BY DEF Idle
<1> QED BY <1>1 DEF RunInv, AtGuests, AtGuestsOnly, BetweenHosts, OnHost

-----------------------------------------------------------------------------
(* What a step does to a host that no apply is working on: its disk stays, *)
(* and its kernel changes only by loading the disk or by going down.       *)
Kept(h) ==
    /\ files'[h] = files[h]
    /\ \/ live'[h] = live[h] /\ (Running(h)' => Running(h))
       \/ live'[h] = Persisted(h)
       \/ ~Running(h)'

(* A step of one host leaves the others as they are.                       *)
LEMMA OthersKept ==
    ASSUME HostInv, RunInv, [Next]_vars, NEW h \in Hosts,
           OnHost => run.host # h
    PROVE  Kept(h)
<1> USE DEF Kept
<1>1. CASE files' = files /\ live' = live /\ up' = up
    BY <1>1 DEF Running
<1>2. ASSUME NEW b \in Boxes, StartGuest(b) PROVE Kept(h)
    <2>1. files' = files /\ live' = [live EXCEPT ![<<b, "backend">>] = Persisted(<<b, "backend">>)]
          /\ up' = up \cup {b}
        BY <1>2 DEF StartGuest
    <2>2. CASE h = <<b, "backend">>
        BY <2>1, <2>2 DEF HostInv
    <2>3. CASE h # <<b, "backend">>
        <3>1. Running(h)' => Running(h)
            BY <2>1, <2>3, HostIsPair DEF Running
        <3> QED BY <2>1, <2>3, <3>1 DEF HostInv
    <2> QED BY <2>2, <2>3
<1>3. ASSUME NEW b \in Boxes, StopGuest(b) PROVE Kept(h)
    <2>1. files' = files /\ live' = [live EXCEPT ![<<b, "backend">>] = {}]
          /\ up' = up \ {b}
        BY <1>3 DEF StopGuest
    <2>2. CASE h = <<b, "backend">>
        <3>1. ~Running(h)'
            BY <2>1, <2>2, BackendHost DEF Running
        <3> QED BY <2>1, <3>1
    <2>3. CASE h # <<b, "backend">>
        <3>1. Running(h)' => Running(h)
            BY <2>1 DEF Running
        <3> QED BY <2>1, <2>3, <3>1 DEF HostInv
    <2> QED BY <2>2, <2>3
<1>4. CASE HostStep
    <2>1. run.pc \in {"snippets", "verify"}
        BY <1>4 DEF HostStep, WriteSnippet, UnlinkSnippet, LoadRules, VerifyHost
    <2>2. run.host # h
        BY <2>1, Shapes
    <2>3. up' = up
        BY <1>4 DEF HostStep, WriteSnippet, UnlinkSnippet, LoadRules, VerifyHost
    <2>4. files'[h] = files[h] /\ live'[h] = live[h]
        BY <1>4, <2>2 DEF HostStep, WriteSnippet, UnlinkSnippet, LoadRules, VerifyHost, HostInv
    <2> QED BY <2>3, <2>4 DEF Running
<1>5. ASSUME NEW k \in Hosts, Reboot(k) PROVE Kept(h)
    <2>1. files' = files /\ up' = up /\ live' = [live EXCEPT ![k] = Persisted(k)]
        BY <1>5 DEF Reboot
    <2>2. CASE h = k
        BY <2>1, <2>2 DEF HostInv
    <2>3. CASE h # k
        BY <2>1, <2>3 DEF HostInv, Running
    <2> QED BY <2>2, <2>3
<1>6. CASE UNCHANGED vars \/ EditRegistry \/ KillApply \/ GuestsDone \/ EndApply
    BY <1>1, <1>6 DEF vars, EditRegistry, KillApply, GuestsDone, EndApply
<1>7. CASE \/ \E S \in SUBSET Apps : StartApply(S) \/ RefuseApply(S)
           \/ \E B \in SUBSET Boxes \ {{}} : StartGuestsOnly(B)
           \/ \E k \in Hosts : VisitHost(k) \/ HostUnreachable(k)
    BY <1>1, <1>7 DEF vars, StartApply, RefuseApply, StartGuestsOnly, VisitHost, HostUnreachable
<1> QED BY <1>2, <1>3, <1>4, <1>5, <1>6, <1>7 DEF Next, RunStep

(* So a host that has what was granted still has it.                       *)
LEMMA KeptHolds ==
    ASSUME NEW r, NEW S, NEW h, Kept(h), Holds(r, S, h)
    PROVE  \A x \in Resources :
               Granted(S, Owners(r, S, h, x)) =>
                   /\ files'[h][x] = Owners(r, S, h, x)
                   /\ Running(h)' => x \in live'[h]
<1> SUFFICES ASSUME NEW x \in Resources, Granted(S, Owners(r, S, h, x))
             PROVE  /\ files'[h][x] = Owners(r, S, h, x)
                    /\ Running(h)' => x \in live'[h]
    OBVIOUS
<1>1. files[h][x] = Owners(r, S, h, x) /\ (Running(h) => x \in live[h])
    BY DEF Holds
<1>2. x \in Persisted(h)
    BY <1>1 DEF Persisted, Granted
<1> QED BY <1>1, <1>2 DEF Kept

-----------------------------------------------------------------------------
(* One step.                                                               *)

(* Hosts hold rules of applications, and a guest that is down none.        *)
LEMMA HostNext ==
    ASSUME HostInv, RunInv, [Next]_vars
    PROVE  HostInv'
<1>1. CASE UNCHANGED <<files, live, up, reboots>>
    BY <1>1 DEF HostInv
<1>2. ASSUME NEW b \in Boxes, StartGuest(b) PROVE HostInv'
    <2>1. <<b, "backend">> \in Hosts
        BY BackendHost
    <2>2. Persisted(<<b, "backend">>) \subseteq Resources
        BY DEF Persisted
    <2>3. live' \in [Hosts -> SUBSET Resources]
        BY <1>2, <2>2 DEF StartGuest, HostInv
    <2>4. ASSUME NEW k \in Boxes \ up' PROVE live'[<<k, "backend">>] = {}
        <3>1. k # b /\ k \in Boxes \ up /\ <<k, "backend">> \in Hosts
            BY <1>2, <2>4, BackendHost DEF StartGuest
        <3>2. <<k, "backend">> # <<b, "backend">>
            BY <3>1
        <3> QED BY <1>2, <3>1, <3>2 DEF StartGuest, HostInv
    <2> QED BY <1>2, <2>3, <2>4 DEF StartGuest, HostInv
<1>3. ASSUME NEW b \in Boxes, StopGuest(b) PROVE HostInv'
    <2>1. \A k \in Boxes : <<k, "backend">> \in Hosts
        BY BackendHost
    <2> QED BY <1>3, <2>1 DEF StopGuest, HostInv
<1>4. ASSUME NEW x \in Resources, WriteSnippet(x) \/ UnlinkSnippet(x) PROVE HostInv'
    <2>1. run # Idle /\ run.scope \subseteq Apps
        BY <1>4 DEF WriteSnippet, UnlinkSnippet, Idle, RunInv
    <2>2. Desired(x) \in SUBSET Apps
        BY <2>1, OwnersAreApps DEF Desired
    <2>3. PICK d \in SUBSET Apps : files' = [files EXCEPT ![run.host][x] = d]
        BY <1>4, <2>2 DEF WriteSnippet, UnlinkSnippet
    <2>4. files' \in [Hosts -> [Resources -> SUBSET Apps]]
        <3>1. \A h \in Hosts : [files[h] EXCEPT ![x] = d] \in [Resources -> SUBSET Apps]
            BY DEF HostInv
        <3> QED BY <2>3, <3>1 DEF HostInv
    <2> QED BY <1>4, <2>4 DEF WriteSnippet, UnlinkSnippet, HostInv
<1>5. CASE LoadRules
    <2>1. OnHost
        BY <1>5, Shapes DEF LoadRules
    <2>2. run.host \in Hosts /\ Running(run.host)
        BY <2>1 DEF OnHost, RunInv, Visiting
    <2>3. Persisted(run.host) \subseteq Resources
        BY DEF Persisted
    <2>4. live' \in [Hosts -> SUBSET Resources]
        BY <1>5, <2>3 DEF LoadRules, HostInv
    <2>5. \A b \in Boxes \ up : <<b, "backend">> # run.host
        BY <2>2, BackendHost DEF Running
    <2>6. \A b \in Boxes \ up : live'[<<b, "backend">>] = {}
        BY <1>5, <2>5, BackendHost DEF LoadRules, HostInv
    <2> QED BY <1>5, <2>4, <2>6 DEF LoadRules, HostInv
<1>6. ASSUME NEW k \in Hosts, Reboot(k) PROVE HostInv'
    <2>1. Persisted(k) \subseteq Resources
        BY DEF Persisted
    <2>2. \A b \in Boxes \ up : <<b, "backend">> # k
        BY <1>6, BackendHost DEF Reboot, Running
    <2>3. \A b \in Boxes \ up : live'[<<b, "backend">>] = {}
        BY <1>6, <2>2, BackendHost DEF Reboot, HostInv
    <2> QED BY <1>6, <2>1, <2>3 DEF Reboot, HostInv
<1>7. CASE \/ UNCHANGED vars \/ EditRegistry \/ KillApply \/ GuestsDone \/ EndApply
           \/ VerifyHost
    BY <1>1, <1>7 DEF vars, EditRegistry, KillApply, GuestsDone, EndApply, VerifyHost
<1>8. CASE \/ \E S \in SUBSET Apps : StartApply(S) \/ RefuseApply(S)
           \/ \E B \in SUBSET Boxes \ {{}} : StartGuestsOnly(B)
           \/ \E k \in Hosts : VisitHost(k) \/ HostUnreachable(k)
    BY <1>1, <1>8 DEF vars, StartApply, RefuseApply, StartGuestsOnly, VisitHost, HostUnreachable
<1> QED BY <1>2, <1>3, <1>4, <1>5, <1>6, <1>7, <1>8 DEF Next, RunStep, HostStep

(* No apply, no place.                                                     *)
LEMMA IdlePlace == Idle.pc = "idle"
BY DEF Idle

(* An apply stays at one of its places, and on a host it can be reached.   *)
LEMMA ApplyNext ==
    ASSUME HostInv, RunInv, [Next]_vars
    PROVE  RunInv'
<1> USE IdlePlace DEF RunInv, Visiting
<1>1. CASE UNCHANGED <<run, ended, up>>
    BY <1>1 DEF AtGuests, AtGuestsOnly, BetweenHosts, OnHost, HostRecord, Running
<1>2. CASE run' = Idle
    BY <1>2
<1>3. ASSUME NEW S \in SUBSET Apps, StartApply(S) PROVE RunInv'
    <2>1. CASE S = {}
        <3>1. run' = [pc |-> "guests", scope |-> S, reg |-> reg,
                      todo |-> Visited(reg, S), boxes |-> Boxes]
              /\ ended' = NoApply
            BY <1>3, <2>1 DEF StartApply
        <3>2. /\ run'.pc = "guests" /\ run'.todo = Visited(reg, S) /\ run'.boxes = Boxes
              /\ run'.scope = S /\ run'.reg = reg
            BY <3>1
        <3>3. AtGuests'
            BY <3>2 DEF AtGuests
        <3> QED BY <3>1, <3>2, <3>3, VisitedAreHosts
    <2>2. CASE S # {}
        <3>1. run' = [pc |-> "hosts", scope |-> S, reg |-> reg, todo |-> Visited(reg, S)]
              /\ ended' = NoApply
            BY <1>3, <2>2 DEF StartApply
        <3>2. run'.pc = "hosts" /\ run'.todo = Visited(reg, S) /\ run'.scope = S
            BY <3>1
        <3> QED BY <3>1, <3>2, VisitedAreHosts DEF BetweenHosts
    <2> QED BY <2>1, <2>2
<1>4. ASSUME NEW B \in SUBSET Boxes, StartGuestsOnly(B) PROVE RunInv'
    <2>1. run' = [pc |-> "guests only", scope |-> {}, reg |-> reg, boxes |-> B]
        BY <1>4 DEF StartGuestsOnly
    <2>2. run'.pc = "guests only" /\ run'.boxes = B /\ run'.scope = {}
        BY <2>1
    <2> QED BY <2>2 DEF AtGuestsOnly
<1>5. ASSUME NEW b \in Boxes, StartGuest(b) \/ StopGuest(b) PROVE RunInv'
    <2>1. UNCHANGED <<run, ended>> /\ run.pc \in {"guests", "guests only"}
        BY <1>5 DEF StartGuest, StopGuest, DoingGuests
    <2>2. (AtGuests \/ AtGuestsOnly) /\ run # Idle
        BY <2>1, Shapes
    <2>3. AtGuests' \/ AtGuestsOnly'
        BY <2>1, <2>2 DEF AtGuests, AtGuestsOnly
    <2> QED BY <2>1, <2>2, <2>3
<1>6. ASSUME NEW todo \in SUBSET run.todo, Visiting, ended' = ended, run' = ToHosts(todo)
      PROVE  RunInv'
    <2>1. run'.pc = "hosts" /\ run'.todo = todo /\ run'.scope = run.scope
        BY <1>6 DEF ToHosts
    <2> QED BY <1>6, <2>1 DEF BetweenHosts
<1>7. CASE GuestsDone
    <2>1. CASE run.pc = "guests"
        BY <1>6, <1>7, <2>1 DEF GuestsDone
    <2>2. CASE run.pc # "guests"
        BY <1>2, <1>7, <2>2 DEF GuestsDone
    <2> QED BY <2>1, <2>2
<1>8. ASSUME Visiting, NEW place \in {"snippets", "verify"}, NEW changed,
             NEW h \in run.todo, Running(h), UNCHANGED <<up, ended>>,
             run' = [pc |-> place, scope |-> run.scope, reg |-> run.reg,
                     todo |-> run.todo, host |-> h, changed |-> changed]
      PROVE  RunInv'
    <2>1. /\ run'.pc = place /\ run'.scope = run.scope /\ run'.todo = run.todo
          /\ run'.reg = run.reg /\ run'.host = h /\ run'.changed = changed
        BY <1>8
    <2>2. HostRecord'
        BY <1>8, <2>1, Zenon DEF HostRecord
    <2>3. OnHost'
        BY <1>8, <2>1, <2>2 DEF OnHost, Running
    <2> QED BY <1>8, <2>1, <2>3
<1>9. ASSUME NEW h \in Hosts, VisitHost(h) PROVE RunInv'
    BY <1>8, <1>9 DEF VisitHost
<1>10. ASSUME NEW x \in Resources, WriteSnippet(x) \/ UnlinkSnippet(x) PROVE RunInv'
    <2>1. OnHost /\ run.pc = "snippets" /\ UNCHANGED <<up, ended>>
        BY <1>10, Shapes DEF WriteSnippet, UnlinkSnippet
    <2>2. run' = [run EXCEPT !.changed = TRUE]
        BY <1>10 DEF WriteSnippet, UnlinkSnippet
    <2>3. run' = [pc |-> "snippets", scope |-> run.scope, reg |-> run.reg,
                  todo |-> run.todo, host |-> run.host, changed |-> TRUE]
        BY <2>1, <2>2, Zenon DEF OnHost, HostRecord
    <2> QED BY <1>8, <2>1, <2>3 DEF OnHost
<1>11. CASE LoadRules
    <2>1. OnHost /\ UNCHANGED <<up, ended>> /\ run' = [run EXCEPT !.pc = "verify"]
        BY <1>11, Shapes DEF LoadRules
    <2>2. run' = [pc |-> "verify", scope |-> run.scope, reg |-> run.reg,
                  todo |-> run.todo, host |-> run.host, changed |-> run.changed]
        BY <2>1, Zenon DEF OnHost, HostRecord
    <2> QED BY <1>8, <2>1, <2>2 DEF OnHost
<1>12. CASE VerifyHost
    <2>1. Visiting /\ ended' = ended
        BY <1>12 DEF VerifyHost
    <2>2. run' = ToHosts(run.todo \ {run.host}) \/ run' = Idle
        BY <1>12 DEF VerifyHost
    <2> QED BY <1>2, <1>6, <2>1, <2>2
<1>13. ASSUME NEW h \in Hosts, Reboot(h) PROVE RunInv'
    BY <1>1, <1>2, <1>13 DEF Reboot
<1>14. CASE EndApply \/ KillApply \/ \E h \in Hosts : HostUnreachable(h)
    BY <1>2, <1>14 DEF EndApply, KillApply, HostUnreachable
<1>15. CASE UNCHANGED vars \/ EditRegistry \/ \E S \in SUBSET Apps : RefuseApply(S)
    BY <1>1, <1>15 DEF vars, EditRegistry, RefuseApply
<1> QED
    BY <1>3, <1>4, <1>5, <1>7, <1>9, <1>10, <1>11, <1>12, <1>13, <1>14, <1>15
    DEF Next, RunStep, HostStep

(* An apply keeps to the registry it has compiled, and leaves out a host   *)
(* only when that host has been verified.                                  *)
SameRun ==
    Visiting /\ run'.reg = run.reg /\ run'.scope = run.scope

(* A step of an apply starts it, leaves its hosts, or verifies one.        *)
LEMMA RunNext ==
    ASSUME RunInv, [Next]_vars, Visiting'
    PROVE  \/ run'.todo = Visited(run'.reg, run'.scope)
           \/ SameRun /\ run'.todo = run.todo
           \/ /\ SameRun /\ VerifyHost /\ HostVerifies
              /\ run'.todo = run.todo \ {run.host}
<1> USE IdlePlace DEF Visiting, SameRun
<1>1. run' # Idle
    OBVIOUS
<1>2. CASE run' = run
    BY <1>2
<1>3. ASSUME NEW S \in SUBSET Apps, StartApply(S)
      PROVE  run'.todo = Visited(run'.reg, run'.scope)
    <2>1. \/ run' = [pc |-> "guests", scope |-> S, reg |-> reg,
                     todo |-> Visited(reg, S), boxes |-> Boxes]
          \/ run' = [pc |-> "hosts", scope |-> S, reg |-> reg, todo |-> Visited(reg, S)]
        BY <1>3 DEF StartApply
    <2> QED BY <2>1
<1>4. ASSUME NEW B \in SUBSET Boxes, StartGuestsOnly(B) PROVE FALSE
    <2>1. run' = [pc |-> "guests only", scope |-> {}, reg |-> reg, boxes |-> B]
        BY <1>4 DEF StartGuestsOnly
    <2> QED BY <2>1
<1>5. CASE GuestsDone
    <2>1. run.pc = "guests" /\ run' = ToHosts(run.todo)
        BY <1>1, <1>5 DEF GuestsDone
    <2> QED BY <2>1 DEF ToHosts
<1>6. ASSUME NEW h \in Hosts, VisitHost(h) PROVE SameRun /\ run'.todo = run.todo
    BY <1>6 DEF VisitHost
<1>7. ASSUME NEW x \in Resources, WriteSnippet(x) \/ UnlinkSnippet(x)
      PROVE  SameRun /\ run'.todo = run.todo
    <2>1. OnHost /\ run' = [run EXCEPT !.changed = TRUE]
        BY <1>7, Shapes DEF WriteSnippet, UnlinkSnippet
    <2>2. run' = [pc |-> run.pc, scope |-> run.scope, reg |-> run.reg,
                  todo |-> run.todo, host |-> run.host, changed |-> TRUE]
        BY <2>1, Zenon DEF OnHost, HostRecord
    <2> QED BY <2>1, <2>2 DEF OnHost
<1>8. CASE LoadRules
    <2>1. OnHost /\ run' = [run EXCEPT !.pc = "verify"]
        BY <1>8, Shapes DEF LoadRules
    <2>2. run' = [pc |-> "verify", scope |-> run.scope, reg |-> run.reg,
                  todo |-> run.todo, host |-> run.host, changed |-> run.changed]
        BY <2>1, Zenon DEF OnHost, HostRecord
    <2> QED BY <2>1, <2>2 DEF OnHost
<1>9. CASE VerifyHost
    <2>1. run.pc = "verify" /\ HostVerifies /\ run' = ToHosts(run.todo \ {run.host})
        BY <1>1, <1>9 DEF VerifyHost
    <2> QED BY <1>9, <2>1 DEF ToHosts
<1>10. CASE \/ \E h \in Hosts : Reboot(h) \/ HostUnreachable(h)
            \/ EndApply \/ KillApply \/ UNCHANGED vars \/ EditRegistry
            \/ \E S \in SUBSET Apps : RefuseApply(S)
            \/ \E b \in Boxes : StartGuest(b) \/ StopGuest(b)
    BY <1>1, <1>2, <1>10 DEF Reboot, HostUnreachable, EndApply, KillApply, vars,
       EditRegistry, RefuseApply, StartGuest, StopGuest
<1> QED
    BY <1>3, <1>4, <1>5, <1>6, <1>7, <1>8, <1>9, <1>10 DEF Next, RunStep, HostStep

(* A host that verifies has what the apply was asked for.                  *)
LEMMA VerifiedHolds ==
    ASSUME VerifyHost, HostVerifies, RunInv
    PROVE  /\ Holds(run.reg, run.scope, run.host)
           /\ UNCHANGED <<files, live, up>>
BY DEF VerifyHost, HostVerifies, Holds, Granted, Checked, Desired

(* The hosts that an apply has done keep what it was asked for.            *)
LEMMA DoneNext ==
    ASSUME HostInv, RunInv, DoneInv, [Next]_vars
    PROVE  DoneInv'
<1> SUFFICES ASSUME Visiting', NEW h \in Visited(run'.reg, run'.scope) \ run'.todo,
                    NEW x \in Resources,
                    Granted(run'.scope, Owners(run'.reg, run'.scope, h, x))
             PROVE  /\ files'[h][x] = Owners(run'.reg, run'.scope, h, x)
                    /\ Running(h)' => x \in live'[h]
    BY DEF DoneInv, Holds
<1>1. SameRun
    BY RunNext
<1>2. h \in Hosts
    BY VisitedAreHosts
<1>3. CASE h \notin run.todo
    <2>1. Holds(run.reg, run.scope, h)
        BY <1>1, <1>3 DEF DoneInv, SameRun
    <2>2. OnHost => run.host # h
        BY <1>3 DEF OnHost
    <2>3. Kept(h)
        BY <1>2, <2>2, OthersKept
    <2> QED BY <1>1, <2>1, <2>3, KeptHolds DEF SameRun
<1>4. CASE h \in run.todo
    <2>1. VerifyHost /\ HostVerifies /\ h = run.host
        BY <1>4, RunNext
    <2> QED BY <1>1, <2>1, VerifiedHolds DEF Holds, SameRun, Running
<1> QED BY <1>3, <1>4

(* An apply that ends remembers what it verified.                          *)
LEMMA EndedNext ==
    ASSUME RunInv, [Next]_vars, ended' # NoApply
    PROVE  \/ ended' = ended
           \/ /\ run.pc = "hosts" /\ run.todo = {}
              /\ ended' = [scope |-> run.scope, reg |-> run.reg]
              /\ UNCHANGED <<files, live, up>>
BY DEF Next, vars, EditRegistry, StartApply, RefuseApply, StartGuestsOnly, RunStep, StartGuest,
   StopGuest, GuestsDone, VisitHost, HostUnreachable, HostStep, WriteSnippet, UnlinkSnippet,
   LoadRules, VerifyHost, EndApply, KillApply, Reboot

(* What the last apply put in force stays in force.                        *)
LEMMA AppliedNext ==
    ASSUME ResourcesInv, [Next]_vars
    PROVE  AppliedIsInForce'
<1> USE DEF ResourcesInv
<1> SUFFICES ASSUME ended' # NoApply,
                    NEW h \in Visited(ended'.reg, ended'.scope), NEW x \in Resources,
                    Granted(ended'.scope, Owners(ended'.reg, ended'.scope, h, x))
             PROVE  /\ files'[h][x] = Owners(ended'.reg, ended'.scope, h, x)
                    /\ Running(h)' => x \in live'[h]
    BY DEF AppliedIsInForce, Granted
<1>1. CASE ended' = ended
    <2>1. Holds(ended.reg, ended.scope, h)
        BY <1>1 DEF AppliedIsInForce, Holds, Granted
    <2>2. ~OnHost
        BY <1>1 DEF RunInv, Visiting, OnHost
    <2>3. Kept(h)
        BY <2>2, OthersKept, VisitedAreHosts
    <2> QED BY <1>1, <2>1, <2>3, KeptHolds
<1>2. CASE ended' # ended
    <2>1. /\ run.pc = "hosts" /\ run.todo = {}
          /\ ended'.scope = run.scope /\ ended'.reg = run.reg
          /\ UNCHANGED <<files, live, up>>
        BY <1>2, EndedNext
    <2>2. Holds(run.reg, run.scope, h)
        BY <2>1 DEF DoneInv, Visiting
    <2> QED BY <2>1, <2>2 DEF Holds, Running
<1> QED BY <1>1, <1>2

-----------------------------------------------------------------------------

(* The state of the hosts and of the apply, for any number of edits, kills *)
(* and reboots.                                                            *)
THEOREM ResourcesCorrect == Spec => []ResourcesInv
<1>1. ResourcesInv /\ [Next]_vars => ResourcesInv'
    BY HostNext, ApplyNext, DoneNext, AppliedNext DEF ResourcesInv
<1> QED BY ResourcesInit, <1>1, PTL DEF Spec

(* What a successful apply was asked for stays on disk and in force until  *)
(* the next apply, on every host it visited.                               *)
THEOREM AppliedHolds == Spec => []AppliedIsInForce
<1>1. ResourcesInv => AppliedIsInForce
    BY DEF ResourcesInv
<1> QED BY ResourcesCorrect, <1>1, PTL

(* A full apply reloads a host with everything its registry grants there,  *)
(* starts only guests that enforced nothing, and so never takes a granted  *)
(* rule out of force.                                                      *)
THEOREM NothingOut == Spec => NoOutage
<1>1. ResourcesInv /\ [Next]_vars
        => [run # Idle /\ run.scope = {} =>
              \A h \in Hosts : \A x \in live[h] :
                 Owners(run.reg, {}, h, x) # {} /\ Running(h)' /\ reboots' = reboots
                   => x \in live'[h]]_vars
    <2> SUFFICES ASSUME ResourcesInv, Next, run # Idle, run.scope = {},
                        NEW h \in Hosts, NEW x \in live[h],
                        Owners(run.reg, {}, h, x) # {}, Running(h)', reboots' = reboots
                 PROVE  x \in live'[h]
        OBVIOUS
    <2> USE DEF ResourcesInv, HostInv
    <2>1. CASE live' = live
        BY <2>1
    <2>2. ASSUME NEW b \in Boxes, StartGuest(b) PROVE x \in live'[h]
        <3>1. live[<<b, "backend">>] = {} /\ h # <<b, "backend">>
            BY <2>2 DEF StartGuest
        <3> QED BY <2>2, <3>1 DEF StartGuest
    <2>3. ASSUME NEW b \in Boxes, StopGuest(b) PROVE x \in live'[h]
        <3>1. ~Running(<<b, "backend">>)'
            BY <2>3, BackendHost DEF StopGuest, Running
        <3> QED BY <2>3, <3>1 DEF StopGuest
    <2>4. CASE LoadRules
        <3>1. CASE h # run.host
            BY <2>4, <3>1 DEF LoadRules
        <3>2. CASE h = run.host
            <4>1. x \in Resources
                OBVIOUS
            <4>2. Desired(x) # {}
                BY <3>2 DEF Desired
            <4>3. files[run.host][x] # {}
                <5>1. x \notin ToWrite
                    BY <2>4 DEF LoadRules
                <5> QED BY <4>1, <4>2, <5>1 DEF ToWrite, InScope
            <4>4. x \in Persisted(run.host)
                BY <4>1, <4>3 DEF Persisted
            <4> QED BY <2>4, <3>2, <4>4 DEF LoadRules
        <3> QED BY <3>1, <3>2
    <2>5. ASSUME NEW k \in Hosts, Reboot(k) PROVE FALSE
        BY <2>5 DEF Reboot
    <2>6. CASE \/ EditRegistry \/ GuestsDone \/ EndApply \/ KillApply \/ VerifyHost
               \/ \E y \in Resources : WriteSnippet(y) \/ UnlinkSnippet(y)
               \/ \E S \in SUBSET Apps : StartApply(S) \/ RefuseApply(S)
               \/ \E B \in SUBSET Boxes \ {{}} : StartGuestsOnly(B)
               \/ \E k \in Hosts : VisitHost(k) \/ HostUnreachable(k)
        BY <2>1, <2>6 DEF EditRegistry, GuestsDone, EndApply, KillApply, VerifyHost,
           WriteSnippet, UnlinkSnippet, StartApply, RefuseApply, StartGuestsOnly, VisitHost,
           HostUnreachable, vars
    <2> QED BY <2>2, <2>3, <2>4, <2>5, <2>6 DEF Next, RunStep, HostStep
<1> QED BY ResourcesCorrect, <1>1, PTL DEF Spec, NoOutage

-----------------------------------------------------------------------------
(* The move of a discussion: the inductive invariant.                      *)

(* The placements that a move publishes, one after the other.              *)
Draining(m) == [op |-> m, phase |-> "draining", current |-> From[m]]
Starting(m) == [op |-> m, phase |-> "starting", current |-> None]
Ready(m)    == [op |-> m, phase |-> "ready", current |-> To[m]]

PlacesOf(m) == {Draining(m), Starting(m), Ready(m)}
Published   == {None} \cup UNION {PlacesOf(m) : m \in Ops}

Phases    == {"prepared", "closing", "copying", "restoring", "publishing", "complete"}
JobPlaces == {"check", "inspect", "vacant", "park"} \cup JobPhases \cup Calls
               \cup Drains \cup Starts \cup Readies
Jobs      == [op : Ops, pc : JobPlaces, wait : BOOLEAN]

Copies    == [kind : {"whole", "part", "none"}, h : SUBSET Nat]
Exported  == [phase : {"none", "sealing", "moved"}, sha : SUBSET Nat]
Bundles   == [phase : {"none", "importing", "replacing", "imported"},
              sha : SUBSET Nat, prev : SUBSET Nat]
Records   == [phase : Phases, prev : Published]

RunnerTypes ==
  /\ copy \in [Runners -> Copies]
  /\ writer \in [Runners -> {"none", "idle", "active"}]
  /\ frozen \in [Runners -> BOOLEAN]
  /\ ledger \in [Runners -> Ledgers \cup {None}]
  /\ placement \in [Runners -> Published]
  /\ helper \in [Runners -> Helpers \cup {None}]

ReceiptTypes ==
  /\ manifest \in [Ops -> {"none", "inventoried", "closing", "closed"}]
  /\ panes \in [Ops -> BOOLEAN]
  /\ source \in [Ops -> Exported]
  /\ dest \in [Ops -> Bundles]
  /\ restored \in [Ops -> {"none", "starting", "listed", "complete"}]

ControllerTypes ==
  /\ record \in [Ops -> Records]
  /\ job \in Jobs \cup {NoJob}
  /\ turns \in Nat /\ strayed \in BOOLEAN /\ left \in Nat

Moving(m)  == \E r \in Runners : placement[r] \in {Draining(m), Starting(m)}
Resting    == \A m \in Ops : ~Moving(m)
Passed(m)  == record[m].phase \in {"publishing", "complete"}

(* What the two runners of a move publish by its recorded phase; no third  *)
(* runner publishes it.                                                    *)
StageInv ==
  \A m \in Ops :
    LET p  == placement[From[m]]
        q  == placement[To[m]]
        ph == record[m].phase IN
    /\ \A r \in Runners \ {From[m], To[m]} : placement[r] \notin PlacesOf(m)
    /\ ph = "prepared" => p \notin PlacesOf(m) /\ q \notin PlacesOf(m)
    /\ ph = "closing" => p \notin {Starting(m), Ready(m)} /\ q \notin {Starting(m), Ready(m)}
    /\ q = Draining(m) => p \in {Draining(m), Starting(m)}
    /\ ph = "copying" => /\ p \in {Draining(m), Starting(m)} /\ q \in {Draining(m), Starting(m)}
                         /\ q = Starting(m) => p = Starting(m)
    /\ ph = "restoring" => p = Starting(m) /\ q = Starting(m)
    /\ ph = "publishing" => \/ q = Starting(m) /\ p \in {Starting(m), Ready(m)}
                            \/ ~Moving(m)
    /\ ph = "complete" => ~Moving(m)

(* The previous placement of a move was published by one that had ended,   *)
(* and the move itself has replaced it before it starts to copy.           *)
PrevInv ==
  \A m \in Ops :
    LET v == record[m].prev IN
    /\ record[m].phase = "prepared" => v = None
    /\ v # None => \E n \in Ops :
         /\ v = Ready(n) /\ To[n] = From[m] /\ Passed(n) /\ ~Moving(n)
         /\ placement[To[n]] # None /\ placement[From[n]] # None
    /\ record[m].phase \notin {"prepared", "closing"} =>
         placement[From[m]] # v /\ placement[To[m]] # v

(* At most one move is under way.  No placement offers the discussion on   *)
(* two runners, and while a move is under way only its origin may offer it.*)
OfferInv ==
  /\ \A m, n \in Ops : Moving(m) /\ Moving(n) => m = n
  /\ \A r, s \in Runners : Invited(r) /\ Invited(s) => r = s
  /\ \A m \in Ops, r \in Runners :
       Moving(m) /\ Invited(r) => r = From[m] /\ placement[r] = Draining(m)

(* A runner that the discussion has reached publishes a placement.         *)
Reached(r) == r = First \/ placement[r] # None

ReachedInv ==
  /\ \A r \in Runners : placement[First] = None => placement[r] = None
  /\ \A m \in Ops, r \in Runners :
       /\ placement[r] \in PlacesOf(m) => placement[From[m]] # None
       /\ placement[r] \in {Starting(m), Ready(m)} => placement[To[m]] # None
  /\ \A r \in Runners : writer[r] # "none" \/ copy[r] # Absent => Reached(r)
  /\ \A m \in Ops : manifest[m] # "none" => Reached(From[m])
  /\ \A m \in Ops : record[m].phase # "prepared" => manifest[m] # "none"

(* What a place of the job implies.  Beyond a call, no helper of the move  *)
(* is left on the runner that was called.                                  *)
PhaseAt(pc) ==
  CASE pc \in {"inspect", "vacant", "closing"} -> "prepared"
    [] pc \in {"origin draining", "destination draining", "park", "close", "copying"} -> "closing"
    [] pc \in {"origin starting", "destination starting", "export", "import", "restoring"} -> "copying"
    [] pc \in {"restore", "publishing"} -> "restoring"
    [] pc \in {"verify", "origin ready", "destination ready", "complete"} -> "publishing"

Left(m, r) == helper[r] # None => Op(r) # m

JobPhaseInv ==
  job # NoJob =>
    LET m == job.op IN
    /\ job.pc # "check" => record[m].phase = PhaseAt(job.pc)
    /\ record[m].phase # "complete"
    /\ job.pc \in {"vacant", "closing"} => manifest[m] # "none"
    /\ job.pc \in {"import", "restoring"} => source[m].phase = "moved"
    /\ job.pc = "restoring" => dest[m].phase = "imported"
    /\ job.pc = "publishing" => restored[m] = "complete"
    /\ job.pc \in {"copying", "import", "restoring"} => Left(m, From[m])
    /\ job.pc \in {"restoring", "publishing", "origin ready", "destination ready", "complete"} =>
         Left(m, To[m])

JobPlaceInv ==
  job # NoJob =>
    LET m == job.op
        p == placement[From[m]]
        q == placement[To[m]] IN
    /\ job.pc = "inspect" => Known(m) = {} \/ (Invited(From[m]) /\ Resting)
    /\ job.pc \in {"inspect", "vacant", "closing"} /\ Known(m) # {} =>
         \E n \in Ops : To[n] = From[m] /\ Known(m) = {Ready(n)}
    /\ job.pc \in {"vacant", "closing", "origin draining"} =>
         p = Draining(m) \/ (Invited(From[m]) /\ Resting)
    /\ job.pc \in {"destination draining", "park", "close", "copying"} => p = Draining(m)
    /\ job.pc \in {"park", "close", "copying"} => q = Draining(m)
    /\ job.pc = "destination starting" => p = Starting(m)
    /\ job.pc \in {"export", "import", "restoring"} => p = Starting(m) /\ q = Starting(m)
    /\ job.pc \in {"verify", "origin ready"} => q = Starting(m) \/ (q = Ready(m) /\ p = Ready(m))
    /\ job.pc = "destination ready" => p = Ready(m) /\ q \in {Starting(m), Ready(m)}
    /\ job.pc = "complete" => p = Ready(m) /\ q = Ready(m)

(* A job that waits waits for a helper of its own.                         *)
CallPlaces(pc) ==
  CASE pc = "close"   -> Closing
    [] pc = "export"  -> Exports
    [] pc = "import"  -> Imports
    [] pc = "restore" -> Restores
    [] pc = "verify"  -> {"restore"}

WaitInv ==
  job.wait => /\ job.pc \in Calls
              /\ helper[Box] # None /\ Op(Box) = job.op
              /\ helper[Box].pc \in CallPlaces(job.pc)

(* A helper works in the phase in which it was called, even when its job   *)
(* has given it up, ...                                                    *)
StageOfHelper ==
  \A r \in Runners : helper[r] # None =>
    LET m  == Op(r)
        p  == placement[From[m]]
        q  == placement[To[m]]
        pc == helper[r].pc IN
    /\ pc \in Closing \cup Exports => r = From[m]
    /\ pc \in Imports \cup Restores => r = To[m]
    /\ pc \in Closing => record[m].phase = "closing" /\ p = Draining(m) /\ q = Draining(m)
    /\ pc \in Exports \cup Imports =>
         record[m].phase = "copying" /\ p = Starting(m) /\ q = Starting(m)
    /\ pc \in Restores \ {"restore"} => record[m].phase = "restoring"
    /\ pc = "restore" => record[m].phase \in {"restoring", "publishing"}

(* ... and each of its places has what the earlier ones left.              *)
HelperInv ==
  \A r \in Runners : helper[r] # None =>
    LET m  == Op(r)
        pc == helper[r].pc IN
    /\ pc \in Imports \cup {"moved"} => source[m].phase = "moved"
    /\ pc \in {"remove", "strip", "removed"} => dest[m].phase = "replacing"
    /\ pc \in {"install", "fill", "imported"} => dest[m].phase = "importing"
    /\ pc = "here" => dest[m].phase = "imported"
    /\ pc = "strip" => copy[r].kind # "whole"
    /\ pc = "fill" => copy[r].h = dest[m].sha
    /\ pc = "imported" => copy[r] = Whole(dest[m].sha)
    /\ Locked(r) => writer[r] = "none"
    /\ pc \in {"recheck", "archive"} => frozen[r]
    /\ pc = "archive" => writer[r] # "active"
    /\ pc \in {"launch", "list"} => restored[m] = "starting"
    /\ pc = "verified" => restored[m] = "complete"

(* What the receipts of a move say by its recorded phase.                  *)
ReceiptInv ==
  \A m \in Ops :
    LET ph == record[m].phase IN
    /\ source[m].phase = "moved" => ph \notin {"prepared", "closing"}
    /\ dest[m].phase # "none" => source[m].phase = "moved" /\ dest[m].sha = source[m].sha
    /\ dest[m].phase = "replacing" => dest[m].prev \subseteq dest[m].sha
    /\ ph \in {"restoring", "publishing", "complete"} => dest[m].phase = "imported"
    /\ ph \in {"publishing", "complete"} => restored[m] = "complete"

LedgerInv ==
  \A r \in Runners : ledger[r] # None /\ ledger[r].phase = "moved" =>
    source[ledger[r].op].phase = "moved"

(* The runner that has the discussion: the one that is offered, and during *)
(* a move the origin until it has given it away and the destination since  *)
(* it has received it.                                                     *)
Handed(m)   == source[m].phase = "moved"
Received(m) == dest[m].phase = "imported"

Keeps(r) ==
  \/ Invited(r)
  \/ \E m \in Ops : Moving(m) /\ r = From[m] /\ ~Handed(m)
  \/ \E m \in Ops : Moving(m) /\ r = To[m] /\ Received(m)

(* It has every turn that a move has carried, and all turns when the user  *)
(* has not strayed.                                                        *)
KeeperInv ==
  \A r \in Runners : Keeps(r) =>
    /\ \A m \in Ops : Handed(m) => source[m].sha \subseteq copy[r].h
    /\ ~strayed => copy[r] = Whole(1..turns)

(* So has the export of a move under way, and nobody has the discussion    *)
(* between its two ends.                                                   *)
TravelInv ==
  \A m \in Ops : Moving(m) /\ Handed(m) =>
    /\ \A n \in Ops : Handed(n) => source[n].sha \subseteq source[m].sha
    /\ ~Received(m) => /\ ~strayed => source[m].sha = 1..turns
                       /\ \A r \in Runners : ~Keeps(r)

KeptInv ==
  /\ \A r, s \in Runners : Keeps(r) /\ Keeps(s) => r = s
  /\ ~strayed => \A r \in Runners : writer[r] # "none" => Keeps(r)

(* What a waiting job has read is the record of an operation.              *)
EarlyInv == early # NotRead => early.op \in Ops

MoveInv ==
  /\ EarlyInv
  /\ RunnerTypes /\ ReceiptTypes /\ ControllerTypes
  /\ StageInv /\ PrevInv /\ OfferInv /\ ReachedInv
  /\ JobPhaseInv /\ JobPlaceInv /\ WaitInv
  /\ StageOfHelper /\ HelperInv /\ ReceiptInv /\ LedgerInv
  /\ KeeperInv /\ TravelInv /\ KeptInv

-----------------------------------------------------------------------------
(* The places of the job, in their order.                                  *)
LEMMA JobAfterIs ==
  /\ JobAfter("prepared") = "inspect"
  /\ JobAfter("inspect") = "vacant"
  /\ JobAfter("vacant") = "closing"
  /\ JobAfter("closing") = "origin draining"
  /\ JobAfter("origin draining") = "destination draining"
  /\ JobAfter("destination draining") = "park"
  /\ JobAfter("park") = "close"
  /\ JobAfter("close") = "copying"
  /\ JobAfter("copying") = "origin starting"
  /\ JobAfter("origin starting") = "destination starting"
  /\ JobAfter("destination starting") = "export"
  /\ JobAfter("export") = "import"
  /\ JobAfter("import") = "restoring"
  /\ JobAfter("restoring") = "restore"
  /\ JobAfter("restore") = "publishing"
  /\ JobAfter("publishing") = "verify"
  /\ JobAfter("verify") = "origin ready"
  /\ JobAfter("origin ready") = "destination ready"
  /\ JobAfter("destination ready") = "complete"
  BY DEF JobAfter

(* After each of its places the job has one.                               *)
LEMMA JobPlacesFollow ==
  ASSUME NEW pc \in JobPlaces \cup Phases, pc # "check", pc # "complete"
  PROVE  JobAfter(pc) \in JobPlaces
<1>1. pc \in {"prepared", "inspect", "vacant", "closing", "origin draining", "destination draining",
              "park", "close", "copying", "origin starting", "destination starting", "export",
              "import", "restoring", "restore", "publishing", "verify", "origin ready",
              "destination ready"}
  BY DEF JobPlaces, Phases, JobPhases, Calls, Drains, Starts, Readies
<1>2. JobAfter(pc) \in {"inspect", "vacant", "closing", "origin draining", "destination draining",
              "park", "close", "copying", "origin starting", "destination starting", "export",
              "import", "restoring", "restore", "publishing", "verify", "origin ready",
              "destination ready", "complete"}
  BY <1>1 DEF JobAfter
<1> QED
  BY <1>2 DEF JobPlaces, JobPhases, Calls, Drains, Starts, Readies

(* The placements of a move tell their stage, and which move it is.        *)
LEMMA Distinct ==
  ASSUME NEW m \in Ops, NEW n \in Ops
  PROVE  /\ Draining(m) # Starting(n) /\ Draining(m) # Ready(n) /\ Starting(m) # Ready(n)
         /\ None \notin PlacesOf(m)
         /\ Draining(m) = Draining(n) => m = n
         /\ Starting(m) = Starting(n) => m = n
         /\ Ready(m) = Ready(n) => m = n
<1>1. PlacesOf(m) \subseteq PlacementRecords
  BY ConstantsAssumption DEF PlacesOf, PlacementRecords, Draining, Starting, Ready
<1>2. None \notin PlacesOf(m)
  BY <1>1, ConstantsAssumption
<1> QED
  BY <1>2 DEF Draining, Starting, Ready

(* At the start the discussion is on the first runner, and nothing else is *)
(* anywhere.                                                               *)
LEMMA MoveStart == MoveInit => MoveInv
<1> SUFFICES ASSUME MoveInit
             PROVE  MoveInv
  OBVIOUS
<1> USE DEF MoveInit, NoJob
<1>1. \A r \in Runners : Invited(r) <=> r = First
  BY DEF Invited
<1>2. \A m \in Ops, r \in Runners : placement[r] \notin PlacesOf(m)
  BY Distinct
<1>3. Resting
  BY <1>2 DEF Resting, Moving, PlacesOf
<1>4. RunnerTypes
  BY ConstantsAssumption DEF RunnerTypes, Copies, Whole, Absent, Published
<1>5. ReceiptTypes
  BY DEF ReceiptTypes, Exported, Bundles
<1>6. ControllerTypes
  BY ConstantsAssumption DEF ControllerTypes, Records, Phases, Published
<1>7. StageInv
  BY <1>2, ConstantsAssumption DEF StageInv, PlacesOf
<1>8. PrevInv /\ OfferInv
  BY <1>1, <1>3 DEF PrevInv, OfferInv, Resting
<1>9. ReachedInv
  BY <1>2, ConstantsAssumption DEF ReachedInv, Reached, PlacesOf
<1>10. JobPhaseInv /\ JobPlaceInv /\ WaitInv
  BY DEF JobPhaseInv, JobPlaceInv, WaitInv
<1>11. StageOfHelper /\ HelperInv /\ LedgerInv
  BY DEF StageOfHelper, HelperInv, LedgerInv
<1>12. ReceiptInv
  BY DEF ReceiptInv
<1>13. \A r \in Runners : Keeps(r) <=> r = First
  BY <1>1, <1>3 DEF Keeps, Resting
<1>14. KeeperInv
  BY <1>13 DEF KeeperInv, Handed, Whole
<1>15. TravelInv /\ KeptInv
  BY <1>3, <1>13 DEF TravelInv, KeptInv, Resting
<1>16. EarlyInv
  BY DEF EarlyInv
<1> QED
  BY <1>16, <1>4, <1>5, <1>6, <1>7, <1>8, <1>9, <1>10, <1>11, <1>12, <1>14, <1>15 DEF MoveInv

(* The steps that do not touch what waits for the lock.                    *)
LEMMA WaitingFrame ==
  ASSUME [MoveNext]_moveVars
  PROVE  UNCHANGED waiting \/ BeginLate \/ \E m \in Ops : ReadEarly(m)
<1>1. CASE (\E m \in Ops : Begin(m)) \/ JobStep \/ GiveUp \/ UNCHANGED moveVars
  BY <1>1 DEF Begin, JobStep, Check, Inspect, Checkpoint, Publish, Call, JobRefuses, GiveUp,
     moveVars, waiting
<1>2. ASSUME NEW r \in Runners, HelperStep(r)
      PROVE  UNCHANGED waiting
  BY <1>2 DEF HelperStep, Close, Freeze, Recheck, Archive, Quiesce, Seal, Closed, Export, Own,
     Import, Remove, Strip, Removed, Install, Fill, Imported, Restore, Launch, Staged, Verified,
     HelperRefuses, waiting
<1>3. ASSUME NEW r \in Runners, UserStep(r) \/ KillHelper(r) \/ Restart(r)
      PROVE  UNCHANGED waiting
  BY <1>3 DEF UserStep, Open, CloseClient, BeginTurn, EndTurn, KillHelper, Restart, waiting
<1> QED
  BY <1>1, <1>2, <1>3 DEF MoveNext

(* The steps that concern a move, when no job goes on from a phase that    *)
(* another job has changed: one that takes up an operation, one of the     *)
(* job, of a runner or of the user, and one that only waits for the lock.  *)
Takes(m) ==
  /\ job = NoJob
  /\ record[m].phase # "complete"
  /\ TakesUp(m)
  /\ UNCHANGED <<discussion, placement, helper, receipts, record, user>>

Waits ==
  /\ UNCHANGED <<discussion, placement, helper, receipts, record, job, turns, strayed>>
  /\ left' \in {left, left - 1} \cap Nat

MoveStep ==
  \/ \E m \in Ops : Takes(m)
  \/ Waits
  \/ JobStep \/ GiveUp
  \/ \E r \in Runners : HelperStep(r) \/ UserStep(r) \/ KillHelper(r) \/ Restart(r)

(* A job that goes on from what is still recorded takes up its operation   *)
(* as any other does.                                                      *)
LEMMA LateIsBegin ==
  ASSUME MoveInv, BeginLate, ~overtaken'
  PROVE  Waits \/ \E m \in Ops : Takes(m)
<1>1. left \in Nat /\ record \in [Ops -> Records] /\ early.op \in Ops
  BY DEF BeginLate, MoveInv, ControllerTypes, EarlyInv
<1>2. CASE job # NoJob \/ early.phase = "complete"
  BY <1>1, <1>2 DEF BeginLate, Waits, user
<1>3. CASE ~(job # NoJob \/ early.phase = "complete")
  <2> DEFINE read == [phase |-> early.phase, prev |-> early.prev]
  <2>1. /\ record' = [record EXCEPT ![early.op] = read] /\ TakesUp(early.op)
        /\ overtaken' = (overtaken \/ record[early.op] # read)
        /\ UNCHANGED <<discussion, placement, helper, receipts, user>>
    BY <1>3 DEF BeginLate
  <2>2. record[early.op] = read /\ job = NoJob
    BY <1>3, <2>1
  <2>3. record' = record
    BY <1>1, <2>1, <2>2
  <2>4. record[early.op].phase # "complete"
    BY <1>3, <2>2
  <2>5. Takes(early.op)
    BY <2>1, <2>2, <2>3, <2>4 DEF Takes
  <2> QED
    BY <1>1, <2>5
<1> QED
  BY <1>2, <1>3

LEMMA StepIs ==
  ASSUME MoveInv, [MoveNext]_moveVars, ~overtaken'
  PROVE  MoveStep
<1>1. left \in Nat
  BY DEF MoveInv, ControllerTypes
<1>2. CASE UNCHANGED moveVars
  BY <1>1, <1>2 DEF moveVars, user, MoveStep, Waits
<1>3. ASSUME NEW m \in Ops, Begin(m)
      PROVE  MoveStep
  BY <1>3 DEF Begin, Takes, MoveStep
<1>4. ASSUME NEW m \in Ops, ReadEarly(m)
      PROVE  MoveStep
  <2>1. Waits
    BY <1>1, <1>4 DEF ReadEarly, Spend, Waits
  <2> QED
    BY <2>1 DEF MoveStep
<1>5. CASE BeginLate
  BY <1>5, LateIsBegin DEF MoveStep
<1> QED
  BY <1>2, <1>3, <1>4, <1>5 DEF MoveNext, MoveStep

(* What a job has read is of an operation.                                 *)
LEMMA EarlyNext ==
  ASSUME EarlyInv, [MoveNext]_moveVars
  PROVE  EarlyInv'
<1>1. CASE early' \in {early, NotRead}
  BY <1>1 DEF EarlyInv
<1>2. ASSUME NEW m \in Ops, ReadEarly(m)
      PROVE  EarlyInv'
  BY <1>2 DEF ReadEarly, EarlyInv
<1>3. CASE UNCHANGED waiting \/ BeginLate
  BY <1>1, <1>3 DEF waiting, BeginLate
<1> QED
  BY <1>2, <1>3, WaitingFrame

(* Which steps change what.                                                *)
LEMMA Frame ==
  ASSUME MoveStep
  PROVE
  /\ copy' = copy \/ (\E r \in Runners : Remove(r) \/ Strip(r) \/ Install(r)
       \/ Fill(r) \/ EndTurn(r))
  /\ writer' = writer \/ (\E r \in Runners : Archive(r) \/ Launch(r) \/
       Open(r) \/ CloseClient(r) \/ BeginTurn(r) \/ EndTurn(r) \/ Restart(r))
  /\ frozen' = frozen \/ (\E r \in Runners : Freeze(r) \/ Archive(r) \/
       HelperRefuses(r) \/ Restart(r))
  /\ ledger' = ledger \/ (\E r \in Runners : Own(r))
  /\ placement' = placement \/ Publish
  /\ manifest' = manifest \/ Inspect \/ (\E r \in Runners : Freeze(r) \/
       Recheck(r) \/ Closed(r))
  /\ source' = source \/ (\E r \in Runners : Seal(r) \/ Export(r))
  /\ dest' = dest \/ (\E r \in Runners : Import(r) \/ Removed(r) \/
       Imported(r))
  /\ restored' = restored \/ (\E r \in Runners : Restore(r) \/ Staged(r))
  /\ record' = record \/ Checkpoint
  /\ turns' = turns \/ (\E r \in Runners : EndTurn(r))
  /\ strayed' = strayed \/ (\E r \in Runners : Open(r))
<1>1. CASE (\E m \in Ops : Takes(m)) \/ Check \/ Call \/ JobRefuses \/ GiveUp
          \/ (\E r \in Runners : Close(r) \/ Quiesce(r) \/ Verified(r) \/
          KillHelper(r))
  <2>1. UNCHANGED <<copy, writer, frozen, ledger, placement, manifest, source, dest, restored,
                    record, turns, strayed>>
    BY <1>1 DEF Takes, TakesUp, Check, Call, JobRefuses, GiveUp, Close, Quiesce,
      Verified, KillHelper, discussion, receipts, user
  <2> QED
    BY <1>1, <2>1
<1>2. CASE Inspect \/ (\E r \in Runners : Recheck(r) \/ Closed(r))
  <2>1. UNCHANGED <<copy, writer, frozen, ledger, placement, source, dest, restored, record,
                    turns, strayed>>
    BY <1>2 DEF Inspect, Recheck, Closed, discussion, receipts, user
  <2> QED
    BY <1>2, <2>1
<1>3. CASE Checkpoint
  <2>1. UNCHANGED <<copy, writer, frozen, ledger, placement, manifest, source, dest, restored,
                    turns, strayed>>
    BY <1>3 DEF Checkpoint, discussion, receipts, user
  <2> QED
    BY <1>3, <2>1
<1>4. CASE Publish
  <2>1. UNCHANGED <<copy, writer, frozen, ledger, manifest, source, dest, restored, record,
                    turns, strayed>>
    BY <1>4 DEF Publish, discussion, receipts, user
  <2> QED
    BY <1>4, <2>1
<1>5. CASE (\E r \in Runners : Seal(r) \/ Export(r))
  <2>1. UNCHANGED <<copy, writer, frozen, ledger, placement, manifest, dest, restored, record,
                    turns, strayed>>
    BY <1>5 DEF Seal, Export, discussion, receipts, user
  <2> QED
    BY <1>5, <2>1
<1>6. CASE (\E r \in Runners : Own(r))
  <2>1. UNCHANGED <<copy, writer, frozen, placement, manifest, source, dest, restored, record,
                    turns, strayed>>
    BY <1>6 DEF Own, discussion, receipts, user
  <2> QED
    BY <1>6, <2>1
<1>7. CASE (\E r \in Runners : Import(r) \/ Removed(r) \/ Imported(r))
  <2>1. UNCHANGED <<copy, writer, frozen, ledger, placement, manifest, source, restored,
                    record, turns, strayed>>
    BY <1>7 DEF Import, Removed, Imported, discussion, receipts, user
  <2> QED
    BY <1>7, <2>1
<1>8. CASE (\E r \in Runners : Remove(r) \/ Strip(r) \/ Install(r) \/ Fill(r))
  <2>1. UNCHANGED <<writer, frozen, ledger, placement, manifest, source, dest, restored,
                    record, turns, strayed>>
    BY <1>8 DEF Remove, Strip, Install, Fill, discussion, receipts, user
  <2> QED
    BY <1>8, <2>1
<1>9. CASE (\E r \in Runners : Restore(r) \/ Staged(r))
  <2>1. UNCHANGED <<copy, writer, frozen, ledger, placement, manifest, source, dest, record,
                    turns, strayed>>
    BY <1>9 DEF Restore, Staged, discussion, receipts, user
  <2> QED
    BY <1>9, <2>1
<1>10. CASE (\E r \in Runners : Launch(r) \/ CloseClient(r) \/ BeginTurn(r))
  <2>1. UNCHANGED <<copy, frozen, ledger, placement, manifest, source, dest, restored, record,
                    turns, strayed>>
    BY <1>10 DEF Launch, CloseClient, BeginTurn, discussion, receipts, user
  <2> QED
    BY <1>10, <2>1
<1>11. CASE (\E r \in Runners : HelperRefuses(r))
  <2>1. UNCHANGED <<copy, writer, ledger, placement, manifest, source, dest, restored, record,
                    turns, strayed>>
    BY <1>11 DEF HelperRefuses, discussion, receipts, user
  <2> QED
    BY <1>11, <2>1
<1>12. CASE (\E r \in Runners : Freeze(r))
  <2>1. UNCHANGED <<copy, writer, ledger, placement, source, dest, restored, record, turns,
                    strayed>>
    BY <1>12 DEF Freeze, discussion, receipts, user
  <2> QED
    BY <1>12, <2>1
<1>13. CASE (\E r \in Runners : Archive(r) \/ Restart(r))
  <2>1. UNCHANGED <<copy, ledger, placement, manifest, source, dest, restored, record, turns,
                    strayed>>
    BY <1>13 DEF Archive, Restart, discussion, receipts, user
  <2> QED
    BY <1>13, <2>1
<1>14. CASE (\E r \in Runners : Open(r))
  <2>1. UNCHANGED <<copy, frozen, ledger, placement, manifest, source, dest, restored, record,
                    turns>>
    BY <1>14 DEF Open, discussion, receipts, user
  <2> QED
    BY <1>14, <2>1
<1>15. CASE (\E r \in Runners : EndTurn(r))
  <2>1. UNCHANGED <<frozen, ledger, placement, manifest, source, dest, restored, record,
                    strayed>>
    BY <1>15 DEF EndTurn, discussion, receipts, user
  <2> QED
    BY <1>15, <2>1
<1>16. CASE Waits
  BY <1>16 DEF Waits, discussion, receipts, user
<1> QED   BY <1>1, <1>2, <1>3, <1>4, <1>5, <1>6, <1>7, <1>8, <1>9, <1>10,
      <1>11, <1>12, <1>13, <1>14, <1>15, <1>16
  DEF MoveStep, JobStep, HelperStep, UserStep

(* A helper answers the job that waits for it once its command is done.    *)
Answers(r) ==
  /\ helper'[r] = None
  /\ job' = [job EXCEPT !.pc = JobAfter(job.pc), !.wait = FALSE]
  /\ job.pc = "export" => source'[job.op].phase = "moved"
  /\ job.pc = "import" => dest'[job.op].phase = "imported"
  /\ job.pc \in {"restore", "verify"} => restored'[job.op] = "complete"

Goes(r) ==
  /\ helper[r] # None /\ helper'[r] \in Helpers /\ helper'[r].op = Op(r)
  /\ \E c \in Calls \ {"verify"} : {helper[r].pc, helper'[r].pc} \subseteq CallPlaces(c)
  /\ helper[r].pc = "restore" => record[Op(r)].phase = "restoring"
  /\ job' = job

(* A helper that fails ends, and with it the job that waits for it.        *)
LEMMA HelperEnds ==
  ASSUME MoveInv, NEW r \in Runners, Fail(r)
  PROVE  /\ \A s \in Runners \ {r} : helper'[s] = helper[s]
         /\ helper' = [helper EXCEPT ![r] = helper'[r]]
         /\ helper'[r] = None
         /\ Awaited(r) => job' = NoJob
         /\ ~Awaited(r) => job' = job
<1>1. helper' = [helper EXCEPT ![r] = None]
  BY DEF Fail
<1>2. helper \in [Runners -> Helpers \cup {None}]
  BY DEF MoveInv, RunnerTypes
<1>3. /\ Awaited(r) => job' = NoJob
      /\ ~Awaited(r) => job' = job
  BY DEF Fail
<1> QED
  BY <1>1, <1>2, <1>3

(* A helper goes from place to place of its command.                       *)
LEMMA HelperGoes ==
  ASSUME MoveInv, NEW r \in Runners, helper[r] # None, NEW pc, Then(r, pc),
         NEW c \in Calls \ {"verify"}, helper[r].pc \in CallPlaces(c), pc \in CallPlaces(c),
         helper[r].pc = "restore" => record[Op(r)].phase = "restoring"
  PROVE  /\ \A s \in Runners \ {r} : helper'[s] = helper[s]
         /\ helper' = [helper EXCEPT ![r] = helper'[r]]
         /\ helper'[r].pc = pc
         /\ Goes(r)
<1>1. helper[r] \in Helpers
  BY DEF MoveInv, RunnerTypes
<1>2. helper' = [helper EXCEPT ![r] = [helper[r] EXCEPT !.pc = pc]] /\ job' = job
  BY DEF Then
<1>3. helper'[r] = [helper[r] EXCEPT !.pc = pc] /\ \A s \in Runners \ {r} : helper'[s] = helper[s]
  BY <1>2 DEF MoveInv, RunnerTypes
<1>4. pc \in Closing \cup Exports \cup Imports \cup Restores
  BY DEF Calls, CallPlaces
<1>5. helper'[r] \in Helpers /\ helper'[r].op = Op(r) /\ helper'[r].pc = pc
  BY <1>1, <1>3, <1>4 DEF Helpers, Op
<1> QED
  BY <1>2, <1>3, <1>5 DEF Goes
(* A helper that succeeds has done what its receipts say.                  *)
LEMMA HelperSucceeds ==
  ASSUME MoveInv, NEW r \in Runners, helper[r] # None, Succeed(r),
         helper[r].pc \in Exports => source'[Op(r)].phase = "moved",
         helper[r].pc \in Imports => dest'[Op(r)].phase = "imported",
         helper[r].pc \in Restores => restored'[Op(r)] = "complete"
  PROVE  /\ \A s \in Runners \ {r} : helper'[s] = helper[s]
         /\ helper' = [helper EXCEPT ![r] = helper'[r]]
         /\ helper' = [helper EXCEPT ![r] = helper'[r]]
         /\ helper'[r] = None
         /\ Awaited(r) => Answers(r)
         /\ ~Awaited(r) => job' = job
<1>1. helper' = [helper EXCEPT ![r] = None]
  BY DEF Succeed
<1>2. helper \in [Runners -> Helpers \cup {None}]
  BY DEF MoveInv, RunnerTypes
<1>3. /\ Awaited(r) => job' = [job EXCEPT !.pc = JobAfter(job.pc), !.wait = FALSE]
      /\ ~Awaited(r) => job' = job
  BY DEF Succeed, JobGoto
<1>4. ASSUME Awaited(r)
      PROVE  Answers(r)
  <2>1. job.op = Op(r) /\ helper[r].pc \in CallPlaces(job.pc)
    BY <1>4 DEF MoveInv, WaitInv, Awaited
  <2>2. /\ job.pc = "export" => helper[r].pc \in Exports
        /\ job.pc = "import" => helper[r].pc \in Imports
        /\ job.pc \in {"restore", "verify"} => helper[r].pc \in Restores
    BY <2>1 DEF CallPlaces, Restores
  <2>3. helper'[r] = None
    BY <1>1, <1>2
  <2> QED
    <3>1. /\ job.pc = "export" => source'[job.op].phase = "moved"
          /\ job.pc = "import" => dest'[job.op].phase = "imported"
          /\ job.pc \in {"restore", "verify"} => restored'[job.op] = "complete"
      BY <2>1, <2>2
    <3> QED
      BY <1>3, <1>4, <2>3, <3>1 DEF Answers
<1> QED
  BY <1>1, <1>2, <1>3, <1>4

HelperMoved(r) ==
  /\ \A s \in Runners \ {r} : helper'[s] = helper[s]
  /\ helper' = [helper EXCEPT ![r] = helper'[r]]
  /\ \/ Goes(r)
     \/ /\ helper'[r] = None
        /\ Awaited(r) => job' = NoJob \/ Answers(r)
        /\ ~Awaited(r) => job' = job

(* Every step of a runner moves or ends the helper of this runner only.    *)
LEMMA HelperMoves ==
  ASSUME MoveInv, NEW r \in Runners, HelperStep(r) \/ KillHelper(r) \/ Restart(r)
  PROVE  HelperMoved(r)
<1> USE DEF HelperMoved
<1>1. ASSUME NEW c \in Calls \ {"verify"}, NEW pc, helper[r] # None, Then(r, pc),
             helper[r].pc \in CallPlaces(c), pc \in CallPlaces(c), helper[r].pc # "restore"
      PROVE  HelperMoved(r)
  BY <1>1, HelperGoes
<1>2. CASE Freeze(r)
  BY <1>1, <1>2 DEF Freeze, Doing, Calls, CallPlaces, Closing
<1>3. CASE Recheck(r)
  BY <1>1, <1>3 DEF Recheck, Doing, Calls, CallPlaces, Closing
<1>4. CASE Archive(r)
  BY <1>1, <1>4 DEF Archive, Doing, Calls, CallPlaces, Closing
<1>5. CASE Quiesce(r)
  BY <1>1, <1>5 DEF Quiesce, Doing, Calls, CallPlaces, Closing
<1>6. CASE Seal(r)
  BY <1>1, <1>6 DEF Seal, Doing, Calls, CallPlaces, Closing
<1>7. CASE Export(r)
  BY <1>1, <1>7 DEF Export, Doing, Calls, CallPlaces, Exports
<1>8. CASE Remove(r)
  BY <1>1, <1>8 DEF Remove, Doing, Calls, CallPlaces, Imports
<1>9. CASE Strip(r)
  BY <1>1, <1>9 DEF Strip, Doing, Calls, CallPlaces, Imports
<1>10. CASE Removed(r)
  BY <1>1, <1>10 DEF Removed, Doing, Calls, CallPlaces, Imports
<1>11. CASE Install(r)
  BY <1>1, <1>11 DEF Install, Doing, Calls, CallPlaces, Imports
<1>12. CASE Fill(r)
  BY <1>1, <1>12 DEF Fill, Doing, Calls, CallPlaces, Imports
<1>13. CASE Imported(r)
  BY <1>1, <1>13 DEF Imported, Doing, Calls, CallPlaces, Imports
<1>14. CASE Launch(r)
  BY <1>1, <1>14 DEF Launch, Doing, Calls, CallPlaces, Restores
<1>15. CASE Staged(r)
  <2>1. CASE Doing(r, "list") /\ Then(r, "await")
    BY <1>1, <2>1 DEF Doing, Calls, CallPlaces, Restores
  <2>2. CASE Doing(r, "await") /\ Then(r, "verified")
    BY <1>1, <2>2 DEF Doing, Calls, CallPlaces, Restores
  <2> QED
    BY <1>15, <2>1, <2>2 DEF Staged
<1>16. CASE Close(r)
  <2>1. CASE manifest[Op(r)] = "closed"
    BY <1>16, <2>1, HelperSucceeds DEF Close, Doing, Exports, Imports, Restores
  <2>2. CASE manifest[Op(r)] # "closed" /\ writer[r] = "none"
    BY <1>1, <1>16, <2>2 DEF Close, Doing, Calls, CallPlaces, Closing
  <2>3. CASE manifest[Op(r)] # "closed" /\ writer[r] # "none"
    BY <1>1, <1>16, <2>3 DEF Close, Doing, Calls, CallPlaces, Closing
  <2> QED
    BY <2>1, <2>2, <2>3
<1>17. CASE Closed(r)
  BY <1>17, HelperSucceeds DEF Closed, Doing, Exports, Imports, Restores
<1>18. CASE Own(r)
  <2>1. /\ helper[r] # None
        /\ helper[r].pc \in {"moved", "here"}
        /\ Succeed(r)
        /\ UNCHANGED <<source, dest>>
    BY <1>18 DEF Own, Doing
  <2>2. /\ helper[r].pc = "moved" => source'[Op(r)].phase = "moved"
        /\ helper[r].pc = "here" => dest'[Op(r)].phase = "imported"
    <3> DEFINE m == Op(r)
    <3>1. /\ (helper[r].pc = "moved" => source[m].phase = "moved")
          /\ (helper[r].pc = "here" => dest[m].phase = "imported")
      BY <2>1 DEF MoveInv, HelperInv
    <3>2. /\ (helper[r].pc = "moved" => source'[m].phase = "moved")
          /\ (helper[r].pc = "here" => dest'[m].phase = "imported")
      BY <2>1, <3>1
    <3> QED
      BY <3>2
  <2> QED
    BY <2>1, <2>2, HelperSucceeds DEF Exports, Imports, Restores
<1>19. CASE Import(r)
  <2>1. Doing(r, "import")
    BY <1>19 DEF Import
  <2>2. CASE dest[Op(r)].phase = "imported"
    <3>1. Succeed(r) /\ dest' = dest
      BY <1>19, <2>2 DEF Import
    <3>2. dest'[Op(r)].phase = "imported"
      BY <2>2, <3>1
    <3> QED
      BY <2>1, <3>1, <3>2, HelperSucceeds DEF Doing, Exports, Imports, Restores
  <2>3. ASSUME Then(r, "remove") \/ Then(r, "install")
        PROVE  HelperMoved(r)
    BY <1>1, <2>1, <2>3 DEF Doing, Calls, CallPlaces, Imports
  <2>4. CASE dest[Op(r)].phase # "imported"
    <3>1. dest'[Op(r)].phase \in {"importing", "replacing"}
      <4>1. Op(r) \in Ops /\ dest[Op(r)] \in Bundles
        BY <2>1 DEF MoveInv, RunnerTypes, ReceiptTypes, Helpers, Doing, Op
      <4> QED
        BY <1>19, <2>4, <4>1 DEF Import, Bundles, MoveInv, ReceiptTypes
    <3> QED
      BY <1>19, <2>3, <2>4, <3>1 DEF Import
  <2> QED
    BY <2>2, <2>4
<1>20. CASE Restore(r)
  <2>1. Doing(r, "restore") /\ Op(r) \in Ops
    BY <1>20 DEF Restore, MoveInv, RunnerTypes, Helpers, Doing, Op
  <2>2. CASE restored[Op(r)] = "complete"
    <3>1. Succeed(r) /\ restored'[Op(r)] = "complete"
      BY <1>20, <2>1, <2>2 DEF Restore, MoveInv, ReceiptTypes
    <3> QED
      BY <2>1, <3>1, HelperSucceeds DEF Doing, Exports, Imports, Restores
  <2>3. CASE restored[Op(r)] # "complete"
    <3>1. record[Op(r)].phase = "restoring"
      BY <2>1, <2>3 DEF MoveInv, StageOfHelper, ReceiptInv, Doing, Op
    <3>2. Then(r, "await") \/ Then(r, "launch")
      BY <1>20, <2>3 DEF Restore
    <3>3. /\ "restore" \in Calls \ {"verify"}
          /\ {"restore", "await", "launch"} \subseteq CallPlaces("restore")
      BY DEF Calls, CallPlaces, Restores
    <3> QED
      BY <2>1, <3>1, <3>2, <3>3, HelperGoes DEF Doing
  <2> QED
    BY <2>2, <2>3
<1>21. CASE Verified(r)
  <2>1. helper[r] # None /\ helper[r].pc = "verified" /\ Succeed(r) /\ restored' = restored
    BY <1>21 DEF Verified, Doing, receipts
  <2>2. restored'[Op(r)] = "complete"
    BY <2>1 DEF MoveInv, HelperInv, Op
  <2> QED
    BY <2>1, <2>2, HelperSucceeds DEF Exports, Imports, Restores
<1>22. CASE HelperRefuses(r) \/ KillHelper(r) \/ Restart(r)
  BY <1>22, HelperEnds DEF HelperRefuses, KillHelper, Restart
<1> QED
  BY <1>2, <1>3, <1>4, <1>5, <1>6, <1>7, <1>8, <1>9, <1>10, <1>11, <1>12, <1>13, <1>14, <1>15,
     <1>16, <1>17, <1>18, <1>19, <1>20, <1>21, <1>22
  DEF HelperStep

(* Each step keeps the types, ...                                          *)
LEMMA HelperIs ==
  ASSUME MoveInv, NEW r \in Runners, helper[r] # None
  PROVE  /\ Op(r) \in Ops /\ helper[r] \in Helpers
         /\ source[Op(r)] \in Exported /\ dest[Op(r)] \in Bundles
         /\ copy[r] \in Copies
  BY DEF MoveInv, RunnerTypes, ReceiptTypes, Helpers, Op

(* A job works for a move between two runners.                             *)
LEMMA JobIs ==
  ASSUME MoveInv, job # NoJob
  PROVE  /\ job \in Jobs /\ job.op \in Ops /\ job.pc \in JobPlaces
         /\ From[job.op] \in Runners /\ To[job.op] \in Runners /\ Box \in Runners
         /\ From[job.op] # To[job.op]
  BY ConstantsAssumption DEF MoveInv, ControllerTypes, Jobs, Box

(* No job, no place.                                                       *)
LEMMA NoJobIdle == NoJob.pc = "idle" /\ NoJob.op = None /\ ~NoJob.wait
  BY DEF NoJob

(* The job takes its steps when there is one.                              *)
LEMMA JobActs ==
  ASSUME Check \/ Inspect \/ Checkpoint \/ Publish \/ Call \/ JobRefuses \/ GiveUp
  PROVE  job # NoJob
  BY NoJobIdle DEF Check, Inspect, Checkpoint, Publish, Call, JobRefuses, GiveUp, JobPhases,
     Calls, Drains, Starts, Readies

(* Copies stay copies.                                                     *)
LEMMA CopyTypes ==
  ASSUME MoveInv, MoveStep
  PROVE  copy' \in [Runners -> Copies]
<1>1. copy \in [Runners -> Copies] /\ turns \in Nat
  BY DEF MoveInv, RunnerTypes, ControllerTypes
<1>2. ASSUME NEW r \in Runners, NEW c \in Copies, copy' = [copy EXCEPT ![r] = c]
      PROVE  copy' \in [Runners -> Copies]
  BY <1>1, <1>2
<1>3. ASSUME NEW r \in Runners, Remove(r) \/ Strip(r) \/ Install(r) \/ Fill(r)
      PROVE  copy' \in [Runners -> Copies]
  <2>1. helper[r] # None
    BY <1>3 DEF Remove, Strip, Install, Fill, Doing
  <2>2. copy[r] \in Copies /\ dest[Op(r)].sha \in SUBSET Nat
    BY <2>1, HelperIs DEF Bundles
  <2>3. /\ Absent \in Copies /\ Part(copy[r].h) \in Copies
        /\ Part(dest[Op(r)].sha) \in Copies /\ Whole(dest[Op(r)].sha) \in Copies
    BY <2>2 DEF Copies, Absent, Part, Whole
  <2>4. CASE Remove(r)
    BY <1>2, <2>2, <2>3, <2>4 DEF Remove
  <2>5. CASE Install(r)
    BY <1>2, <2>2, <2>3, <2>5 DEF Install
  <2>6. CASE Strip(r) \/ Fill(r)
    BY <1>2, <2>3, <2>6 DEF Strip, Fill
  <2> QED
    BY <1>3, <2>4, <2>5, <2>6
<1>4. ASSUME NEW r \in Runners, EndTurn(r)
      PROVE  copy' \in [Runners -> Copies]
  <2>1. Whole(copy[r].h \cup {turns'}) \in Copies
    BY <1>1, <1>4 DEF EndTurn, Copies, Whole
  <2> QED
    BY <1>2, <1>4, <2>1 DEF EndTurn
<1> QED
  BY <1>1, <1>3, <1>4, Frame

(* What a publication changes.                                             *)
LEMMA PublishIs ==
  ASSUME MoveInv, Publish
  PROVE  /\ job.pc \in Drains \cup Starts \cup Readies
         /\ placement' = [placement EXCEPT ![Box] =
              IF job.pc \in Drains THEN Draining(job.op)
              ELSE IF job.pc \in Starts THEN Starting(job.op) ELSE Ready(job.op)]
         /\ job' = [job EXCEPT !.pc = JobAfter(job.pc), !.wait = FALSE]
         /\ UNCHANGED <<discussion, helper, receipts, record, user>>
<1>1. CASE job.pc \in Drains
  BY <1>1 DEF Publish, JobGoto, Draining, Drains, Starts, Readies
<1>2. CASE job.pc \in Starts
  BY <1>2 DEF Publish, JobGoto, Starting, Drains, Starts, Readies
<1>3. CASE job.pc \in Readies
  BY <1>3 DEF Publish, JobGoto, Ready, Drains, Starts, Readies
<1> QED
  BY <1>1, <1>2, <1>3 DEF Publish

(* A move may publish its three placements.                                *)
LEMMA OwnPlacements ==
  ASSUME NEW m \in Ops
  PROVE  Draining(m) \in Published /\ Starting(m) \in Published /\ Ready(m) \in Published
  BY DEF Published, PlacesOf

(* The files and processes of a runner keep their types.                   *)
LEMMA RunnerTypesNext ==
  ASSUME MoveInv, MoveStep
  PROVE  RunnerTypes'
<1> USE DEF MoveInv, RunnerTypes
<1>1. writer' \in [Runners -> {"none", "idle", "active"}]
  <2>1. ASSUME NEW r \in Runners, NEW w \in {"none", "idle", "active"}, writer' = [writer EXCEPT ![r] = w]
        PROVE  writer' \in [Runners -> {"none", "idle", "active"}]
    BY <2>1
  <2>2. ASSUME NEW r \in Runners, Archive(r) \/ CloseClient(r) \/ BeginTurn(r) \/ EndTurn(r) \/ Restart(r) \/ Open(r)
        PROVE  writer' \in [Runners -> {"none", "idle", "active"}]
    BY <2>1, <2>2 DEF Archive, Open, CloseClient, BeginTurn, EndTurn, Restart
  <2>3. ASSUME NEW r \in Runners, Launch(r)
        PROVE  writer' \in [Runners -> {"none", "idle", "active"}]
    BY <2>3 DEF Launch
  <2> QED
    BY <2>2, <2>3, Frame
<1>2. frozen' \in [Runners -> BOOLEAN]
  BY Frame DEF Freeze, Archive, HelperRefuses, Restart
<1>3. ledger' \in [Runners -> Ledgers \cup {None}]
  <2>1. ASSUME NEW r \in Runners, Own(r)
        PROVE  ledger' \in [Runners -> Ledgers \cup {None}]
    <3>1. [op |-> Op(r), phase |-> helper[r].pc] \in Ledgers
      BY <2>1, HelperIs DEF Own, Doing, Ledgers
    <3> QED
      BY <2>1, <3>1 DEF Own
  <2> QED
    BY <2>1, Frame
<1>4. placement' \in [Runners -> Published]
  <2>1. CASE Publish
    BY <2>1, PublishIs, JobIs, JobActs, OwnPlacements
  <2> QED
    BY <2>1, Frame
<1>5. helper' \in [Runners -> Helpers \cup {None}]
  <2>1. CASE Call
    <3>1. [op |-> job.op, pc |-> IF job.pc = "verify" THEN "restore" ELSE job.pc] \in Helpers
      <4>1. job.op \in Ops /\ job.pc \in Calls
        BY <2>1, JobIs, JobActs DEF Call
      <4> QED
        BY <4>1 DEF Helpers, Calls, Closing, Exports, Imports, Restores
    <3> QED
      BY <2>1, <3>1 DEF Call
  <2>2. ASSUME NEW r \in Runners, HelperStep(r) \/ KillHelper(r) \/ Restart(r)
        PROVE  helper' \in [Runners -> Helpers \cup {None}]
    <3>1. HelperMoved(r)
      BY <2>2, HelperMoves
    <3> QED
      BY <3>1 DEF HelperMoved, Goes
  <2>3. CASE helper' = helper
    BY <2>3
  <2> QED
    BY <2>1, <2>2, <2>3 DEF MoveStep, JobStep, UserStep, Takes, TakesUp, Check, Inspect, Checkpoint,
       Publish, JobRefuses, GiveUp, Open, CloseClient, BeginTurn, EndTurn, Waits, discussion, receipts
<1>6. copy' \in [Runners -> Copies]
  BY CopyTypes
<1> QED
  BY <1>1, <1>2, <1>3, <1>4, <1>5, <1>6

(* So do the receipts of a move, ...                                       *)
LEMMA ReceiptTypesNext ==
  ASSUME MoveInv, MoveStep
  PROVE  ReceiptTypes'
<1> USE DEF MoveInv, ReceiptTypes
<1>1. manifest' \in [Ops -> {"none", "inventoried", "closing", "closed"}]
  BY Frame DEF Inspect, Freeze, Recheck, Closed
<1>2. panes' \in [Ops -> BOOLEAN]
  <2>1. CASE Inspect
    BY <2>1 DEF Inspect
  <2>2. ASSUME NEW r \in Runners, Restart(r)
        PROVE  panes' \in [Ops -> BOOLEAN]
    BY <2>2 DEF Restart
  <2>3. CASE panes' = panes
    BY <2>3
  <2> QED
    BY <2>1, <2>2, <2>3 DEF MoveStep, JobStep, HelperStep, UserStep, Takes, TakesUp, Check, Checkpoint,
       Publish,
       Call, JobRefuses, GiveUp, Close, Freeze, Recheck, Archive, Quiesce, Seal, Closed,
       Export, Own,
       Import, Remove, Strip, Removed, Install, Fill, Imported, Restore, Launch, Staged,
       Verified,
       HelperRefuses, Open, CloseClient, BeginTurn, EndTurn, KillHelper, Waits, discussion, receipts
<1>3. source' \in [Ops -> Exported]
  <2>1. ASSUME NEW r \in Runners, Seal(r) \/ Export(r)
        PROVE  source' \in [Ops -> Exported]
    <3>1. helper[r] # None
      BY <2>1 DEF Seal, Export, Doing
    <3>2. copy[r].h \in SUBSET Nat /\ Op(r) \in Ops /\ source[Op(r)] \in Exported
      BY <3>1, HelperIs DEF Copies
    <3>3. CASE Seal(r)
      <4>1. [phase |-> "sealing", sha |-> copy[r].h] \in Exported
        BY <3>2 DEF Exported
      <4> QED
        BY <3>2, <3>3, <4>1 DEF Seal
    <3>4. CASE Export(r)
      <4>1. [source[Op(r)] EXCEPT !.phase = "moved"] \in Exported
        BY <3>2 DEF Exported
      <4> QED
        BY <3>2, <3>4, <4>1 DEF Export
    <3> QED
      BY <2>1, <3>3, <3>4
  <2> QED
    BY <2>1, Frame
<1>4. dest' \in [Ops -> Bundles]
  <2>1. ASSUME NEW r \in Runners, Import(r) \/ Removed(r) \/ Imported(r)
        PROVE  dest' \in [Ops -> Bundles]
    <3>1. helper[r] # None
      BY <2>1 DEF Import, Removed, Imported, Doing
    <3>2. /\ copy[r].h \in SUBSET Nat /\ Op(r) \in Ops
          /\ source[Op(r)].sha \in SUBSET Nat /\ dest[Op(r)] \in Bundles
      BY <3>1, HelperIs DEF Copies, Exported
    <3>3. ASSUME NEW b \in Bundles, dest' = [dest EXCEPT ![Op(r)] = b]
          PROVE  dest' \in [Ops -> Bundles]
      BY <3>3
    <3>4. CASE Import(r)
      <4>1. [phase |-> IF copy[r] = Absent THEN "importing" ELSE "replacing",
             sha |-> source[Op(r)].sha, prev |-> copy[r].h] \in Bundles
        BY <3>2 DEF Bundles
      <4> QED
        BY <3>3, <3>4, <4>1 DEF Import
    <3>5. CASE Removed(r) \/ Imported(r)
      <4>1. [dest[Op(r)] EXCEPT !.phase = "importing"] \in Bundles
        BY <3>2 DEF Bundles
      <4>2. [dest[Op(r)] EXCEPT !.phase = "imported"] \in Bundles
        BY <3>2 DEF Bundles
      <4> QED
        BY <3>3, <3>5, <4>1, <4>2 DEF Removed, Imported
    <3> QED
      BY <2>1, <3>4, <3>5
  <2> QED
    BY <2>1, Frame
<1>5. restored' \in [Ops -> {"none", "starting", "listed", "complete"}]
  BY Frame DEF Restore, Staged
<1> QED
  BY <1>1, <1>2, <1>3, <1>4, <1>5

(* What a checkpoint changes.                                              *)
LEMMA CheckpointIs ==
  ASSUME MoveInv, Checkpoint
  PROVE  /\ job # NoJob /\ job.op \in Ops
         /\ job.pc \in JobPhases
         /\ \A n \in Ops \ {job.op} : record'[n] = record[n]
         /\ record'[job.op].phase = job.pc
         /\ record'[job.op].prev =
              IF record[job.op].phase = "prepared" /\ Known(job.op) # {}
              THEN Current(job.op) ELSE record[job.op].prev
         /\ UNCHANGED <<discussion, placement, helper, receipts, user>>
<1>1. job # NoJob /\ job.op \in Ops /\ job.pc \in JobPhases
  BY JobIs, JobActs DEF Checkpoint
<1>2. record \in [Ops -> Records]
  BY DEF MoveInv, ControllerTypes
<1> QED
  BY <1>1, <1>2 DEF Checkpoint

(* ... its record on the controller, ...                                   *)
LEMMA RecordTypes ==
  ASSUME MoveInv, MoveStep
  PROVE  record' \in [Ops -> Records]
<1>1. record \in [Ops -> Records] /\ placement \in [Runners -> Published]
  BY DEF MoveInv, ControllerTypes, RunnerTypes
<1>2. CASE Checkpoint
  <2>1. job.op \in Ops /\ From[job.op] \in Runners /\ To[job.op] \in Runners /\ job.pc \in Phases
    BY <1>2, CheckpointIs, ConstantsAssumption DEF Phases, JobPhases
  <2>2. Current(job.op) \in Published /\ record[job.op].prev \in Published
    BY <1>1, <2>1 DEF Current, Records
  <2>3. [phase |-> job.pc,
         prev  |-> IF record[job.op].phase = "prepared" /\ Known(job.op) # {}
                     THEN Current(job.op) ELSE record[job.op].prev] \in Records
    BY <2>1, <2>2 DEF Records
  <2> QED
    BY <1>1, <1>2, <2>3 DEF Checkpoint
<1> QED
  BY <1>1, <1>2, Frame

(* ... the job ...                                                         *)
LEMMA JobTypes ==
  ASSUME MoveInv, MoveStep
  PROVE  job' \in Jobs \cup {NoJob}
<1>1. job \in Jobs \cup {NoJob}
  BY DEF MoveInv, ControllerTypes
<1>2. ASSUME job # NoJob, NEW pc \in JobPlaces, NEW w \in BOOLEAN, job' = [job EXCEPT !.pc = pc, !.wait = w]
      PROVE  job' \in Jobs \cup {NoJob}
  BY <1>1, <1>2 DEF Jobs
<1>3. ASSUME job # NoJob, job.pc \notin {"check", "complete"},
             job' = [job EXCEPT !.pc = JobAfter(job.pc), !.wait = FALSE]
      PROVE  job' \in Jobs \cup {NoJob}
  BY <1>2, <1>3, JobIs, JobPlacesFollow
<1>4. ASSUME NEW m \in Ops, Takes(m)
      PROVE  job' \in Jobs \cup {NoJob}
  BY <1>4 DEF Takes, TakesUp, Jobs, JobPlaces
<1>5. CASE Check
  <2>1. job # NoJob
    BY <1>5, JobActs
  <2>2. CASE job.pc = "check"
    <3>1. record[job.op].phase \in Phases \ {"complete"}
      BY <2>1, <2>2, JobIs DEF MoveInv, JobPhaseInv, ControllerTypes, Records
    <3>2. JobAfter(record[job.op].phase) \in JobPlaces
      BY <3>1, JobPlacesFollow DEF Phases
    <3> QED
      BY <1>2, <1>5, <2>1, <2>2, <3>2 DEF Check, JobGoto
  <2>3. CASE job.pc # "check"
    BY <1>3, <1>5, <2>1, <2>3 DEF Check, JobGoto
  <2> QED
    BY <2>2, <2>3
<1>6. CASE Inspect
  BY <1>3, <1>6, JobActs DEF Inspect, JobGoto
<1>7. CASE Checkpoint
  BY <1>3, <1>7, JobActs DEF Checkpoint, JobGoto, JobPhases
<1>8. CASE Publish
  BY <1>3, <1>8, JobActs, PublishIs DEF Drains, Starts, Readies
<1>9. CASE Call
  <2>1. job' = [job EXCEPT !.pc = job.pc, !.wait = TRUE] /\ job # NoJob
    BY <1>1, <1>9, JobActs DEF Call, Jobs
  <2> QED
    BY <1>2, <2>1, JobIs
<1>10. CASE JobRefuses \/ GiveUp
  BY <1>10 DEF JobRefuses, GiveUp
<1>11. ASSUME NEW r \in Runners, HelperStep(r) \/ KillHelper(r) \/ Restart(r)
       PROVE  job' \in Jobs \cup {NoJob}
  <2>1. HelperMoved(r)
    BY <1>11, HelperMoves
  <2>2. CASE Awaited(r) /\ Answers(r)
    <3>1. job.wait /\ job # NoJob /\ job.pc \in Calls
      BY <2>2, NoJobIdle DEF Awaited, MoveInv, WaitInv
    <3> QED
      BY <1>3, <2>2, <3>1 DEF Answers, Calls
  <2>3. CASE job' \in {job, NoJob}
    BY <1>1, <2>3
  <2> QED
    BY <2>1, <2>2, <2>3 DEF HelperMoved, Goes
<1>12. CASE UNCHANGED job
  BY <1>1, <1>12
<1> QED
  BY <1>4, <1>5, <1>6, <1>7, <1>8, <1>9, <1>10, <1>11, <1>12
  DEF MoveStep, JobStep, UserStep, Open, CloseClient, BeginTurn, EndTurn, Waits, discussion, receipts

(* ... and all else on the controller.                                     *)
LEMMA ControllerTypesNext ==
  ASSUME MoveInv, MoveStep
  PROVE  ControllerTypes'
<1>1. turns \in Nat /\ strayed \in BOOLEAN /\ left \in Nat
  BY DEF MoveInv, ControllerTypes
<1>2. turns' \in Nat
  <2>1. ASSUME NEW r \in Runners, EndTurn(r)
        PROVE  turns' = turns + 1
    BY <2>1 DEF EndTurn
  <2>2. turns' = turns \/ turns' = turns + 1
    BY <2>1, Frame
  <2> QED
    BY <1>1, <2>2
<1>3. strayed' \in BOOLEAN
  BY <1>1, Frame DEF Open
<1>4. left' \in Nat
  <2>1. CASE left' = left
    BY <1>1, <2>1
  <2>2. CASE left > 0 /\ left' = left - 1
    BY <1>1, <2>2
  <2> QED
    BY <2>1, <2>2 DEF MoveStep, JobStep, HelperStep, UserStep, Takes, TakesUp, Check, Inspect,
       Checkpoint, Publish,
       Call, JobRefuses, GiveUp, Close, Freeze, Recheck, Archive, Quiesce, Seal, Closed,
       Export, Own,
       Import, Remove, Strip, Removed, Install, Fill, Imported, Restore, Launch, Staged,
       Verified,
       HelperRefuses, Open, CloseClient, BeginTurn, EndTurn, KillHelper, Restart, Spend,
       Waits, discussion, receipts, user
<1> QED
  BY <1>2, <1>3, <1>4, RecordTypes, JobTypes DEF ControllerTypes

-----------------------------------------------------------------------------
(* The six steps of a placement.                                           *)
DrainsOrigin(m) ==
  /\ record[m].phase = "closing" /\ Invited(From[m]) /\ Resting
  /\ placement[From[m]] \notin PlacesOf(m) /\ placement[To[m]] \notin PlacesOf(m)
  /\ placement' = [placement EXCEPT ![From[m]] = Draining(m)]

DrainsDestination(m) ==
  /\ record[m].phase = "closing"
  /\ placement[From[m]] = Draining(m) /\ placement[To[m]] \notin PlacesOf(m)
  /\ placement' = [placement EXCEPT ![To[m]] = Draining(m)]

StartsOrigin(m) ==
  /\ record[m].phase = "copying"
  /\ placement[From[m]] = Draining(m) /\ placement[To[m]] = Draining(m)
  /\ placement' = [placement EXCEPT ![From[m]] = Starting(m)]

StartsDestination(m) ==
  /\ record[m].phase = "copying"
  /\ placement[From[m]] = Starting(m) /\ placement[To[m]] = Draining(m)
  /\ placement' = [placement EXCEPT ![To[m]] = Starting(m)]

ReadiesOrigin(m) ==
  /\ record[m].phase = "publishing"
  /\ placement[From[m]] = Starting(m) /\ placement[To[m]] = Starting(m)
  /\ placement' = [placement EXCEPT ![From[m]] = Ready(m)]

ReadiesDestination(m) ==
  /\ record[m].phase = "publishing"
  /\ placement[From[m]] = Ready(m) /\ placement[To[m]] = Starting(m)
  /\ placement' = [placement EXCEPT ![To[m]] = Ready(m)]

Onward(m) == StartsOrigin(m) \/ StartsDestination(m) \/ ReadiesOrigin(m) \/ ReadiesDestination(m)

(* A publication repeats a placement or is one of six steps of a move.     *)
LEMMA PublishMoves ==
  ASSUME MoveInv, Publish
  PROVE  \/ placement' = placement
         \/ \E m \in Ops : DrainsOrigin(m) \/ DrainsDestination(m) \/ Onward(m)
<1> DEFINE m == job.op
           p == placement[From[m]]
           q == placement[To[m]]
<1>1. job # NoJob /\ m \in Ops /\ From[m] \in Runners /\ To[m] \in Runners
  BY JobIs, JobActs
<1>2. placement \in [Runners -> Published]
  BY DEF MoveInv, RunnerTypes
<1>3. record[m].phase = PhaseAt(job.pc)
  BY <1>1, PublishIs DEF MoveInv, JobPhaseInv, Drains, Starts, Readies
<1>4. CASE job.pc = "origin draining"
  <2>1. placement' = [placement EXCEPT ![From[m]] = Draining(m)] /\ record[m].phase = "closing"
    BY <1>3, <1>4, PublishIs DEF Box, Origins, Drains, PhaseAt
  <2>2. p = Draining(m) \/ (Invited(From[m]) /\ Resting)
    BY <1>1, <1>4 DEF MoveInv, JobPlaceInv
  <2>3. CASE p = Draining(m)
    BY <1>1, <1>2, <2>1, <2>3
  <2>4. CASE p # Draining(m) /\ Invited(From[m]) /\ Resting
    <3>1. p \notin PlacesOf(m) /\ q \notin PlacesOf(m)
      BY <1>1, <2>1, <2>4 DEF MoveInv, StageInv, PlacesOf, Resting, Moving
    <3> QED
      BY <1>1, <2>1, <2>4, <3>1 DEF DrainsOrigin
  <2> QED
    BY <2>2, <2>3, <2>4
<1>5. CASE job.pc = "destination draining"
  <2>1. placement' = [placement EXCEPT ![To[m]] = Draining(m)] /\ record[m].phase = "closing"
    BY <1>3, <1>5, PublishIs DEF Box, Origins, Drains, PhaseAt
  <2>2. p = Draining(m)
    BY <1>1, <1>5 DEF MoveInv, JobPlaceInv
  <2>3. CASE q = Draining(m)
    BY <1>1, <1>2, <2>1, <2>3
  <2>4. CASE q # Draining(m)
    <3>1. q \notin PlacesOf(m)
      BY <1>1, <2>1, <2>4 DEF MoveInv, StageInv, PlacesOf
    <3> QED
      BY <1>1, <2>1, <2>2, <3>1 DEF DrainsDestination
  <2> QED
    BY <2>3, <2>4
<1>6. CASE job.pc = "origin starting"
  <2>1. placement' = [placement EXCEPT ![From[m]] = Starting(m)] /\ record[m].phase = "copying"
    BY <1>3, <1>6, PublishIs DEF Box, Origins, Drains, Starts, PhaseAt
  <2>2. /\ p \in {Draining(m), Starting(m)}
        /\ q \in {Draining(m), Starting(m)}
        /\ (q = Starting(m) => p = Starting(m))
    BY <1>1, <2>1 DEF MoveInv, StageInv
  <2>3. CASE p = Starting(m)
    BY <1>1, <1>2, <2>1, <2>3
  <2>4. CASE p = Draining(m) /\ q = Draining(m)
    BY <1>1, <2>1, <2>4 DEF StartsOrigin, Onward
  <2> QED
    BY <1>1, <2>2, <2>3, <2>4, Distinct
<1>7. CASE job.pc = "destination starting"
  <2>1. placement' = [placement EXCEPT ![To[m]] = Starting(m)] /\ record[m].phase = "copying"
    BY <1>3, <1>7, PublishIs DEF Box, Origins, Drains, Starts, PhaseAt
  <2>2. p = Starting(m) /\ q \in {Draining(m), Starting(m)}
    BY <1>1, <1>7, <2>1 DEF MoveInv, StageInv, JobPlaceInv
  <2>3. CASE q = Starting(m)
    BY <1>1, <1>2, <2>1, <2>3
  <2>4. CASE q = Draining(m)
    BY <1>1, <2>1, <2>2, <2>4 DEF StartsDestination, Onward
  <2> QED
    BY <2>2, <2>3, <2>4
<1>8. CASE job.pc = "origin ready"
  <2>1. placement' = [placement EXCEPT ![From[m]] = Ready(m)] /\ record[m].phase = "publishing"
    BY <1>3, <1>8, PublishIs DEF Box, Origins, Drains, Starts, Readies, PhaseAt
  <2>2. q = Starting(m) \/ (q = Ready(m) /\ p = Ready(m))
    BY <1>1, <1>8 DEF MoveInv, JobPlaceInv
  <2>3. CASE p = Ready(m)
    BY <1>1, <1>2, <2>1, <2>3
  <2>4. CASE q = Starting(m) /\ p # Ready(m)
    <3>1. p = Starting(m)
      BY <1>1, <2>1, <2>4 DEF MoveInv, StageInv, Moving
    <3> QED
      BY <1>1, <2>1, <2>4, <3>1 DEF ReadiesOrigin, Onward
  <2> QED
    BY <2>2, <2>3, <2>4
<1>9. CASE job.pc = "destination ready"
  <2>1. placement' = [placement EXCEPT ![To[m]] = Ready(m)] /\ record[m].phase = "publishing"
    BY <1>3, <1>9, PublishIs DEF Box, Origins, Drains, Starts, Readies, PhaseAt
  <2>2. p = Ready(m) /\ q \in {Starting(m), Ready(m)}
    BY <1>1, <1>9 DEF MoveInv, JobPlaceInv
  <2>3. CASE q = Ready(m)
    BY <1>1, <1>2, <2>1, <2>3
  <2>4. CASE q = Starting(m)
    BY <1>1, <2>1, <2>2, <2>4 DEF ReadiesDestination, Onward
  <2> QED
    BY <2>2, <2>3, <2>4
<1> QED
  BY <1>4, <1>5, <1>6, <1>7, <1>8, <1>9, PublishIs DEF Drains, Starts, Readies

(* A step of a placement is taken by the only move under way.              *)
LEMMA OnlyMover ==
  ASSUME MoveInv, NEW m \in Ops, DrainsOrigin(m) \/ DrainsDestination(m) \/ Onward(m)
  PROVE  /\ From[m] \in Runners /\ To[m] \in Runners /\ From[m] # To[m]
         /\ \A n \in Ops \ {m} : ~Moving(n)
         /\ DrainsOrigin(m) <=> ~Moving(m)
<1>1. From[m] \in Runners /\ To[m] \in Runners /\ From[m] # To[m]
  BY ConstantsAssumption
<1>2. CASE DrainsOrigin(m)
  BY <1>1, <1>2 DEF DrainsOrigin, Resting
<1>3. CASE DrainsDestination(m) \/ Onward(m)
  <2>1. Moving(m)
    BY <1>1, <1>3 DEF DrainsDestination, Onward, StartsOrigin, StartsDestination, ReadiesOrigin,
       ReadiesDestination, Moving
  <2>2. ~DrainsOrigin(m)
    BY <2>1 DEF DrainsOrigin, Resting
  <2> QED
    BY <1>1, <2>1, <2>2 DEF MoveInv, OfferInv
<1> QED
  BY <1>2, <1>3

(* What each of the six leaves on the two runners.                         *)
LEMMA PlacementIs ==
  ASSUME MoveInv, NEW m \in Ops, DrainsOrigin(m) \/ DrainsDestination(m) \/ Onward(m)
  PROVE  /\ \A r \in Runners \ {From[m], To[m]} : placement'[r] = placement[r]
         /\ DrainsOrigin(m) => placement'[From[m]] = Draining(m) /\ placement'[To[m]] = placement[To[m]]
         /\ DrainsDestination(m) => placement'[From[m]] = Draining(m) /\ placement'[To[m]] = Draining(m)
         /\ StartsOrigin(m) => placement'[From[m]] = Starting(m) /\ placement'[To[m]] = Draining(m)
         /\ StartsDestination(m) => placement'[From[m]] = Starting(m) /\ placement'[To[m]] = Starting(m)
         /\ ReadiesOrigin(m) => placement'[From[m]] = Ready(m) /\ placement'[To[m]] = Starting(m)
         /\ ReadiesDestination(m) => placement'[From[m]] = Ready(m) /\ placement'[To[m]] = Ready(m)
         /\ \A r \in {From[m], To[m]} : placement'[r] = placement[r] \/ placement'[r] \in PlacesOf(m)
<1>1. /\ placement \in [Runners -> Published]
      /\ From[m] \in Runners
      /\ To[m] \in Runners
      /\ From[m] # To[m]
  BY ConstantsAssumption DEF MoveInv, RunnerTypes
<1>2. CASE DrainsOrigin(m)
  BY <1>1, <1>2, Distinct DEF DrainsOrigin, DrainsDestination, StartsOrigin,
     StartsDestination, ReadiesOrigin,
       ReadiesDestination, PlacesOf
<1>3. CASE DrainsDestination(m)
  BY <1>1, <1>3, Distinct DEF DrainsOrigin, DrainsDestination, StartsOrigin,
     StartsDestination, ReadiesOrigin,
       ReadiesDestination, PlacesOf
<1>4. CASE StartsOrigin(m)
  BY <1>1, <1>4, Distinct DEF DrainsOrigin, DrainsDestination, StartsOrigin,
     StartsDestination, ReadiesOrigin,
       ReadiesDestination, PlacesOf
<1>5. CASE StartsDestination(m)
  BY <1>1, <1>5, Distinct DEF DrainsOrigin, DrainsDestination, StartsOrigin,
     StartsDestination, ReadiesOrigin,
       ReadiesDestination, PlacesOf
<1>6. CASE ReadiesOrigin(m)
  BY <1>1, <1>6, Distinct DEF DrainsOrigin, DrainsDestination, StartsOrigin,
     StartsDestination, ReadiesOrigin,
       ReadiesDestination, PlacesOf
<1>7. CASE ReadiesDestination(m)
  BY <1>1, <1>7, Distinct DEF DrainsOrigin, DrainsDestination, StartsOrigin,
     StartsDestination, ReadiesOrigin,
       ReadiesDestination, PlacesOf
<1> QED
  BY <1>2, <1>3, <1>4, <1>5, <1>6, <1>7 DEF Onward

(* It takes no placement of another move's, and that one is at rest.       *)
LEMMA OthersStay ==
  ASSUME MoveInv, NEW m \in Ops, DrainsOrigin(m) \/ DrainsDestination(m) \/ Onward(m), NEW n \in Ops, n # m
  PROVE  /\ ~Moving(n) /\ ~Moving(n)'
         /\ \A r \in Runners : placement'[r] \in PlacesOf(n) => placement'[r] = placement[r]
<1>1. ~Moving(n)
  BY OnlyMover
<1>2. ASSUME NEW r \in Runners, placement'[r] \in PlacesOf(n)
      PROVE  placement'[r] = placement[r]
  <2>1. placement'[r] = placement[r] \/ placement'[r] \in PlacesOf(m)
    BY PlacementIs
  <2>2. placement'[r] \notin PlacesOf(m)
    BY <1>2, Distinct DEF PlacesOf
  <2> QED
    BY <2>1, <2>2
<1>3. ~Moving(n)'
  BY <1>1, <1>2 DEF Moving, PlacesOf
<1> QED
  BY <1>1, <1>2, <1>3

(* A move is under way until its destination is ready.                     *)
LEMMA MoverMoves ==
  ASSUME MoveInv, NEW m \in Ops, DrainsOrigin(m) \/ DrainsDestination(m) \/ Onward(m)
  PROVE  Moving(m)' <=> ~ReadiesDestination(m)
<1>1. From[m] \in Runners /\ To[m] \in Runners /\ From[m] # To[m]
  BY OnlyMover
<1>2. CASE ReadiesDestination(m)
  <2>1. \A r \in Runners \ {From[m], To[m]} : placement'[r] \notin PlacesOf(m)
    BY PlacementIs DEF MoveInv, StageInv
  <2>2. placement'[From[m]] = Ready(m) /\ placement'[To[m]] = Ready(m)
    BY <1>2, PlacementIs
  <2> QED
    BY <1>2, <2>1, <2>2, Distinct DEF Moving, PlacesOf
<1>3. CASE ~ReadiesDestination(m)
  <2>1. {placement'[From[m]], placement'[To[m]]} \cap {Draining(m), Starting(m)} # {}
    BY <1>3, PlacementIs DEF Onward
  <2> QED
    BY <1>1, <1>3, <2>1 DEF Moving
<1> QED
  BY <1>2, <1>3

(* A step publishes, or records a phase, or does neither.                  *)
LEMMA PlacementSteps ==
  ASSUME MoveInv, MoveStep
  PROVE  \/ Checkpoint /\ placement' = placement
         \/ record' = record /\ placement' = placement
         \/ /\ Publish /\ record' = record
            /\ \E m \in Ops : DrainsOrigin(m) \/ DrainsDestination(m) \/ Onward(m)
<1>1. CASE Publish
  BY <1>1, PublishIs, PublishMoves
<1>2. CASE Checkpoint
  BY <1>2, CheckpointIs
<1> QED
  BY <1>1, <1>2, Frame

-----------------------------------------------------------------------------
(* Each step keeps the placements in their stages, ...                     *)
StageOf(m) ==
  LET p  == placement[From[m]]
      q  == placement[To[m]]
      ph == record[m].phase IN
  /\ \A r \in Runners \ {From[m], To[m]} : placement[r] \notin PlacesOf(m)
  /\ ph = "prepared" => p \notin PlacesOf(m) /\ q \notin PlacesOf(m)
  /\ ph = "closing" => p \notin {Starting(m), Ready(m)} /\ q \notin {Starting(m), Ready(m)}
  /\ q = Draining(m) => p \in {Draining(m), Starting(m)}
  /\ ph = "copying" => /\ p \in {Draining(m), Starting(m)} /\ q \in {Draining(m), Starting(m)}
                       /\ q = Starting(m) => p = Starting(m)
  /\ ph = "restoring" => p = Starting(m) /\ q = Starting(m)
  /\ ph = "publishing" => \/ q = Starting(m) /\ p \in {Starting(m), Ready(m)}
                          \/ ~Moving(m)
  /\ ph = "complete" => ~Moving(m)

(* The two runners publish what the recorded phase says.                   *)
LEMMA StageNext ==
  ASSUME MoveInv, MoveStep
  PROVE  StageInv'
<1> SUFFICES ASSUME NEW n \in Ops
             PROVE  StageOf(n)'
  BY DEF StageInv, StageOf
<1>1. StageOf(n) /\ From[n] \in Runners /\ To[n] \in Runners /\ From[n] # To[n]
  BY ConstantsAssumption DEF MoveInv, StageInv, StageOf
<1>2. CASE record' = record /\ placement' = placement
  <2>1. Moving(n)' <=> Moving(n)
    BY <1>2 DEF Moving
  <2> QED
    BY <1>1, <1>2, <2>1 DEF StageOf
<1>3. CASE Checkpoint /\ placement' = placement
  <2> DEFINE m == job.op
  <2>1. Moving(n)' <=> Moving(n)
    BY <1>3 DEF Moving
  <2>2. CASE n # m
    <3>1. record'[n] = record[n]
      BY <1>3, <2>2, CheckpointIs
    <3> QED
      BY <1>1, <1>3, <2>1, <3>1 DEF StageOf
  <2>3. CASE n = m
    <3>1. record'[n].phase = job.pc /\ job.pc \in JobPhases /\ record[n].phase = PhaseAt(job.pc)
      BY <1>3, <2>3, CheckpointIs DEF MoveInv, JobPhaseInv, JobPhases
    <3>2. /\ job.pc = "copying" => placement[From[m]] = Draining(m) /\ placement[To[m]] = Draining(m)
          /\ job.pc = "restoring" => placement[From[m]] = Starting(m) /\ placement[To[m]] = Starting(m)
          /\ job.pc = "complete" => placement[From[m]] = Ready(m) /\ placement[To[m]] = Ready(m)
      BY <1>3, CheckpointIs DEF MoveInv, JobPlaceInv
    <3>3. CASE job.pc = "closing"
      BY <1>1, <1>3, <2>3, <3>1, <3>3, Distinct DEF StageOf, PhaseAt, PlacesOf
    <3>4. CASE job.pc = "copying"
      BY <1>1, <1>3, <2>3, <3>1, <3>2, <3>4, Distinct DEF StageOf, PhaseAt
    <3>5. CASE job.pc = "restoring"
      BY <1>1, <1>3, <2>3, <3>1, <3>2, <3>5, Distinct DEF StageOf, PhaseAt
    <3>6. CASE job.pc = "publishing"
      BY <1>1, <1>3, <2>3, <3>1, <3>6, Distinct DEF StageOf, PhaseAt
    <3>7. CASE job.pc = "complete"
      <4>1. ~Moving(m)
        BY <1>1, <2>3, <3>2, <3>7, Distinct DEF StageOf, Moving, PlacesOf
      <4> QED
        BY <1>1, <1>3, <2>1, <2>3, <3>1, <3>2, <3>7, <4>1, Distinct DEF StageOf, PhaseAt
    <3> QED
      BY <3>1, <3>3, <3>4, <3>5, <3>6, <3>7 DEF JobPhases
  <2> QED
    BY <2>2, <2>3
<1>4. ASSUME record' = record, NEW m \in Ops, DrainsOrigin(m) \/ DrainsDestination(m) \/ Onward(m)
      PROVE  StageOf(n)'
  <2>1. CASE n # m
    <3>1. /\ ~Moving(n) /\ ~Moving(n)'
          /\ \A r \in Runners : placement'[r] \in PlacesOf(n) => placement'[r] = placement[r]
      BY <1>4, <2>1, OthersStay
    <3>2. record[n].phase \notin {"copying", "restoring"}
      BY <1>1, <3>1 DEF StageOf, Moving
    <3> QED
      BY <1>1, <1>4, <3>1, <3>2 DEF StageOf, PlacesOf, Moving
  <2>2. CASE n = m
    <3>1. \A r \in Runners \ {From[m], To[m]} : placement'[r] \notin PlacesOf(m)
      BY <1>1, <1>4, <2>2, PlacementIs DEF StageOf
    <3>2. /\ DrainsOrigin(m) => placement'[From[m]] = Draining(m) /\ placement'[To[m]] = placement[To[m]]
          /\ DrainsDestination(m) => placement'[From[m]] = Draining(m) /\ placement'[To[m]] = Draining(m)
          /\ StartsOrigin(m) => placement'[From[m]] = Starting(m) /\ placement'[To[m]] = Draining(m)
          /\ StartsDestination(m) => placement'[From[m]] = Starting(m) /\ placement'[To[m]] = Starting(m)
          /\ ReadiesOrigin(m) => placement'[From[m]] = Ready(m) /\ placement'[To[m]] = Starting(m)
          /\ ReadiesDestination(m) => placement'[From[m]] = Ready(m) /\ placement'[To[m]] = Ready(m)
      BY <1>4, PlacementIs
    <3>3. Moving(m)' <=> ~ReadiesDestination(m)
      BY <1>4, MoverMoves
    <3>4. record'[m].phase = record[m].phase
      BY <1>4
    <3>5. CASE DrainsOrigin(m) \/ DrainsDestination(m)
      <4>1. record[m].phase = "closing" /\ (DrainsOrigin(m) => placement[To[m]] \notin PlacesOf(m))
        BY <3>5 DEF DrainsOrigin, DrainsDestination
      <4> QED
        BY <2>2, <3>1, <3>2, <3>4, <3>5, <4>1, Distinct DEF StageOf, PlacesOf
    <3>6. CASE StartsOrigin(m) \/ StartsDestination(m)
      <4>1. record[m].phase = "copying"
        BY <3>6 DEF StartsOrigin, StartsDestination
      <4> QED
        BY <2>2, <3>1, <3>2, <3>4, <3>6, <4>1, Distinct DEF StageOf
    <3>7. CASE ReadiesOrigin(m) \/ ReadiesDestination(m)
      <4>1. record[m].phase = "publishing"
        BY <3>7 DEF ReadiesOrigin, ReadiesDestination
      <4> QED
        BY <2>2, <3>1, <3>2, <3>3, <3>4, <3>7, <4>1, Distinct DEF StageOf
    <3> QED
      BY <1>4, <3>5, <3>6, <3>7 DEF Onward
  <2> QED
    BY <2>1, <2>2
<1> QED
  BY <1>2, <1>3, <1>4, PlacementSteps

(* ... with the previous placements behind them, ...                       *)
LEMMA PrevNext ==
  ASSUME MoveInv, MoveStep
  PROVE  PrevInv'
<1> DEFINE Behind(n) == /\ Passed(n) /\ ~Moving(n)
                        /\ placement[To[n]] # None /\ placement[From[n]] # None
           PrevOf(k) ==
             /\ record[k].phase = "prepared" => record[k].prev = None
             /\ record[k].prev # None =>
                  \E n \in Ops : record[k].prev = Ready(n) /\ To[n] = From[k] /\ Behind(n)
             /\ record[k].phase \notin {"prepared", "closing"} =>
                  placement[From[k]] # record[k].prev /\ placement[To[k]] # record[k].prev
<1> SUFFICES ASSUME NEW k \in Ops
             PROVE  PrevOf(k)'
  BY DEF PrevInv
<1>1. PrevOf(k) /\ From[k] \in Runners /\ To[k] \in Runners
  BY ConstantsAssumption DEF MoveInv, PrevInv
<1>2. CASE record' = record /\ placement' = placement
  <2>1. \A n \in Ops : Behind(n)' <=> Behind(n)
    BY <1>2 DEF Moving, Passed
  <2> QED
    BY <1>1, <1>2, <2>1
<1>3. CASE Checkpoint /\ placement' = placement
  <2> DEFINE m == job.op
  <2>1. \A n \in Ops : Moving(n)' <=> Moving(n)
    BY <1>3 DEF Moving
  <2>2. /\ record'[m].phase = job.pc
        /\ job.pc \in JobPhases
        /\ record[m].phase = PhaseAt(job.pc)
        /\ m \in Ops
    BY <1>3, CheckpointIs DEF MoveInv, JobPhaseInv, JobPhases
  <2>3. \A n \in Ops \ {m} : record'[n] = record[n]
    BY <1>3, CheckpointIs
  <2>4. \A n \in Ops : Passed(n) => Passed(n)'
    BY <2>2, <2>3 DEF Passed, PhaseAt, JobPhases
  <2>5. \A n \in Ops : Behind(n) => Behind(n)'
    BY <1>3, <2>1, <2>4
  <2>6. CASE k # m
    <3>1. record'[k] = record[k]
      BY <2>3, <2>6
    <3> HIDE DEF Behind
    <3> QED
      BY <1>1, <1>3, <2>5, <3>1
  <2>7. CASE k = m /\ job.pc # "closing"
    <3>1. record'[k].prev = record[k].prev
      BY <1>3, <2>2, <2>7, CheckpointIs DEF PhaseAt, JobPhases
    <3>2. CASE job.pc = "copying"
      <4>1. placement[From[k]] = Draining(k) /\ placement[To[k]] = Draining(k)
        BY <1>3, <2>7, <3>2, CheckpointIs DEF MoveInv, JobPlaceInv
      <4>2. record[k].prev # Draining(k)
        BY <1>1, Distinct DEF PlacesOf
      <4> HIDE DEF Behind
      <4> QED
        BY <1>1, <1>3, <2>2, <2>5, <2>7, <3>1, <3>2, <4>1, <4>2
    <3>3. CASE job.pc # "copying"
      <4>1. record[k].phase \notin {"prepared", "closing"} /\ record'[k].phase # "prepared"
        BY <2>2, <2>7, <3>3 DEF PhaseAt, JobPhases
      <4> HIDE DEF Behind
      <4> QED
        BY <1>1, <1>3, <2>5, <3>1, <4>1
    <3> QED
      BY <3>2, <3>3
  <2>8. CASE k = m /\ job.pc = "closing"
    <3>1. record[k].phase = "prepared" /\ record[k].prev = None
      BY <1>1, <2>2, <2>8 DEF PhaseAt
    <3>2. CASE Known(k) = {}
      <4>1. record'[k].prev = None /\ record'[k].phase = "closing"
        BY <1>3, <2>2, <2>8, <3>1, <3>2, CheckpointIs
      <4> QED
        BY <4>1
    <3>3. CASE Known(k) # {}
      <4>1. PICK n \in Ops : To[n] = From[k] /\ Known(k) = {Ready(n)}
        BY <1>3, <2>8, <3>3, CheckpointIs DEF MoveInv, JobPlaceInv
      <4>2. Current(k) = Ready(n) /\ (placement[From[k]] = Ready(n) \/ placement[To[k]] = Ready(n))
        BY <4>1 DEF Current, Known
      <4>3. record'[k].prev = Ready(n) /\ record'[k].phase = "closing"
        BY <1>3, <2>2, <2>8, <3>1, <3>3, <4>2, CheckpointIs
      <4>4. PICK r \in Runners : placement[r] = Ready(n)
        BY <1>1, <4>2
      <4>5. placement[To[n]] # None /\ placement[From[n]] # None
        BY <4>4 DEF MoveInv, ReachedInv, PlacesOf
      <4>6. Passed(n)
        <5>1. From[n] \in Runners /\ To[n] \in Runners /\ record[n].phase \in Phases
          BY ConstantsAssumption DEF MoveInv, ControllerTypes, Records
        <5>2. r \in {From[n], To[n]}
          BY <4>4 DEF MoveInv, StageInv, PlacesOf
        <5> QED
          BY <4>4, <5>1, <5>2, Distinct DEF MoveInv, StageInv, Passed, Phases, PlacesOf
      <4>7. ~Moving(n)
        <5>1. placement[From[k]] = Draining(k) \/ Resting
          BY <1>3, <2>8, CheckpointIs DEF MoveInv, JobPlaceInv
        <5>2. placement[From[k]] # Draining(k)
          BY <3>1 DEF MoveInv, StageInv, PlacesOf
        <5> QED
          BY <5>1, <5>2 DEF Resting
      <4>8. Behind(n)'
        BY <2>5, <4>5, <4>6, <4>7
      <4> HIDE DEF Behind
      <4> QED
        BY <4>1, <4>3, <4>8
    <3> QED
      BY <3>2, <3>3
  <2> QED
    BY <2>6, <2>7, <2>8
<1>4. ASSUME record' = record, NEW m \in Ops, DrainsOrigin(m) \/ DrainsDestination(m) \/ Onward(m)
      PROVE  PrevOf(k)'
  <2>1. \A r \in Runners : placement[r] # None => placement'[r] # None
    <3>1. \A r \in Runners : placement'[r] = placement[r] \/ placement'[r] \in PlacesOf(m)
      BY <1>4, PlacementIs
    <3> QED
      BY <3>1, Distinct
  <2>2. record[k].prev # None =>
          \E n \in Ops : record[k].prev = Ready(n) /\ To[n] = From[k] /\ Behind(n)'
    <3>1. ASSUME NEW n \in Ops, Behind(n)
          PROVE  Behind(n)'
      <4>1. placement'[To[n]] # None /\ placement'[From[n]] # None
        BY <2>1, <3>1, ConstantsAssumption
      <4>2. n # m
        <5>1. CASE Moving(m)
          BY <3>1, <5>1
        <5>2. CASE DrainsOrigin(m)
          BY <3>1, <5>2 DEF DrainsOrigin, Passed
        <5> QED
          BY <1>4, <5>1, <5>2, OnlyMover
      <4>3. ~Moving(n)'
        BY <1>4, <4>2, OthersStay
      <4> QED
        BY <1>4, <3>1, <4>1, <4>3 DEF Passed
    <3> HIDE DEF Behind
    <3> QED
      BY <1>1, <3>1
  <2>3. record[k].phase \notin {"prepared", "closing"} =>
          placement'[From[k]] # record[k].prev /\ placement'[To[k]] # record[k].prev
    <3>1. SUFFICES ASSUME record[k].phase \notin {"prepared", "closing"}, NEW r \in {From[k], To[k]},
                          placement'[r] = record[k].prev
                   PROVE  FALSE
      OBVIOUS
    <3>2. placement[r] # record[k].prev /\ r \in Runners
      BY <1>1, <3>1
    <3>3. placement'[r] \in PlacesOf(m)
      BY <1>4, <3>1, <3>2, PlacementIs
    <3>4. PICK n \in Ops : record[k].prev = Ready(n) /\ Behind(n)
      BY <1>1, <3>1, <3>3, Distinct
    <3>5. n = m
      BY <3>1, <3>3, <3>4, Distinct DEF PlacesOf
    <3>6. DrainsOrigin(m)
      BY <1>4, <3>4, <3>5, OnlyMover
    <3> QED
      BY <3>4, <3>5, <3>6 DEF DrainsOrigin, Passed
  <2> HIDE DEF Behind
  <2> QED
    BY <1>1, <1>4, <2>2, <2>3
<1> QED
  BY <1>2, <1>3, <1>4, PlacementSteps

(* ... with one runner that is offered, ...                                *)
LEMMA OfferedSteps ==
  ASSUME MoveInv, NEW m \in Ops, DrainsOrigin(m) \/ DrainsDestination(m) \/ Onward(m), NEW r \in Runners
  PROVE  /\ DrainsOrigin(m) \/ DrainsDestination(m) => (Invited(r)' <=> r = From[m]) /\ (Invited(r) <=> r = From[m])
         /\ StartsOrigin(m) => ~Invited(r)' /\ (Invited(r) <=> r = From[m])
         /\ StartsDestination(m) \/ ReadiesOrigin(m) => ~Invited(r)' /\ ~Invited(r)
         /\ ReadiesDestination(m) => (Invited(r)' <=> r = To[m]) /\ ~Invited(r)
<1>1. From[m] \in Runners /\ To[m] \in Runners /\ From[m] # To[m]
  BY OnlyMover
<1>2. None # From[m] /\ None # To[m] /\ None # r
  BY <1>1, ConstantsAssumption
<1>3. r \notin {From[m], To[m]} => placement'[r] = placement[r]
  BY PlacementIs
<1>4. /\ placement'[r] = Draining(m) => (Invited(r)' <=> r = From[m])
      /\ placement'[r] = Starting(m) => ~Invited(r)'
      /\ placement'[r] = Ready(m) => (Invited(r)' <=> r = To[m])
      /\ placement'[r] = placement[r] => (Invited(r)' <=> Invited(r))
      /\ placement[r] = Draining(m) => (Invited(r) <=> r = From[m])
  BY <1>2, Distinct DEF Invited, Draining, Starting, Ready, PlacesOf
<1>5. \A s \in Runners : Invited(r) /\ Invited(s) => r = s
  BY DEF MoveInv, OfferInv
<1>6. CASE DrainsOrigin(m)
  <2>1. /\ Invited(From[m]) /\ placement'[From[m]] = Draining(m)
        /\ placement'[To[m]] = placement[To[m]]
    BY <1>6, PlacementIs DEF DrainsOrigin
  <2>2. Invited(r) <=> r = From[m]
    BY <1>1, <1>5, <2>1
  <2>3. Invited(r)' <=> r = From[m]
    BY <1>1, <1>3, <1>4, <2>1, <2>2
  <2>4. ~StartsOrigin(m) /\ ~StartsDestination(m) /\ ~ReadiesOrigin(m) /\ ~ReadiesDestination(m)
    BY <1>6 DEF DrainsOrigin, StartsOrigin, StartsDestination, ReadiesOrigin,
       ReadiesDestination, PlacesOf
  <2> QED
    BY <2>2, <2>3, <2>4
<1>7. CASE ~DrainsOrigin(m)
  <2>1. Moving(m)
    BY <1>7, OnlyMover
  <2>2. Invited(r) => r = From[m] /\ placement[r] = Draining(m)
    BY <2>1 DEF MoveInv, OfferInv
  <2>3. placement[From[m]] = Draining(m) => (Invited(r) <=> r = From[m])
    BY <1>4, <2>2
  <2>4. placement[From[m]] # Draining(m) => ~Invited(r)
    BY <2>2
  <2>5. CASE DrainsDestination(m)
    <3>1. /\ placement[From[m]] = Draining(m)
          /\ placement'[From[m]] = Draining(m)
          /\ placement'[To[m]] = Draining(m)
      BY <2>5, PlacementIs DEF DrainsDestination
    <3>2. Invited(r)' <=> r = From[m]
      BY <1>1, <1>3, <1>4, <2>3, <3>1
    <3>3. ~StartsOrigin(m) /\ ~StartsDestination(m) /\ ~ReadiesOrigin(m) /\ ~ReadiesDestination(m)
      BY <2>5 DEF DrainsDestination, StartsOrigin, StartsDestination, ReadiesOrigin,
         ReadiesDestination
    <3> QED
      BY <2>3, <3>1, <3>2, <3>3
  <2>6. CASE StartsOrigin(m)
    <3>1. /\ placement[From[m]] = Draining(m) /\ placement'[From[m]] = Starting(m)
          /\ placement'[To[m]] = Draining(m)
      BY <2>6, PlacementIs DEF StartsOrigin
    <3>2. ~Invited(r)'
      BY <1>1, <1>3, <1>4, <2>3, <3>1
    <3>3. /\ ~DrainsDestination(m) /\ ~StartsDestination(m) /\ ~ReadiesOrigin(m) /\ ~ReadiesDestination(m)
      BY <2>6, Distinct DEF DrainsDestination, StartsOrigin, StartsDestination, ReadiesOrigin,
         ReadiesDestination
    <3> QED
      BY <1>7, <2>3, <3>1, <3>2, <3>3
  <2>7. CASE StartsDestination(m) \/ ReadiesOrigin(m)
    <3>1. /\ placement[From[m]] = Starting(m) /\ placement'[From[m]] \in {Starting(m), Ready(m)}
          /\ placement'[To[m]] = Starting(m)
      BY <2>7, PlacementIs DEF StartsDestination, ReadiesOrigin
    <3>2. ~Invited(r)
      BY <2>4, <3>1, Distinct
    <3>3. ~Invited(r)'
      BY <1>1, <1>3, <1>4, <3>1, <3>2
    <3>4. ~DrainsDestination(m) /\ ~StartsOrigin(m) /\ ~ReadiesDestination(m)
      BY <2>7, Distinct DEF DrainsDestination, StartsOrigin, StartsDestination, ReadiesOrigin,
         ReadiesDestination
    <3> QED
      BY <1>7, <3>2, <3>3, <3>4
  <2>8. CASE ReadiesDestination(m)
    <3>1. /\ placement[From[m]] = Ready(m) /\ placement'[From[m]] = Ready(m) /\ placement'[To[m]] = Ready(m)
      BY <2>8, PlacementIs DEF ReadiesDestination
    <3>2. ~Invited(r)
      BY <2>4, <3>1, Distinct
    <3>3. Invited(r)' <=> r = To[m]
      BY <1>1, <1>3, <1>4, <3>1, <3>2
    <3>4. /\ ~DrainsDestination(m) /\ ~StartsOrigin(m) /\ ~StartsDestination(m) /\ ~ReadiesOrigin(m)
      BY <2>8, Distinct DEF DrainsDestination, StartsOrigin, StartsDestination, ReadiesOrigin,
         ReadiesDestination
    <3> QED
      BY <1>7, <3>2, <3>3, <3>4
  <2> QED
    BY <1>7, <2>5, <2>6, <2>7, <2>8 DEF Onward
<1> QED
  BY <1>6, <1>7

(* At most one move is under way and at most one runner is offered.        *)
LEMMA OfferNext ==
  ASSUME MoveInv, MoveStep
  PROVE  OfferInv'
<1>1. CASE placement' = placement
  <2>1. \A m \in Ops : Moving(m)' <=> Moving(m)
    BY <1>1 DEF Moving
  <2>2. \A r \in Runners : Invited(r)' <=> Invited(r)
    BY <1>1 DEF Invited
  <2> QED
    BY <1>1, <2>1, <2>2 DEF MoveInv, OfferInv
<1>2. ASSUME NEW m \in Ops, DrainsOrigin(m) \/ DrainsDestination(m) \/ Onward(m)
      PROVE  OfferInv'
  <2>1. \A n \in Ops : Moving(n)' => n = m /\ ~ReadiesDestination(m)
    BY <1>2, OthersStay, MoverMoves
  <2>2. ASSUME NEW r \in Runners, Invited(r)'
        PROVE  \/ r = From[m] /\ (DrainsOrigin(m) \/ DrainsDestination(m))
               \/ r = To[m] /\ ReadiesDestination(m)
    BY <1>2, <2>2, OfferedSteps DEF Onward
  <2>3. DrainsOrigin(m) \/ DrainsDestination(m) => placement'[From[m]] = Draining(m) /\ ~ReadiesDestination(m)
    BY <1>2, PlacementIs, Distinct DEF ReadiesDestination, DrainsOrigin, DrainsDestination,
       PlacesOf
  <2> QED
    BY <2>1, <2>2, <2>3 DEF OfferInv
<1> QED
  BY <1>1, <1>2, PlacementSteps

(* ... and a placement wherever the discussion has been, ...               *)
LEMMA ReachedNext ==
  ASSUME MoveInv, MoveStep
  PROVE  ReachedInv'
<1>1. /\ ReachedInv /\ placement \in [Runners -> Published]
      /\ copy \in [Runners -> Copies] /\ writer \in [Runners -> {"none", "idle", "active"}]
  BY DEF MoveInv, RunnerTypes
<1> DEFINE Placed ==
             /\ \A r \in Runners : placement[r] # None => placement'[r] # None
             /\ \A r \in Runners : placement'[First] = None => placement'[r] = None
             /\ \A m \in Ops, r \in Runners :
                  /\ placement'[r] \in PlacesOf(m) => placement'[From[m]] # None
                  /\ placement'[r] \in {Starting(m), Ready(m)} => placement'[To[m]] # None
<1>2. Placed
  <2>1. CASE placement' = placement
    BY <1>1, <2>1 DEF ReachedInv
  <2>2. ASSUME NEW m \in Ops, DrainsOrigin(m) \/ DrainsDestination(m) \/ Onward(m)
        PROVE  Placed
    <3>1. \A r \in Runners : placement'[r] = placement[r] \/ (r \in {From[m], To[m]} /\ placement'[r] \in PlacesOf(m))
      BY <2>2, PlacementIs
    <3>2. \A r \in Runners : placement[r] # None => placement'[r] # None
      BY <3>1, Distinct
    <3>3. From[m] \in Runners /\ To[m] \in Runners /\ First \in Runners
      BY ConstantsAssumption
    <3>4. placement'[From[m]] # None
      BY <2>2, PlacementIs, Distinct DEF Onward, PlacesOf
    <3>5. placement'[First] = None => \A r \in Runners : placement'[r] = None
      <4>1. CASE placement[First] # None
        BY <3>2, <3>3, <4>1
      <4>2. CASE placement[First] = None
        <5>1. \A r \in Runners : placement[r] = None
          BY <1>1, <4>2 DEF ReachedInv
        <5>2. DrainsOrigin(m)
          BY <2>2, <3>3, <5>1, Distinct DEF DrainsDestination, Onward, StartsOrigin,
             StartsDestination,
             ReadiesOrigin, ReadiesDestination, PlacesOf
        <5>3. From[m] = First
          BY <3>3, <5>1, <5>2 DEF DrainsOrigin, Invited
        <5> QED
          BY <3>4, <5>3
      <4> QED
        BY <4>1, <4>2
    <3>6. ASSUME NEW n \in Ops, NEW r \in Runners
          PROVE  /\ placement'[r] \in PlacesOf(n) => placement'[From[n]] # None
                 /\ placement'[r] \in {Starting(n), Ready(n)} => placement'[To[n]] # None
      <4>1. CASE n # m
        <5>1. placement'[r] \in PlacesOf(n) => placement'[r] = placement[r]
          BY <2>2, <4>1, OthersStay
        <5>2. From[n] \in Runners /\ To[n] \in Runners
          BY ConstantsAssumption
        <5> QED
          BY <1>1, <3>2, <5>1, <5>2 DEF ReachedInv, PlacesOf
      <4>2. CASE n = m
        <5>1. CASE DrainsOrigin(m)
          <6>1. placement'[r] \notin {Starting(m), Ready(m)}
            <7>1. r \notin {From[m], To[m]} => placement'[r] = placement[r] /\ placement[r] \notin PlacesOf(m)
              BY <2>2, PlacementIs DEF MoveInv, StageInv
            <7>2. placement'[From[m]] = Draining(m) /\ placement'[To[m]] \notin PlacesOf(m)
              BY <2>2, <5>1, PlacementIs DEF DrainsOrigin
            <7> QED
              BY <7>1, <7>2, Distinct DEF PlacesOf
          <6> QED
            BY <3>4, <4>2, <6>1
        <5>2. CASE ~DrainsOrigin(m)
          <6>1. placement'[To[m]] # None
            BY <2>2, <5>2, PlacementIs, Distinct DEF Onward, PlacesOf
          <6> QED
            BY <3>4, <4>2, <6>1
        <5> QED
          BY <5>1, <5>2
      <4> QED
        BY <4>1, <4>2
    <3> QED
      BY <3>2, <3>5, <3>6
  <2> QED
    BY <2>1, <2>2, PlacementSteps
<1>3. \A r \in Runners : Reached(r) => Reached(r)'
  BY <1>2 DEF Reached
<1>4. ASSUME NEW r \in Runners, writer'[r] # "none" \/ copy'[r] # Absent
      PROVE  Reached(r)'
  <2>1. SUFFICES ASSUME writer[r] = "none", copy[r] = Absent
                 PROVE  Reached(r)
    BY <1>1, <1>3 DEF ReachedInv
  <2>2. ASSUME NEW s \in Runners, Remove(s) \/ Strip(s) \/ Install(s) \/ Fill(s) \/ Launch(s),
               placement[s] = None
        PROVE  FALSE
    <3>1. helper[s] # None /\ helper[s].pc \in {"remove", "strip", "install", "fill", "launch"}
      BY <2>2 DEF Remove, Strip, Install, Fill, Launch, Doing
    <3>2. Op(s) \in Ops
      BY <3>1, HelperIs
    <3>3. s = To[Op(s)] /\ placement[To[Op(s)]] = Starting(Op(s))
      BY <3>1, <3>2 DEF MoveInv, StageOfHelper, StageInv, Imports, Restores
    <3> QED
      BY <2>2, <3>2, <3>3, Distinct DEF PlacesOf
  <2>3. ASSUME copy'[r] # copy[r]
        PROVE  Reached(r)
    <3>1. PICK s \in Runners : Remove(s) \/ Strip(s) \/ Install(s) \/ Fill(s) \/ EndTurn(s)
      BY <2>3, Frame
    <3>2. s = r
      BY <1>1, <2>3, <3>1 DEF Remove, Strip, Install, Fill, EndTurn
    <3>3. ~EndTurn(r)
      BY <2>1 DEF EndTurn
    <3> QED
      BY <2>2, <3>1, <3>2, <3>3 DEF Reached
  <2>4. ASSUME writer'[r] # writer[r]
        PROVE  Reached(r)
    <3>1. PICK s \in Runners : Archive(s) \/ Launch(s) \/ Open(s) \/ CloseClient(s) \/ BeginTurn(s) \/ EndTurn(s) \/ Restart(s)
      BY <2>4, Frame
    <3>2. s = r
      BY <1>1, <2>4, <3>1 DEF Archive, Launch, Open, CloseClient, BeginTurn, EndTurn, Restart
    <3>3. Launch(r)
      BY <1>1, <2>1, <2>4, <3>1, <3>2 DEF Archive, Open, CloseClient, BeginTurn, EndTurn,
         Restart, Absent
    <3> QED
      BY <2>2, <3>3 DEF Reached
  <2> QED
    BY <1>4, <2>1, <2>3, <2>4
<1>5. ASSUME NEW m \in Ops, manifest'[m] # "none"
      PROVE  Reached(From[m])'
  <2>1. From[m] \in Runners
    BY ConstantsAssumption
  <2>2. SUFFICES ASSUME manifest[m] = "none"
                 PROVE  Reached(From[m])
    BY <1>1, <1>3, <2>1 DEF ReachedInv
  <2>3. CASE Inspect
    <3>1. job.op = m
      BY <1>5, <2>2, <2>3, JobIs, JobActs DEF Inspect, MoveInv, ReceiptTypes
    <3>2. writer[From[m]] # "none"
      BY <2>2, <2>3, <3>1 DEF Inspect, JobReady, Box, Origins
    <3> QED
      BY <1>1, <2>1, <3>2 DEF ReachedInv
  <2>4. ASSUME NEW s \in Runners, Freeze(s) \/ Recheck(s) \/ Closed(s)
        PROVE  Reached(From[m])
    <3>1. helper[s] # None /\ helper[s].pc \in {"freeze", "recheck", "closed"} /\ Op(s) \in Ops
      BY <2>4, HelperIs DEF Freeze, Recheck, Closed, Doing
    <3>2. Op(s) = m
      BY <1>5, <2>2, <2>4, <3>1 DEF Freeze, Recheck, Closed, MoveInv, ReceiptTypes
    <3>3. placement[From[m]] = Draining(m)
      BY <3>1, <3>2 DEF MoveInv, StageOfHelper, Closing
    <3> QED
      BY <3>3, Distinct DEF Reached, PlacesOf
  <2> QED
    BY <1>5, <2>2, <2>3, <2>4, Frame
<1>6. ASSUME NEW m \in Ops, record'[m].phase # "prepared"
      PROVE  manifest'[m] # "none"
  <2>1. manifest[m] # "none"
    <3>1. CASE record'[m] = record[m]
      BY <1>1, <1>6, <3>1 DEF ReachedInv
    <3>2. CASE record'[m] # record[m]
      <4>1. Checkpoint /\ m = job.op
        BY <3>2, Frame, CheckpointIs
      <4>2. /\ record[m].phase = PhaseAt(job.pc)
            /\ job.pc \in JobPhases
            /\ (job.pc = "closing" => manifest[m] # "none")
        BY <4>1, CheckpointIs DEF MoveInv, JobPhaseInv, JobPhases
      <4> QED
        BY <1>1, <4>2 DEF ReachedInv, PhaseAt, JobPhases
    <3> QED
      BY <3>1, <3>2
  <2>2. ASSUME NEW s \in Runners, Freeze(s) \/ Recheck(s) \/ Closed(s)
        PROVE  manifest'[m] # "none"
    BY <2>1, <2>2 DEF Freeze, Recheck, Closed, MoveInv, ReceiptTypes
  <2>3. CASE Inspect
    BY <2>1, <2>3 DEF Inspect, MoveInv, ReceiptTypes
  <2> QED
    BY <2>1, <2>2, <2>3, Frame
<1> QED
  BY <1>2, <1>4, <1>5, <1>6 DEF ReachedInv

-----------------------------------------------------------------------------
(* What a receipt says, it goes on saying.                                 *)
LEMMA ReceiptsStay ==
  ASSUME MoveInv, MoveStep, NEW m \in Ops
  PROVE  /\ manifest[m] # "none" => manifest'[m] # "none"
         /\ source[m].phase = "moved" => source'[m].phase = "moved"
         /\ source[m].phase # "none" => source'[m].sha = source[m].sha
         /\ dest[m].phase = "imported" => dest'[m].phase = "imported"
         /\ dest[m].phase # "none" => dest'[m].phase # "none"
         /\ dest[m].phase # "none" => dest'[m].sha = dest[m].sha /\ dest'[m].prev = dest[m].prev
         /\ restored[m] = "complete" => restored'[m] = "complete"
<1>1. /\ manifest \in [Ops -> {"none", "inventoried", "closing", "closed"}]
      /\ source \in [Ops -> Exported] /\ dest \in [Ops -> Bundles]
      /\ restored \in [Ops -> {"none", "starting", "listed", "complete"}]
  BY DEF MoveInv, ReceiptTypes
<1>2. manifest[m] # "none" => manifest'[m] # "none"
  BY <1>1, Frame DEF Inspect, Freeze, Recheck, Closed
<1>3. ASSUME NEW r \in Runners, Seal(r) \/ Export(r)
      PROVE  /\ source[m].phase = "moved" => source'[m].phase = "moved"
             /\ source[m].phase # "none" => source'[m].sha = source[m].sha
  <2>1. CASE Seal(r)
    BY <1>1, <2>1 DEF Seal, Exported
  <2>2. CASE Export(r)
    BY <1>1, <2>2 DEF Export, Exported
  <2> QED
    BY <1>3, <2>1, <2>2
<1>4. ASSUME NEW r \in Runners, Import(r) \/ Removed(r) \/ Imported(r)
      PROVE  /\ dest[m].phase = "imported" => dest'[m].phase = "imported"
             /\ dest[m].phase # "none" => dest'[m].phase # "none"
             /\ dest[m].phase # "none" => dest'[m].sha = dest[m].sha /\ dest'[m].prev = dest[m].prev
  <2>1. CASE Import(r)
    BY <1>1, <2>1 DEF Import, Bundles
  <2>2. CASE Removed(r)
    <3>1. dest[Op(r)].phase = "replacing"
      BY <2>2 DEF Removed, Doing, MoveInv, HelperInv
    <3> QED
      BY <1>1, <2>2, <3>1 DEF Removed, Bundles
  <2>3. CASE Imported(r)
    BY <1>1, <2>3 DEF Imported, Bundles
  <2> QED
    BY <1>4, <2>1, <2>2, <2>3
<1>5. ASSUME NEW r \in Runners, Restore(r) \/ Staged(r)
      PROVE  restored[m] = "complete" => restored'[m] = "complete"
  <2>1. CASE Restore(r)
    BY <1>1, <2>1 DEF Restore
  <2>2. CASE Staged(r)
    <3>1. Doing(r, "list") => restored[Op(r)] = "starting"
      BY DEF Doing, MoveInv, HelperInv
    <3> QED
      BY <1>1, <2>2, <3>1 DEF Staged
  <2> QED
    BY <1>5, <2>1, <2>2
<1>6. /\ source[m].phase = "moved" => source'[m].phase = "moved"
      /\ source[m].phase # "none" => source'[m].sha = source[m].sha
  BY <1>3, Frame
<1>7. /\ dest[m].phase = "imported" => dest'[m].phase = "imported"
      /\ dest[m].phase # "none" => dest'[m].phase # "none"
      /\ dest[m].phase # "none" => dest'[m].sha = dest[m].sha /\ dest'[m].prev = dest[m].prev
  BY <1>4, Frame
<1>8. restored[m] = "complete" => restored'[m] = "complete"
  BY <1>5, Frame
<1> QED
  BY <1>2, <1>6, <1>7, <1>8

(* Only a call starts a helper.                                            *)
LEMMA HelperSteps ==
  ASSUME MoveInv, MoveStep
  PROVE  \/ Call
         \/ helper' = helper
         \/ \E r \in Runners : HelperMoved(r) /\ record' = record /\ placement' = placement
<1>1. ASSUME NEW r \in Runners, HelperStep(r) \/ KillHelper(r) \/ Restart(r)
      PROVE  HelperMoved(r) /\ record' = record /\ placement' = placement
  <2>1. HelperMoved(r)
    BY <1>1, HelperMoves
  <2>2. record' = record /\ placement' = placement
    BY <1>1 DEF HelperStep, Close, Freeze, Recheck, Archive, Quiesce, Seal, Closed, Export, Own,
       Import, Remove, Strip, Removed, Install, Fill, Imported, Restore, Launch, Staged,
       Verified,
       HelperRefuses, KillHelper, Restart
  <2> QED
    BY <2>1, <2>2
<1> QED
  BY <1>1 DEF MoveStep, JobStep, UserStep, Takes, TakesUp, Check, Inspect, Checkpoint,
     Publish, JobRefuses, GiveUp, Open, CloseClient, BeginTurn, EndTurn, Waits, discussion, receipts

(* What the call of a helper changes.                                      *)
LEMMA CallIs ==
  ASSUME MoveInv, Call
  PROVE  /\ job # NoJob /\ job.op \in Ops /\ job.pc \in Calls /\ ~job.wait /\ Box \in Runners /\ helper[Box] = None
         /\ \A s \in Runners \ {Box} : helper'[s] = helper[s]
         /\ helper'[Box] = [op |-> job.op, pc |-> IF job.pc = "verify" THEN "restore" ELSE job.pc]
         /\ helper'[Box] \in Helpers /\ helper'[Box] # None
         /\ job' # NoJob /\ job'.op = job.op /\ job'.pc = job.pc /\ job'.wait
         /\ UNCHANGED <<discussion, placement, receipts, record, user>>
<1>1. job # NoJob /\ job \in Jobs /\ job.op \in Ops /\ Box \in Runners
  BY JobActs, JobIs
<1>2. job' = [job EXCEPT !.wait = TRUE] /\ job.pc \in Calls /\ ~job.wait
  BY DEF Call
<1>3. job' # NoJob /\ job'.op = job.op /\ job'.pc = job.pc /\ job'.wait
  BY <1>1, <1>2, NoJobIdle DEF Jobs
<1>4. helper[Box] = None
  BY <1>2 DEF Call, JobReady
<1>5. [op |-> job.op, pc |-> IF job.pc = "verify" THEN "restore" ELSE job.pc] \in Helpers
  BY <1>1, <1>2 DEF Helpers, Calls, Closing, Exports, Imports, Restores
<1>6. helper \in [Runners -> Helpers \cup {None}]
  BY DEF MoveInv, RunnerTypes
<1>7. /\ helper'[Box] = [op |-> job.op, pc |-> IF job.pc = "verify" THEN "restore" ELSE job.pc]
      /\ \A s \in Runners \ {Box} : helper'[s] = helper[s]
  BY <1>1, <1>6 DEF Call
<1>8. helper'[Box] # None
  BY <1>5, <1>7, ConstantsAssumption
<1> QED
  BY <1>1, <1>2, <1>3, <1>4, <1>5, <1>7, <1>8 DEF Call

(* Only a call brings a helper of a move.                                  *)
LEMMA LeftStays ==
  ASSUME MoveInv, MoveStep, ~Call, NEW m \in Ops, NEW r \in Runners, Left(m, r)
  PROVE  helper'[r] # None => helper'[r].op # m
<1>1. CASE helper'[r] = helper[r]
  BY <1>1 DEF Left, Op
<1>2. ASSUME NEW s \in Runners, HelperMoved(s)
      PROVE  helper'[r] # None => helper'[r].op # m
  <2>1. CASE s = r
    BY <1>2, <2>1 DEF HelperMoved, Goes, Left, Op
  <2>2. CASE s # r
    BY <1>1, <1>2, <2>2 DEF HelperMoved
  <2> QED
    BY <2>1, <2>2
<1> QED
  BY <1>1, <1>2, HelperSteps

(* The steps of the job itself.                                            *)
LEMMA JobMoves ==
  ASSUME MoveInv, MoveStep
  PROVE  \/ job' = NoJob
         \/ job' = job /\ ~Call /\ record' = record /\ placement' = placement
         \/ /\ job = NoJob /\ record' = record /\ placement' = placement
            /\ \E m \in Ops : Takes(m)
         \/ /\ job # NoJob /\ job' # NoJob /\ job'.op = job.op /\ ~job'.wait
            /\ \/ Check \/ Inspect \/ Publish
               \/ Checkpoint /\ job.pc # "complete"
               \/ ~Call /\ record' = record /\ placement' = placement /\
                  \E r \in Runners : HelperMoved(r) /\ Awaited(r) /\ Answers(r)
            /\ job'.pc = JobAfter(IF job.pc = "check" THEN record[job.op].phase ELSE job.pc)
         \/ Call
<1>1. ASSUME job # NoJob, NEW pc, job' = [job EXCEPT !.pc = pc, !.wait = FALSE]
      PROVE  job' # NoJob /\ job'.op = job.op /\ ~job'.wait /\ job'.pc = pc
  BY <1>1, JobIs, ConstantsAssumption DEF Jobs, NoJob
<1>2. CASE Check \/ Inspect \/ Publish \/ (Checkpoint /\ job.pc # "complete")
  <2>1. job # NoJob
    BY <1>2, JobActs
  <2>2. job' = [job EXCEPT !.pc = JobAfter(IF job.pc = "check" THEN record[job.op].phase ELSE job.pc), !.wait = FALSE]
    BY <1>2, PublishIs DEF Check, Inspect, Checkpoint, JobGoto, JobPhases, Drains, Starts,
       Readies
  <2> QED
    BY <1>1, <1>2, <2>1, <2>2
<1>3. CASE (Checkpoint /\ job.pc = "complete") \/ JobRefuses \/ GiveUp
  BY <1>3 DEF Checkpoint, JobRefuses, GiveUp
<1>4. ASSUME NEW m \in Ops, Takes(m)
      PROVE  job = NoJob /\ record' = record /\ placement' = placement
  BY <1>4 DEF Takes, TakesUp
<1>5. ASSUME NEW r \in Runners, HelperStep(r) \/ KillHelper(r) \/ Restart(r)
      PROVE  \/ job' = NoJob
             \/ job' = job /\ ~Call /\ record' = record /\ placement' = placement
             \/ /\ job # NoJob /\ job' # NoJob /\ job'.op = job.op /\ ~job'.wait
                /\ ~Call /\ record' = record /\ placement' = placement
                /\ HelperMoved(r) /\ Awaited(r) /\ Answers(r)
                /\ job'.pc = JobAfter(IF job.pc = "check" THEN record[job.op].phase ELSE job.pc)
  <2>1. HelperMoved(r)
    BY <1>5, HelperMoves
  <2>2. record' = record /\ placement' = placement
    BY <1>5 DEF HelperStep, Close, Freeze, Recheck, Archive, Quiesce, Seal, Closed, Export, Own,
       Import, Remove, Strip, Removed, Install, Fill, Imported, Restore, Launch, Staged,
       Verified,
       HelperRefuses, KillHelper, Restart
  <2>3. CASE Awaited(r) /\ Answers(r)
    <3>1. job.wait /\ job # NoJob /\ job.pc \in Calls
      BY <2>3, NoJobIdle DEF Awaited, MoveInv, WaitInv
    <3>2. ~Call
      BY <3>1 DEF Call
    <3>3. job' = [job EXCEPT !.pc = JobAfter(job.pc), !.wait = FALSE] /\ job.pc # "check"
      BY <2>3, <3>1 DEF Answers, Calls
    <3> QED
      BY <1>1, <2>1, <2>2, <2>3, <3>1, <3>2, <3>3
  <2>4. CASE job' = job
    <3>1. ~Call
      BY <2>4, CallIs
    <3> QED
      BY <2>2, <2>4, <3>1
  <2> QED
    BY <2>1, <2>3, <2>4 DEF HelperMoved, Goes
<1>6. CASE (\E r \in Runners : UserStep(r)) \/ Waits
  <2>1. job' = job /\ record' = record /\ placement' = placement
    BY <1>6 DEF UserStep, Open, CloseClient, BeginTurn, EndTurn, Waits, discussion, receipts
  <2>2. ~Call
    BY <2>1, CallIs
  <2> QED
    BY <2>1, <2>2
<1> QED
  BY <1>2, <1>3, <1>4, <1>5, <1>6 DEF MoveStep, JobStep

(* Each step keeps what a place of the job implies, ...                    *)
LEMMA PhasesResume ==
  ASSUME NEW ph \in Phases \ {"complete"}
  PROVE  /\ PhaseAt(JobAfter(ph)) = ph
         /\ JobAfter(ph) \in {"inspect", "origin draining", "origin starting", "restore", "verify"}
  BY JobAfterIs DEF Phases, PhaseAt

(* The job knows the phase and the receipts of its move ...                *)
LEMMA JobPhaseNext ==
  ASSUME MoveInv, MoveStep
  PROVE  JobPhaseInv'
<1> DEFINE JobHolds(j, m) ==
      /\ j.pc # "check" => record'[m].phase = PhaseAt(j.pc)
      /\ record'[m].phase # "complete"
      /\ j.pc \in {"vacant", "closing"} => manifest'[m] # "none"
      /\ j.pc \in {"import", "restoring"} => source'[m].phase = "moved"
      /\ j.pc = "restoring" => dest'[m].phase = "imported"
      /\ j.pc = "publishing" => restored'[m] = "complete"
      /\ j.pc \in {"copying", "import", "restoring"} =>
           (helper'[From[m]] # None => helper'[From[m]].op # m)
      /\ j.pc \in {"restoring", "publishing", "origin ready", "destination ready", "complete"} =>
           (helper'[To[m]] # None => helper'[To[m]].op # m)
<1> SUFFICES ASSUME job' # NoJob
             PROVE  JobHolds(job', job'.op)
  BY DEF JobPhaseInv, Left, Op, NoJob
<1>1. job # NoJob =>
        /\ job.op \in Ops /\ job.pc \in JobPlaces /\ From[job.op] \in Runners /\ To[job.op] \in Runners
        /\ From[job.op] # To[job.op]
        /\ job.pc # "check" => record[job.op].phase = PhaseAt(job.pc)
        /\ record[job.op].phase # "complete" /\ record[job.op].phase \in Phases
        /\ job.pc \in {"vacant", "closing"} => manifest[job.op] # "none"
        /\ job.pc \in {"import", "restoring"} => source[job.op].phase = "moved"
        /\ job.pc = "restoring" => dest[job.op].phase = "imported"
        /\ job.pc = "publishing" => restored[job.op] = "complete"
        /\ job.pc \in {"copying", "import", "restoring"} => Left(job.op, From[job.op])
        /\ job.pc \in {"restoring", "publishing", "origin ready", "destination ready", "complete"} =>
             Left(job.op, To[job.op])
  BY JobIs DEF MoveInv, JobPhaseInv, ControllerTypes, Records
<1>2. job # NoJob =>
        /\ manifest[job.op] # "none" => manifest'[job.op] # "none"
        /\ source[job.op].phase = "moved" => source'[job.op].phase = "moved"
        /\ dest[job.op].phase = "imported" => dest'[job.op].phase = "imported"
        /\ restored[job.op] = "complete" => restored'[job.op] = "complete"
  BY <1>1, ReceiptsStay
<1>3. ~Call /\ job # NoJob =>
        /\ Left(job.op, From[job.op]) => (helper'[From[job.op]] # None => helper'[From[job.op]].op # job.op)
        /\ Left(job.op, To[job.op]) => (helper'[To[job.op]] # None => helper'[To[job.op]].op # job.op)
  BY <1>1, LeftStays
<1>4. CASE job' = job /\ ~Call /\ record' = record
  BY <1>1, <1>2, <1>3, <1>4
<1>5. ASSUME NEW m \in Ops, Takes(m)
      PROVE  JobHolds(job', job'.op)
  BY <1>5 DEF Takes, TakesUp
<1>6. CASE Call
  <2>1. CASE job.pc # "import"
    <3>1. job.pc \notin {"copying", "import", "restoring", "publishing", "origin ready", "destination ready",
                         "complete", "vacant", "closing"}
      BY <1>6, <2>1, CallIs DEF Calls
    <3> QED
      BY <1>1, <1>6, <3>1, CallIs
  <2>2. CASE job.pc = "import"
    <3>1. Box = To[job.op]
      BY <2>2 DEF Box, Origins
    <3>2. helper'[From[job.op]] = helper[From[job.op]]
      BY <1>1, <1>6, <3>1, CallIs
    <3> QED
      BY <1>1, <1>2, <1>6, <2>2, <3>2, CallIs DEF Left, Op
  <2> QED
    BY <2>1, <2>2
<1>7. ASSUME job # NoJob, job'.op = job.op, ~Call
      PROVE  /\ Check => (job'.pc = JobAfter(IF job.pc = "check" THEN record[job.op].phase ELSE job.pc)
                           => JobHolds(job', job'.op))
             /\ Inspect \/ Publish => (job'.pc = JobAfter(job.pc) => JobHolds(job', job'.op))
  <2>1. CASE Check /\ job'.pc = JobAfter(IF job.pc = "check" THEN record[job.op].phase ELSE job.pc)
    <3>1. record' = record /\ job.pc \in {"check", "vacant", "park"}
      BY <2>1 DEF Check
    <3>2. CASE job.pc = "check"
      <4>1. /\ PhaseAt(job'.pc) = record[job.op].phase
            /\ job'.pc \in {"inspect", "origin draining", "origin starting", "restore", "verify"}
        BY <1>1, <1>7, <2>1, <3>2, PhasesResume
      <4> QED
        BY <1>1, <1>7, <3>1, <4>1
    <3>3. CASE job.pc # "check"
      <4>1. job'.pc \in {"closing", "close"} /\ PhaseAt(job'.pc) = PhaseAt(job.pc)
        BY <2>1, <3>1, <3>3, JobAfterIs DEF PhaseAt
      <4>2. job'.pc = "closing" => job.pc = "vacant"
        BY <2>1, <3>1, <3>3, JobAfterIs
      <4> QED
        BY <1>1, <1>2, <1>7, <3>1, <3>3, <4>1, <4>2
    <3> QED
      BY <3>2, <3>3
  <2>2. CASE Inspect /\ job'.pc = JobAfter(job.pc)
    <3>1. record' = record /\ job.pc = "inspect" /\ manifest'[job.op] # "none"
      BY <1>1, <1>7, <2>2 DEF Inspect, MoveInv, ReceiptTypes
    <3>2. job'.pc = "vacant" /\ PhaseAt(job'.pc) = PhaseAt(job.pc)
      BY <2>2, <3>1, JobAfterIs DEF PhaseAt
    <3> QED
      BY <1>1, <1>7, <3>1, <3>2
  <2>3. CASE Publish /\ job'.pc = JobAfter(job.pc)
    <3>1. /\ record' = record /\ manifest' = manifest
          /\ job.pc \in {"origin draining", "destination draining", "origin starting", "destination starting",
                         "origin ready", "destination ready"}
      BY <2>3, PublishIs DEF receipts, Drains, Starts, Readies
    <3>2. /\ job'.pc \in {"destination draining", "park", "destination starting", "export",
                          "destination ready", "complete"}
          /\ job'.pc \in {"destination ready", "complete"} => job.pc \in {"origin ready", "destination ready"}
          /\ PhaseAt(job'.pc) = PhaseAt(job.pc)
      BY <2>3, <3>1, JobAfterIs DEF PhaseAt
    <3> QED
      BY <1>1, <1>3, <1>7, <3>1, <3>2
  <2> QED
    BY <2>1, <2>2, <2>3
<1>8. ASSUME job # NoJob, job'.op = job.op, Checkpoint, job.pc # "complete", job'.pc = JobAfter(job.pc)
      PROVE  JobHolds(job', job'.op)
  <2>1. /\ job.pc \in {"closing", "copying", "restoring", "publishing"}
        /\ record'[job.op].phase = job.pc
    BY <1>8, CheckpointIs DEF JobPhases
  <2>2. /\ job'.pc \in {"origin draining", "origin starting", "restore", "verify"}
        /\ PhaseAt(job'.pc) = job.pc
    BY <1>8, <2>1, JobAfterIs DEF PhaseAt
  <2> QED
    BY <1>8, <2>1, <2>2
<1>9. ASSUME NEW r \in Runners, job # NoJob, job'.op = job.op, ~Call, record' = record,
             Awaited(r), Answers(r), job'.pc = JobAfter(job.pc)
      PROVE  JobHolds(job', job'.op)
  <2>1. job.pc \in Calls /\ r = Box /\ helper'[r] = None
    BY <1>9 DEF Awaited, Answers, MoveInv, WaitInv
  <2>2. CASE job.pc = "close"
    <3>1. r = From[job.op] /\ job'.pc = "copying" /\ PhaseAt(job'.pc) = PhaseAt(job.pc)
      BY <1>9, <2>1, <2>2, JobAfterIs DEF Box, Origins, PhaseAt
    <3> QED
      BY <1>1, <1>9, <2>1, <2>2, <3>1
  <2>3. CASE job.pc = "export"
    <3>1. /\ r = From[job.op] /\ job'.pc = "import" /\ PhaseAt(job'.pc) = PhaseAt(job.pc)
          /\ source'[job.op].phase = "moved"
      BY <1>9, <2>1, <2>3, JobAfterIs DEF Box, Origins, PhaseAt, Answers
    <3> QED
      BY <1>1, <1>9, <2>1, <2>3, <3>1
  <2>4. CASE job.pc = "import"
    <3>1. /\ r = To[job.op] /\ job'.pc = "restoring" /\ PhaseAt(job'.pc) = PhaseAt(job.pc)
          /\ dest'[job.op].phase = "imported"
      BY <1>9, <2>1, <2>4, JobAfterIs DEF Box, Origins, PhaseAt, Answers
    <3> QED
      BY <1>1, <1>2, <1>3, <1>9, <2>1, <2>4, <3>1
  <2>5. CASE job.pc = "restore"
    <3>1. /\ r = To[job.op] /\ job'.pc = "publishing" /\ PhaseAt(job'.pc) = PhaseAt(job.pc)
          /\ restored'[job.op] = "complete"
      BY <1>9, <2>1, <2>5, JobAfterIs DEF Box, Origins, PhaseAt, Answers
    <3> QED
      BY <1>1, <1>9, <2>1, <2>5, <3>1
  <2>6. CASE job.pc = "verify"
    <3>1. r = To[job.op] /\ job'.pc = "origin ready" /\ PhaseAt(job'.pc) = PhaseAt(job.pc)
      BY <1>9, <2>1, <2>6, JobAfterIs DEF Box, Origins, PhaseAt
    <3> QED
      BY <1>1, <1>9, <2>1, <2>6, <3>1
  <2> QED
    BY <2>1, <2>2, <2>3, <2>4, <2>5, <2>6 DEF Calls
<1>10. ASSUME Check \/ Inspect \/ Publish
       PROVE  ~Call
  BY <1>10, PublishIs DEF Check, Inspect, Call, Calls, Drains, Starts, Readies
<1>11. job.pc = "check" /\ (Inspect \/ Publish \/ Checkpoint \/ \E r \in Runners : Awaited(r)) => FALSE
  BY PublishIs DEF Inspect, Checkpoint, JobPhases, Drains, Starts, Readies, Awaited, MoveInv,
     WaitInv, Calls
<1> HIDE DEF JobHolds
<1> QED
  BY <1>4, <1>5, <1>6, <1>7, <1>8, <1>9, <1>10, <1>11, JobMoves

(* ... where its runners are, ...                                          *)
Offers(m)  == Invited(From[m]) /\ Resting
Settled(m) == Known(m) # {} => \E n \in Ops : To[n] = From[m] /\ Known(m) = {Ready(n)}

PlacesAt(pc, m) ==
  LET p == placement[From[m]]
      q == placement[To[m]] IN
  /\ pc = "inspect" => Known(m) = {} \/ Offers(m)
  /\ pc \in {"inspect", "vacant", "closing"} => Settled(m)
  /\ pc \in {"vacant", "closing", "origin draining"} => p = Draining(m) \/ Offers(m)
  /\ pc \in {"destination draining", "park", "close", "copying"} => p = Draining(m)
  /\ pc \in {"park", "close", "copying"} => q = Draining(m)
  /\ pc = "destination starting" => p = Starting(m)
  /\ pc \in {"export", "import", "restoring"} => p = Starting(m) /\ q = Starting(m)
  /\ pc \in {"verify", "origin ready"} => q = Starting(m) \/ (q = Ready(m) /\ p = Ready(m))
  /\ pc = "destination ready" => p = Ready(m) /\ q \in {Starting(m), Ready(m)}
  /\ pc = "complete" => p = Ready(m) /\ q = Ready(m)

(* A placement published by the move itself is one of its three.           *)
LEMMA PlaceIsOf ==
  ASSUME MoveInv, NEW r \in Runners, placement[r] # None
  PROVE  /\ \E n \in Ops : placement[r] \in PlacesOf(n)
         /\ \A m \in Ops : placement[r].op = m => placement[r] \in PlacesOf(m)
         /\ placement[r].phase = "ready" => \E n \in Ops : placement[r] = Ready(n)
<1>1. PICK n \in Ops : placement[r] \in PlacesOf(n)
  BY DEF MoveInv, RunnerTypes, Published
<1>2. placement[r].op = n /\ (placement[r].phase = "ready" => placement[r] = Ready(n))
  BY <1>1 DEF PlacesOf, Draining, Starting, Ready
<1> QED
  BY <1>1, <1>2

(* Where the origin publishes nothing, the discussion has never moved.     *)
LEMMA NeverMoved ==
  ASSUME MoveInv, NEW m \in Ops, placement[From[m]] = None, Reached(From[m])
  PROVE  Offers(m)
<1>1. From[m] = First
  BY DEF Reached
<1>2. \A r \in Runners : placement[r] = None
  BY <1>1 DEF MoveInv, ReachedInv
<1>3. Resting
  BY <1>2, Distinct DEF Resting, Moving, PlacesOf
<1> QED
  BY <1>1, <1>3 DEF Offers, Invited

(* Where the origin publishes the end of an earlier move, it is offered.   *)
LEMMA OfferedByReady ==
  ASSUME MoveInv, NEW m \in Ops, NEW n \in Ops, placement[From[m]] = Ready(n), To[n] = From[m]
  PROVE  Offers(m)
<1>1. From[m] \in Runners
  BY ConstantsAssumption
<1>2. Invited(From[m])
  BY Distinct DEF Invited, Ready, PlacesOf
<1>3. \A k \in Ops : placement[From[m]] # Draining(k)
  BY Distinct
<1>4. Resting
  BY <1>1, <1>2, <1>3 DEF Resting, MoveInv, OfferInv
<1> QED
  BY <1>2, <1>4 DEF Offers

(* What an agreed placement tells a job that starts or resumes.            *)
LEMMA AgreedPlaces ==
  ASSUME MoveInv, NEW m \in Ops, Agreed(m), record[m].phase # "complete"
  PROVE  PlacesAt(JobAfter(record[m].phase), m)
<1> DEFINE p == placement[From[m]]
           q == placement[To[m]]
<1>1. From[m] \in Runners /\ To[m] \in Runners /\ record[m].phase \in Phases
  BY ConstantsAssumption DEF MoveInv, ControllerTypes, Records
<1>2. CASE record[m].phase = "prepared"
  <2>1. p \notin PlacesOf(m) /\ q \notin PlacesOf(m)
    BY <1>2 DEF MoveInv, StageInv
  <2>2. ASSUME Known(m) # {}
        PROVE  Offers(m) /\ \E n \in Ops : To[n] = From[m] /\ Known(m) = {Ready(n)}
    <3>1. /\ Known(m) = {Current(m)} /\ (Current(m).phase = "ready" => Current(m).current = From[m])
          /\ Current(m).phase # "ready" => Current(m).op = m
      BY <1>2, <2>2 DEF Agreed
    <3>2. PICK r \in {From[m], To[m]} : Current(m) = placement[r] /\ placement[r] # None
      BY <3>1 DEF Known, Current
    <3>3. Current(m).op # m
      BY <1>1, <2>1, <3>2, PlaceIsOf
    <3>4. PICK n \in Ops : Current(m) = Ready(n)
      BY <1>1, <3>1, <3>2, <3>3, PlaceIsOf
    <3>5. To[n] = From[m]
      BY <3>1, <3>4 DEF Ready
    <3>6. p # None
      BY <1>1, <3>2, <3>4, <3>5 DEF MoveInv, ReachedInv
    <3>7. p = Ready(n)
      BY <3>4, <3>6 DEF Current
    <3> QED
      BY <3>1, <3>4, <3>5, <3>7, OfferedByReady
  <2> QED
    BY <1>2, <2>2, JobAfterIs DEF PlacesAt, Settled
<1>3. CASE record[m].phase = "closing"
  <2>1. p \notin {Starting(m), Ready(m)} /\ Reached(From[m])
    BY <1>3 DEF MoveInv, StageInv, ReachedInv
  <2>2. p = Draining(m) \/ Offers(m)
    <3>1. CASE p = None
      BY <2>1, <3>1, NeverMoved
    <3>2. CASE p # None
      <4>1. p.op = m \/ p = record[m].prev
        BY <1>3, <3>2 DEF Agreed, Known
      <4>2. CASE p.op = m
        BY <1>1, <2>1, <3>2, <4>2, PlaceIsOf DEF PlacesOf
      <4>3. CASE p = record[m].prev
        <5>1. PICK n \in Ops : p = Ready(n) /\ To[n] = From[m]
          BY <3>2, <4>3 DEF MoveInv, PrevInv
        <5> QED
          BY <5>1, OfferedByReady
      <4> QED
        BY <4>1, <4>2, <4>3
    <3> QED
      BY <3>1, <3>2
  <2> QED
    BY <1>3, <2>2, JobAfterIs DEF PlacesAt
<1>4. CASE record[m].phase \in {"copying", "restoring"}
  BY <1>4, JobAfterIs DEF PlacesAt
<1>5. CASE record[m].phase = "publishing"
  <2>1. q = Starting(m) \/ (q = Ready(m) /\ p = Ready(m))
    <3>1. SUFFICES ASSUME ~Moving(m)
                   PROVE  q = Ready(m) /\ p = Ready(m)
      BY <1>5 DEF MoveInv, StageInv
    <3>2. p # record[m].prev /\ q # record[m].prev
      BY <1>5 DEF MoveInv, PrevInv
    <3>3. p # None
      BY <3>2 DEF MoveInv, PrevInv
    <3>4. \A r \in {From[m], To[m]} : placement[r] # None => placement[r] = Ready(m)
      <4>1. SUFFICES ASSUME NEW r \in {From[m], To[m]}, placement[r] # None
                     PROVE  placement[r] = Ready(m)
        OBVIOUS
      <4>2. placement[r].op = m
        BY <1>5, <3>2, <4>1 DEF Agreed, Known
      <4> QED
        BY <1>1, <3>1, <4>1, <4>2, PlaceIsOf DEF PlacesOf, Moving
    <3>5. p = Ready(m)
      BY <3>3, <3>4
    <3>6. q # None
      BY <1>1, <3>5 DEF MoveInv, ReachedInv
    <3> QED
      BY <3>4, <3>5, <3>6
  <2> QED
    BY <1>5, <2>1, JobAfterIs DEF PlacesAt
<1> QED
  BY <1>1, <1>2, <1>3, <1>4, <1>5 DEF Phases

(* ... and the placements it has seen or published.                        *)
LEMMA JobPlaceNext ==
  ASSUME MoveInv, MoveStep
  PROVE  JobPlaceInv'
<1> SUFFICES ASSUME NEW m \in Ops, job' # NoJob, job'.op = m
             PROVE  \A pc \in {job'.pc} : PlacesAt(pc, m)'
  <2>1. job' # NoJob => job'.op \in Ops
    BY JobTypes DEF Jobs
  <2> QED
    BY <2>1 DEF JobPlaceInv, PlacesAt, Settled, Offers, Known, NoJob
<1>1. job # NoJob /\ job.op = m => PlacesAt(job.pc, m)
  BY DEF MoveInv, JobPlaceInv, PlacesAt, Settled, Offers, NoJob
<1>2. /\ From[m] \in Runners
      /\ To[m] \in Runners
      /\ From[m] # To[m]
      /\ placement \in [Runners -> Published]
  BY ConstantsAssumption DEF MoveInv, RunnerTypes
<1>3. ASSUME placement' = placement, NEW pc, PlacesAt(pc, m)
      PROVE  PlacesAt(pc, m)'
  BY <1>3 DEF PlacesAt, Settled, Offers, Known, Invited, Resting, Moving
<1>4. CASE job' = job /\ placement' = placement
  BY <1>1, <1>3, <1>4
<1>5. ASSUME NEW n \in Ops, Takes(n)
      PROVE  \A pc \in {job'.pc} : PlacesAt(pc, m)'
  BY <1>5 DEF Takes, TakesUp, PlacesAt
<1>6. CASE Call
  BY <1>1, <1>3, <1>6, CallIs
<1>7. ASSUME job # NoJob, job.op = m, Check \/ Inspect \/ (Checkpoint /\ job.pc # "complete"),
             job'.pc = JobAfter(IF job.pc = "check" THEN record[job.op].phase ELSE job.pc)
      PROVE  placement' = placement /\ PlacesAt(job'.pc, m)
  <2>1. CASE Check
    <3>1. CASE job.pc = "check"
      <4>1. placement' = placement /\ Agreed(m) /\ record[m].phase # "complete"
        BY <1>7, <2>1, <3>1 DEF Check, JobReady, MoveInv, JobPhaseInv
      <4> QED
        BY <1>7, <3>1, <4>1, AgreedPlaces
    <3>2. CASE job.pc = "vacant"
      BY <1>1, <1>7, <2>1, <3>2, JobAfterIs DEF Check, PlacesAt
    <3>3. CASE job.pc = "park"
      BY <1>1, <1>7, <2>1, <3>3, JobAfterIs DEF Check, PlacesAt
    <3> QED
      BY <2>1, <3>1, <3>2, <3>3 DEF Check
  <2>2. CASE Inspect
    <3>1. /\ job.pc = "inspect"
          /\ placement' = placement
          /\ (manifest[m] # "none" \/ writer[From[m]] # "none")
      BY <1>7, <2>2 DEF Inspect, JobReady, Box, Origins
    <3>2. Reached(From[m])
      BY <1>2, <3>1 DEF MoveInv, ReachedInv
    <3>3. Offers(m)
      <4>1. CASE Known(m) = {}
        BY <3>2, <4>1, NeverMoved DEF Known
      <4> QED
        BY <1>1, <1>7, <3>1, <4>1 DEF PlacesAt
    <3> QED
      BY <1>1, <1>7, <3>1, <3>3, JobAfterIs DEF PlacesAt
  <2>3. CASE Checkpoint /\ job.pc # "complete"
    <3>1. job.pc \in {"closing", "copying", "restoring", "publishing"} /\ placement' = placement
      BY <2>3, CheckpointIs DEF JobPhases
    <3>2. job.pc = "publishing" => placement[To[m]] = Starting(m)
      BY <1>7 DEF MoveInv, JobPhaseInv, PhaseAt, StageInv
    <3>3. job'.pc = JobAfter(job.pc)
      BY <1>7, <3>1
    <3> QED
      BY <1>1, <1>7, <3>1, <3>2, <3>3, JobAfterIs DEF PlacesAt
  <2> QED
    BY <1>7, <2>1, <2>2, <2>3
<1>8. ASSUME NEW r \in Runners, job # NoJob, job.op = m, placement' = placement, Awaited(r), job'.pc = JobAfter(job.pc)
      PROVE  PlacesAt(job'.pc, m)
  <2>1. job.pc \in Calls
    BY <1>8 DEF Awaited, MoveInv, WaitInv
  <2>2. CASE job.pc \in {"close", "export"}
    BY <1>1, <1>8, <2>2, JobAfterIs DEF PlacesAt
  <2>3. CASE job.pc \in {"import", "restore", "verify"}
    BY <1>1, <1>8, <2>3, JobAfterIs DEF PlacesAt
  <2> QED
    BY <2>1, <2>2, <2>3 DEF Calls
<1>9. ASSUME job # NoJob, job.op = m, Publish, job'.pc = JobAfter(job.pc)
      PROVE  \A pc \in {job'.pc} : PlacesAt(pc, m)'
  <2> DEFINE new == IF job.pc \in Drains THEN Draining(m)
                    ELSE IF job.pc \in Starts THEN Starting(m) ELSE Ready(m)
  <2>1. job.pc \in Drains \cup Starts \cup Readies /\ placement' = [placement EXCEPT ![Box] = new]
    BY <1>9, PublishIs
  <2>2. CASE job.pc \in {"origin draining", "origin starting", "origin ready"}
    <3>1. placement'[From[m]] = new /\ placement'[To[m]] = placement[To[m]]
      BY <1>2, <1>9, <2>1, <2>2 DEF Box, Origins
    <3>2. CASE job.pc = "origin draining"
      BY <1>9, <3>1, <3>2, JobAfterIs DEF PlacesAt, Drains
    <3>3. CASE job.pc = "origin starting"
      BY <1>9, <3>1, <3>3, JobAfterIs DEF PlacesAt, Drains, Starts
    <3>4. CASE job.pc = "origin ready"
      BY <1>1, <1>9, <3>1, <3>4, JobAfterIs DEF PlacesAt, Drains, Starts
    <3> QED
      BY <2>2, <3>2, <3>3, <3>4
  <2>3. CASE job.pc \in {"destination draining", "destination starting", "destination ready"}
    <3>1. placement'[To[m]] = new /\ placement'[From[m]] = placement[From[m]]
      BY <1>2, <1>9, <2>1, <2>3 DEF Box, Origins
    <3>2. CASE job.pc = "destination draining"
      BY <1>1, <1>9, <3>1, <3>2, JobAfterIs DEF PlacesAt, Drains
    <3>3. CASE job.pc = "destination starting"
      BY <1>1, <1>9, <3>1, <3>3, JobAfterIs DEF PlacesAt, Drains, Starts
    <3>4. CASE job.pc = "destination ready"
      BY <1>1, <1>9, <3>1, <3>4, JobAfterIs DEF PlacesAt, Drains, Starts
    <3> QED
      BY <2>3, <3>2, <3>3, <3>4
  <2> QED
    BY <2>1, <2>2, <2>3 DEF Drains, Starts, Readies
<1>10. job.pc = "check" /\ (Publish \/ \E r \in Runners : Awaited(r)) => FALSE
  BY PublishIs DEF Drains, Starts, Readies, Awaited, MoveInv, WaitInv, Calls
<1>11. ASSUME placement' = placement, PlacesAt(job'.pc, m)
       PROVE  \A pc \in {job'.pc} : PlacesAt(pc, m)'
  BY <1>3, <1>11
<1> HIDE DEF PlacesAt
<1> QED
  BY <1>4, <1>5, <1>6, <1>7, <1>8, <1>9, <1>10, <1>11, JobMoves

(* ... and what the job that waits is waiting for.                         *)
LEMMA WaitNext ==
  ASSUME MoveInv, MoveStep
  PROVE  WaitInv'
<1> SUFFICES ASSUME job'.wait
             PROVE  /\ job'.pc \in Calls
                    /\ helper'[Box'] # None /\ helper'[Box'].op = job'.op
                    /\ helper'[Box'].pc \in CallPlaces(job'.pc)
  BY DEF WaitInv, Op, Box
<1>1. ~NoJob.wait
  BY NoJobIdle
<1>2. CASE job' = job /\ ~Call
  <2>1. job # NoJob /\ job \in Jobs /\ Box \in Runners /\ Box' = Box
    BY <1>1, <1>2, JobIs DEF Box
  <2>2. /\ job.pc \in Calls
        /\ helper[Box] # None
        /\ Op(Box) = job.op
        /\ helper[Box].pc \in CallPlaces(job.pc)
    BY <1>2 DEF MoveInv, WaitInv
  <2>3. CASE helper'[Box] = helper[Box]
    BY <1>2, <2>1, <2>2, <2>3 DEF Op
  <2>4. CASE HelperMoved(Box) /\ record' = record
    <3>1. Awaited(Box)
      BY <1>2 DEF Awaited
    <3>2. job' # NoJob /\ ~Answers(Box)
      BY <1>2, <2>1 DEF Answers, Jobs
    <3>3. Goes(Box)
      BY <2>4, <3>1, <3>2 DEF HelperMoved
    <3>4. PICK c \in Calls \ {"verify"} : {helper[Box].pc, helper'[Box].pc} \subseteq CallPlaces(c)
      BY <3>3 DEF Goes
    <3>5. job.pc # "verify"
      <4>1. job.pc = "verify" => helper[Box].pc = "restore" /\ record[job.op].phase = "publishing"
        BY <2>1, <2>2 DEF CallPlaces, MoveInv, JobPhaseInv, PhaseAt
      <4> QED
        BY <2>2, <3>3, <4>1 DEF Goes
    <3>6. job.pc = c
      BY <2>2, <3>4, <3>5 DEF Calls, CallPlaces, Closing, Exports, Imports, Restores
    <3> QED
      BY <1>2, <2>1, <2>2, <3>3, <3>4, <3>6, ConstantsAssumption DEF Goes, Op
  <2> QED
    BY <1>2, <2>1, <2>3, <2>4, HelperSteps DEF HelperMoved
<1>3. CASE Call
  <2>1. Box' = Box
    BY <1>3, CallIs DEF Box
  <2>2. job.pc \in Calls => (IF job.pc = "verify" THEN "restore" ELSE job.pc) \in CallPlaces(job.pc)
    BY DEF Calls, CallPlaces, Closing, Exports, Imports, Restores
  <2> QED
    BY <1>3, <2>1, <2>2, CallIs
<1>4. ASSUME NEW m \in Ops, Takes(m)
      PROVE  FALSE
  BY <1>4 DEF Takes, TakesUp
<1> QED
  BY <1>1, <1>2, <1>3, <1>4, JobMoves

-----------------------------------------------------------------------------
(* What a step touches.                                                    *)
RunnerStep(s) == HelperStep(s) \/ UserStep(s) \/ KillHelper(s) \/ Restart(s)

(* Discussions, ledgers and receipts change in steps of one runner.        *)
LEMMA StepCases ==
  ASSUME MoveInv, MoveStep
  PROVE  \/ /\ UNCHANGED <<copy, writer, frozen, ledger, source, dest, restored, turns,
                           strayed>>
            /\ helper' = helper \/ Call
         \/ \E s \in Runners : RunnerStep(s)
<1>1. CASE Call \/ Waits
  BY <1>1 DEF Call, Waits, discussion, receipts, user
<1>2. CASE (\E m \in Ops : Takes(m)) \/ Check \/ Inspect \/ Checkpoint
  BY <1>2 DEF Takes, TakesUp, Check, Inspect, Checkpoint, discussion, receipts, user
<1>3. CASE Publish \/ JobRefuses \/ GiveUp
  BY <1>3 DEF Publish, JobRefuses, GiveUp, discussion, receipts, user
<1> QED
  BY <1>1, <1>2, <1>3 DEF MoveStep, JobStep, RunnerStep

(* Such a step touches this runner and receipts of its helper's move.      *)
LEMMA Touched ==
  ASSUME MoveInv, NEW s \in Runners, RunnerStep(s)
  PROVE  /\ \A r \in Runners \ {s} : /\ copy'[r] = copy[r] /\ writer'[r] = writer[r] /\ frozen'[r] = frozen[r]
                                     /\ ledger'[r] = ledger[r] /\ helper'[r] = helper[r]
         /\ source' = source \/ /\ helper[s] # None /\ helper[s].pc \in {"seal", "export"}
                                /\ \A m \in Ops \ {Op(s)} : source'[m] = source[m]
         /\ dest' = dest \/ /\ helper[s] # None /\ helper[s].pc \in {"import", "removed", "imported"}
                            /\ \A m \in Ops \ {Op(s)} : dest'[m] = dest[m]
         /\ restored' = restored \/ /\ helper[s] # None /\ helper[s].pc \in {"restore", "list", "await"}
                                    /\ \A m \in Ops \ {Op(s)} : restored'[m] = restored[m]
         /\ record' = record /\ placement' = placement
<1>1. /\ copy \in [Runners -> Copies] /\ writer \in [Runners -> {"none", "idle", "active"}]
      /\ frozen \in [Runners -> BOOLEAN] /\ ledger \in [Runners -> Ledgers \cup {None}]
      /\ source \in [Ops -> Exported] /\ dest \in [Ops -> Bundles]
      /\ restored \in [Ops -> {"none", "starting", "listed", "complete"}]
  BY DEF MoveInv, RunnerTypes, ReceiptTypes
<1>2. \A r \in Runners \ {s} : helper'[r] = helper[r]
  <2>1. CASE UserStep(s)
    BY <2>1 DEF UserStep, Open, CloseClient, BeginTurn, EndTurn
  <2> QED
    BY <2>1, HelperMoves DEF RunnerStep, HelperMoved
<1>3. record' = record /\ placement' = placement
  BY DEF RunnerStep, HelperStep, UserStep, Close, Freeze, Recheck, Archive, Quiesce, Seal,
     Closed, Export, Own,
     Import, Remove, Strip, Removed, Install, Fill, Imported, Restore, Launch, Staged, Verified,
     HelperRefuses, KillHelper, Restart, Open, CloseClient, BeginTurn, EndTurn
<1>4. CASE Close(s) \/ Recheck(s) \/ Quiesce(s) \/ Closed(s) \/ Verified(s) \/ KillHelper(s)
  BY <1>2, <1>3, <1>4 DEF Close, Recheck, Quiesce, Closed, Verified, KillHelper, discussion,
     receipts
<1>5. CASE Seal(s) \/ Export(s) \/ Own(s)
  BY <1>1, <1>2, <1>3, <1>5 DEF Seal, Export, Own, Doing, discussion, receipts
<1>6. CASE Import(s) \/ Removed(s) \/ Imported(s)
  BY <1>1, <1>2, <1>3, <1>6 DEF Import, Removed, Imported, Doing, discussion
<1>7. CASE Remove(s) \/ Strip(s) \/ Install(s) \/ Fill(s)
  BY <1>1, <1>2, <1>3, <1>7 DEF Remove, Strip, Install, Fill, receipts
<1>8. CASE Restore(s) \/ Staged(s)
  BY <1>1, <1>2, <1>3, <1>8 DEF Restore, Staged, Doing, discussion
<1>9. CASE Launch(s) \/ CloseClient(s) \/ BeginTurn(s) \/ Open(s) \/ EndTurn(s)
  BY <1>1, <1>2, <1>3, <1>9 DEF Launch, CloseClient, BeginTurn, Open, EndTurn, receipts
<1>10. CASE Freeze(s) \/ Archive(s) \/ HelperRefuses(s) \/ Restart(s)
  BY <1>1, <1>2, <1>3, <1>10 DEF Freeze, Archive, HelperRefuses, Restart, receipts
<1> QED
  BY <1>4, <1>5, <1>6, <1>7, <1>8, <1>9, <1>10 DEF RunnerStep, HelperStep, UserStep

-----------------------------------------------------------------------------
(* Each step keeps a helper in the phase in which it was called, ...       *)
StageAt(m, pc, r) ==
  LET p == placement[From[m]]
      q == placement[To[m]] IN
  /\ pc \in Closing \cup Exports => r = From[m]
  /\ pc \in Imports \cup Restores => r = To[m]
  /\ pc \in Closing => record[m].phase = "closing" /\ p = Draining(m) /\ q = Draining(m)
  /\ pc \in Exports \cup Imports =>
       record[m].phase = "copying" /\ p = Starting(m) /\ q = Starting(m)
  /\ pc \in Restores \ {"restore"} => record[m].phase = "restoring"
  /\ pc = "restore" => record[m].phase \in {"restoring", "publishing"}

(* Commands share no place.                                                *)
LEMMA CommandsDiffer ==
  /\ Closing \cap (Exports \cup Imports \cup Restores) = {}
  /\ Exports \cap (Imports \cup Restores) = {} /\ Imports \cap Restores = {}
  /\ "restore" \in Restores
  BY DEF Closing, Exports, Imports, Restores

(* A helper stays within the phase that called it.                         *)
LEMMA StageOfHelperNext ==
  ASSUME MoveInv, MoveStep
  PROVE  StageOfHelper'
<1> SUFFICES ASSUME NEW r \in Runners, helper'[r] # None
             PROVE  \A m \in {helper'[r].op}, pc \in {helper'[r].pc} : StageAt(m, pc, r)'
  BY DEF StageOfHelper, StageAt, Op
<1>1. helper[r] # None => /\ StageAt(Op(r), helper[r].pc, r) /\ Op(r) \in Ops /\ helper[r] \in Helpers
                          /\ From[Op(r)] \in Runners /\ To[Op(r)] \in Runners
  BY HelperIs, ConstantsAssumption DEF MoveInv, StageOfHelper, StageAt
<1>2. ASSUME NEW m \in Ops, NEW pc, helper[r] # None, Op(r) = m, StageAt(m, pc, r)
      PROVE  StageAt(m, pc, r)'
  <2>1. CASE record' = record /\ placement' = placement
    BY <1>2, <2>1 DEF StageAt
  <2>2. CASE Checkpoint /\ placement' = placement
    <3>1. CASE m # job.op
      <4>1. record'[m] = record[m]
        BY <2>2, <3>1, CheckpointIs
      <4> QED
        BY <1>2, <2>2, <4>1 DEF StageAt
    <3>2. CASE m = job.op
      <4>1. /\ job # NoJob
            /\ job.pc \in JobPhases
            /\ record[m].phase = PhaseAt(job.pc)
            /\ record'[m].phase = job.pc
        BY <2>2, <3>2, CheckpointIs DEF MoveInv, JobPhaseInv, JobPhases
      <4>2. /\ job.pc \in {"copying", "restoring"} => r # From[m]
            /\ job.pc \in {"restoring", "publishing", "complete"} => r # To[m]
        BY <1>2, <3>2, <4>1 DEF MoveInv, JobPhaseInv, Left
      <4>3. pc \notin Closing \cup Exports
        BY <1>2, <4>1, <4>2, CommandsDiffer DEF StageAt, PhaseAt, JobPhases
      <4>4. pc \notin Imports
        BY <1>2, <4>1, <4>2 DEF StageAt, PhaseAt, JobPhases
      <4>5. pc \notin Restores
        BY <1>2, <4>1, <4>2 DEF StageAt, PhaseAt, JobPhases
      <4>6. pc # "restore"
        BY <4>5, CommandsDiffer
      <4> QED
        BY <4>3, <4>4, <4>5, <4>6 DEF StageAt
    <3> QED
      BY <3>1, <3>2
  <2>3. ASSUME record' = record, NEW k \in Ops, DrainsOrigin(k) \/ DrainsDestination(k) \/ Onward(k)
        PROVE  pc \notin Closing \cup Exports \cup Imports
    <3>1. SUFFICES ASSUME pc \in Closing \cup Exports \cup Imports
                   PROVE  FALSE
      OBVIOUS
    <3>2. Moving(m)
      BY <1>1, <1>2, <3>1 DEF StageAt, Moving
    <3>3. m = k /\ ~DrainsOrigin(m)
      BY <2>3, <3>2, OnlyMover
    <3>4. \/ /\ record[m].phase = "closing"
             /\ placement[From[m]] = Draining(m) /\ placement[To[m]] = Draining(m)
          \/ /\ record[m].phase = "copying"
             /\ placement[From[m]] = Starting(m) /\ placement[To[m]] = Starting(m)
      BY <1>2, <3>1 DEF StageAt
    <3> QED
      BY <2>3, <3>3, <3>4, Distinct DEF DrainsDestination, Onward, StartsOrigin,
         StartsDestination,
         ReadiesOrigin, ReadiesDestination, PlacesOf
  <2>4. ASSUME record' = record, pc \notin Closing \cup Exports \cup Imports
        PROVE  StageAt(m, pc, r)'
    BY <1>2, <2>4 DEF StageAt
  <2> QED
    BY <2>1, <2>2, <2>3, <2>4, PlacementSteps
<1>3. CASE helper'[r] = helper[r]
  BY <1>1, <1>2, <1>3 DEF Op
<1>4. CASE Call /\ r = Box
  <2> DEFINE m == job.op
  <2>1. /\ job # NoJob /\ m \in Ops /\ job.pc \in Calls /\ helper'[r].op = m
        /\ helper'[r].pc = IF job.pc = "verify" THEN "restore" ELSE job.pc
        /\ record' = record /\ placement' = placement
    BY <1>4, CallIs
  <2>2. record[m].phase = PhaseAt(job.pc)
    BY <2>1 DEF MoveInv, JobPhaseInv, Calls
  <2>3. /\ job.pc = "close" => placement[From[m]] = Draining(m) /\ placement[To[m]] = Draining(m)
        /\ job.pc \in {"export", "import"} => placement[From[m]] = Starting(m) /\ placement[To[m]] = Starting(m)
    BY <2>1 DEF MoveInv, JobPlaceInv
  <2>4. r = IF job.pc \in {"close", "export"} THEN From[m] ELSE To[m]
    BY <1>4, <2>1 DEF Box, Origins, Calls
  <2>5. StageAt(m, helper'[r].pc, r)
    <3>1. CASE job.pc = "close"
      BY <2>1, <2>2, <2>3, <2>4, <3>1 DEF StageAt, PhaseAt, Closing, Exports, Imports, Restores
    <3>2. CASE job.pc \in {"export", "import"}
      BY <2>1, <2>2, <2>3, <2>4, <3>2 DEF StageAt, PhaseAt, Closing, Exports, Imports, Restores
    <3>3. CASE job.pc \in {"restore", "verify"}
      BY <2>1, <2>2, <2>4, <3>3 DEF StageAt, PhaseAt, Closing, Exports, Imports, Restores
    <3> QED
      BY <2>1, <3>1, <3>2, <3>3 DEF Calls
  <2> QED
    BY <2>1, <2>5 DEF StageAt
<1>5. CASE Goes(r) /\ record' = record /\ placement' = placement
  <2>1. PICK c \in Calls \ {"verify"} : {helper[r].pc, helper'[r].pc} \subseteq CallPlaces(c)
    BY <1>5 DEF Goes
  <2>2. /\ helper[r] # None /\ helper'[r].op = Op(r) /\ StageAt(Op(r), helper[r].pc, r)
        /\ helper[r].pc = "restore" => record[Op(r)].phase = "restoring"
    BY <1>1, <1>5 DEF Goes
  <2>3. StageAt(Op(r), helper'[r].pc, r)
    <3>1. CASE c = "close"
      BY <2>1, <2>2, <3>1, CommandsDiffer DEF StageAt, CallPlaces
    <3>2. CASE c = "export"
      BY <2>1, <2>2, <3>2, CommandsDiffer DEF StageAt, CallPlaces
    <3>3. CASE c = "import"
      BY <2>1, <2>2, <3>3, CommandsDiffer DEF StageAt, CallPlaces
    <3>4. CASE c = "restore"
      BY <2>1, <2>2, <3>4, CommandsDiffer DEF StageAt, CallPlaces
    <3> QED
      BY <3>1, <3>2, <3>3, <3>4 DEF Calls
  <2> QED
    BY <1>5, <2>2, <2>3 DEF StageAt
<1>6. ASSUME Call, r # Box
      PROVE  helper'[r] = helper[r]
  BY <1>6, CallIs
<1>7. ASSUME NEW s \in Runners, HelperMoved(s), helper'[r] # helper[r]
      PROVE  Goes(r)
  BY <1>7 DEF HelperMoved
<1> QED
  BY <1>3, <1>4, <1>5, <1>6, <1>7, HelperSteps

-----------------------------------------------------------------------------
(* ... leaves what its next places need, ...                               *)
HelperAt(m, pc, r) ==
  /\ pc \in Imports \cup {"moved"} => source[m].phase = "moved"
  /\ pc \in {"remove", "strip", "removed"} => dest[m].phase = "replacing"
  /\ pc \in {"install", "fill", "imported"} => dest[m].phase = "importing"
  /\ pc = "here" => dest[m].phase = "imported"
  /\ pc = "strip" => copy[r].kind # "whole"
  /\ pc = "fill" => copy[r].h = dest[m].sha
  /\ pc = "imported" => copy[r] = Whole(dest[m].sha)
  /\ pc \in {"moved", "remove", "strip", "removed", "install", "fill", "imported", "here"} =>
       writer[r] = "none"
  /\ pc \in {"recheck", "archive"} => frozen[r]
  /\ pc = "archive" => writer[r] # "active"
  /\ pc \in {"launch", "list"} => restored[m] = "starting"
  /\ pc = "verified" => restored[m] = "complete"

(* A helper has what its place needs, ...                                  *)
LEMMA HelperHas ==
  ASSUME MoveInv, NEW r \in Runners, helper[r] # None
  PROVE  HelperAt(Op(r), helper[r].pc, r)
  BY DEF MoveInv, HelperInv, HelperAt, Locked

(* ... keeps it when another runner takes a step ...                       *)
LEMMA OtherHelpers ==
  ASSUME MoveInv, NEW s \in Runners, RunnerStep(s), NEW r \in Runners \ {s}, helper[r] # None,
         NEW m \in Ops, Op(r) = m, NEW pc, pc = helper[r].pc, MoveStep
  PROVE  HelperAt(m, pc, r)'
<1>1. HelperAt(m, pc, r)
  BY HelperHas
<1>2. copy'[r] = copy[r] /\ writer'[r] = writer[r] /\ frozen'[r] = frozen[r]
  BY Touched
<1>3. source[m].phase = "moved" => source'[m].phase = "moved"
  BY ReceiptsStay
<1>4. pc \in Imports => dest'[m] = dest[m]
  <2>1. SUFFICES ASSUME pc \in Imports, dest' # dest, Op(s) = m
                 PROVE  FALSE
    BY Touched
  <2>2. helper[s] # None /\ helper[s].pc \in Imports
    BY <2>1, Touched DEF Imports
  <2> QED
    BY <2>1, <2>2 DEF MoveInv, StageOfHelper
<1>5. pc \in Restores => restored'[m] = restored[m]
  <2>1. SUFFICES ASSUME pc \in Restores, restored' # restored, Op(s) = m
                 PROVE  FALSE
    BY Touched
  <2>2. helper[s] # None /\ helper[s].pc \in Restores
    BY <2>1, Touched DEF Restores
  <2> QED
    BY <2>1, <2>2 DEF MoveInv, StageOfHelper
<1> QED
  BY <1>1, <1>2, <1>3, <1>4, <1>5 DEF HelperAt, Imports, Restores

(* The helper's own step.                                                  *)
LEMMA OwnHelper ==
  ASSUME MoveInv, NEW s \in Runners, HelperStep(s), helper'[s] # None, NEW m \in Ops, Op(s) = m
  PROVE  helper'[s].op = m /\ \A pc \in {helper'[s].pc} : HelperAt(m, pc, s)'
<1>1. HelperMoved(s)
  BY HelperMoves
<1>2. /\ helper[s] # None /\ helper'[s].op = m
      /\ helper[s] \in Helpers /\ HelperAt(m, helper[s].pc, s)
  BY <1>1, HelperHas, HelperIs DEF HelperMoved, Goes
<1>3. /\ copy \in [Runners -> Copies] /\ writer \in [Runners -> {"none", "idle", "active"}]
      /\ frozen \in [Runners -> BOOLEAN] /\ helper \in [Runners -> Helpers \cup {None}]
      /\ source \in [Ops -> Exported] /\ dest \in [Ops -> Bundles]
      /\ restored \in [Ops -> {"none", "starting", "listed", "complete"}]
      /\ copy[s] \in Copies /\ source[m] \in Exported /\ dest[m] \in Bundles
  BY DEF MoveInv, RunnerTypes, ReceiptTypes
<1>4. ASSUME NEW pc, Then(s, pc)
      PROVE  helper'[s].pc = pc
  BY <1>2, <1>3, <1>4 DEF Then, Helpers
<1>5. ASSUME Succeed(s) \/ Fail(s)
      PROVE  FALSE
  BY <1>3, <1>5 DEF Succeed, Fail
<1>6. ASSUME NEW pc \in {"close", "freeze", "quiesce", "seal", "closed", "export", "restore", "await"}
      PROVE  HelperAt(m, pc, s)'
  BY <1>6 DEF HelperAt, Imports
<1>7. CASE Close(s) \/ Quiesce(s) \/ Seal(s) \/ Archive(s)
  <2>1. helper'[s].pc \in {"close", "freeze", "quiesce", "seal", "closed"}
    BY <1>4, <1>5, <1>7 DEF Close, Quiesce, Seal, Archive
  <2> QED
    BY <1>2, <1>6, <2>1
<1>8. CASE Freeze(s)
  <2>1. helper'[s].pc = "recheck" /\ frozen'[s]
    BY <1>3, <1>4, <1>8 DEF Freeze
  <2> QED
    BY <1>2, <2>1 DEF HelperAt, Imports
<1>9. CASE Recheck(s)
  <2>1. helper'[s].pc = "archive" /\ frozen'[s] /\ writer'[s] = "idle"
    BY <1>2, <1>4, <1>9 DEF Recheck, Doing, HelperReady, HelperAt, discussion
  <2> QED
    BY <1>2, <2>1 DEF HelperAt, Imports
<1>10. CASE Export(s)
  <2>1. helper'[s].pc = "moved" /\ source'[m].phase = "moved" /\ writer'[s] = "none"
    <3>1. HelperReady(s) => writer[s] = "none"
      BY <1>10 DEF Export, Doing, HelperReady
    <3> QED
      BY <1>2, <1>3, <1>4, <1>10, <3>1 DEF Export, discussion, Exported
  <2> QED
    BY <1>2, <2>1 DEF HelperAt, Imports
<1>11. CASE Import(s)
  <2>1. helper[s].pc = "import" /\ source'[m].phase = "moved" /\ writer' = writer
    BY <1>2, <1>11 DEF Import, Doing, discussion, HelperAt, Imports
  <2>2. dest[m].phase # "imported"
    BY <1>2, <1>5, <1>11 DEF Import
  <2>3. writer[s] = "none"
    BY <1>2, <1>11, <2>1, <2>2 DEF Import, HelperReady, Doing
  <2>4. dest'[m].phase \in {"importing", "replacing"}
    BY <1>2, <1>3, <1>11, <2>2 DEF Import, Bundles
  <2>5. \/ dest'[m].phase = "replacing" /\ helper'[s].pc = "remove"
        \/ dest'[m].phase = "importing" /\ helper'[s].pc = "install"
    BY <1>2, <1>4, <1>11, <2>2, <2>4 DEF Import
  <2> QED
    BY <1>2, <2>1, <2>3, <2>5 DEF HelperAt
<1>12. CASE Remove(s)
  <2>1. helper[s].pc = "remove" /\ helper'[s].pc = "strip" /\ UNCHANGED <<writer, source, dest>>
    BY <1>4, <1>12 DEF Remove, Doing, receipts
  <2>2. copy'[s].kind # "whole"
    BY <1>3, <1>12 DEF Remove, Absent, Part
  <2> QED
    BY <1>2, <2>1, <2>2 DEF HelperAt, Imports
<1>13. CASE Strip(s)
  <2>1. helper[s].pc = "strip" /\ helper'[s].pc = "removed" /\ UNCHANGED <<writer, source,
                                                                           dest>>
    BY <1>4, <1>13 DEF Strip, Doing, receipts
  <2> QED
    BY <1>2, <2>1 DEF HelperAt, Imports
<1>14. CASE Removed(s)
  <2>1. /\ helper[s].pc = "removed" /\ helper'[s].pc = "install" /\ UNCHANGED <<writer, source>>
        /\ dest'[m].phase = "importing"
    BY <1>2, <1>3, <1>4, <1>14 DEF Removed, Doing, discussion, Bundles
  <2> QED
    BY <1>2, <2>1 DEF HelperAt, Imports
<1>15. CASE Install(s)
  <2>1. helper[s].pc = "install" /\ helper'[s].pc = "fill" /\ UNCHANGED <<writer, source, dest>>
    BY <1>4, <1>15 DEF Install, Doing, receipts
  <2>2. copy'[s].h = dest[m].sha
    <3>1. copy[s] = Absent \/ copy[s].h = dest[m].sha
      BY <1>2, <1>15, <2>1 DEF Install, HelperReady, Doing
    <3> QED
      BY <1>2, <1>3, <1>15, <3>1 DEF Install, Part
  <2> QED
    BY <1>2, <2>1, <2>2 DEF HelperAt, Imports
<1>16. CASE Fill(s)
  <2>1. /\ helper[s].pc = "fill" /\ helper'[s].pc = "imported" /\ UNCHANGED <<writer, source,
                                                                              dest>>
        /\ copy'[s] = Whole(dest[m].sha)
    BY <1>2, <1>3, <1>4, <1>16 DEF Fill, Doing, receipts
  <2>2. copy'[s] = Whole(dest'[m].sha)
    BY <2>1
  <2> QED
    BY <1>2, <2>1, <2>2 DEF HelperAt, Imports
<1>17. CASE Imported(s)
  <2>1. /\ helper[s].pc = "imported" /\ helper'[s].pc = "here" /\ UNCHANGED <<writer, source>>
        /\ dest'[m].phase = "imported"
    BY <1>2, <1>3, <1>4, <1>17 DEF Imported, Doing, discussion, Bundles
  <2> QED
    BY <1>2, <2>1 DEF HelperAt, Imports
<1>18. CASE Restore(s)
  <2>1. \/ helper'[s].pc = "await"
        \/ helper'[s].pc = "launch" /\ restored'[m] = "starting"
    BY <1>2, <1>3, <1>4, <1>5, <1>18 DEF Restore
  <2> QED
    BY <1>2, <1>6, <2>1 DEF HelperAt, Imports
<1>19. CASE Launch(s)
  <2>1. helper[s].pc = "launch" /\ helper'[s].pc = "list" /\ restored' = restored
    BY <1>4, <1>19 DEF Launch, Doing, receipts
  <2> QED
    BY <1>2, <2>1 DEF HelperAt, Imports
<1>20. CASE Staged(s)
  <2>1. \/ helper'[s].pc = "await"
        \/ helper'[s].pc = "verified" /\ restored'[m] = "complete"
    BY <1>2, <1>3, <1>4, <1>20 DEF Staged, Doing
  <2> QED
    BY <1>2, <1>6, <2>1 DEF HelperAt, Imports
<1>21. CASE Closed(s) \/ Own(s) \/ Verified(s) \/ HelperRefuses(s)
  BY <1>5, <1>21 DEF Closed, Own, Verified, HelperRefuses
<1> QED
  BY <1>7, <1>8, <1>9, <1>10, <1>11, <1>12, <1>13, <1>14, <1>15, <1>16, <1>17, <1>18, <1>19,
     <1>20, <1>21
  DEF HelperStep

(* ... and in every step.                                                  *)
LEMMA HelperNext ==
  ASSUME MoveInv, MoveStep
  PROVE  HelperInv'
<1> SUFFICES ASSUME NEW r \in Runners, helper'[r] # None
             PROVE  \A m \in {helper'[r].op}, pc \in {helper'[r].pc} : HelperAt(m, pc, r)'
  BY DEF HelperInv, HelperAt, Op, Locked
<1>1. helper[r] # None => Op(r) \in Ops /\ HelperAt(Op(r), helper[r].pc, r)
  BY HelperHas, HelperIs
<1>2. CASE UNCHANGED <<copy, writer, frozen, source, dest, restored>> /\ helper'[r] = helper[r]
  BY <1>1, <1>2 DEF HelperAt, Op
<1>3. CASE Call /\ r = Box
  <2>1. /\ job # NoJob /\ helper'[r].op = job.op /\ UNCHANGED <<copy, writer, frozen, source,
                                                                dest, restored>>
        /\ helper'[r].pc \in {"close", "export", "import", "restore"}
        /\ helper'[r].pc = "import" => source[job.op].phase = "moved"
    <3>1. /\ job # NoJob /\ helper'[r].op = job.op /\ job.pc \in Calls
          /\ helper'[r].pc = IF job.pc = "verify" THEN "restore" ELSE job.pc
          /\ UNCHANGED <<copy, writer, frozen, source, dest, restored>>
      BY <1>3, CallIs DEF discussion, receipts
    <3>2. job.pc = "import" => source[job.op].phase = "moved"
      BY <3>1 DEF MoveInv, JobPhaseInv
    <3> QED
      BY <3>1, <3>2 DEF Calls
  <2> QED
    BY <2>1 DEF HelperAt, Imports
<1>4. ASSUME NEW s \in Runners, RunnerStep(s), s # r
      PROVE  \A m \in {helper'[r].op}, pc \in {helper'[r].pc} : HelperAt(m, pc, r)'
  <2>1. helper'[r] = helper[r]
    BY <1>4, Touched
  <2> QED
    BY <1>1, <1>4, <2>1, OtherHelpers DEF Op
<1>5. CASE HelperStep(r)
  <2>1. helper[r] # None
    BY <1>5, HelperMoves DEF HelperMoved, Goes
  <2> QED
    BY <1>1, <1>5, <2>1, OwnHelper
<1>6. CASE KillHelper(r) \/ Restart(r)
  <2>1. helper'[r] = None
    BY <1>6 DEF KillHelper, Restart, Fail, MoveInv, RunnerTypes
  <2> QED
    BY <2>1
<1>7. CASE UserStep(r)
  <2>1. /\ helper' = helper /\ UNCHANGED <<frozen, source, dest, restored>>
        /\ writer \in [Runners -> {"none", "idle", "active"}] /\ copy \in [Runners -> Copies]
    BY <1>7 DEF UserStep, Open, CloseClient, BeginTurn, EndTurn, receipts, MoveInv, RunnerTypes
  <2> DEFINE m == Op(r)
             pc == helper[r].pc
             locked == {"moved", "remove", "strip", "removed", "install", "fill", "imported", "here"}
  <2>2. pc \in locked => writer[r] = "none" /\ pc \notin {"recheck", "archive"}
    BY <1>1, <2>1 DEF HelperAt
  <2>3. CASE Open(r)
    <3>1. pc \notin locked /\ copy' = copy /\ writer'[r] = "idle"
      BY <2>1, <2>3 DEF Open, Locked
    <3> QED
      BY <1>1, <2>1, <3>1 DEF HelperAt, Op
  <2>4. CASE CloseClient(r)
    <3>1. copy' = copy /\ writer'[r] = "none"
      BY <2>1, <2>4 DEF CloseClient
    <3> QED
      BY <1>1, <2>1, <3>1 DEF HelperAt, Op
  <2>5. CASE BeginTurn(r)
    <3>1. copy' = copy /\ writer[r] = "idle" /\ ~frozen[r]
      BY <2>5 DEF BeginTurn
    <3>2. pc \notin locked \cup {"recheck", "archive"}
      BY <1>1, <2>1, <2>2, <3>1 DEF HelperAt
    <3> QED
      BY <1>1, <2>1, <3>1, <3>2 DEF HelperAt, Op
  <2>6. CASE EndTurn(r)
    <3>1. writer[r] = "active" /\ writer'[r] = "idle"
      BY <2>1, <2>6 DEF EndTurn
    <3>2. pc \notin locked
      BY <2>2, <3>1
    <3> QED
      BY <1>1, <2>1, <3>1, <3>2 DEF HelperAt, Op
  <2> QED
    BY <1>7, <2>3, <2>4, <2>5, <2>6 DEF UserStep
<1>8. ASSUME Call, r # Box
      PROVE  helper'[r] = helper[r] /\ UNCHANGED <<copy, writer, frozen, source, dest,
                                                   restored>>
  BY <1>8, CallIs DEF discussion, receipts
<1> QED
  BY <1>2, <1>3, <1>4, <1>5, <1>6, <1>7, <1>8, StepCases DEF RunnerStep

(* ... and keeps the receipts in step with the recorded phase, ...         *)
LEMMA RecordMoves ==
  ASSUME MoveInv, MoveStep, NEW m \in Ops
  PROVE  \/ record'[m].phase = record[m].phase
         \/ /\ UNCHANGED <<source, dest, restored>>
            /\ \/ record[m].phase = "prepared" /\ record'[m].phase = "closing"
               \/ record[m].phase = "closing" /\ record'[m].phase = "copying"
               \/ /\ record[m].phase = "copying" /\ record'[m].phase = "restoring"
                  /\ source[m].phase = "moved" /\ dest[m].phase = "imported"
               \/ /\ record[m].phase = "restoring" /\ record'[m].phase = "publishing"
                  /\ restored[m] = "complete"
               \/ record[m].phase = "publishing" /\ record'[m].phase = "complete"
<1>1. CASE record' = record
  BY <1>1
<1>2. CASE Checkpoint /\ m # job.op
  BY <1>2, CheckpointIs
<1>3. CASE Checkpoint /\ m = job.op
  <2>1. /\ job # NoJob /\ job.pc \in JobPhases /\ record'[m].phase = job.pc
        /\ UNCHANGED <<source, dest, restored>>
    BY <1>3, CheckpointIs DEF receipts
  <2>2. /\ record[m].phase = PhaseAt(job.pc)
        /\ job.pc = "restoring" => source[m].phase = "moved" /\ dest[m].phase = "imported"
        /\ job.pc = "publishing" => restored[m] = "complete"
    BY <1>3, <2>1 DEF MoveInv, JobPhaseInv, JobPhases
  <2> QED
    BY <2>1, <2>2 DEF JobPhases, PhaseAt
<1> QED
  BY <1>1, <1>2, <1>3, Frame

(* What an import writes first.                                            *)
LEMMA ImportIs ==
  ASSUME MoveInv, NEW s \in Runners, Import(s)
  PROVE  /\ helper[s] # None /\ helper[s].pc = "import" /\ Op(s) \in Ops /\ s = To[Op(s)]
         /\ source[Op(s)].phase = "moved" /\ source' = source /\ Moving(Op(s))
         /\ \A n \in Ops \ {Op(s)} : dest'[n] = dest[n]
         /\ dest[Op(s)].phase # "none" => dest'[Op(s)] = dest[Op(s)]
         /\ dest[Op(s)].phase = "none" =>
              /\ dest'[Op(s)].phase \in {"importing", "replacing"}
              /\ dest'[Op(s)].sha = source[Op(s)].sha /\ dest'[Op(s)].prev = copy[s].h
              /\ copy[s].h \subseteq source[Op(s)].sha \/ dest'[Op(s)].phase = "importing"
<1> DEFINE m == Op(s)
<1>1. helper[s] # None /\ helper[s].pc = "import" /\ m \in Ops /\ HelperReady(s)
  BY HelperIs DEF Import, Doing
<1>2. /\ s = To[m] /\ From[m] \in Runners /\ placement[From[m]] = Starting(m)
      /\ source[m].phase = "moved"
  BY <1>1, ConstantsAssumption DEF MoveInv, StageOfHelper, HelperInv, Imports
<1>3. Moving(m)
  BY <1>2 DEF Moving
<1>4. dest \in [Ops -> Bundles] /\ copy[s] \in Copies /\ source' = source
  BY DEF MoveInv, ReceiptTypes, RunnerTypes, Import
<1>5. CASE dest[m].phase # "none"
  BY <1>1, <1>2, <1>3, <1>4, <1>5 DEF Import
<1>6. CASE dest[m].phase = "none"
  <2>1. /\ dest' = [dest EXCEPT ![m] = [phase |-> IF copy[s] = Absent THEN "importing" ELSE "replacing",
                                        sha |-> source[m].sha, prev |-> copy[s].h]]
        /\ copy[s] = Absent \/ Earlier(s)
    BY <1>1, <1>6 DEF Import, HelperReady, Doing
  <2>2. Earlier(s) => copy[s].h \subseteq source[m].sha
    <3>1. SUFFICES ASSUME Earlier(s)
                   PROVE  copy[s].h \subseteq source[m].sha
      OBVIOUS
    <3>2. /\ ledger[s].op \in Ops
          /\ source[ledger[s].op].phase = "moved"
          /\ copy[s].h = source[ledger[s].op].sha
      BY <3>1 DEF Earlier, MoveInv, RunnerTypes, Ledgers, LedgerInv, Whole
    <3> QED
      BY <1>1, <1>2, <1>3, <3>2 DEF MoveInv, TravelInv, Handed
  <2> QED
    BY <1>1, <1>2, <1>3, <1>4, <1>6, <2>1, <2>2
<1> QED
  BY <1>5, <1>6

(* The receipts of a move follow its recorded phase.                       *)
LEMMA ReceiptNext ==
  ASSUME MoveInv, MoveStep
  PROVE  ReceiptInv'
<1> SUFFICES ASSUME NEW m \in Ops
             PROVE  /\ source'[m].phase = "moved" => record'[m].phase \notin {"prepared", "closing"}
                    /\ dest'[m].phase # "none" => source'[m].phase = "moved" /\ dest'[m].sha = source'[m].sha
                    /\ dest'[m].phase = "replacing" => dest'[m].prev \subseteq dest'[m].sha
                    /\ record'[m].phase \in {"restoring", "publishing", "complete"} => dest'[m].phase = "imported"
                    /\ record'[m].phase \in {"publishing", "complete"} => restored'[m] = "complete"
  BY DEF ReceiptInv
<1>1. /\ source[m].phase = "moved" => record[m].phase \notin {"prepared", "closing"}
      /\ dest[m].phase # "none" => source[m].phase = "moved" /\ dest[m].sha = source[m].sha
      /\ dest[m].phase = "replacing" => dest[m].prev \subseteq dest[m].sha
      /\ record[m].phase \in {"restoring", "publishing", "complete"} => dest[m].phase = "imported"
      /\ record[m].phase \in {"publishing", "complete"} => restored[m] = "complete"
  BY DEF MoveInv, ReceiptInv
<1>2. /\ source[m].phase = "moved" => source'[m].phase = "moved" /\ source'[m].sha = source[m].sha
      /\ dest[m].phase = "imported" => dest'[m].phase = "imported"
      /\ restored[m] = "complete" => restored'[m] = "complete"
  BY ReceiptsStay
<1>3. ASSUME source[m].phase # "moved", source'[m].phase = "moved"
      PROVE  record'[m].phase = "copying"
  <2>1. PICK s \in Runners : Seal(s) \/ Export(s)
    BY <1>3, Frame
  <2>2. helper[s] # None /\ Op(s) \in Ops /\ record' = record
    BY <2>1, HelperIs DEF Seal, Export, Doing
  <2>3. Export(s) /\ Op(s) = m
    BY <1>3, <2>1, <2>2 DEF Seal, Export, MoveInv, ReceiptTypes
  <2> QED
    BY <2>2, <2>3 DEF Export, Doing, MoveInv, StageOfHelper, Exports
<1>4. source'[m].phase = "moved" => record'[m].phase \notin {"prepared", "closing"}
  BY <1>1, <1>3, RecordMoves
<1>5. CASE dest'[m] = dest[m]
  BY <1>1, <1>2, <1>4, <1>5, RecordMoves
<1>6. CASE dest'[m] # dest[m]
  <2>1. PICK s \in Runners : Import(s) \/ Removed(s) \/ Imported(s)
    BY <1>6, Frame
  <2>2. record' = record
    BY <2>1 DEF Import, Removed, Imported
  <2>3. CASE Import(s)
    BY <1>1, <1>2, <1>4, <1>6, <2>2, <2>3, ImportIs
  <2>4. CASE Removed(s) \/ Imported(s)
    <3>1. helper[s] # None /\ Op(s) \in Ops /\ dest \in [Ops -> Bundles] /\ dest[Op(s)] \in Bundles
      BY <2>4, HelperIs DEF Removed, Imported, Doing, MoveInv, ReceiptTypes
    <3>2. /\ Op(s) = m /\ dest'[m].phase \in {"importing", "imported"}
          /\ dest'[m].sha = dest[m].sha
      BY <1>6, <2>4, <3>1 DEF Removed, Imported, Bundles
    <3>3. dest[m].phase \in {"replacing", "importing"}
      BY <2>4, <3>1, <3>2 DEF Removed, Imported, Doing, MoveInv, HelperInv
    <3> QED
      BY <1>1, <1>2, <1>4, <2>2, <3>2, <3>3
  <2> QED
    BY <2>1, <2>3, <2>4
<1> QED
  BY <1>5, <1>6

(* A ledger that says moved has an export.                                 *)
LEMMA LedgerNext ==
  ASSUME MoveInv, MoveStep
  PROVE  LedgerInv'
<1> SUFFICES ASSUME NEW r \in Runners, ledger'[r] # None, ledger'[r].phase = "moved"
             PROVE  \A m \in {ledger'[r].op} : source'[m].phase = "moved"
  BY DEF LedgerInv
<1>1. CASE ledger'[r] = ledger[r]
  <2>1. ledger[r].op \in Ops /\ source[ledger[r].op].phase = "moved"
    BY <1>1 DEF MoveInv, LedgerInv, RunnerTypes, Ledgers
  <2> QED
    BY <1>1, <2>1, ReceiptsStay
<1>2. CASE ledger'[r] # ledger[r]
  <2>1. PICK s \in Runners : Own(s)
    BY <1>2, Frame
  <2>2. s = r /\ ledger'[r] = [op |-> Op(s), phase |-> helper[s].pc] /\ source' = source
    BY <1>2, <2>1 DEF Own, MoveInv, RunnerTypes
  <2>3. helper[r] # None /\ helper[r].pc = "moved" /\ ledger'[r].op = Op(r)
    BY <2>1, <2>2 DEF Own, Doing
  <2> QED
    BY <2>2, <2>3, HelperHas DEF HelperAt
<1> QED
  BY <1>1, <1>2

-----------------------------------------------------------------------------
(* Who has the discussion: during a move, and between two of them.         *)
LEMMA KeepsUnderway ==
  ASSUME MoveInv, NEW m \in Ops, Moving(m), NEW r \in Runners
  PROVE  Keeps(r) <=> (r = From[m] /\ ~Handed(m)) \/ (r = To[m] /\ Received(m))
<1>1. From[m] \in Runners /\ To[m] \in Runners /\ From[m] # To[m]
  BY ConstantsAssumption
<1>2. \A n \in Ops : Moving(n) => n = m
  BY DEF MoveInv, OfferInv
<1>3. ASSUME Invited(r)
      PROVE  r = From[m] /\ ~Handed(m)
  <2>1. r = From[m] /\ Keeps(r)
    BY <1>3 DEF MoveInv, OfferInv, Keeps
  <2>2. Received(m) => Keeps(To[m])
    BY DEF Keeps
  <2>3. ~Received(m)
    BY <1>1, <2>1, <2>2 DEF MoveInv, KeptInv
  <2> QED
    BY <2>1, <2>3 DEF MoveInv, TravelInv
<1> QED
  BY <1>2, <1>3 DEF Keeps

(* At rest the discussion is where it is offered.                          *)
LEMMA KeepsAtRest ==
  ASSUME Resting, NEW r \in Runners
  PROVE  Keeps(r) <=> Invited(r)
  BY DEF Keeps, Resting

(* It stays there while placements and the two ends of a move do.          *)
LEMMA KeepsFrame ==
  ASSUME placement' = placement, NEW r \in Runners,
         \A m \in Ops : (source'[m].phase = "moved" <=> source[m].phase = "moved"),
         \A m \in Ops : (dest'[m].phase = "imported" <=> dest[m].phase = "imported")
  PROVE  Keeps(r)' <=> Keeps(r)
<1>1. Invited(r)' <=> Invited(r)
  BY DEF Invited
<1>2. \A m \in Ops : Moving(m)' <=> Moving(m)
  BY DEF Moving
<1> QED
  BY <1>1, <1>2 DEF Keeps, Handed, Received

(* A placement changes the runner that is offered, never the one that has  *)
(* the discussion.                                                         *)
LEMMA PublishKeeps ==
  ASSUME MoveInv, NEW m \in Ops, DrainsOrigin(m) \/ DrainsDestination(m) \/ Onward(m),
         source' = source, dest' = dest, NEW r \in Runners
  PROVE  Keeps(r)' <=> Keeps(r)
<1>1. \A n \in Ops : Moving(n)' => n = m
  BY OthersStay
<1>2. Moving(m)' <=> ~ReadiesDestination(m)
  BY MoverMoves
<1>3. Keeps(r)' <=> \/ Invited(r)'
                    \/ Moving(m)' /\ r = From[m] /\ ~Handed(m)
                    \/ Moving(m)' /\ r = To[m] /\ Received(m)
  BY <1>1 DEF Keeps, Handed, Received
<1>4. CASE DrainsOrigin(m)
  <2>1. ~Handed(m) /\ ~Received(m) /\ Resting
    BY <1>4 DEF DrainsOrigin, Handed, Received, MoveInv, ReceiptInv
  <2>2. /\ Keeps(r) <=> r = From[m]
        /\ Invited(r)' <=> r = From[m]
    BY <1>4, <2>1, KeepsAtRest, OfferedSteps
  <2>3. Keeps(r)' <=> r = From[m]
    BY <1>3, <2>1, <2>2
  <2> QED
    BY <2>2, <2>3
<1>5. CASE ~DrainsOrigin(m)
  <2>1. Moving(m)
    BY <1>5, OnlyMover
  <2>2. Keeps(r) <=> (r = From[m] /\ ~Handed(m)) \/ (r = To[m] /\ Received(m))
    BY <2>1, KeepsUnderway
  <2>3. CASE ReadiesDestination(m)
    <3>1. Handed(m) /\ Received(m)
      BY <2>3 DEF ReadiesDestination, Handed, Received, MoveInv, ReceiptInv
    <3>2. Invited(r)' <=> r = To[m]
      BY <2>3, OfferedSteps
    <3> QED
      BY <1>2, <1>3, <2>2, <2>3, <3>1, <3>2
  <2>4. CASE ~ReadiesDestination(m)
    <3>1. Invited(r)' => Invited(r)
      BY <1>5, <2>4, OfferedSteps DEF Onward
    <3>2. Invited(r) => Keeps(r)
      BY DEF Keeps
    <3> QED
      BY <1>2, <1>3, <2>2, <2>4, <3>1, <3>2
  <2> QED
    BY <2>3, <2>4
<1> QED
  BY <1>4, <1>5

-----------------------------------------------------------------------------
(* The steps that carry the discussion.                                    *)
FlowInv == KeeperInv /\ TravelInv /\ KeptInv

(* It is handed over by an export, and then nobody has it.                 *)
HandsOver(m) ==
  /\ Moving(m) /\ ~Handed(m) /\ source'[m].phase = "moved" /\ source'[m].sha = source[m].sha
  /\ \A n \in Ops \ {m} : source'[n] = source[n]
  /\ writer[From[m]] = "none" /\ copy[From[m]] = Whole(source[m].sha)
  /\ \A r \in Runners : ~Invited(r)
  /\ UNCHANGED <<copy, writer, dest, placement, turns, strayed>>

(* It is received by an import.                                            *)
Receives(m) ==
  /\ Moving(m) /\ Handed(m) /\ ~Received(m) /\ dest'[m].phase = "imported"
  /\ \A n \in Ops \ {m} : dest'[n] = dest[n]
  /\ copy[To[m]] = Whole(source[m].sha)
  /\ UNCHANGED <<copy, writer, source, placement, turns, strayed>>

(* A copy is replaced while nobody has the discussion.                     *)
Replaces(s) ==
  /\ \A r \in Runners : ~Keeps(r)
  /\ UNCHANGED <<writer, source, dest, placement, turns, strayed>>

(* Any other step leaves it where it is.                                   *)
Quiet ==
  /\ UNCHANGED <<copy, placement, turns>>
  /\ strayed => strayed'
  /\ \A m \in Ops : /\ source'[m].phase = "moved" <=> source[m].phase = "moved"
                    /\ source[m].phase = "moved" => source'[m].sha = source[m].sha
                    /\ dest'[m].phase = "imported" <=> dest[m].phase = "imported"
  /\ \A r \in Runners : writer'[r] # "none" /\ ~strayed' => writer[r] # "none" \/ Keeps(r)

(* While a helper exports or imports, no runner is offered.                *)
LEMMA Carries ==
  ASSUME MoveInv, NEW s \in Runners, helper[s] # None, helper[s].pc \in Exports \cup Imports
  PROVE  /\ Op(s) \in Ops /\ From[Op(s)] \in Runners /\ To[Op(s)] \in Runners
         /\ Moving(Op(s)) /\ \A r \in Runners : ~Invited(r)
         /\ helper[s].pc \in Exports => s = From[Op(s)]
         /\ helper[s].pc \in Imports => s = To[Op(s)] /\ Handed(Op(s))
<1> DEFINE m == Op(s)
<1>1. m \in Ops /\ From[m] \in Runners /\ To[m] \in Runners
  BY HelperIs, ConstantsAssumption
<1>2. /\ placement[From[m]] = Starting(m)
      /\ helper[s].pc \in Exports => s = From[m]
      /\ helper[s].pc \in Imports => s = To[m] /\ Handed(m)
  BY DEF MoveInv, StageOfHelper, HelperInv, Handed
<1>3. Moving(m)
  BY <1>1, <1>2 DEF Moving
<1>4. \A r \in Runners : ~Invited(r)
  BY <1>1, <1>2, <1>3, Distinct DEF MoveInv, OfferInv
<1> QED
  BY <1>1, <1>2, <1>3, <1>4

(* Turns and copies change in these ways only.                             *)
LEMMA FlowSteps ==
  ASSUME MoveInv, MoveStep
  PROVE  \/ Quiet
         \/ \E m \in Ops : HandsOver(m) \/ Receives(m)
         \/ \E s \in Runners : Replaces(s) \/ (EndTurn(s) /\ UNCHANGED <<source, dest,
                                                                         placement, strayed>>)
         \/ /\ Publish /\ UNCHANGED <<copy, writer, source, dest, turns, strayed>>
            /\ \E m \in Ops : DrainsOrigin(m) \/ DrainsDestination(m) \/ Onward(m)
<1>1. /\ source \in [Ops -> Exported] /\ dest \in [Ops -> Bundles] /\ copy \in [Runners -> Copies]
      /\ writer \in [Runners -> {"none", "idle", "active"}]
  BY DEF MoveInv, ReceiptTypes, RunnerTypes
<1>2. CASE /\ UNCHANGED <<copy, writer, frozen, ledger, source, dest, restored, turns, strayed>>
           /\ helper' = helper \/ Call
  <2>1. CASE placement' = placement
    BY <1>2, <2>1 DEF Quiet
  <2>2. CASE /\ Publish
             /\ \E m \in Ops : DrainsOrigin(m) \/ DrainsDestination(m) \/ Onward(m)
    BY <1>2, <2>2
  <2> QED
    BY <2>1, <2>2, PlacementSteps
<1>3. ASSUME NEW s \in Runners, RunnerStep(s)
      PROVE  \/ Quiet
             \/ \E m \in Ops : HandsOver(m) \/ Receives(m)
             \/ Replaces(s) \/ (EndTurn(s) /\ UNCHANGED <<source, dest, placement, strayed>>)
  <2>1. CASE Export(s)
    <3>1. /\ helper[s] # None /\ helper[s].pc = "export" /\ HelperReady(s)
          /\ UNCHANGED <<copy, writer, dest, placement, turns, strayed>>
      BY <2>1 DEF Export, Doing, discussion, user
    <3> DEFINE m == Op(s)
    <3>2. m \in Ops /\ s = From[m] /\ Moving(m) /\ \A r \in Runners : ~Invited(r)
      BY <3>1, Carries DEF Exports
    <3>3. writer[s] = "none" /\ copy[s] = Whole(source[m].sha)
      BY <3>1 DEF HelperReady, Doing, Sealed
    <3>4. /\ source'[m].phase = "moved" /\ source'[m].sha = source[m].sha
          /\ \A n \in Ops \ {m} : source'[n] = source[n]
      BY <1>1, <2>1, <3>2 DEF Export, Exported
    <3>5. CASE Handed(m)
      BY <3>1, <3>2, <3>4, <3>5 DEF Quiet, Handed
    <3>6. CASE ~Handed(m)
      BY <3>1, <3>2, <3>3, <3>4, <3>6 DEF HandsOver
    <3> QED
      BY <3>5, <3>6
  <2>2. CASE Imported(s)
    <3>1. /\ helper[s] # None /\ helper[s].pc = "imported"
          /\ UNCHANGED <<copy, writer, source, placement, turns, strayed>>
      BY <2>2 DEF Imported, Doing, discussion, user
    <3> DEFINE m == Op(s)
    <3>2. m \in Ops /\ s = To[m] /\ Moving(m) /\ Handed(m)
      BY <3>1, Carries DEF Imports
    <3>3. dest[m].phase = "importing" /\ copy[s] = Whole(dest[m].sha)
      BY <3>1, HelperHas DEF HelperAt
    <3>4. dest[m].sha = source[m].sha
      BY <3>2, <3>3 DEF MoveInv, ReceiptInv
    <3>5. dest'[m].phase = "imported" /\ \A n \in Ops \ {m} : dest'[n] = dest[n]
      BY <1>1, <2>2, <3>2 DEF Imported, Bundles
    <3> QED
      BY <3>1, <3>2, <3>3, <3>4, <3>5 DEF Receives, Received
  <2>3. CASE Remove(s) \/ Strip(s) \/ Install(s) \/ Fill(s)
    <3>1. /\ helper[s] # None /\ helper[s].pc \in {"remove", "strip", "install", "fill"}
          /\ UNCHANGED <<writer, source, dest, placement, turns, strayed>>
      BY <2>3 DEF Remove, Strip, Install, Fill, Doing, receipts, user
    <3>2. Op(s) \in Ops /\ Moving(Op(s)) /\ Handed(Op(s))
      BY <3>1, Carries DEF Imports
    <3>3. dest[Op(s)].phase \in {"replacing", "importing"}
      BY <3>1, HelperHas DEF HelperAt
    <3>4. \A r \in Runners : ~Keeps(r)
      BY <3>2, <3>3 DEF MoveInv, TravelInv, Received
    <3> QED
      BY <3>1, <3>4 DEF Replaces
  <2>4. CASE EndTurn(s)
    BY <2>4 DEF EndTurn, receipts
  <2>5. CASE Launch(s)
    <3>1. /\ helper[s] # None /\ helper[s].pc = "launch"
          /\ UNCHANGED <<copy, source, dest, placement, turns, strayed>>
          /\ \A r \in Runners \ {s} : writer'[r] = writer[r]
      BY <1>1, <2>5 DEF Launch, Doing, receipts, user
    <3> DEFINE m == Op(s)
    <3>2. m \in Ops /\ To[m] \in Runners /\ s = To[m] /\ record[m].phase = "restoring"
      BY <3>1, HelperIs, ConstantsAssumption DEF MoveInv, StageOfHelper, Restores
    <3>3. placement[To[m]] = Starting(m) /\ dest[m].phase = "imported"
      BY <3>2 DEF MoveInv, StageInv, ReceiptInv
    <3>4. Keeps(s)
      BY <3>2, <3>3 DEF Keeps, Moving, Received
    <3> QED
      BY <3>1, <3>4 DEF Quiet
  <2>6. CASE Open(s)
    <3>1. /\ UNCHANGED <<copy, source, dest, placement, turns>>
          /\ \A r \in Runners \ {s} : writer'[r] = writer[r]
          /\ strayed' = (strayed \/ ~Invited(s))
      BY <1>1, <2>6 DEF Open, receipts
    <3>2. Invited(s) => Keeps(s)
      BY DEF Keeps
    <3> QED
      BY <3>1, <3>2 DEF Quiet
  <2>7. CASE CloseClient(s) \/ BeginTurn(s) \/ Archive(s) \/ Restart(s)
    <3>1. /\ UNCHANGED <<copy, source, dest, placement, turns, strayed>>
          /\ \A r \in Runners \ {s} : writer'[r] = writer[r]
          /\ writer'[s] # "none" => writer[s] # "none"
      BY <1>1, <2>7 DEF CloseClient, BeginTurn, Archive, Restart, receipts, user
    <3> QED
      BY <3>1 DEF Quiet
  <2>8. CASE Seal(s)
    <3>1. UNCHANGED <<copy, writer, dest, placement, turns, strayed>>
      BY <2>8 DEF Seal, discussion, user
    <3>2. \A m \in Ops : /\ source'[m].phase = "moved" <=> source[m].phase = "moved"
                         /\ source[m].phase = "moved" => source'[m].sha = source[m].sha
      BY <1>1, <2>8 DEF Seal
    <3> QED
      BY <3>1, <3>2 DEF Quiet
  <2>9. CASE Import(s)
    <3>1. UNCHANGED <<copy, writer, source, placement, turns, strayed>>
      BY <2>9 DEF Import, discussion, user
    <3>2. \A m \in Ops : dest'[m].phase = "imported" <=> dest[m].phase = "imported"
      BY <2>9, ImportIs
    <3> QED
      BY <3>1, <3>2 DEF Quiet
  <2>10. CASE Removed(s)
    <3>1. /\ UNCHANGED <<copy, writer, source, placement, turns, strayed>>
          /\ helper[s] # None /\ helper[s].pc = "removed"
      BY <2>10 DEF Removed, Doing, discussion, user
    <3>2. dest[Op(s)].phase = "replacing"
      BY <3>1, HelperHas DEF HelperAt
    <3>3. \A m \in Ops : dest'[m].phase = "imported" <=> dest[m].phase = "imported"
      BY <1>1, <2>10, <3>2 DEF Removed, Bundles
    <3> QED
      BY <3>1, <3>3 DEF Quiet
  <2>11. CASE Close(s) \/ Freeze(s) \/ Recheck(s) \/ Quiesce(s) \/ Closed(s) \/ Own(s) \/ Restore(s)
              \/ Staged(s) \/ Verified(s) \/ HelperRefuses(s) \/ KillHelper(s)
    <3>1. UNCHANGED <<copy, writer, source, dest, placement, turns, strayed>>
      BY <2>11 DEF Close, Freeze, Recheck, Quiesce, Closed, Own, Restore, Staged, Verified,
         HelperRefuses, KillHelper, discussion, receipts, user
    <3> QED
      BY <3>1 DEF Quiet
  <2> QED
    BY <1>3, <2>1, <2>2, <2>3, <2>4, <2>5, <2>6, <2>7, <2>8, <2>9, <2>10, <2>11
    DEF RunnerStep, HelperStep, UserStep
<1> QED
  BY <1>2, <1>3, StepCases

(* ... and the discussion with the one runner that has it.                 *)
LEMMA QuietNext ==
  ASSUME MoveInv, Quiet
  PROVE  FlowInv'
<1>1. \A r \in Runners : Keeps(r)' <=> Keeps(r)
  BY KeepsFrame DEF Quiet
<1>2. \A m \in Ops : Moving(m)' <=> Moving(m)
  BY DEF Quiet, Moving
<1>3. KeeperInv'
  BY <1>1 DEF Quiet, MoveInv, KeeperInv, Handed
<1>4. TravelInv'
  BY <1>1, <1>2 DEF Quiet, MoveInv, TravelInv, Handed, Received
<1>5. KeptInv'
  BY <1>1 DEF Quiet, MoveInv, KeptInv
<1> QED
  BY <1>3, <1>4, <1>5 DEF FlowInv

(* A publication gives the discussion to nobody who lacks a turn.          *)
LEMMA PlacedNext ==
  ASSUME MoveInv, NEW m \in Ops, DrainsOrigin(m) \/ DrainsDestination(m) \/ Onward(m),
         UNCHANGED <<copy, writer, source, dest, turns, strayed>>
  PROVE  FlowInv'
<1>1. \A r \in Runners : Keeps(r)' <=> Keeps(r)
  BY PublishKeeps
<1>2. ASSUME NEW n \in Ops, Moving(n)', Handed(n)
      PROVE  Moving(n)
  <2>1. n = m
    BY <1>2, OthersStay
  <2>2. DrainsOrigin(m) => ~Handed(m)
    BY DEF DrainsOrigin, Handed, MoveInv, ReceiptInv
  <2> QED
    BY <1>2, <2>1, <2>2, OnlyMover
<1>3. KeeperInv'
  BY <1>1 DEF MoveInv, KeeperInv, Handed
<1>4. TravelInv'
  BY <1>1, <1>2 DEF MoveInv, TravelInv, Handed, Received
<1>5. KeptInv'
  BY <1>1 DEF MoveInv, KeptInv
<1> QED
  BY <1>3, <1>4, <1>5 DEF FlowInv

(* An export takes every turn along.                                       *)
LEMMA HandedNext ==
  ASSUME MoveInv, NEW m \in Ops, HandsOver(m)
  PROVE  FlowInv'
<1>1. From[m] \in Runners /\ To[m] \in Runners /\ \A n \in Ops : Moving(n) => n = m
  BY ConstantsAssumption DEF HandsOver, MoveInv, OfferInv
<1>2. ~Received(m)
  BY DEF HandsOver, Handed, Received, MoveInv, ReceiptInv
<1>3. \A n \in Ops : Moving(n)' <=> Moving(n)
  BY DEF HandsOver, Moving
<1>4. ASSUME NEW r \in Runners
      PROVE  ~Keeps(r)'
  <2>1. ~Invited(r)'
    BY DEF HandsOver, Invited
  <2> QED
    BY <1>1, <1>2, <1>3, <2>1 DEF HandsOver, Keeps, Handed, Received
<1>5. Keeps(From[m])
  BY <1>1 DEF HandsOver, Keeps
<1>6. /\ \A n \in Ops : Handed(n) => source[n].sha \subseteq source[m].sha
      /\ ~strayed => source[m].sha = 1..turns
  BY <1>1, <1>5 DEF HandsOver, MoveInv, KeeperInv, Whole
<1>7. KeeperInv'
  BY <1>4 DEF KeeperInv
<1>8. TravelInv'
  BY <1>1, <1>3, <1>4, <1>6 DEF HandsOver, TravelInv, Handed
<1>9. KeptInv'
  BY <1>1, <1>4, <1>5 DEF HandsOver, MoveInv, KeptInv
<1> QED
  BY <1>7, <1>8, <1>9 DEF FlowInv

(* An import gives every exported turn.                                    *)
LEMMA ReceivedNext ==
  ASSUME MoveInv, NEW m \in Ops, Receives(m)
  PROVE  FlowInv'
<1>1. From[m] \in Runners /\ To[m] \in Runners /\ \A n \in Ops : Moving(n) => n = m
  BY ConstantsAssumption DEF Receives, MoveInv, OfferInv
<1>2. /\ \A n \in Ops : Handed(n) => source[n].sha \subseteq source[m].sha
      /\ ~strayed => source[m].sha = 1..turns
      /\ \A r \in Runners : ~Keeps(r)
  BY DEF Receives, MoveInv, TravelInv
<1>3. \A n \in Ops : Moving(n)' <=> Moving(n)
  BY DEF Receives, Moving
<1>4. ASSUME NEW r \in Runners, Keeps(r)'
      PROVE  r = To[m]
  <2>1. ~Invited(r)'
    BY <1>2 DEF Receives, Invited, Keeps
  <2> QED
    BY <1>1, <1>3, <1>4, <2>1 DEF Receives, Keeps, Handed, Received
<1>5. KeeperInv'
  BY <1>2, <1>4 DEF Receives, KeeperInv, Handed, Whole
<1>6. TravelInv'
  BY <1>1, <1>2, <1>3 DEF Receives, TravelInv, Handed, Received
<1>7. KeptInv'
  BY <1>2, <1>4 DEF Receives, MoveInv, KeptInv
<1> QED
  BY <1>5, <1>6, <1>7 DEF FlowInv

(* A copy is replaced only where the discussion is not.                    *)
LEMMA ReplacedNext ==
  ASSUME MoveInv, NEW s \in Runners, Replaces(s)
  PROVE  FlowInv'
<1>1. \A r \in Runners : ~Keeps(r)'
  BY KeepsFrame DEF Replaces
<1>2. \A m \in Ops : Moving(m)' <=> Moving(m)
  BY DEF Replaces, Moving
<1>3. KeeperInv'
  BY <1>1 DEF KeeperInv
<1>4. TravelInv'
  BY <1>1, <1>2 DEF Replaces, MoveInv, TravelInv, Handed, Received
<1>5. KeptInv'
  BY <1>1 DEF Replaces, MoveInv, KeptInv
<1> QED
  BY <1>3, <1>4, <1>5 DEF FlowInv

(* A turn is added where the discussion is, or the user has strayed.       *)
LEMMA TurnNext ==
  ASSUME MoveInv, NEW s \in Runners, EndTurn(s), UNCHANGED <<source, dest, placement, strayed>>
  PROVE  FlowInv'
<1>1. \A r \in Runners : Keeps(r)' <=> Keeps(r)
  BY KeepsFrame
<1>2. \A m \in Ops : Moving(m)' <=> Moving(m)
  BY DEF Moving
<1>3. /\ writer[s] = "active" /\ turns \in Nat /\ turns' = turns + 1
      /\ copy'[s] = Whole(copy[s].h \cup {turns + 1}) /\ \A r \in Runners \ {s} : copy'[r] = copy[r]
      /\ \A r \in Runners : writer'[r] # "none" => writer[r] # "none"
  BY DEF EndTurn, MoveInv, RunnerTypes, ControllerTypes
<1>4. ~strayed => \A r \in Runners : Keeps(r) <=> r = s
  BY <1>3 DEF MoveInv, KeptInv
<1>5. KeeperInv'
  <2>1. SUFFICES ASSUME NEW r \in Runners, Keeps(r)
                 PROVE  /\ \A m \in Ops : Handed(m) => source[m].sha \subseteq copy'[r].h
                        /\ ~strayed => copy'[r] = Whole(1..turns')
    BY <1>1 DEF KeeperInv, Handed
  <2>2. copy[r].h \subseteq copy'[r].h
    BY <1>3 DEF Whole
  <2>3. \A m \in Ops : Handed(m) => source[m].sha \subseteq copy[r].h
    BY <2>1 DEF MoveInv, KeeperInv
  <2>4. ASSUME ~strayed
        PROVE  copy'[r] = Whole(1..turns')
    <3>1. r = s /\ copy[s].h = 1..turns
      BY <1>4, <2>1, <2>4 DEF MoveInv, KeeperInv, Whole
    <3>2. (1..turns) \cup {turns + 1} = 1..(turns + 1)
      BY <1>3
    <3> QED
      BY <1>3, <3>1, <3>2
  <2> QED
    BY <2>2, <2>3, <2>4
<1>6. TravelInv'
  BY <1>1, <1>2, <1>4 DEF MoveInv, TravelInv, Handed, Received
<1>7. KeptInv'
  BY <1>1, <1>3 DEF MoveInv, KeptInv
<1> QED
  BY <1>5, <1>6, <1>7 DEF FlowInv

(* No step loses or forks the history.                                     *)
LEMMA FlowNext ==
  ASSUME MoveInv, MoveStep
  PROVE  FlowInv'
  BY FlowSteps, QuietNext, PlacedNext, HandedNext, ReceivedNext, ReplacedNext, TurnNext

-----------------------------------------------------------------------------
(* Every state of a move satisfies the invariant, wherever its job, its    *)
(* helpers or the runners are interrupted, until a job goes on from a      *)
(* phase that another job has changed since it was read.                   *)
THEOREM MoveCorrect == MoveSpec => [](~overtaken => MoveInv)
<1>1. MoveInit => (~overtaken => MoveInv)
  BY MoveStart
<1>2. (~overtaken => MoveInv) /\ [MoveNext]_moveVars => (~overtaken => MoveInv)'
  <2>1. SUFFICES ASSUME ~overtaken => MoveInv, [MoveNext]_moveVars, ~overtaken'
                 PROVE  MoveInv'
    OBVIOUS
  <2>2. ~overtaken
    BY <2>1, WaitingFrame DEF waiting, BeginLate, ReadEarly
  <2>3. MoveInv /\ MoveStep /\ EarlyInv
    BY <2>1, <2>2, StepIs DEF MoveInv
  <2>4. RunnerTypes' /\ ReceiptTypes' /\ ControllerTypes' /\ EarlyInv'
    BY <2>1, <2>3, RunnerTypesNext, ReceiptTypesNext, ControllerTypesNext, EarlyNext
  <2>5. StageInv' /\ PrevInv' /\ OfferInv' /\ ReachedInv'
    BY <2>3, StageNext, PrevNext, OfferNext, ReachedNext
  <2>6. JobPhaseInv' /\ JobPlaceInv' /\ WaitInv'
    BY <2>3, JobPhaseNext, JobPlaceNext, WaitNext
  <2>7. StageOfHelper' /\ HelperInv' /\ ReceiptInv' /\ LedgerInv'
    BY <2>3, StageOfHelperNext, HelperNext, ReceiptNext, LedgerNext
  <2>8. KeeperInv' /\ TravelInv' /\ KeptInv'
    BY <2>3, FlowNext DEF FlowInv
  <2> QED
    BY <2>4, <2>5, <2>6, <2>7, <2>8 DEF MoveInv
<1> QED
  BY <1>1, <1>2, PTL DEF MoveSpec

(* As long as the user opens the discussion only where the published       *)
(* placement has it and no job was overtaken, at most one runner has it open, and that runner and   *)
(* the one that is offered have every turn (the receipts of                *)
(* klokast-codex-handoff, the placements and phases of air-workspace).     *)
THEOREM OneHistoryHolds == MoveSpec => []OneHistory
<1>1. (~overtaken => MoveInv) => OneHistory
  <2>1. SUFFICES ASSUME MoveInv, ~strayed
                 PROVE  /\ \A r \in Runners : writer[r] # "none" \/ Invited(r) => copy[r] = Whole(1..turns)
                        /\ \A r, s \in Runners : writer[r] # "none" /\ writer[s] # "none" => r = s
    BY DEF OneHistory, NeitherLostNorForked
  <2>2. \A r \in Runners : writer[r] # "none" \/ Invited(r) => Keeps(r)
    BY <2>1 DEF MoveInv, KeptInv, Keeps
  <2> QED
    BY <2>1, <2>2 DEF MoveInv, KeeperInv, KeptInv
<1> QED
  BY MoveCorrect, <1>1, PTL

(* No step of a move ends a turn that runs, and a whole copy is replaced   *)
(* only by one that contains its turns, or for a bundle that does, until a *)
(* job is overtaken: even a copy that the user has continued where he      *)
(* should not (archive, import and its recovery in klokast-codex-handoff). *)
THEOREM NothingCut ==
  MoveSpec => [][~overtaken' => \A r \in Runners : EndsNoTurn(r) /\ KeepsTurns(r)]_moveVars
<1>1. ASSUME MoveInv, MoveStep, NEW r \in Runners
      PROVE  EndsNoTurn(r) /\ KeepsTurns(r)
  <2>1. /\ copy \in [Runners -> Copies] /\ writer \in [Runners -> {"none", "idle", "active"}] /\ left \in Nat
    BY <1>1 DEF MoveInv, RunnerTypes, ControllerTypes
  <2>2. ASSUME writer[r] = "active", writer'[r] = "none"
        PROVE  left' < left
    <3>1. PICK s \in Runners : Archive(s) \/ Launch(s) \/ Open(s) \/ CloseClient(s) \/ BeginTurn(s)
                                 \/ EndTurn(s) \/ Restart(s)
      BY <1>1, <2>2, Frame
    <3>2. CASE Archive(s)
      <4>1. s = r /\ helper[r] # None /\ helper[r].pc = "archive"
        BY <2>1, <2>2, <3>2 DEF Archive, Doing
      <4> QED
        BY <1>1, <2>2, <4>1, HelperHas DEF HelperAt
    <3>3. CASE Launch(s) \/ Open(s) \/ CloseClient(s) \/ BeginTurn(s) \/ EndTurn(s)
      BY <2>1, <2>2, <3>3 DEF Launch, Open, CloseClient, BeginTurn, EndTurn
    <3>4. CASE Restart(s)
      BY <2>1, <3>4 DEF Restart, Spend
    <3> QED
      BY <3>1, <3>2, <3>3, <3>4
  <2>3. ASSUME copy[r].kind = "whole", copy'[r] # copy[r]
        PROVE  \/ copy'[r].kind = "whole" /\ copy[r].h \subseteq copy'[r].h
               \/ helper[r] # None /\ copy[r].h \subseteq dest[Op(r)].sha
    <3>1. PICK s \in Runners : Remove(s) \/ Strip(s) \/ Install(s) \/ Fill(s) \/ EndTurn(s)
      BY <1>1, <2>3, Frame
    <3>2. s = r
      BY <2>1, <2>3, <3>1 DEF Remove, Strip, Install, Fill, EndTurn
    <3>3. CASE Remove(r)
      <4>1. /\ helper[r] # None /\ helper[r].pc = "remove"
            /\ copy[r] = Absent \/ copy[r].h = dest[Op(r)].prev
        BY <3>3 DEF Remove, Doing, HelperReady
      <4>2. dest[Op(r)].phase = "replacing" /\ Op(r) \in Ops
        BY <1>1, <4>1, HelperHas, HelperIs DEF HelperAt
      <4>3. dest[Op(r)].prev \subseteq dest[Op(r)].sha
        BY <1>1, <4>2 DEF MoveInv, ReceiptInv
      <4> QED
        BY <2>3, <4>1, <4>3 DEF Absent
    <3>4. CASE Strip(r)
      <4>1. helper[r] # None /\ helper[r].pc = "strip"
        BY <3>4 DEF Strip, Doing
      <4> QED
        BY <1>1, <2>3, <4>1, HelperHas DEF HelperAt
    <3>5. CASE Install(r)
      BY <2>1, <2>3, <3>5 DEF Install, Absent
    <3>6. CASE Fill(r)
      <4>1. helper[r] # None /\ helper[r].pc = "fill"
        BY <3>6 DEF Fill, Doing
      <4> QED
        BY <1>1, <4>1, HelperHas DEF HelperAt
    <3>7. CASE EndTurn(r)
      BY <2>1, <2>3, <3>7 DEF EndTurn, Whole
    <3> QED
      BY <3>1, <3>2, <3>3, <3>4, <3>5, <3>6, <3>7
  <2> QED
    BY <2>2, <2>3 DEF EndsNoTurn, KeepsTurns
<1>2. ASSUME ~overtaken => MoveInv, [MoveNext]_moveVars, ~overtaken'
      PROVE  \A r \in Runners : EndsNoTurn(r) /\ KeepsTurns(r)
  <2>1. ~overtaken
    BY <1>2, WaitingFrame DEF waiting, BeginLate, ReadEarly
  <2>2. MoveInv /\ MoveStep
    BY <1>2, <2>1, StepIs
  <2> QED
    BY <1>1, <2>2
<1> QED
  BY MoveCorrect, <1>2, PTL DEF MoveSpec

=============================================================================
