---------------------------- MODULE AppResources ----------------------------
(***************************************************************************)
(* The rules that applications are granted on the firewalls of a box.      *)
(*                                                                         *)
(* The registry of the Instance says which applications are enabled, on    *)
(* which boxes, and which optional resources they take.  platform-         *)
(* resources compiles it into effective files, one per distinct rule and   *)
(* host, with the applications that claim the rule as its owners, and      *)
(* "apply" brings the hosts to that plan: it holds the installation lock,  *)
(* starts and stops the shared guests, then walks over the routers         *)
(* (through Ansible) and the Podman guests (through ssh).  On each host    *)
(* the reconciler writes and removes snippets, nftables is reloaded and    *)
(* the result is verified.  An apply may be limited to some applications:  *)
(* it is then compiled from their entries alone.                           *)
(*                                                                         *)
(* A rule is named by its resource and its host: its interfaces, addresses *)
(* and ports are what a resource stands for, and a file is modelled by the *)
(* owners its header names, {} when there is no file.                      *)
(***************************************************************************)
EXTENDS Naturals, FiniteSets

CONSTANTS
    Apps,        \* application names
    Boxes,       \* boxes, each with one router and one backend guest
    Resources,   \* distinct network rules a manifest can ask for
    Required,    \* app -> resources it always takes
    Optional,    \* app -> resources the registry may select for it
    RolesOf,     \* resource -> roles of the hosts its rule is needed on
    Exclusive,   \* pairs <<app, resource>> declared exclusive
    Gated,       \* resources that need an access capability of the box
    Workloads,   \* apps with a Podman workload in the backend zone
    Placements,  \* app -> sets of boxes the registry may place it on
    MaxEdits,    \* bound: edits of the registry
    MaxKills,    \* bound: applies killed or failing on the way
    MaxReboots   \* bound: reboots of a host

Roles == {"router", "backend"}
Hosts == Boxes \X Roles
BoxOf(h) == h[1]
RoleOf(h) == h[2]

(***************************************************************************)
(* The registry, as far as the plan depends on it: enabled apps, their     *)
(* boxes, the optional resources selected for them, the boxes that enable  *)
(* the capability, and the boxes whose backend guest is to run.            *)
(***************************************************************************)
Registries ==
    [on : SUBSET Apps,
     at : {p \in [Apps -> SUBSET Boxes] : \A a \in Apps : p[a] \in Placements[a]},
     picked : SUBSET {p \in Apps \X Resources : p[2] \in Optional[p[1]]},
     capable : SUBSET Boxes, guests : SUBSET Boxes]

VARIABLES
    reg,      \* the registry on the controller
    files,    \* host -> resource -> owners in the header of its snippet
    live,     \* host -> resources whose rule the kernel enforces
    up,       \* boxes whose backend guest runs
    run,      \* the apply that holds the installation lock
    ended,    \* scope and registry of the last apply, when it ended well
    edits, kills, reboots

vars == <<reg, files, live, up, run, ended, edits, kills, reboots>>

Idle == [pc |-> "idle"]
NoApply == [scope |-> {"none"}]

-----------------------------------------------------------------------------
(* What a compilation for the applications S makes of registry r.          *)

Selected(r, S) == IF S = {} THEN Apps ELSE S

Taken(r, a) == Required[a] \cup {x \in Optional[a] : <<a, x>> \in r.picked}

PlacedOn(r, a, h) == BoxOf(h) \in r.at[a]

NeededOn(x, h) == RoleOf(h) \in RolesOf[x]

Claims(r, a, h, x) ==
    a \in r.on /\ PlacedOn(r, a, h) /\ x \in Taken(r, a) /\ NeededOn(x, h)

Owners(r, S, h, x) == {a \in Selected(r, S) : Claims(r, a, h, x)}

Conflict(r, S) ==
    \E h \in Hosts, x \in Resources :
        /\ Cardinality(Owners(r, S, h, x)) > 1
        /\ \E a \in Owners(r, S, h, x) : <<a, x>> \in Exclusive

CapabilityMissing(r, S) ==
    \E a \in Selected(r, S) \cap r.on :
        Taken(r, a) \cap Gated # {} /\ ~(r.at[a] \subseteq r.capable)

GuestMissing(r, S) ==
    \E a \in Selected(r, S) \cap r.on \cap Workloads : ~(r.at[a] \subseteq r.guests)

Compiles(r, S) == ~Conflict(r, S) /\ ~CapabilityMissing(r, S) /\ ~GuestMissing(r, S)

(* Hosts an apply visits: those of its files, of the disabled apps it      *)
(* cleans up, and for a scoped one every host of the scope's boxes; a      *)
(* Podman guest that the registry keeps stopped is left out.               *)
InScope(S, owners) == S = {} \/ owners \cap S # {}

\* Seeded fault: the hosts of disabled applications are forgotten.
HostsOfFiles(r, S) ==
    {h \in Hosts :
        \/ \E x \in Resources :
              Owners(r, S, h, x) # {} /\ InScope(S, Owners(r, S, h, x))
        \/ \E a \in S : PlacedOn(r, a, h)}

ResourceHosts(r, S) ==
    {h \in Hosts :
        \/ \E x \in Resources :
              Owners(r, S, h, x) # {} /\ InScope(S, Owners(r, S, h, x))
        \/ \E a \in Selected(r, S) \ r.on : PlacedOn(r, a, h)
        \/ \E a \in S : PlacedOn(r, a, h)}

Visited(r, S) ==
    {h \in ResourceHosts(r, S) : RoleOf(h) = "router" \/ BoxOf(h) \in r.guests}

Persisted(h) == {x \in Resources : files[h][x] # {}}
Running(h) == RoleOf(h) = "router" \/ BoxOf(h) \in up

-----------------------------------------------------------------------------
(* A box as it was provisioned, with no application rule yet.              *)
Init ==
    /\ reg \in Registries
    /\ reg.picked = {} /\ reg.capable = Boxes /\ reg.guests = Boxes
    /\ files = [h \in Hosts |-> [x \in Resources |-> {}]]
    /\ live = [h \in Hosts |-> {}]
    /\ up = Boxes
    /\ run = Idle
    /\ ended = NoApply
    /\ edits = 0 /\ kills = 0 /\ reboots = 0

(* The Instance is edited, also while an apply of the earlier registry is  *)
(* under way.                                                              *)
EditRegistry ==
    /\ edits < MaxEdits
    /\ \/ \E a \in Apps : reg' = [reg EXCEPT !.on = IF a \in @ THEN @ \ {a} ELSE @ \cup {a}]
       \/ \E a \in Apps : \E p \in Placements[a] : reg' = [reg EXCEPT !.at[a] = p]
       \/ \E a \in Apps : \E x \in Optional[a] :
             reg' = [reg EXCEPT !.picked = IF <<a, x>> \in @ THEN @ \ {<<a, x>>}
                                           ELSE @ \cup {<<a, x>>}]
       \/ \E b \in Boxes : reg' = [reg EXCEPT !.capable = IF b \in @ THEN @ \ {b} ELSE @ \cup {b}]
       \/ \E b \in Boxes : reg' = [reg EXCEPT !.guests = IF b \in @ THEN @ \ {b} ELSE @ \cup {b}]
    /\ reg' # reg
    /\ edits' = edits + 1
    /\ UNCHANGED <<files, live, up, run, ended, kills, reboots>>

(* platform-resources [--app ...] apply: reads and compiles the registry,  *)
(* then takes the lock.                                                    *)
StartApply(S) ==
    /\ run = Idle
    /\ Compiles(reg, S)
    /\ run' = IF S = {}
              THEN [pc |-> "guests", scope |-> S, reg |-> reg,
                    todo |-> Visited(reg, S), boxes |-> Boxes]
              ELSE [pc |-> "hosts", scope |-> S, reg |-> reg, todo |-> Visited(reg, S)]
    /\ ended' = NoApply
    /\ UNCHANGED <<reg, files, live, up, edits, kills, reboots>>

(* A registry that does not compile, for the scope asked, ends the command *)
(* before it has changed anything.                                         *)
RefuseApply(S) ==
    /\ run = Idle
    /\ ~Compiles(reg, S)
    /\ UNCHANGED vars

(* apply-shared-guests [--box ...]: only the guests, under the same lock.  *)
StartGuestsOnly(B) ==
    /\ run = Idle
    /\ ~GuestMissing(reg, {})
    /\ run' = [pc |-> "guests only", scope |-> {}, reg |-> reg, boxes |-> B]
    /\ UNCHANGED <<reg, files, live, up, ended, edits, kills, reboots>>

ToHosts(todo) ==
    [pc |-> "hosts", scope |-> run.scope, reg |-> run.reg, todo |-> todo]

DoingGuests == run.pc \in {"guests", "guests only"}

(* A full apply first starts or shuts down shared guests.  A guest that    *)
(* boots loads the snippets it finds on its disk.                          *)
StartGuest(b) ==
    /\ DoingGuests
    /\ b \in (run.boxes \cap run.reg.guests) \ up
    /\ up' = up \cup {b}
    /\ live' = [live EXCEPT ![<<b, "backend">>] = Persisted(<<b, "backend">>)]
    /\ UNCHANGED <<reg, files, run, ended, edits, kills, reboots>>

StopGuest(b) ==
    /\ DoingGuests
    /\ b \in (run.boxes \cap up) \ run.reg.guests
    /\ up' = up \ {b}
    /\ live' = [live EXCEPT ![<<b, "backend">>] = {}]
    /\ UNCHANGED <<reg, files, run, ended, edits, kills, reboots>>

GuestsDone ==
    /\ DoingGuests
    /\ up \cap run.boxes = run.reg.guests \cap run.boxes
    /\ run' = IF run.pc = "guests" THEN ToHosts(run.todo) ELSE Idle
    /\ UNCHANGED <<reg, files, live, up, ended, edits, kills, reboots>>

(* The playbook goes over the routers, then each Podman guest is done.     *)
VisitHost(h) ==
    /\ run.pc = "hosts"
    /\ h \in run.todo
    /\ RoleOf(h) = "backend" => \A k \in run.todo : RoleOf(k) = "backend"
    /\ Running(h)
    /\ run' = [pc |-> "snippets", scope |-> run.scope, reg |-> run.reg,
               todo |-> run.todo, host |-> h, changed |-> FALSE]
    /\ UNCHANGED <<reg, files, live, up, ended, edits, kills, reboots>>

(* The guest is not up though the registry wants it: ssh fails.            *)
HostUnreachable(h) ==
    /\ run.pc = "hosts"
    /\ h \in run.todo
    /\ \A k \in run.todo : RoleOf(k) = "backend"
    /\ ~Running(h)
    /\ run' = Idle
    /\ UNCHANGED <<reg, files, live, up, ended, edits, kills, reboots>>

-----------------------------------------------------------------------------
(* On a host: the reconciler, the reload, the verification.                *)

\* Seeded fault: the plan is compiled again on every host.
DesiredNow(x) == Owners(reg, run.scope, run.host, x)

Desired(x) == Owners(run.reg, run.scope, run.host, x)

ToWrite ==
    {x \in Resources :
        /\ Desired(x) # {}
        /\ InScope(run.scope, files[run.host][x] \cup Desired(x))
        /\ files[run.host][x] # Desired(x)}

ToUnlink ==
    {x \in Resources :
        /\ Desired(x) = {}
        /\ files[run.host][x] # {}
        /\ InScope(run.scope, files[run.host][x])}

WriteSnippet(x) ==
    /\ run.pc = "snippets"
    /\ x \in ToWrite
    /\ files' = [files EXCEPT ![run.host][x] = Desired(x)]
    /\ run' = [run EXCEPT !.changed = TRUE]
    /\ UNCHANGED <<reg, live, up, ended, edits, kills, reboots>>

UnlinkSnippet(x) ==
    /\ run.pc = "snippets"
    /\ ToWrite = {}
    /\ x \in ToUnlink
    /\ files' = [files EXCEPT ![run.host][x] = {}]
    /\ run' = [run EXCEPT !.changed = TRUE]
    /\ UNCHANGED <<reg, live, up, ended, edits, kills, reboots>>

(* nft -f runs on a router whatever was changed, on a Podman guest only    *)
(* when this very run changed a snippet.  The ledgers follow.              *)
LoadRules ==
    /\ run.pc = "snippets"
    /\ ToWrite = {} /\ ToUnlink = {}
    /\ live' = [live EXCEPT ![run.host] =
                   IF RoleOf(run.host) = "router" \/ run.changed
                   THEN Persisted(run.host) ELSE @]
    /\ run' = [run EXCEPT !.pc = "verify"]
    /\ UNCHANGED <<reg, files, up, ended, edits, kills, reboots>>

Checked == {x \in Resources : Desired(x) # {} /\ InScope(run.scope, Desired(x))}

\* Seeded fault: the kernel's rules are not looked at.
FilesVerify ==
    /\ \A x \in Checked : files[run.host][x] = Desired(x)
    /\ \A x \in Persisted(run.host) :
          InScope(run.scope, files[run.host][x]) => Desired(x) # {}

HostVerifies ==
    /\ \A x \in Checked : files[run.host][x] = Desired(x)
    /\ \A x \in Persisted(run.host) :
          InScope(run.scope, files[run.host][x]) => Desired(x) # {}
    /\ Checked \subseteq live[run.host]

VerifyHost ==
    /\ run.pc = "verify"
    /\ run' = IF HostVerifies
              THEN ToHosts(run.todo \ {run.host})
              ELSE Idle
    /\ UNCHANGED <<reg, files, live, up, ended, edits, kills, reboots>>

EndApply ==
    /\ run.pc = "hosts"
    /\ run.todo = {}
    /\ run' = Idle
    /\ ended' = [scope |-> run.scope, reg |-> run.reg]
    /\ UNCHANGED <<reg, files, live, up, edits, kills, reboots>>

(* The controller, a connection or a command of the apply fails.           *)
KillApply ==
    /\ run # Idle
    /\ kills < MaxKills
    /\ run' = Idle
    /\ kills' = kills + 1
    /\ UNCHANGED <<reg, files, live, up, ended, edits, reboots>>

(* A host reboots and loads the snippets on its disk; an apply that was    *)
(* working on it fails.                                                    *)
Reboot(h) ==
    /\ reboots < MaxReboots
    /\ Running(h)
    /\ live' = [live EXCEPT ![h] = Persisted(h)]
    /\ run' = IF run.pc \in {"snippets", "verify"} /\ run.host = h THEN Idle ELSE run
    /\ reboots' = reboots + 1
    /\ UNCHANGED <<reg, files, up, ended, edits, kills>>

-----------------------------------------------------------------------------
HostStep ==
    \/ \E x \in Resources : WriteSnippet(x) \/ UnlinkSnippet(x)
    \/ LoadRules
    \/ VerifyHost

RunStep ==
    \/ \E b \in Boxes : StartGuest(b) \/ StopGuest(b)
    \/ GuestsDone
    \/ \E h \in Hosts : VisitHost(h) \/ HostUnreachable(h)
    \/ HostStep
    \/ EndApply

Next ==
    \/ EditRegistry
    \/ \E S \in SUBSET Apps : StartApply(S) \/ RefuseApply(S)
    \/ \E B \in SUBSET Boxes \ {{}} : StartGuestsOnly(B)
    \/ RunStep
    \/ KillApply
    \/ \E h \in Hosts : Reboot(h)

(* A running apply goes on, and the full apply is repeated.                *)
Fairness == WF_vars(RunStep) /\ SF_vars(StartApply({}))

Spec == Init /\ [][Next]_vars /\ Fairness

-----------------------------------------------------------------------------
(* What the applies promise.                                               *)

(* After an apply that ended well, and until the next one starts, every    *)
(* rule it was asked for is on the disk of each host it visited, with the  *)
(* owners of its plan, and enforced there: whatever earlier applies left   *)
(* half done, and whatever reboots since.                                  *)
AppliedIsInForce ==
    ended # NoApply =>
        \A h \in Visited(ended.reg, ended.scope), x \in Resources :
            LET owners == Owners(ended.reg, ended.scope, h, x) IN
            owners # {} /\ InScope(ended.scope, owners) =>
                files[h][x] = owners /\ (Running(h) => x \in live[h])

(* A full apply never takes out of force a rule that the registry it was   *)
(* started with still grants, on a host that stays up: also when an        *)
(* earlier apply was cut off before its reload.                            *)
NoOutage ==
    [][run # Idle /\ run.scope = {} =>
         \A h \in Hosts : \A x \in live[h] :
             Owners(run.reg, {}, h, x) # {} /\ Running(h)' /\ reboots' = reboots
                 => x \in live'[h]]_vars

(* Once edits, failures and reboots have ended, the routers come to        *)
(* enforce exactly what the registry grants and keep to it: although a     *)
(* Podman guest may fail every apply, and with scoped applies in between.  *)
(* It is said of the routers that an enabled app has a rule on, or that a  *)
(* disabled app is placed beside: an apply does not visit any other.       *)
RoutersConverge ==
    <>[](Compiles(reg, {}) =>
            \A h \in Boxes \X {"router"} :
                \/ \E x \in Resources : Owners(reg, {}, h, x) # {}
                \/ \E a \in Apps \ reg.on : PlacedOn(reg, a, h)
                => live[h] = {x \in Resources : Owners(reg, {}, h, x) # {}})

(* "Removing one owner preserves shared resources": no step of an apply    *)
(* removes the snippet of a rule that the registry it read grants.         *)
SharedIsPreserved ==
    [][run # Idle =>
         \A h \in Hosts, x \in Resources :
             files[h][x] # {} /\ Owners(run.reg, {}, h, x) # {} => files'[h][x] # {}]_vars

=============================================================================
