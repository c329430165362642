------------------------- MODULE GenerationSelection -------------------------
(***************************************************************************)
(* What the protected transaction promises about one dom0, without         *)
(* journals, locks, definitions or processes: each role has one selected   *)
(* generation; the selection moves to a new generation once and never      *)
(* returns to a retired one; and the role runs what is selected or         *)
(* nothing, except for a generation on trial that it never had before.     *)
(***************************************************************************)
CONSTANTS
  Roles,        \* the guests of the box
  Generations,  \* root disks with their boot definitions
  Trials,       \* generations that may run before they are selected
  Base,         \* the generation every role starts with
  None

VARIABLES
  selected,  \* the generation recovery and boot choose for a role
  retired,   \* generations a role has moved away from
  running    \* the generation whose domain is alive, or None

vars == <<selected, retired, running>>

Init ==
  /\ selected = [r \in Roles |-> Base]
  /\ retired  = [r \in Roles |-> {}]
  /\ running  = [r \in Roles |-> Base]

New(r) == Generations \ (retired[r] \cup {selected[r]})

(* The selection moves to a generation the role never had, while the old   *)
(* one is down.                                                            *)
Select(r, g) ==
  /\ g \in New(r)
  /\ running[r] \in {None, g}
  /\ selected' = [selected EXCEPT ![r] = g]
  /\ retired'  = [retired EXCEPT ![r] = @ \cup {selected[r]}]
  /\ UNCHANGED running

(* Guests start and end; several roles may do so at once, at boot.         *)
Run ==
  /\ running' \in [Roles -> Generations \cup {None}]
  /\ \A r \in Roles :
       running'[r] # running[r] =>
         \/ running'[r] = None
         \/ running[r] = None /\ running'[r] \in {selected[r]} \cup (New(r) \cap Trials)
  /\ UNCHANGED <<selected, retired>>

Next == Run \/ \E r \in Roles, g \in Generations : Select(r, g)

Spec == Init /\ [][Next]_vars

TypeOK ==
  /\ selected \in [Roles -> Generations]
  /\ retired \in [Roles -> SUBSET Generations]
  /\ running \in [Roles -> Generations \cup {None}]

(* A role never runs or selects a generation it has moved away from.       *)
NeverRetired ==
  \A r \in Roles : {selected[r], running[r]} \cap retired[r] = {}

=============================================================================
