--------------------------- MODULE MCVmTransaction ---------------------------
(***************************************************************************)
(* Instances of the VM transaction for TLC.                                *)
(***************************************************************************)
EXTENDS VmTransaction

CONSTANTS dmz, a, b, c

OneRole == {dmz}

\* One role, which is first adopted, then replaced twice.
ThreeOps  == {a, b, c}
AllOfRole == [o \in ThreeOps |-> dmz]

=============================================================================
