----------------------------- MODULE MCVmService -----------------------------
(***************************************************************************)
(* Instances of the service update for TLC: one role, updated once.        *)
(***************************************************************************)
EXTENDS VmService

CONSTANTS dmz, a

OneRole == {dmz}
OneOp   == {a}
Only    == [o \in OneOp |-> dmz]

=============================================================================
