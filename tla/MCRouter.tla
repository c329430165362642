------------------------------- MODULE MCRouter -------------------------------
(***************************************************************************)
(* Instances of the router transaction for TLC.                            *)
(***************************************************************************)
EXTENDS RouterColdTest
=============================================================================
