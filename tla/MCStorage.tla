----------------------------- MODULE MCStorage ------------------------------
(* Three attempts to replace one guest, from two builds.                 *)
EXTENDS GenerationStorage

CONSTANTS o1, o2, o3, base, i0, i1
=============================================================================
