----------------------------- MODULE MCRetained -----------------------------
(* Two chapters of a retained disk in one run: how a role first gets one    *)
(* (SeededState), and how it is copied and backed up (RetainedBackup).  No  *)
(* step belongs to both, so a behaviour stays in the chapter it begins in.  *)
EXTENDS RetainedBackup, SeededState, TLC

VARIABLE chapter

MCInit == Init /\ SeedInit /\ chapter \in {"seed", "copy"} /\ (chapter = "copy" => role = "air")

MCNext ==
    \/ chapter = "seed" /\ SeedNext /\ UNCHANGED <<vars, chapter>>
    \/ chapter = "copy" /\ Next /\ UNCHANGED <<seeds, chapter>>

MCSpec == MCInit /\ [][MCNext]_<<vars, seeds, chapter>>

\* The datasets are interchangeable, no definition names one; the
\* configuration gives Files the same values.
Interchangeable == Permutations(Entries)

=============================================================================
