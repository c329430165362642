---------------------------- MODULE MCInstallation ----------------------------
(* How a router's disk is made and cleaned up (RouterPreparation), and the *)
(* evidence of a cold test of the router that is installed (ColdEvidence), *)
(* in one run.  No step belongs to both, so a behaviour stays in the       *)
(* chapter it begins in.                                                   *)
EXTENDS ColdEvidence, RouterPreparation

CONSTANT Chapters   \* of {"disk", "evidence"}

\* One artifact of one part and one of two.
MCParts == [kernel |-> 1, initramfs |-> 2]

VARIABLE chapter

\* The evidence does not depend on what the disk was requested for.
MCInit ==
    /\ Init /\ PreparationInit
    /\ chapter \in Chapters
    /\ chapter = "evidence" => job = [mode |-> "initial", contact |-> TRUE, printer |-> FALSE]

MCNext ==
    \/ chapter = "disk" /\ PreparationNext /\ UNCHANGED <<vars, chapter>>
    \/ chapter = "evidence" /\ Next /\ UNCHANGED <<preparationVars, chapter>>

allVars == <<vars, preparationVars, chapter>>

(* The fairness of each chapter, two steps at a time: as a behaviour stays *)
(* in its chapter, one of the two is never enabled.                        *)
Step(A, B) ==
    \/ chapter = "disk" /\ A /\ UNCHANGED <<vars, chapter>>
    \/ chapter = "evidence" /\ B /\ UNCHANGED <<preparationVars, chapter>>

MCFairness ==
    /\ WF_allVars(Step(CommandStep, Continue))
    /\ WF_allVars(Step(GuestStep, Expire))
    /\ \A g \in {"prepare", "finalize", "clean"} : WF_allVars(Step(IssueGrant(g), FALSE))
    /\ SF_allVars(Step(Begin, WorkerStep \/ Restart))
    /\ SF_allVars(Step(BeginFinal, StageHealth \/ ClearFence))
    /\ SF_allVars(Step(StartCleanup, Removals))

MCSpec == MCInit /\ [][MCNext]_allVars /\ MCFairness

=============================================================================
