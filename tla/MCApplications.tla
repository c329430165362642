--------------------------- MODULE MCApplications ---------------------------
(* What the controller does for applications and for the workspace, in one *)
(* run: a discussion that is moved and moved back (WorkspaceMove), and two *)
(* applications that claim the same rule, one of which can also take an    *)
(* optional rule of its own on the router (AppResources).  No step belongs *)
(* to both, so a behaviour stays in the chapter it begins in.              *)
EXTENDS WorkspaceMove, AppResources, TLC

CONSTANTS
    Chapters,              \* of {"move", "resources"}
    r1, r2, there, back,   \* runners and moves
    p, q, box, web, own    \* applications, a box and the rules

MCOps  == {there, back}
MCFrom == (there :> r1) @@ (back :> r2)
MCTo   == (there :> r2) @@ (back :> r1)

MCRequired   == [x \in {p, q} |-> {web}]
MCOptional   == [x \in {p, q} |-> {own}]
MCRolesOf    == (web :> {"router", "backend"}) @@ (own :> {"router"})
MCPlacements == [x \in {p, q} |-> {{box}}]
MCExclusive  == {<<q, own>>}

VARIABLE chapter

MCInit ==
    /\ MoveInit /\ Init
    /\ chapter \in Chapters
    /\ reg.on = IF chapter = "move" THEN {} ELSE Apps

MCNext ==
    \/ chapter = "move" /\ MoveNext /\ UNCHANGED <<vars, chapter>>
    \/ chapter = "resources" /\ Next /\ UNCHANGED <<moveVars, chapter>>

(* The fairness of each chapter, as long as a behaviour is in it.          *)
Within(c, A) == chapter = c /\ A

MCFairness ==
    /\ WF_moveVars(Within("move", JobStep))
    /\ \A r \in Runners : WF_moveVars(Within("move", HelperStep(r)))
    /\ WF_moveVars(Within("move", \E r \in Runners : EndTurn(r)))
    /\ \A m \in Ops : SF_moveVars(Within("move", Begun(m) /\ Begin(m)))
    /\ WF_vars(Within("resources", RunStep))
    /\ SF_vars(Within("resources", StartApply({})))

MCSpec == MCInit /\ [][MCNext]_<<moveVars, vars, chapter>> /\ MCFairness

=============================================================================
