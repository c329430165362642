CONSTANTS
    Chapters = {"move"}
    r1 = r1
    r2 = r2
    there = there
    back = back
    p = p
    q = q
    box = box
    web = web
    own = own
    Runners = {r1, r2}
    First = r1
    Ops <- MCOps
    From <- MCFrom
    To <- MCTo
    Turns = 1
    Faults = {"early"}
    Budget = 1
    None = None
    Apps = {p, q}
    Boxes = {box}
    Resources = {web, own}
    Required <- MCRequired
    Optional <- MCOptional
    RolesOf <- MCRolesOf
    Exclusive <- MCExclusive
    Gated = {own}
    Workloads = {q}
    Placements <- MCPlacements
    MaxEdits = 2
    MaxKills = 1
    MaxReboots = 1
SPECIFICATION MCSpec
CHECK_DEADLOCK FALSE
INVARIANTS
    SelectionHasHistory
