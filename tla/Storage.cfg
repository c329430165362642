CONSTANTS
    o1 = o1
    o2 = o2
    o3 = o3
    base = base
    i0 = i0
    i1 = i1
    Operations = {o1, o2, o3}
    Base = base
    Images = {i0, i1}
    BaseImage = i0
    MaxKills = 1
SPECIFICATION Spec
CHECK_DEADLOCK FALSE
INVARIANTS RecoverableRoots BoundImages
PROPERTIES DeletionsEnd
