SPECIFICATION Spec

CONSTANTS
    UserThreads <- TwoThreads
    Names <- ThreeNames
    MaxUser = 3
    NoUser = NoUser
    RoleThreads <- TwoThreads
    Editors = {t1}
    Permissions <- OnePermission
    MaxRole = 2
    NoRole = NoRole
    NoEntry = NoEntry
    t1 = t1
    t2 = t2
    ann = ann
    bob = bob
    cem = cem
    read = read

INVARIANTS
    NamesReach
    AnswersCurrent
    InheritsAsJoined

PROPERTIES
    EditsReachNamed
    CirclesAreJoined
