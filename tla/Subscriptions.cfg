SPECIFICATION MCSpec
CONSTANTS
    OwnUsers = {u1, u2}
    OwnTeams = {t1}
    OwnProcs = {p1, p2}
    MaxUserRows = 2
    MaxTeamRows = 1
    MaxStatusWrites = 1
    MaxMembers = 2
    NoTeam = NoTeam
    NoUser = NoUser
    Users = {u1, u2}
    ResetProcs = {p1, p2}
    Quota = 2
    MaxUnits = 2
    MaxResets = 1
    MaxAdjusts = 1
    MaxUpsets = 1
    Nobody = Nobody
    NoMark = NoMark
INVARIANTS
    OneEffectiveRow
    MembershipInvariant
    ResetBoundary
    TrafficInvariant
PROPERTIES
    NoStaleActivation
SYMMETRY Symmetry
CHECK_DEADLOCK FALSE
