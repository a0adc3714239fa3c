SPECIFICATION FairSpec
CONSTANTS
    VMs = {v1, v2}
    Servers = {b1, b2}
    Nothing = Nothing
    MaxFaults = 1
INVARIANTS
    TypeOK
    ListIsRight
PROPERTIES
    OwnMembersKept
    MembersComeBack
CHECK_DEADLOCK FALSE
