SPECIFICATION Spec
CONSTANTS
    ann = ann
    bob = bob
    cat = cat
    People <- MCPeople
    Public <- MCPublic
    Large <- Nobody
    Directory <- MCPeople
    Refused <- MCRefused
    Admitted <- MCPeople
    Inbox <- AllHooks
    TextLimit = 5
    MaxHandled = 2
CHECK_DEADLOCK FALSE
INVARIANT
    MappingUsedDuringOutage
