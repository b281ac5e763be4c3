SPECIFICATION Spec
CONSTANTS
    ann = ann
    bob = bob
    cat = cat
    People <- MCPeople
    Public <- MCPublic
    Large <- Nobody
    Directory <- MCPeople
    Refused <- NoneRefused
    Admitted <- MCPeople
    Inbox <- Toggles
    TextLimit = 5
    MaxHandled = 2
CHECK_DEADLOCK FALSE
INVARIANT
    EachEventHasItsRow
