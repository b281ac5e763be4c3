SPECIFICATION Spec
CONSTANTS
    ann = ann
    bob = bob
    cat = cat
    People <- MCPeople
    Public <- MCPublic
    Large <- MCLarge
    Directory <- MCPeople
    Refused <- MCRefused
    Admitted <- MCPeople
    Inbox <- AllHooks
    TextLimit = 5
    MaxHandled = 2
CHECK_DEADLOCK FALSE
INVARIANTS
    TypeOK
    NoSelfNotification
    NoticesAreEntitled
    RepeatsDifferByMention
    EntitledAreNotified
    OutageCostsMentionsOnly
