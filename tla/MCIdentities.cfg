SPECIFICATION Spec
CONSTANTS
    red = red
    green = green
    blue = blue
    scheduler = scheduler
    handler = handler
    NoName = NoName
    NumPeople = 2
    Found = {1, 2}
    Names = {red, green, blue}
    Syncs = {scheduler}
    Handlers = {handler}
    MaxChanges = 2
    MaxRemembered = 1
SYMMETRY NamesAlike
CHECK_DEADLOCK FALSE
INVARIANTS
    TypeOK
    MappingsAreOwn
PROPERTIES
    SyncEnablesOnlyWanted
    SyncEnablesWanted
