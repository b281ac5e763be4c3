SPECIFICATION Spec
CONSTANTS
    scheduler = scheduler
    command = command
    alpha = alpha
    beta = beta
    System = System
    Projects = {alpha, beta}
    Runs = {scheduler, command}
    PageSize = 3
    MaxHooks = 5
    MaxEdits = 1
    MaxRotations = 1
SYMMETRY RunsAlike
INVARIANTS
    TypeOK
    DuplicatesNeedRaces
PROPERTIES
    ForeignHooksUntouched
    CleanRunsEnsureHooks
