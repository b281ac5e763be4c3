SPECIFICATION Spec
CONSTANTS
    scheduler = scheduler
    command = command
    alpha = alpha
    beta = beta
    System = System
    Projects = {alpha}
    Runs = {scheduler}
    PageSize = 3
    MaxHooks = 5
    MaxEdits = 0
    MaxRotations = 1
PROPERTY CleanRunsDistributeTokens
