SPECIFICATION FairSpec
CONSTANTS
    worker = worker
    lookup = lookup
    None = None
    Callers = {worker, lookup}
    Sends = {worker}
    Parts <- MCParts
    Answers <- MCAnswers
    Lifetimes = {3}
    Timeout = 1
    Margin = 2
    MaxTokens = 2
INVARIANTS
    TypeOK
    MarginCoversRequests
    NewestTokenCached
    StaleTokensAreRenewed
PROPERTIES
    ImplementsContract
    EveryCallReturns
