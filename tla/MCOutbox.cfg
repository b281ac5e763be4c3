SPECIFICATION FairSpec
CONSTANTS
    opened = opened
    updated = updated
    shared = shared
    blocked = blocked
    None = None
    Events = {opened, updated}
    Deliveries = {shared, blocked}
    DeliveriesOf <- MCDeliveriesOf
    Allowed = {shared}
    Legacy = {shared}
    MaxAttempts = 3
    BatchSize = 2
    LeaseDuration = 2
    RetryDelay = 1
    RetryCap = 2
    Backoff <- MCBackoff
INVARIANTS
    TypeOK
    OnlyStrandedAreForgotten
    DuplicatesAreLosses
    AckedIsStored
    OnlyFaultsAbandon
PROPERTIES
    ClosedIsFinal
    StrandedIsForever
    ImplementsContract
    EveryDeliverySettles
    EveryDeliveryCloses
