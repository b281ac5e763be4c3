SPECIFICATION Spec
CONSTANTS
    opened = opened
    updated = updated
    shared = shared
    blocked = blocked
    None = None
    Events = {opened}
    Deliveries = {shared, blocked}
    DeliveriesOf <- MCOneEvent
    Allowed = {shared}
    Legacy = {}
    MaxAttempts = 3
    BatchSize = 1
    LeaseDuration = 2
    RetryDelay = 1
    RetryCap = 2
    Backoff <- MCBackoff
INVARIANT ExhaustedIsClosed
