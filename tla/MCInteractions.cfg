SPECIFICATION Spec
CONSTANTS
    ann = ann
    card = card
    open = open
    mute = mute
    again = again
    unmute = unmute
    NoClick = NoClick
    Recipients = {ann}
    Cards = {card}
    Owner <- MCOwner
    Clicks = {open, mute, again, unmute}
    CardOf <- MCCardOf
    ActionOf <- MCActionOf
    Slots = {1, 2}
    MuteDays = 2
    MaxTimes = 2
CHECK_DEADLOCK FALSE
INVARIANTS
    TypeOK
    AppliedAtMostOnce
    AuditMatchesEffect
    LastChangeHolds
    PanelAgreesWithRouter
    LostOnlyByFaults
