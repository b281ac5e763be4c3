SPECIFICATION Spec
CONSTANTS
    ann = ann
    card = card
    open = open
    mute = mute
    again = again
    unmute = unmute
    NoClick = NoClick
    Recipients = {ann}
    Cards = {card}
    Owner <- MCOwner
    Clicks = {open, mute, again, unmute}
    CardOf <- MCCardOf
    ActionOf <- MCActionOf
    Slots = {1, 2}
    MuteDays = 5
    MaxTimes = 1
CHECK_DEADLOCK FALSE
INVARIANT PanelShowsLastChange
