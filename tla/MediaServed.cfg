\* One slot, polled for ever: what must happen in the end.
CONSTANTS
    a = a
    b = b
    upper = upper
    lower = lower
    NoCard = NoCard
    Gone = Gone
    Card <- TwoCards
    Slot <- OneSlot
    MaxMoves = 3
    MaxEjections = 1
    MaxRestarts = 0
SPECIFICATION FairSpec
PROPERTIES
    EjectedCardIsReleased
    LoneCardIsServed
