\* Cards are swapped, ejected and polled for in any order.
CONSTANTS
    a = a
    b = b
    upper = upper
    lower = lower
    NoCard = NoCard
    Gone = Gone
    Card <- TwoCards
    Slot <- TwoSlots
    MaxMoves = 3
    MaxEjections = 1
    MaxRestarts = 1
SPECIFICATION Spec
INVARIANTS
    TypeOK
    EveryMountIsOwned
    BackupKeepsItsCard
