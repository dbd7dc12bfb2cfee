\* One card, an ejection beside a dry run and the polls.
CONSTANTS
    a = a
    b = b
    upper = upper
    lower = lower
    NoCard = NoCard
    Gone = Gone
    Card <- OneCard
    Slot <- OneSlot
    MaxMoves = 1
    MaxEjections = 1
    MaxRestarts = 0
SPECIFICATION Spec
INVARIANTS
    SafeToRemoveIsUnmounted
