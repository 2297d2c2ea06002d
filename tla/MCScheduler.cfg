SPECIFICATION Spec
CONSTANTS
    Event = {gate, lifetime}
    NoEvent = NoEvent
    MaxArmings = 3
    Instant <- MCInstant
INVARIANTS
    IInv
PROPERTIES
    ImplementsTable
