\* Two queues, a mailbox of two frames behind a fibre of two, frames of two
\* words: three frames fill one of them and wait for the other.
SPECIFICATION Spec
CONSTANTS
    Slot = {control, data}
    FibreDepth = 2
    Propagation = 1
    Jitter = 0
    MaxSerialization = 0
    MailboxDepth = 2
    LinkUpDelay = 2
    GuardDelay = 3
    Words = 2
    MaxTicks = 5
    MaxFrames = 3
    MaxFlaps = 2
INVARIANTS
    FramesAreKept
    NothingOutlivesItsSession
    FramesAreAnnounced
    GuardClearIsOwed
