SPECIFICATION FairSpec
CONSTANTS
    Threads = {t1, t2}
    NoThread = NoThread
    ThreadSafe = TRUE
    MaxOpens = 2
    Answer <- MCAnswer
CHECK_DEADLOCK FALSE
CONSTANTS
    NumCmds = 2
    Channels <- ChannelTypes
    Lens <- MCLens
INVARIANTS InStep Kept OwnPlainAnswer
PROPERTY LockReleased
