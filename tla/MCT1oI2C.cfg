SPECIFICATION Spec
CONSTANTS
    FRAME_RETRY_COUNT = 1
    TIMEOUT_RETRY_COUNT = 1
    RNACK_LIMIT = 1
    WTX_LIMIT = 2
    PREV_TXN_WAIT = 1
    IFSC = 1
    UINT8_RANGE = 3
    ULONG_RANGE = 3
    UINT_MAX = 1
    RSP_CAP = 1
    c1 = c1
    u = u
    NoCmd = NoCmd
    Cmds = {c1}
    CmdLens = {1, 2}
    Units = {u}
    Infs <- MCInfs
INVARIANTS TypeOK AwaitsForLast FrameMatchesContext RepeatOrRenumber NoReturnedBuffer
