SPECIFICATION LinkSpec
CONSTANTS
    FRAME_RETRY_COUNT = 3
    TIMEOUT_RETRY_COUNT = 1
    RNACK_LIMIT = 2
    WTX_LIMIT = 3
    PREV_TXN_WAIT = 1
    IFSC = 1
    UINT8_RANGE = 8
    ULONG_RANGE = 8
    UINT_MAX = 6
    RSP_CAP = 2
    Cmds = {1, 2}
    NoCmd = 0
    CmdLens = {1, 3}
    Faults = {"corrupt", "lose", "late"}
    MaxFaults = 1
    MaxOpens = 2
    MaxWtx = 1
    MaxRsp = 2
    RepeatsRAck = {TRUE}
    Answer <- MCAnswer
    Units <- MCUnits
    Infs <- MCInfs
INVARIANT Repaired
CHECK_DEADLOCK FALSE
