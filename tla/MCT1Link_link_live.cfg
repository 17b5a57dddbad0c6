SPECIFICATION FairLinkSpec
CONSTANTS
    FRAME_RETRY_COUNT = 2
    TIMEOUT_RETRY_COUNT = 1
    RNACK_LIMIT = 1
    WTX_LIMIT = 2
    PREV_TXN_WAIT = 1
    IFSC = 1
    UINT8_RANGE = 8
    ULONG_RANGE = 8
    UINT_MAX = 6
    RSP_CAP = 2
    Cmds = {1, 2}
    NoCmd = 0
    CmdLens = {1, 2}
    Faults = {"corrupt", "lose", "write", "late", "crash", "power", "mute"}
    MaxFaults = 2
    MaxOpens = 2
    MaxWtx = 1
    MaxRsp = 2
    RepeatsRAck = {FALSE}
    Answer <- MCAnswer
    Units <- MCUnits
    Infs <- MCInfs
PROPERTY CallsReturn
CHECK_DEADLOCK FALSE
