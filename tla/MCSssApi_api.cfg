CONSTANTS
    RsaSizes = {64, 128, 512}
    MaxChunk = 2
    VER_GTE_07_02 = TRUE
    Calls <- CallsMade
    MaxFaults = 2
    MaxReplaced = 2
    HostBackEnd = "OPENSSL"
    PlainAuths = {"None", "SCP03", "ID", "AESKey", "ECKey"}
    TunnelAuths = {"ID", "AESKey", "ECKey"}
SPECIFICATION Spec
INVARIANTS LinkReleased ServedByItsSession ReturnIsRight VerifyTellsTruth
