CONSTANTS
    RsaSizes = {64, 128, 512}
    MaxChunk = 2
    VER_GTE_07_02 = TRUE
    Calls <- CallsMade
    MaxFaults = 1
    MaxReplaced = 0
    HostBackEnd = "OPENSSL"
    PlainAuths = {"None", "SCP03", "ID", "AESKey", "ECKey"}
    TunnelAuths = {"ID", "AESKey", "ECKey"}
SPECIFICATION Spec
INVARIANT SignsEncoded
