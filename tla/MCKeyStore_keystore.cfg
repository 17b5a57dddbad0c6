SPECIFICATION Spec
CONSTANTS
    KS_N_ENTIRES = 2
    Ids = {k1, k2}
    Kinds = {"aes", "pair"}
    Backends = {"openssl", "mbedtls"}
    Vals = {a, b}
    MaxLen <- MCMaxLen
    Faults = {"write", "close", "crash"}
    MaxFaults = 1
    MaxCalls = 2
SYMMETRY Symmetry
INVARIANTS SavedIsDurable ErasedIsGone
PROPERTY GetsSaved
