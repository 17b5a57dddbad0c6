CONSTANTS
    c1 = c1
    c2 = c2
    k1 = k1
    k2 = k2
    P256 = P256
    X25519 = X25519
    Ed25519 = Ed25519
    Clients = {c1, c2}
    Keys = {k1, k2}
    Curves = {P256}
    Mont = {X25519}
    Edwards = {}
    VER_GTE_07_02 = TRUE
    Kinds <- MCKinds
    Lens = {0, 2, 3}
    BINARY_WRITE_MAX_LEN = 2
    None = None
    Zero = Zero
    MaxHandles = 2
    MaxCalls = 2
    MaxFaults = 1
    MaxCloses = 1
SYMMETRY MCSymmetry
SPECIFICATION Spec
INVARIANTS
    WholeAfterSuccess
    FailsForReason
    ReadsWhole
    HandleMatches
