SPECIFICATION Spec
CONSTANTS
    c1 = c1
    c2 = c2
    Contexts <- MCContexts
    Kinds = {"se_aes", "se_ctr", "se_des", "se_gcm", "se_ccm", "se_mac", "openssl_cipher", "mbedtls_enc", "mbedtls_cbc", "mbedtls_ecb", "mbedtls_des_cbc", "mbedtls_des_ecb", "openssl_gcm", "mbedtls_gcm", "host_ccm", "host_mac"}
    Restarts = {"se_gcm", "se_ccm", "se_mac", "openssl_gcm", "mbedtls_gcm", "host_ccm", "host_mac"}
    AadInChunks = {"se_gcm", "se_ccm", "openssl_gcm"}
    Block = 2
    MaxChunk = 4
    UpdateSizes = {1, 6}
    AadSizes = {3}
    MaxTotal = 7
    Announced = {3, 7}
    MaxAad = 6
    MaxMessages = 2
    MaxFaults = 1
SYMMETRY MCSymmetry
INVARIANTS TypeOK ExactMessage ExactAad NotRefused NothingLeft
CHECK_DEADLOCK FALSE
