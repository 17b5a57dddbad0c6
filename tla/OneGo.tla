------------------------------- MODULE OneGo -------------------------------
(***************************************************************************)
(* The one-go operations of the SE05x back end (fsl_sss_se05x_apis.c):     *)
(* signing, verifying, encrypting, ciphers, MACs, digests, random data and *)
(* key derivation, with the RSA encodings made on the host                 *)
(* (fsl_sss_util_rsa_sign_utils.c).  A call is a few commands to the SE    *)
(* and what the host computes between them; another client may replace the *)
(* key between two commands.                                               *)
(***************************************************************************)
EXTENDS Naturals, FiniteSets, Sequences, Functions

CONSTANTS
    RsaSizes,     \* sizes of RSA keys, in bytes
    MaxChunk,     \* the 512 bytes of one GetRandom, scaled down
    VER_GTE_07_02,\* as built: SSS_HAVE_SE05X_VER_GTE_07_02
    Calls,        \* the calls made: records with a field fn, and its arguments
    MaxFaults, MaxReplaced

HashLen == [SHA1 |-> 20, SHA224 |-> 28, SHA256 |-> 32, SHA384 |-> 48, SHA512 |-> 64]
SE05x_RSABitLength == {64, 128, 144, 256, 384, 512}   \* in bytes

ASSUME OneGoAssumption ==
    /\ RsaSizes \subseteq SE05x_RSABitLength
    /\ MaxChunk \in Nat \ {0}
    /\ VER_GTE_07_02 \in BOOLEAN
    /\ {MaxFaults, MaxReplaced} \subseteq Nat

VARIABLES
    key,  \* the key on the SE: its version and, for RSA, its size
    op,   \* the call and its arguments
    at,   \* its next step
    loc,  \* its locals
    out   \* what it has given the caller

oneGoVars == <<key, op, at, loc, out>>

SM_OK == "SM_OK"
SM_NOT_OK == "SM_NOT_OK"
SM_ERR_APDU_THROUGHPUT == "SM_ERR_APDU_THROUGHPUT"
Nothing == [nothing |-> TRUE]

Status(sm) ==
    CASE sm = SM_OK -> "Success"
      [] sm = SM_ERR_APDU_THROUGHPUT -> "ApduThroughputError"
      [] OTHER -> "Fail"

-----------------------------------------------------------------------------
(* Algorithms are pairs of a family and a hash or mode.                    *)

PSS(alg) == alg[1] = "RSASSA_PKCS1_PSS_MGF1"
V15(alg) == alg[1] = "RSASSA_PKCS1_V1_5"
NO_HASH == <<"RSASSA_PKCS1_V1_5_NO_HASH", "none">>
NO_PADDING == <<"RSASSA_NO_PADDING", "none">>
NA == <<>>

se05x_check_input_len(n, alg) ==
    CASE alg \in {NO_HASH, NO_PADDING} -> TRUE
      [] alg[2] \in DOMAIN HashLen /\ alg[1] \in {"SHA", "ECDSA", "RSASSA_PKCS1_PSS_MGF1", "RSASSA_PKCS1_V1_5"} ->
            n = HashLen[alg[2]]
      [] OTHER -> FALSE

se05x_get_ec_sign_hash_mode(alg) == IF alg[1] \in {"SHA", "ECDSA"} THEN <<alg[2]>> ELSE <<"PLAIN">>

se05x_get_rsa_encrypt_mode(alg) ==
    CASE alg = <<"RSAES_PKCS1_OAEP", "SHA1">> -> <<"PKCS1_OAEP">>
      [] alg[1] = "RSAES_PKCS1_OAEP" /\ alg[2] # "SHA1" -> NA
      [] alg[1] = "RSAES_PKCS1_V1_5" -> <<"PKCS1">>
      [] OTHER -> <<"NO_PAD">>

se05x_get_rsa_sign_hash_mode(alg) ==
    CASE V15(alg) -> <<alg[2], "PKCS1">>
      [] PSS(alg) -> <<alg[2], "PKCS1_PSS">>
      [] OTHER -> NA

se05x_get_cipher_mode(alg) ==
    CASE alg[1] = "AES" /\ alg[2] \in {"ECB", "CBC", "CTR"} -> alg
      [] alg = <<"AES", "CTR_INT_IV">> /\ VER_GTE_07_02 -> alg
      [] alg[1] \in {"DES", "DES3"} /\ alg[2] \in {"ECB", "CBC", "CBC_ISO9797_M1", "CBC_ISO9797_M2"} ->
            <<"DES", alg[2]>>
      [] OTHER -> NA

se05x_get_mac_algo(alg) ==
    CASE alg \in {<<"CMAC", "AES">>, <<"DES", "CMAC8">>} -> alg
      [] alg[1] = "HMAC" /\ alg[2] \in DOMAIN HashLen \ {"SHA224"} -> alg
      [] OTHER -> NA

se05x_get_sha_algo(alg) ==
    CASE alg[1] = "SHA" /\ alg[2] \in DOMAIN HashLen -> <<alg[2]>>
      [] alg[1] = "HMAC" /\ alg[2] \in DOMAIN HashLen \ {"SHA224"} -> <<alg[2]>>
      [] OTHER -> NA

-----------------------------------------------------------------------------
(* Encoded messages.  A block holds the digest given, or another one.      *)

Block(alg, n, size) == [form |-> alg, of |-> "given", n |-> n, size |-> size]
Unencoded(size) == [form |-> NA, of |-> "nothing", n |-> 0, size |-> size]

OidLen(hash) == IF hash = "SHA1" THEN 5 ELSE 9

(* Room for five tag-length pairs, the hash, its OID, the header of the    *)
(* signature and eight bytes of padding.                                   *)
V15Fits(n, hash, size) == size >= n + OidLen(hash) + 10 + 3 + 8

pkcs1_v15_encode(alg, n, size) ==
    IF V15Fits(n, alg[2], size) /\ 8 + n + OidLen(alg[2]) < 128
    THEN [sm |-> SM_OK, block |-> Block(alg, n, size)]
    ELSE [sm |-> SM_NOT_OK, block |-> Unencoded(size)]

pkcs1_v15_encode_no_hash(alg, n, size) ==
    IF n <= size - 11
    THEN [sm |-> SM_OK, block |-> Block(alg, n, size)]
    ELSE [sm |-> SM_NOT_OK, block |-> Unencoded(size)]

NoPadding_AnyLength(alg, n, size) ==
    [sm |-> SM_OK, block |-> Block(alg, n, size)]

NoPadding(alg, n, size) ==
    IF n <= size /\ n > 0
    THEN [sm |-> SM_OK, block |-> Block(alg, n, size)]
    ELSE [sm |-> SM_NOT_OK, block |-> Unencoded(size)]

(* Keys too small for a hash and failures of the host's random numbers and *)
(* digests leave the status of the ReadSize before them, and in the first  *)
(* case the length of the caller's buffer.                                 *)
emsa_encode(alg, n, size, hostWorks) ==
    IF \/ alg[2] \in {"SHA256", "SHA384"} /\ size <= 64
       \/ alg[2] = "SHA512" /\ size <= 128
    THEN [sm |-> SM_OK, block |-> Unencoded(512)]
    ELSE [sm |-> SM_OK, block |-> IF hostWorks THEN Block(alg, n, size) ELSE Unencoded(size)]

Encode(alg, n, size, hostWorks) ==
    CASE PSS(alg) -> emsa_encode(alg, n, size, hostWorks)
      [] V15(alg) -> pkcs1_v15_encode(alg, n, size)
      [] alg = NO_HASH -> pkcs1_v15_encode_no_hash(alg, n, size)
      [] OTHER -> NoPadding(alg, n, size)

emsa_decode_and_compare_AnyDigest(alg, block) == block.form = alg

(* The host recomputes the hash with whatever salt the block holds.        *)
emsa_decode_and_compare(alg, block) == block.form = alg /\ block.of = "given"

-----------------------------------------------------------------------------
(* Commands.  The SE accepts or refuses; the answer may also be lost after *)
(* the command was executed, or be the throughput answer to one that was   *)
(* not.                                                                    *)

Natural(accepts) == IF accepts THEN SM_OK ELSE SM_NOT_OK

Replies(accepts) ==
    {Natural(accepts)} \cup (IF loc.faults < MaxFaults THEN {SM_NOT_OK, SM_ERR_APDU_THROUGHPUT} ELSE {})

(* What the fields loc.faults, threw and calm are after the answer sm.     *)
After(sm, accepts) ==
    [loc EXCEPT !.faults = IF sm = Natural(accepts) THEN @ ELSE @ + 1,
                !.threw  = @ \/ sm = SM_ERR_APDU_THROUGHPUT,
                !.calm   = @ /\ sm = Natural(accepts)]

Locals == [faults |-> 0, replaced |-> 0, threw |-> FALSE, calm |-> TRUE, gaveUp |-> FALSE,
           ver |-> 0, block |-> Nothing, ret |-> "none"]

Idle == [fn |-> "none"]

OneGoInit ==
    /\ key = Nothing /\ op = Idle /\ at = "idle" /\ loc = Locals /\ out = Nothing

Return(l, status) == at' = "done" /\ loc' = [l EXCEPT !.ret = status]

(* Another client deletes the key and creates another one under its name.  *)
Replace ==
    /\ at \notin {"idle", "done"}
    /\ loc.replaced < MaxReplaced
    /\ \E size \in RsaSizes : key' = [ver |-> key.ver + 1, size |-> size]
    /\ loc' = [loc EXCEPT !.replaced = @ + 1, !.calm = FALSE]
    /\ UNCHANGED <<op, at, out>>

IsRSA(o) == o.cipher = "RSA"

-----------------------------------------------------------------------------
(* The first step of each call, "refused" when the host refuses it.        *)

SignDigestStep(o) ==
    IF ~se05x_check_input_len(o.n, o.alg) \/ o.cipher \notin {"EC", "RSA"} THEN "refused"
    ELSE IF o.cipher = "EC" THEN "command"
    ELSE IF o.fn = "verify_digest" THEN "rsa_encrypt"
    ELSE IF PSS(o.alg) THEN "host_open" ELSE "read_size"

SignStep(o) ==
    CASE IsRSA(o) -> IF o.alg[2] = "SHA512" THEN "read_size" ELSE "command"
      [] o.cipher = "ED" /\ o.alg = <<"SHA", "SHA512">> -> "command"
      [] OTHER -> "refused"

EncryptStep(o) == "command"

CipherStep(o) ==
    IF \/ se05x_get_cipher_mode(o.alg) = NA
       \/ o.alg = <<"AES", "CTR_INT_IV">> /\ o.mode = "Decrypt"
       \/ o.alg[1] = "AES" /\ o.alg[2] \in {"CTR", "CTR_INT_IV"} /\ ~o.whole
    THEN "refused" ELSE "command"

MacStep(o) ==
    IF \/ se05x_get_mac_algo(o.alg) = NA
       \/ o.fn = "mac_one_go" /\ o.mode \notin {"Mac", "Mac_Validate"}
    THEN "refused" ELSE "command"
DigestStep(o) == IF se05x_get_sha_algo(o.alg) = NA THEN "refused" ELSE "command"

PortKeyStep(o) == IF o.cipher \in {"EC", "ED", "MONT", "AES", "DES"} THEN "command" ELSE "refused"

RandomStep(o) == IF o.n = 0 THEN "filled" ELSE "random"

HkdfStep(o) ==
    IF o.salt = "foreign object" THEN "invalid"
    ELSE IF \/ se05x_get_sha_algo(o.alg) = NA
            \/ o.fn = "derive_key_go" /\ o.derived = "none"
         THEN "refused" ELSE "hkdf"

DhStep(o) == IF o.derived = "none" THEN "refused" ELSE "get_peer"

FirstStep(o) ==
    CASE o.fn \in {"sign_digest", "verify_digest"} -> SignDigestStep(o)
      [] o.fn \in {"sign", "verify"} -> SignStep(o)
      [] o.fn \in {"encrypt", "decrypt"} -> EncryptStep(o)
      [] o.fn \in {"cipher_one_go", "cipher_one_go_v2"} -> CipherStep(o)
      [] o.fn \in {"mac_one_go", "mac_validate_one_go"} -> MacStep(o)
      [] o.fn = "digest_one_go" -> DigestStep(o)
      [] o.fn \in {"export_key", "import_key"} -> PortKeyStep(o)
      [] o.fn = "get_random" -> RandomStep(o)
      [] o.fn \in {"derive_key_go", "derive_key_one_go", "derive_key_sobj_one_go"} -> HkdfStep(o)
      [] o.fn = "derive_key_dh" -> DhStep(o)

(* A call starts: the name of its key object stands for a key on the SE.   *)
Start(o) ==
    /\ at = "idle"
    /\ op' = o
    /\ \E size \in RsaSizes :
          /\ key' = [ver |-> 0, size |-> size]
          /\ o.cipher # "RSA" => size = CHOOSE s \in RsaSizes : TRUE
    /\ out' = IF o.fn = "get_random" THEN {} ELSE Nothing
    /\ CASE FirstStep(o) = "refused" -> Return(Locals, "Fail")
         [] FirstStep(o) = "invalid" -> Return(Locals, "InvalidArgument")
         [] FirstStep(o) = "filled"  -> Return(Locals, "Success")
         [] OTHER                    -> at' = FirstStep(o) /\ loc' = Locals

-----------------------------------------------------------------------------
(* RSA signatures encoded on the host.                                     *)

(* The host's session for random numbers and digests of emsa_encode.       *)
HostOpen ==
    /\ at = "host_open"
    /\ \/ at' = "read_size" /\ UNCHANGED loc
       \/ /\ loc.faults < MaxFaults
          /\ Return([loc EXCEPT !.faults = @ + 1, !.calm = FALSE], "Fail")
    /\ UNCHANGED <<key, op, out>>

Compared(block) == block = loc.block

(* The size of the key is read and the message encoded for it.  Without a  *)
(* hash it is read twice, and only the second answer's status is passed on.*)
ReadSizeForEncoding(sm, l) ==
    IF op.alg = NO_HASH /\ at = "read_size"
    THEN IF sm = SM_OK THEN at' = "read_size_again" /\ loc' = l ELSE Return(l, "Fail")
    ELSE IF sm # SM_OK THEN Return(l, Status(sm))
    ELSE    \E hostWorks \in IF PSS(op.alg) /\ l.faults < MaxFaults THEN BOOLEAN ELSE {TRUE} :
                LET e == Encode(op.alg, op.n, key.size, hostWorks)
                    k == [l EXCEPT !.faults = IF hostWorks THEN @ ELSE @ + 1,
                                   !.calm = @ /\ hostWorks]
                IN  IF e.sm # SM_OK THEN Return(k, "Fail")
                    ELSE IF op.fn = "verify_digest" THEN Return(k, IF Compared(e.block) THEN "Success" ELSE "Fail")
                    ELSE /\ at' = "rsa_decrypt"
                         /\ loc' = [k EXCEPT !.block = e.block, !.gaveUp = e.block = Unencoded(e.block.size)]

(* Sign and verify refuse SHA-512 with a key of 64 bytes.                  *)
ReadSizeForHash(sm, l) ==
    IF sm # SM_OK THEN Return(l, Status(sm))
    ELSE IF key.size = 64 THEN Return(l, "Fail")
    ELSE at' = "command" /\ loc' = l

ReadSize ==
    /\ at \in {"read_size", "read_size_again"}
    /\ \E sm \in Replies(TRUE) :
          IF op.fn \in {"sign", "verify"}
          THEN ReadSizeForHash(sm, After(sm, TRUE))
          ELSE ReadSizeForEncoding(sm, After(sm, TRUE))
    /\ UNCHANGED <<key, op, out>>

(* The SE's raw RSA takes blocks of the key's size.                        *)
RSADecrypt ==
    /\ at = "rsa_decrypt"
    /\ LET accepts == loc.block.size = key.size
       IN  \E sm \in Replies(accepts) :
              /\ Return(After(sm, accepts), Status(sm))
              /\ out' = IF sm = SM_OK THEN [ver |-> key.ver, block |-> loc.block] ELSE Nothing
    /\ UNCHANGED <<key, op>>

Opened(sig) == IF sig.ver = key.ver THEN sig.block ELSE Unencoded(sig.block.size)

(* Verifying opens the signature first; PSS is then compared by the host,  *)
(* the others are encoded again for the key's size.                        *)
RSAEncrypt ==
    /\ at = "rsa_encrypt"
    /\ LET accepts == op.sig.block.size = key.size
           block == Opened(op.sig)
       IN  \E sm \in Replies(accepts) :
              LET l == [After(sm, accepts) EXCEPT !.ver = key.ver, !.block = block]
              IN  IF sm # SM_OK THEN Return(l, Status(sm))
                  ELSE IF PSS(op.alg)
                  THEN  \/ Return(l, IF emsa_decode_and_compare(op.alg, block) THEN "Success" ELSE "Fail")
                        \/ /\ l.faults < MaxFaults
                           /\ Return([l EXCEPT !.faults = @ + 1, !.calm = FALSE], "Fail")
                  ELSE at' = "read_size" /\ loc' = l
    /\ UNCHANGED <<key, op, out>>

-----------------------------------------------------------------------------
(* Calls of one command.                                                   *)

Asked(o) ==
    CASE o.fn \in {"sign_digest", "verify_digest"} -> se05x_get_ec_sign_hash_mode(o.alg)
      [] o.fn \in {"sign", "verify"} ->
            IF IsRSA(o) THEN se05x_get_rsa_sign_hash_mode(o.alg) ELSE <<"ED25519PURE_SHA_512">>
      [] o.fn \in {"encrypt", "decrypt"} -> se05x_get_rsa_encrypt_mode(o.alg)
      [] o.fn \in {"cipher_one_go", "cipher_one_go_v2"} -> Append(se05x_get_cipher_mode(o.alg), o.mode)
      [] o.fn \in {"mac_one_go", "mac_validate_one_go"} -> se05x_get_mac_algo(o.alg)
      [] o.fn = "digest_one_go" -> se05x_get_sha_algo(o.alg)
      [] OTHER -> <<o.fn>>

Verifying(o) ==
    \/ o.fn \in {"verify_digest", "verify", "mac_validate_one_go"}
    \/ o.fn = "mac_one_go" /\ o.mode = "Mac_Validate"

(* Both halves of an EdDSA signature are reversed between the SE's order   *)
(* and the caller's.                                                       *)
Swapped(order) == IF order = "se" THEN "standard" ELSE "se"

(* What the SE says of the signature or MAC it is given.                   *)
Holds(o) ==
    /\ o.sig.ver = key.ver /\ o.sig.of = "given"
    /\ o.cipher = "ED" => Swapped(o.sig.order) = "se"

Computed(o) ==
    [by |-> Asked(o), ver |-> key.ver, order |-> IF o.cipher = "ED" THEN Swapped("se") ELSE "standard"]

Verdict(o, sm) == IF sm = SM_OK /\ Verifying(o) /\ ~Holds(o) THEN "Fail" ELSE Status(sm)

Command ==
    /\ at = "command"
    /\ LET accepts == Asked(op) # NA
       IN  \E sm \in Replies(accepts) :
              /\ Return([After(sm, accepts) EXCEPT !.ver = key.ver], Verdict(op, sm))
              /\ out' = CASE sm # SM_OK \/ Verifying(op) -> Nothing
                          [] OTHER -> Computed(op)
    /\ UNCHANGED <<key, op>>

(* Each GetRandom asks for what is missing, a chunk at most, and goes on   *)
(* after what the SE has given.                                            *)
Missing == op.n - Cardinality(out)
Chunk == IF Missing > MaxChunk THEN MaxChunk ELSE Missing

Filled(given) == (Cardinality(out) + 1) .. (Cardinality(out) + given)

GetRandom ==
    /\ at = "random"
    /\ \E sm \in Replies(TRUE), given \in 1 .. Chunk :
          LET l == After(sm, TRUE)
          IN  IF sm # SM_OK
              THEN Return(l, Status(sm)) /\ UNCHANGED out
              ELSE /\ out' = out \cup Filled(given)
                   /\ IF given = Missing THEN Return(l, "Success") ELSE UNCHANGED at /\ loc' = l
    /\ UNCHANGED <<key, op>>

-----------------------------------------------------------------------------
(* Key derivation.  Objects of another key store of the same session are   *)
(* "sibling"; those of a host key store "host".                            *)

OnSe(store) == store \in {"own", "sibling"}

(* The SE keeps what it derives: decided by the back end for one_go and    *)
(* dh, by the key store for sobj_one_go.                                   *)
InObject(o) ==
    /\ VER_GTE_07_02 /\ o.derived # "none"
    /\ CASE o.fn = "derive_key_go" -> FALSE
         [] o.fn = "derive_key_sobj_one_go" -> o.derived = "own"
         [] OTHER -> OnSe(o.derived)

HkdfMode(o) == IF o.fn # "derive_key_go" /\ o.mode = "ExpandOnly" THEN "ExpandOnly" ELSE "ExtractExpand"

(* Se05x_API_HKDF_Extended leaves the salt out where nothing is extracted. *)
Salted(o) == IF HkdfMode(o) = "ExpandOnly" THEN <<"ExpandOnly">> ELSE <<"ExtractExpand", o.salt>>

(* The SE's numbers are big-endian, a Montgomery key's are little-endian:  *)
(* the SE inverts a secret it keeps, the host one that comes back.         *)
Turned(order) == IF order = "big" THEN "little" ELSE "big"

SecretOrder(o) ==
    IF o.fn = "derive_key_dh" /\ o.cipher = "MONT" THEN Turned("big") ELSE "big"

PointOrder(o) == IF o.cipher = "MONT" THEN Turned("little") ELSE "big"

Secret(o) ==
    [by |-> IF o.fn = "derive_key_dh" THEN <<"ECDH">>
            ELSE se05x_get_sha_algo(o.alg) \o Salted(o),
     ver |-> key.ver, order |-> SecretOrder(o)]

(* The secret comes back or is written to the derived object by the SE.    *)
DeriveOnSe(o, accepts) ==
    \E sm \in Replies(accepts) :
        LET l == [After(sm, accepts) EXCEPT !.ver = key.ver, !.block = Secret(o)]
        IN  /\ IF sm # SM_OK THEN Return(l, Status(sm))
               ELSE IF InObject(o) \/ o.derived = "none" THEN Return(l, "Success")
               ELSE at' = "set_key" /\ loc' = l
            /\ out' \in IF InObject(o) /\ accepts
                        THEN CASE sm = SM_OK -> {Secret(o)}
                               [] sm = SM_NOT_OK -> {Secret(o), Nothing}
                               [] OTHER -> {Nothing}
                        ELSE {Nothing}

HKDF == at = "hkdf" /\ DeriveOnSe(op, TRUE) /\ UNCHANGED <<key, op>>

(* The peer's public key is read from its key store, its point found, and  *)
(* turned to the SE's byte order for a Montgomery curve. A public key that *)
(* is shorter than the header of its curve is not among those given.       *)
GetPeerKey ==
    /\ at = "get_peer"
    /\ \E sm \in Replies(TRUE) :
          IF sm = SM_OK THEN at' = "ecdh" /\ loc' = After(sm, TRUE)
                        ELSE Return(After(sm, TRUE), Status(sm))
    /\ UNCHANGED <<key, op, out>>

ECDH == at = "ecdh" /\ DeriveOnSe(op, PointOrder(op) = "big") /\ UNCHANGED <<key, op>>

(* The host stores what came back, in whichever key store.                 *)
SetKey ==
    /\ at = "set_key"
    /\ \E sm \in Replies(TRUE) :
          /\ Return(After(sm, TRUE), Status(sm))
          /\ out' \in CASE sm = SM_OK -> {loc.block}
                        [] sm = SM_NOT_OK -> {loc.block, Nothing}
                        [] OTHER -> {Nothing}
    /\ UNCHANGED <<key, op>>

-----------------------------------------------------------------------------

OneGoStep ==
    \/ Replace \/ HostOpen \/ ReadSize \/ RSADecrypt \/ RSAEncrypt
    \/ Command \/ GetRandom \/ HKDF \/ GetPeerKey \/ ECDH \/ SetKey

(* The caller has seen the answer.                                         *)
Forget ==
    /\ at = "done"
    /\ key' = Nothing /\ op' = Idle /\ at' = "idle" /\ loc' = Locals /\ out' = Nothing

-----------------------------------------------------------------------------
(* What callers give: an algorithm of those the operation is for, and a    *)
(* signature or MAC that somebody made.  A block of the digest given has   *)
(* as many bytes of it as the caller.                                      *)

Hashed(families) == families \X DOMAIN HashLen
RsaHashed == Hashed({"RSASSA_PKCS1_PSS_MGF1", "RSASSA_PKCS1_V1_5"})
RsaSigning == RsaHashed \cup {NO_HASH, NO_PADDING}
Operations ==
    {"sign_digest", "verify_digest", "sign", "verify", "encrypt", "decrypt", "cipher_one_go",
     "cipher_one_go_v2", "mac_one_go", "mac_validate_one_go", "digest_one_go", "export_key", "import_key",
     "get_random", "derive_key_go", "derive_key_one_go", "derive_key_sobj_one_go", "derive_key_dh"}

AlgorithmFits(o) ==
    /\ o.fn \in {"sign_digest", "verify_digest"} =>
          o.alg \in IF IsRSA(o) THEN RsaSigning ELSE Hashed({"SHA", "ECDSA"})
    /\ o.fn = "verify" /\ IsRSA(o) => o.alg \in RsaHashed
    /\ o.fn \in {"encrypt", "decrypt"} =>
          o.alg \in Hashed({"RSAES_PKCS1_OAEP", "RSAES_PKCS1_V1_5"}) \cup {NO_PADDING}
    /\ o.fn \in {"mac_one_go", "mac_validate_one_go"} =>
          o.alg \in {<<"CMAC", "AES">>, <<"DES", "CMAC8">>} \cup Hashed({"HMAC"})

SignatureFits(o) ==
    IF o.fn = "verify_digest" /\ IsRSA(o)
    THEN /\ o.sig.block \in [form : RsaSigning, of : {"given", "other"}, n : Nat, size : Nat]
         /\ o.sig.block.of = "given" /\ o.sig.block.form = o.alg => o.sig.block.n = o.n
    ELSE /\ o.sig.of \in {"given", "other"} /\ o.sig.order \in {"standard", "se"}
         /\ o.cipher # "ED" => o.sig.order = "standard"

ASSUME CallsAssumption ==
    \A o \in Calls :
        /\ o.fn \in Operations
        /\ o.fn \in {"sign_digest", "verify_digest", "get_random"} => o.n \in Nat
        /\ AlgorithmFits(o)
        /\ Verifying(o) => SignatureFits(o)

-----------------------------------------------------------------------------
(* What callers may expect.                                                *)

(* RFC 8017: when a digest of n bytes can be signed with a key of size.    *)
Proper(alg, n, size) ==
    CASE PSS(alg) -> n = HashLen[alg[2]] /\ size >= 2 * n + 2
      [] V15(alg) -> n = HashLen[alg[2]] /\ size >= (n + OidLen(alg[2]) + 10) + 11
      [] alg = NO_HASH -> size >= n + 11
      [] OTHER -> n \in 1 .. size

(* The algorithm of the SE that the caller's stands for.                   *)
Meant(o) ==
    CASE o.fn \in {"encrypt", "decrypt"} ->
            (CASE o.alg[1] = "RSAES_PKCS1_V1_5" -> <<"PKCS1">>
               [] o.alg = <<"RSAES_PKCS1_OAEP", "SHA1">> -> <<"PKCS1_OAEP">>
               [] o.alg = NO_PADDING -> <<"NO_PAD">>
               [] OTHER -> <<"none">>)
      [] OTHER -> Asked(o)

RightSignature ==
    op.fn = "sign_digest" /\ IsRSA(op) =>
        /\ out.block = Block(op.alg, op.n, out.block.size)
        /\ Proper(op.alg, op.n, out.block.size)

RightResult ==
    /\ op.fn \in {"encrypt", "decrypt", "sign"} => out.by = Meant(op) /\ out.order = "standard"
    /\ op.fn \in {"cipher_one_go", "cipher_one_go_v2"} /\ op.alg[2] \in {"CTR", "CTR_INT_IV"} => op.whole

RightSecret ==
    /\ op.fn \in {"derive_key_go", "derive_key_one_go", "derive_key_sobj_one_go", "derive_key_dh"}
    /\ op.derived # "none"
    => /\ out.ver = loc.ver
       /\ op.fn = "derive_key_dh" => out.order = IF op.cipher = "MONT" THEN "little" ELSE "big"
       /\ op.fn # "derive_key_dh" =>
             op.alg[2] \in Range(out.by) /\ (HkdfMode(op) = "ExtractExpand" => op.salt \in Range(out.by))

RightRandom == op.fn = "get_random" => out = 1 .. op.n

(* A call that returns success has done what it was asked: the signature   *)
(* is over the properly encoded digest and made for the size the key has   *)
(* when it signs, the secret is where it was wanted and in its byte order, *)
(* every byte of random data was written.  The one exception is a PSS      *)
(* encoding that was given up.  A throughput answer is returned as such,   *)
(* but for the first of the two sizes pkcs1_v15_encode_no_hash reads.      *)
ReturnIsRight ==
    at = "done" =>
        /\ loc.ret = "Success" /\ ~loc.gaveUp =>
              RightSignature /\ RightResult /\ RightSecret /\ RightRandom
        /\ loc.threw =>
              \/ loc.ret = "ApduThroughputError"
              \/ op.fn \in {"sign_digest", "verify_digest"} /\ op.alg = NO_HASH

Supported(o) ==
    CASE o.fn = "verify_digest" ->
            IF IsRSA(o) THEN o.sig.block.size = key.size /\ Proper(o.alg, o.n, key.size)
                        ELSE o.cipher = "EC" /\ o.n = HashLen[o.alg[2]]
      [] o.fn = "verify" ->
            IF IsRSA(o) THEN Proper(o.alg, HashLen[o.alg[2]], key.size)
                        ELSE o.cipher = "ED" /\ o.alg = <<"SHA", "SHA512">>
      [] OTHER -> o.alg # <<"HMAC", "SHA224">>

Good(o) ==
    /\ o.sig.ver = loc.ver
    /\ IF o.fn = "verify_digest" /\ IsRSA(o)
       THEN o.sig.block = Block(o.alg, o.n, o.sig.block.size)
       ELSE o.sig.of = "given" /\ o.sig.order = "standard"

(* A signature or MAC is called good only if the key made it, as the SE    *)
(* held that key when it opened the signature, over the digest given and   *)
(* in the form asked for; and a good one is refused only when a command or *)
(* the host failed or the key was replaced meanwhile.                      *)
VerifyTellsTruth ==
    at = "done" /\ Verifying(op) =>
        /\ loc.ret = "Success" => Good(op)
        /\ Good(op) /\ Supported(op) /\ loc.calm => loc.ret = "Success"

(* "Return:  SM_OK (0x9000): Success, SM_NOT_OK (0xFFFF): Error" says the  *)
(* comment above emsa_encode: an encoding that fails is an error, so what  *)
(* is signed is always encoded.                                            *)
SignsEncoded ==
    at = "done" /\ loc.ret = "Success" /\ op.fn = "sign_digest" /\ IsRSA(op) =>
        out.block.form = op.alg

=============================================================================
