---------------------------- MODULE CommandTable ----------------------------
(* The commands of the SE's applets, one definition for each API function of  *)
(* se05x_APDU_impl.h, se05x_04_xx_APDU_impl.h, se05x_pake_APDU_impl.h and     *)
(* se05x_T4T_APDU_impl.h: its header, the arguments it writes, in the order   *)
(* it writes them, and the fields it reads from the answer. A parameter of a  *)
(* definition is a parameter of the function that decides about the header or *)
(* about which fields there are.                                              *)
EXTENDS Tlv

INS ==
  [NA |-> 0, TRANSIENT |-> 128, AUTH_OBJECT |-> 64, ATTEST |-> 32, WRITE |-> 1, READ |-> 2,
   CRYPTO |-> 3, MGMT |-> 4, PROCESS |-> 5]

P1 ==
  [NA |-> 0, KEY_PAIR |-> 96, PRIVATE |-> 64, PUBLIC |-> 32, DEFAULT |-> 0, EC |-> 1, RSA
   |-> 2, AES |-> 3, DES |-> 4, HMAC |-> 5, BINARY |-> 6, UserID |-> 7, COUNTER |-> 8, PCR
   |-> 9, CURVE |-> 11, SIGNATURE |-> 12, MAC |-> 13, CIPHER |-> 14, TLS |-> 15, CRYPTO_OBJ
   |-> 16, AEAD |-> 17, AEAD_SP800_38D |-> 18, PAKE |-> 18]

P2 ==
  [DEFAULT |-> 0, GENERATE |-> 3, CREATE |-> 4, SIZE |-> 7, SIGN |-> 9, VERIFY |-> 10, INIT
   |-> 11, UPDATE |-> 12, FINAL |-> 13, ONESHOT |-> 14, DH |-> 15, DIVERSIFY |-> 16,
   AUTH_FIRST_PART2 |-> 18, AUTH_NONFIRST_PART2 |-> 19, DUMP_KEY |-> 20, CHANGE_KEY_PART1
   |-> 21, CHANGE_KEY_PART2 |-> 22, KILL_AUTH |-> 23, IMPORT |-> 24, EXPORT |-> 25,
   SESSION_CREATE |-> 27, SESSION_CLOSE |-> 28, SESSION_REFRESH |-> 30, SESSION_POLICY |->
   31, VERSION |-> 32, VERSION_EXT |-> 33, MEMORY |-> 34, LIST |-> 37, TYPE |-> 38, EXIST
   |-> 39, DELETE_OBJECT |-> 40, DELETE_ALL |-> 42, SESSION_UserID |-> 44, HKDF |-> 45,
   PBKDF |-> 46, HKDF_EXPAND_ONLY |-> 47, I2CM |-> 48, I2CM_ATTESTED |-> 49, MAC |-> 50,
   UNLOCK_CHALLENGE |-> 51, CURVE_LIST |-> 52, ID |-> 54, ENCRYPT_ONESHOT |-> 55,
   DECRYPT_ONESHOT |-> 56, ATTEST |-> 58, ATTRIBUTES |-> 59, CPLC |-> 60, TIME |-> 61,
   TRANSPORT |-> 62, VARIANT |-> 63, PARAM |-> 64, DELETE_CURVE |-> 65, ENCRYPT |-> 66,
   DECRYPT |-> 67, VALIDATE |-> 68, GENERATE_ONESHOT |-> 69, VALIDATE_ONESHOT |-> 70,
   CRYPTO_LIST |-> 71, RANDOM |-> 73, TLS_PMS |-> 74, TLS_PRF_CLI_HELLO |-> 75,
   TLS_PRF_SRV_HELLO |-> 76, TLS_PRF_CLI_RND |-> 77, TLS_PRF_SRV_RND |-> 78, TLS_PRF_BOTH
   |-> 90, RAW |-> 79, IMPORT_EXT |-> 81, SCP |-> 82, AUTH_FIRST_PART1 |-> 83,
   AUTH_NONFIRST_PART1 |-> 84, CM_COMMAND |-> 85, MODE_OF_OPERATION |-> 86, RESTRICT |->
   87, SANITY |-> 88, DH_REVERSE |-> 89, READ_STATE |-> 91, ECPM |-> 98]

TAG_POLICY == 17
TAG_MAX_ATTEMPTS == 18
TAG_IMPORT_AUTH_DATA == 19
TAG_IMPORT_AUTH_KEY_ID == 20
TAG_POLICY_CHECK == 21
TAG_1 == 65
TAG_2 == 66
TAG_3 == 67
TAG_4 == 68
TAG_5 == 69
TAG_6 == 70
TAG_7 == 71
TAG_8 == 72
TAG_9 == 73
TAG_10 == 74
TAG_11 == 75
TAG_TIMESTAMP == 79
TAG_SIGNATURE == 82

INS_READ_With_Attestation == INS.READ + INS.ATTEST

INS_I2CM_Attestation == INS.CRYPTO + INS.ATTEST

----------------------------------------------------------------------------
(* gets = StatusOnly: the function looks at the status word alone. Otherwise  *)
(* everything the SE answers must have been read.                             *)
StatusOnly == <<Get(0, 0)>>

Command(name, ins, p1, p2, args, gets) ==
  [name |-> name, cla |-> 128, ins |-> ins, p1 |-> p1, p2 |-> p2, args |-> args, gets |-> gets,
   hasle |-> FALSE, applet |-> "SE05x", refused |-> FALSE, session |-> FALSE, oneOf |-> {},
   maxData |-> 65535]

Extended(c) == [c EXCEPT !.hasle = TRUE]

ToT4T(c) == [c EXCEPT !.cla = 0, !.applet = "T4T"]

WithSession(c) == [c EXCEPT !.session = TRUE]

RefusedUnless(condition, c) == [c EXCEPT !.refused = ~condition]

ShortData(c) == [c EXCEPT !.maxData = 255]

(* A private key cannot be generated without its public one. *)
NeedsKey(key_part, keys, c) ==
  [c EXCEPT !.oneOf = IF key_part = P1.PRIVATE THEN keys ELSE {}]

----------------------------------------------------------------------------
(* se05x_APDU_impl.h *)

CreateSession ==
  Command("CreateSession", INS.MGMT, P1.DEFAULT, P2.SESSION_CREATE,
  <<U32(TAG_1)>>, <<GetU8buf(TAG_1)>>)

ExchangeSessionData ==
  Command("ExchangeSessionData", INS.MGMT, P1.DEFAULT, P2.SESSION_POLICY,
  <<Se05xPolicy(TAG_1)>>, StatusOnly)

RefreshSession ==
  Command("RefreshSession", INS.MGMT, P1.DEFAULT, P2.SESSION_REFRESH,
  <<Se05xPolicy(TAG_POLICY)>>, StatusOnly)

CloseSession ==
  WithSession(Command("CloseSession", INS.MGMT, P1.DEFAULT, P2.SESSION_CLOSE, <<>>, StatusOnly))

VerifySessionUserID ==
  Command("VerifySessionUserID", INS.MGMT, P1.DEFAULT, P2.SESSION_UserID,
  <<U8bufOptional(TAG_1)>>, StatusOnly)

SetLockState ==
  Command("SetLockState", INS.MGMT, P1.DEFAULT, P2.TRANSPORT,
  <<U8(TAG_1), U8(TAG_2)>>, StatusOnly)

SetPlatformSCPRequest ==
  Command("SetPlatformSCPRequest", INS.MGMT, P1.DEFAULT, P2.SCP,
  <<U8(TAG_1)>>, StatusOnly)

SetAppletFeatures(extended) ==
  Command("SetAppletFeatures", INS.MGMT, P1.DEFAULT, P2.VARIANT,
  <<Features(TAG_1, extended)>>, StatusOnly)

WriteECKey(ins_type, key_part) ==
  NeedsKey(key_part, {5, 6},
  Command("WriteECKey", INS.WRITE + ins_type, P1.EC + key_part, P2.DEFAULT,
    <<Se05xPolicy(TAG_POLICY), MaxAttemps(TAG_MAX_ATTEMPTS), U32(TAG_1), ECCurve(TAG_2),
      U8bufOptional(TAG_3), U8bufOptional(TAG_4)>>, StatusOnly))

WriteRSAKey(ins_type, key_part, rsa_format) ==
  NeedsKey(key_part, 4 .. 11,
  Command("WriteRSAKey", INS.WRITE + ins_type, P1.RSA + key_part, rsa_format,
    <<Se05xPolicy(TAG_POLICY), U32(TAG_1), U16Optional(TAG_2), ByteShift(TAG_3),
      ByteShift(TAG_4), ByteShift(TAG_5), ByteShift(TAG_6), ByteShift(TAG_7),
      U8bufOptional(TAG_8), ByteShift(TAG_9), ByteShift(TAG_10)>>, StatusOnly))

WriteSymmKey(ins_type, type) ==
  Command("WriteSymmKey", INS.WRITE + ins_type, type, P2.DEFAULT,
  <<Se05xPolicy(TAG_POLICY), MaxAttemps(TAG_MAX_ATTEMPTS), U32(TAG_1), KeyID(TAG_2),
    U8bufOptional(TAG_3)>>, StatusOnly)

WriteBinary ==
  Command("WriteBinary", INS.WRITE, P1.BINARY, P2.DEFAULT,
  <<Se05xPolicy(TAG_POLICY), U32(TAG_1), U16Optional(TAG_2), U16Optional(TAG_3),
    U8bufOptional(TAG_4)>>,
  StatusOnly)

WriteUserID(attestation_type) ==
  Command("WriteUserID", INS.WRITE + attestation_type, P1.UserID, P2.DEFAULT,
  <<Se05xPolicy(TAG_POLICY), MaxAttemps(TAG_MAX_ATTEMPTS), U32(TAG_1), U8bufOptional(TAG_2)>>,
  StatusOnly)

CreateCounter ==
  Command("CreateCounter", INS.WRITE, P1.COUNTER, P2.DEFAULT,
  <<Se05xPolicy(TAG_POLICY), U32(TAG_1), U16Optional(TAG_2)>>, StatusOnly)

SetCounterValue(size) ==
  RefusedUnless(size \in 1 .. 8, Command("SetCounterValue", INS.WRITE, P1.COUNTER, P2.DEFAULT,
  <<U32(TAG_1), Optional(U64Size(TAG_3, size))>>, StatusOnly))

IncCounter ==
  Command("IncCounter", INS.WRITE, P1.COUNTER, P2.DEFAULT,
  <<U32(TAG_1)>>, StatusOnly)

WritePCR_WithType(ins_type) ==
  Command("WritePCR_WithType", INS.WRITE + ins_type, P1.PCR, P2.DEFAULT,
  <<Se05xPolicy(TAG_POLICY), U32(TAG_1), U8bufOptional(TAG_2), U8bufOptional(TAG_3)>>, StatusOnly)

WritePCR == WritePCR_WithType(INS.NA)

ImportObject ==
  Command("ImportObject", INS.WRITE, P1.DEFAULT, P2.IMPORT,
  <<U32(TAG_1), Optional(U8(TAG_2)), U8bufOptional(TAG_3)>>, StatusOnly)

ImportExternalObject ==
  Command("ImportExternalObject", 6, P1.DEFAULT, P2.DEFAULT,
  <<U8buf(TAG_IMPORT_AUTH_DATA), U8buf(TAG_IMPORT_AUTH_KEY_ID), U8bufOptional(TAG_1)>>, StatusOnly)

ReadObject ==
  Extended(Command("ReadObject", INS.READ, P1.DEFAULT, P2.DEFAULT,
  <<U32(TAG_1), U16Optional(TAG_2), U16Optional(TAG_3)>>, <<GetU8buf(TAG_1)>>))

AttestedV2(first) ==
  <<first, GetU8buf(TAG_2), GetU8buf(TAG_3), GetU8buf(TAG_4), GetTimeStamp(TAG_TIMESTAMP),
  GetU8buf(TAG_SIGNATURE)>>

AttestedV1(first) ==
  <<first, GetU8buf(TAG_2), GetTimeStamp(TAG_3), GetU8buf(TAG_4), GetU8buf(TAG_5),
  GetU8buf(TAG_6)>>

AttestedObject ==
  <<U32(TAG_1), U16Optional(TAG_2), U16Optional(TAG_3), U32(TAG_5), U8(TAG_6),
  U8bufOptional(TAG_7)>>

AttestedRSA ==
  <<U32(TAG_1), U16Optional(TAG_2), U16Optional(TAG_3), U8(TAG_4), U32(TAG_5), U8(TAG_6),
  U8bufOptional(TAG_7)>>

ReadObject_W_Attst_V2 ==
  Extended(Command("ReadObject_W_Attst_V2", INS_READ_With_Attestation, P1.DEFAULT,
  P2.DEFAULT, AttestedObject, AttestedV2(GetIfThere(GetU8buf(TAG_1)))))

ReadObject_W_Attst ==
  Extended(Command("ReadObject_W_Attst", INS_READ_With_Attestation, P1.DEFAULT,
  P2.DEFAULT, AttestedObject, AttestedV1(GetIfThere(GetU8buf(TAG_1)))))

ReadRSA ==
  Extended(Command("ReadRSA", INS.READ, P1.DEFAULT, P2.DEFAULT,
  <<U32(TAG_1), U16Optional(TAG_2), U16Optional(TAG_3), U8(TAG_4)>>, <<GetU8buf(TAG_1)>>))

ReadRSA_W_Attst_V2 ==
  Extended(Command("ReadRSA_W_Attst_V2", INS_READ_With_Attestation, P1.DEFAULT,
  P2.DEFAULT, AttestedRSA, AttestedV2(GetU8buf(TAG_1))))

ReadRSA_W_Attst ==
  Extended(Command("ReadRSA_W_Attst", INS_READ_With_Attestation, P1.DEFAULT,
  P2.DEFAULT, AttestedRSA, AttestedV1(GetU8buf(TAG_1))))

ExportObject ==
  Extended(Command("ExportObject", INS.READ, P1.DEFAULT, P2.EXPORT,
  <<U32(TAG_1), U8(TAG_2)>>, <<GetU8buf(TAG_1)>>))

ReadType(attestation_type) ==
  Command("ReadType", INS.READ + attestation_type, P1.DEFAULT, P2.TYPE,
  <<U32(TAG_1)>>, <<GetU8(TAG_1), GetU8(TAG_2)>>)

ReadSize ==
  Command("ReadSize", INS.READ, P1.DEFAULT, P2.SIZE,
  <<U32(TAG_1)>>, <<GetU16(TAG_1)>>)

ReadIDList ==
  Extended(Command("ReadIDList", INS.READ, P1.DEFAULT, P2.LIST,
  <<U16(TAG_1), U8(TAG_2)>>, <<GetU8(TAG_1), GetU8buf(TAG_2)>>))

CheckObjectExists ==
  Command("CheckObjectExists", INS.MGMT, P1.DEFAULT, P2.EXIST,
  <<U32(TAG_1)>>, <<GetResult(TAG_1)>>)

DeleteSecureObject ==
  Command("DeleteSecureObject", INS.MGMT, P1.DEFAULT, P2.DELETE_OBJECT,
  <<U32(TAG_1)>>, StatusOnly)

CreateECCurve ==
  Command("CreateECCurve", INS.WRITE, P1.CURVE, P2.CREATE,
  <<ECCurve(TAG_1)>>, StatusOnly)

SetECCurveParam ==
  Command("SetECCurveParam", INS.WRITE, P1.CURVE, P2.PARAM,
  <<ECCurve(TAG_1), U8(TAG_2), U8bufOptional(TAG_3)>>, StatusOnly)

GetECCurveId ==
  Command("GetECCurveId", INS.READ, P1.CURVE, P2.ID,
  <<U32(TAG_1)>>, <<GetU8(TAG_1)>>)

ReadECCurveList ==
  Command("ReadECCurveList", INS.READ, P1.CURVE, P2.LIST,
  <<>>, <<GetU8buf(TAG_1)>>)

DeleteECCurve ==
  Command("DeleteECCurve", INS.MGMT, P1.CURVE, P2.DELETE_OBJECT,
  <<ECCurve(TAG_1)>>, StatusOnly)

CreateCryptoObject ==
  Command("CreateCryptoObject", INS.WRITE, P1.CRYPTO_OBJ, P2.DEFAULT,
  <<U16(TAG_1), U8(TAG_2), U8(TAG_3)>>, StatusOnly)

ReadCryptoObjectList ==
  Command("ReadCryptoObjectList", INS.READ, P1.CRYPTO_OBJ, P2.LIST,
  <<>>, <<GetU8buf(TAG_1)>>)

DeleteCryptoObject ==
  Command("DeleteCryptoObject", INS.MGMT, P1.CRYPTO_OBJ, P2.DELETE_OBJECT,
  <<U16(TAG_1)>>, StatusOnly)

ECDSASign ==
  Command("ECDSASign", INS.CRYPTO, P1.SIGNATURE, P2.SIGN,
  <<U32(TAG_1), U8(TAG_2), U8bufOptional(TAG_3)>>, <<GetU8buf(TAG_1)>>)

EdDSASign ==
  Command("EdDSASign", INS.CRYPTO, P1.SIGNATURE, P2.SIGN,
  <<U32(TAG_1), U8(TAG_2), U8bufOptional(TAG_3)>>, <<GetU8buf(TAG_1)>>)

ECDSAVerify ==
  Command("ECDSAVerify", INS.CRYPTO, P1.SIGNATURE, P2.VERIFY,
  <<U32(TAG_1), U8(TAG_2), U8bufOptional(TAG_3), U8bufOptional(TAG_5)>>, <<GetResult(TAG_1)>>)

EdDSAVerify ==
  Command("EdDSAVerify", INS.CRYPTO, P1.SIGNATURE, P2.VERIFY,
  <<U32(TAG_1), U8(TAG_2), U8bufOptional(TAG_3), U8bufOptional(TAG_5)>>, <<GetResult(TAG_1)>>)

ECDHGenerateSharedSecret ==
  Extended(Command("ECDHGenerateSharedSecret", INS.CRYPTO, P1.EC, P2.DH,
  <<U32(TAG_1), U8bufOptional(TAG_2)>>, <<GetU8buf(TAG_1)>>))

RSASign ==
  Extended(Command("RSASign", INS.CRYPTO, P1.SIGNATURE, P2.SIGN,
  <<U32(TAG_1), U8(TAG_2), U8bufOptional(TAG_3)>>, <<GetU8buf(TAG_1)>>))

RSAVerify ==
  Command("RSAVerify", INS.CRYPTO, P1.SIGNATURE, P2.VERIFY,
  <<U32(TAG_1), U8(TAG_2), U8bufOptional(TAG_3), U8bufOptional(TAG_5)>>, <<GetResult(TAG_1)>>)

RSAEncrypt ==
  Extended(Command("RSAEncrypt", INS.CRYPTO, P1.RSA, P2.ENCRYPT_ONESHOT,
  <<U32(TAG_1), U8(TAG_2), U8bufOptional(TAG_3)>>, <<GetU8buf(TAG_1)>>))

RSADecrypt ==
  Extended(Command("RSADecrypt", INS.CRYPTO, P1.RSA, P2.DECRYPT_ONESHOT,
  <<U32(TAG_1), U8(TAG_2), U8bufOptional(TAG_3)>>, <<GetU8buf(TAG_1)>>))

CipherInit(operation, intIv) ==
  IF intIv /\ operation = P2.ENCRYPT
  THEN Extended(Command("CipherInit", INS.CRYPTO, P1.CIPHER, operation,
         <<U32(TAG_1), U16(TAG_2), U16(TAG_4)>>, <<GetIv16(TAG_3)>>))
  ELSE Command("CipherInit", INS.CRYPTO, P1.CIPHER, operation,
         <<U32(TAG_1), U16(TAG_2), U8bufOptional(TAG_4)>>, StatusOnly)

CipherUpdate ==
  Command("CipherUpdate", INS.CRYPTO, P1.CIPHER, P2.UPDATE,
  <<U16(TAG_2), U8bufOptional(TAG_3)>>, <<GetU8buf(TAG_1)>>)

CipherFinal ==
  Extended(Command("CipherFinal", INS.CRYPTO, P1.CIPHER, P2.FINAL,
  <<U16(TAG_2), U8buf(TAG_3)>>, <<GetU8buf(TAG_1)>>))

CipherOneShot(operation, intIv) ==
  Extended(Command("CipherOneShot", INS.CRYPTO, P1.CIPHER, operation,
  <<U32(TAG_1), U8(TAG_2), U8bufOptional(TAG_3)>>
    \o (IF intIv /\ operation = P2.ENCRYPT_ONESHOT THEN <<U16(TAG_4)>> ELSE <<U8bufOptional(TAG_4)>>),
  <<GetU8buf(TAG_1)>>
    \o (IF intIv /\ operation = P2.ENCRYPT_ONESHOT THEN <<GetIv16(TAG_3)>> ELSE <<>>)))

MACInit(mac_oper) ==
  Command("MACInit", INS.CRYPTO, P1.MAC, mac_oper, <<U32(TAG_1), U16(TAG_2)>>, StatusOnly)

MACUpdate ==
  Command("MACUpdate", INS.CRYPTO, P1.MAC, P2.UPDATE,
  <<U8bufOptional(TAG_1), U16(TAG_2)>>, StatusOnly)

MACFinal ==
  Extended(Command("MACFinal", INS.CRYPTO, P1.MAC, P2.FINAL,
  <<U8buf(TAG_1), U16(TAG_2), U8bufOptional(TAG_3)>>, <<GetU8buf(TAG_1)>>))

MACOneShot_G ==
  Command("MACOneShot_G", INS.CRYPTO, P1.MAC, P2.GENERATE_ONESHOT,
  <<U32(TAG_1), U8(TAG_2), U8bufOptional(TAG_3)>>, <<GetU8buf(TAG_1)>>)

MACOneShot_V ==
  Command("MACOneShot_V", INS.CRYPTO, P1.MAC, P2.VALIDATE_ONESHOT,
  <<U32(TAG_1), U8(TAG_2), U8bufOptional(TAG_3), U8bufOptional(TAG_5)>>, <<GetU8buf(TAG_1)>>)

HKDF ==
  Command("HKDF", INS.CRYPTO, P1.DEFAULT, P2.HKDF,
  <<U32(TAG_1), U8(TAG_2), U8bufOptional(TAG_3), U8bufOptional(TAG_4), U16(TAG_5)>>,
  <<GetU8buf(TAG_1)>>)

HKDF_Extended(p2, salted, output) ==
  Extended(Command("HKDF_Extended", INS.CRYPTO, P1.DEFAULT, p2,
  <<U32(TAG_1), U8(TAG_2)>>
    \o (IF salted /\ p2 = P2.HKDF THEN <<U8bufOptional(TAG_3)>> ELSE <<>>)
    \o <<U8bufOptional(TAG_4), U16(TAG_5)>>
    \o (IF ~salted /\ p2 = P2.HKDF THEN <<U32(TAG_6)>> ELSE <<>>)
    \o (IF output THEN <<>> ELSE <<U32(TAG_7)>>),
  IF output THEN <<GetU8buf(TAG_1)>> ELSE <<>>))

PBKDF2 ==
  Command("PBKDF2", INS.CRYPTO, P1.DEFAULT, P2.PBKDF,
  <<U32(TAG_1), U8bufOptional(TAG_2), U16(TAG_3), U16(TAG_4)>>, <<GetU8buf(TAG_1)>>)

DFDiversifyKey ==
  Command("DFDiversifyKey", INS.CRYPTO, P1.DEFAULT, P2.DIVERSIFY,
  <<U32(TAG_1), U32(TAG_2), U8bufOptional(TAG_3)>>, StatusOnly)

DFAuthenticateFirstPart1 ==
  Command("DFAuthenticateFirstPart1", INS.CRYPTO, P1.DEFAULT, P2.AUTH_FIRST_PART1,
  <<U32(TAG_1), U8bufOptional(TAG_2)>>, <<GetU8buf(TAG_1)>>)

DFAuthenticateNonFirstPart1 ==
  Command("DFAuthenticateNonFirstPart1", INS.CRYPTO, P1.DEFAULT, P2.AUTH_NONFIRST_PART1,
  <<U32(TAG_1), U8bufOptional(TAG_2)>>, <<GetU8buf(TAG_1)>>)

DFAuthenticateFirstPart2 ==
  Command("DFAuthenticateFirstPart2", INS.CRYPTO, P1.DEFAULT, P2.AUTH_FIRST_PART2,
  <<U8bufOptional(TAG_1)>>, <<GetU8buf(TAG_1)>>)

DFAuthenticateNonFirstPart2 ==
  Command("DFAuthenticateNonFirstPart2", INS.CRYPTO, P1.DEFAULT, P2.AUTH_NONFIRST_PART2,
  <<U8bufOptional(TAG_1)>>, StatusOnly)

DFDumpSessionKeys ==
  Command("DFDumpSessionKeys", INS.CRYPTO, P1.DEFAULT, P2.DUMP_KEY,
  <<>>, <<GetU8buf(TAG_1)>>)

DFChangeKeyPart1 ==
  Command("DFChangeKeyPart1", INS.CRYPTO, P1.DEFAULT, P2.CHANGE_KEY_PART1,
  <<KeyID(TAG_1), U32(TAG_2), U8(TAG_3), U8(TAG_4), U8(TAG_5)>>, <<GetU8buf(TAG_1)>>)

DFChangeKeyPart2 ==
  Command("DFChangeKeyPart2", INS.CRYPTO, P1.DEFAULT, P2.CHANGE_KEY_PART2,
  <<U8bufOptional(TAG_1)>>, <<GetU8(TAG_1)>>)

DFKillAuthentication ==
  Command("DFKillAuthentication", INS.CRYPTO, P1.DEFAULT, P2.KILL_AUTH,
  <<>>, StatusOnly)

TLSGenerateRandom ==
  Command("TLSGenerateRandom", INS.CRYPTO, P1.TLS, P2.RANDOM,
  <<>>, <<GetU8buf(TAG_1)>>)

TLSCalculatePreMasterSecret ==
  Command("TLSCalculatePreMasterSecret", INS.CRYPTO, P1.TLS, P2.TLS_PMS,
  <<Optional(U32(TAG_1)), U32(TAG_2), U32(TAG_3), U8bufOptional(TAG_4)>>, StatusOnly)

TLSPerformPRF(tlsprf) ==
  Extended(Command("TLSPerformPRF", INS.CRYPTO, P1.TLS, tlsprf,
  <<U32(TAG_1), U8(TAG_2), U8bufOptional(TAG_3), U8bufOptional(TAG_4), U16(TAG_5)>>,
  <<GetU8buf(TAG_1)>>))

I2CM_ExecuteCommandSet ==
  Extended(Command("I2CM_ExecuteCommandSet", INS_I2CM_Attestation, P1.DEFAULT, P2.I2CM,
  <<U8bufOptional(TAG_1), U32(TAG_2), U8(TAG_3), U8bufOptional(TAG_7)>>,
  <<GetU8buf(TAG_1), GetU8buf(TAG_2), GetU8buf(TAG_4), GetTimeStamp(TAG_TIMESTAMP),
    GetU8buf(TAG_SIGNATURE)>>))

I2CM_ExecuteCommandSet_03 ==
  Command("I2CM_ExecuteCommandSet_03", INS_I2CM_Attestation, P1.DEFAULT, P2.I2CM,
  <<U8bufOptional(TAG_1), U32(TAG_2), U8(TAG_3), U8bufOptional(TAG_7)>>,
  <<GetU8buf(TAG_1), GetTimeStamp(TAG_3), GetU8buf(TAG_4), GetU8buf(TAG_5), GetU8buf(TAG_6)>>)

DigestInit ==
  Command("DigestInit", INS.CRYPTO, P1.DEFAULT, P2.INIT,
  <<U16(TAG_2)>>, StatusOnly)

DigestUpdate ==
  Command("DigestUpdate", INS.CRYPTO, P1.DEFAULT, P2.UPDATE,
  <<U16(TAG_2), U8buf(TAG_3)>>, StatusOnly)

DigestFinal ==
  Command("DigestFinal", INS.CRYPTO, P1.DEFAULT, P2.FINAL,
  <<U16(TAG_2), U8buf(TAG_3)>>, <<GetU8buf(TAG_1)>>)

DigestOneShot ==
  Command("DigestOneShot", INS.CRYPTO, P1.DEFAULT, P2.ONESHOT,
  <<U8(TAG_1), U8buf(TAG_2)>>, <<GetU8buf(TAG_1)>>)

GetVersion ==
  Command("GetVersion", INS.MGMT, P1.DEFAULT, P2.VERSION,
  <<>>, <<GetU8buf(TAG_1)>>)

GetTimestamp ==
  Command("GetTimestamp", INS.MGMT, P1.DEFAULT, P2.TIME,
  <<>>, <<GetTimeStamp(TAG_1)>>)

GetFreeMemory ==
  Command("GetFreeMemory", INS.MGMT, P1.DEFAULT, P2.MEMORY, <<U8(TAG_1)>>, <<GetU16(TAG_1)>>)

GetRandom ==
  Extended(Command("GetRandom", INS.MGMT, P1.DEFAULT, P2.RANDOM,
  <<U16(TAG_1)>>, <<GetU8buf(TAG_1)>>))

DeleteAll ==
  Command("DeleteAll", INS.MGMT, P1.DEFAULT, P2.DELETE_ALL,
  <<>>, StatusOnly)

I2CM_Send ==
  Extended(Command("I2CM_Send", INS.CRYPTO, P1.DEFAULT, P2.I2CM,
  <<U8buf(TAG_1)>>, <<GetU8buf(TAG_1)>>))

----------------------------------------------------------------------------
(* se05x_04_xx_APDU_impl.h *)

AeadOneShot(operation, intIv) ==
  Extended(Command("AeadOneShot", INS.CRYPTO, P1.AEAD, operation,
  <<U32(TAG_1), U8(TAG_2), U8bufOptional(TAG_3), U8bufOptional(TAG_4)>>
    \o (IF intIv /\ operation = P2.ENCRYPT_ONESHOT THEN <<U16(TAG_5)>> ELSE <<U8bufOptional(TAG_5)>>)
    \o (IF operation = P2.DECRYPT_ONESHOT THEN <<U8bufOptional(TAG_6)>> ELSE <<>>),
  <<GetWith(GetU8buf(TAG_1), 3)>>
    \o (IF operation = P2.ENCRYPT_ONESHOT THEN <<GetU8buf(TAG_2)>> ELSE <<GetSuccess(TAG_2)>>)
    \o (IF intIv /\ operation = P2.ENCRYPT_ONESHOT THEN <<GetU8buf(TAG_3)>> ELSE <<>>)))

AeadInit(operation, intIv) ==
  IF intIv /\ operation = P2.ENCRYPT
  THEN Extended(Command("AeadInit", INS.CRYPTO, P1.AEAD, operation,
         <<U32(TAG_1), U16(TAG_2), U16(TAG_5)>>, <<GetU8buf(TAG_3)>>))
  ELSE Command("AeadInit", INS.CRYPTO, P1.AEAD, operation,
         <<U32(TAG_1), U16(TAG_2), U8bufOptional(TAG_5)>>, StatusOnly)

AeadCCMInit(operation, intIv) ==
  IF intIv /\ operation = P2.ENCRYPT
  THEN Extended(Command("AeadCCMInit", INS.CRYPTO, P1.AEAD, operation,
         <<U32(TAG_1), U16(TAG_2), U16(TAG_5), U16(TAG_6), U16(TAG_7), U16(TAG_8)>>, <<GetU8buf(TAG_3)>>))
  ELSE Command("AeadCCMInit", INS.CRYPTO, P1.AEAD, operation,
         <<U32(TAG_1), U16(TAG_2), U8bufOptional(TAG_5), U16(TAG_6), U16(TAG_7), U16(TAG_8)>>, StatusOnly)

AeadUpdate_aad ==
  Command("AeadUpdate_aad", INS.CRYPTO, P1.AEAD, P2.UPDATE,
  <<U16(TAG_2), U8bufOptional(TAG_4)>>, StatusOnly)

AeadUpdate ==
  Extended(Command("AeadUpdate", INS.CRYPTO, P1.AEAD, P2.UPDATE,
  <<U16(TAG_2), U8bufOptional(TAG_3)>>, <<GetU8buf(TAG_1)>>))

AeadCCMLastUpdate ==
  Command("AeadCCMLastUpdate", INS.CRYPTO, P1.AEAD, P2.UPDATE,
  <<U16(TAG_2), U8bufOptional(TAG_3)>>, StatusOnly)

AeadCCMFinal(operation) ==
  Extended(Command("AeadCCMFinal", INS.CRYPTO, P1.AEAD, P2.FINAL,
  <<U16(TAG_2)>> \o (IF operation = P2.DECRYPT THEN <<U8bufOptional(TAG_6)>> ELSE <<>>),
  <<GetU8buf(TAG_1)>> \o (IF operation = P2.ENCRYPT THEN <<GetU8buf(TAG_2)>> ELSE <<GetSuccess(TAG_2)>>)))

AeadFinal(operation) ==
  Extended(Command("AeadFinal", INS.CRYPTO, P1.AEAD, P2.FINAL,
  <<U16(TAG_2)>> \o (IF operation = P2.DECRYPT THEN <<U8bufOptional(TAG_6)>> ELSE <<>>),
  IF operation = P2.ENCRYPT THEN <<GetU8buf(TAG_2)>> ELSE <<GetSuccess(TAG_2)>>))

DisableObjCreation ==
  Command("DisableObjCreation", INS.MGMT, P1.DEFAULT, P2.RESTRICT,
  <<U8(TAG_1), U8(TAG_2)>>, StatusOnly)

TriggerSelfTest ==
  Command("TriggerSelfTest", INS.MGMT, P1.DEFAULT, P2.SANITY,
  <<U16(TAG_1)>>, <<GetU8(TAG_1)>>)

TriggerSelfTest_W_Attst ==
  ShortData(Command("TriggerSelfTest_W_Attst", INS.MGMT + INS.ATTEST, P1.DEFAULT, P2.SANITY,
  <<U16(TAG_1), U32(TAG_5), U8(TAG_6), U8buf(TAG_7)>>,
  <<GetU8(TAG_1), GetU8buf(TAG_2), GetU8buf(TAG_4), GetTimeStamp(TAG_TIMESTAMP),
    GetU8buf(TAG_SIGNATURE)>>))

TriggerSelfTest_W_Attst_06 ==
  Command("TriggerSelfTest_W_Attst_06", INS.MGMT + INS.ATTEST, P1.DEFAULT, P2.SANITY,
  <<U16(TAG_1), U32(TAG_5), U8(TAG_6), U8buf(TAG_7)>>,
  <<GetU8(TAG_1), GetTimeStamp(TAG_3), GetU8buf(TAG_4), GetU8buf(TAG_5), GetU8buf(TAG_6)>>)

ReadObjectAttributes ==
  Command("ReadObjectAttributes", INS.READ, P1.DEFAULT, P2.ATTRIBUTES, <<U32(TAG_1)>>,
  <<GetU8buf(TAG_3)>>)

ReadObjectAttributes_W_Attst_V2 ==
  Extended(Command("ReadObjectAttributes_W_Attst_V2", INS_READ_With_Attestation, P1.DEFAULT,
  P2.ATTRIBUTES, <<U32(TAG_1), U32(TAG_5), U8(TAG_6), U8bufOptional(TAG_7)>>,
  Tail(AttestedV2(GetU8buf(TAG_1)))))

ReadObjectAttributes_W_Attst ==
  Extended(Command("ReadObjectAttributes_W_Attst", INS_READ_With_Attestation, P1.DEFAULT,
  P2.ATTRIBUTES, <<U32(TAG_1), U32(TAG_5), U8(TAG_6), U8bufOptional(TAG_7)>>,
  Tail(AttestedV1(GetU8buf(TAG_1)))))

ECDHGenerateSharedSecret_InObject(p2) ==
  Command("ECDHGenerateSharedSecret_InObject", INS.CRYPTO, P1.EC, p2,
  <<U32(TAG_1), U8bufOptional(TAG_2), U32(TAG_7)>>, <<>>)

TLSCalculateRsaPreMasterSecret ==
  Command("TLSCalculateRsaPreMasterSecret", INS.CRYPTO, P1.TLS, P2.TLS_PMS,
  <<Optional(U32(TAG_1)), U32(TAG_2), U32(TAG_3), U8bufOptional(TAG_4), U8bufOptional(TAG_6)>>,
  StatusOnly)

WriteRSAKey_Ver(ins_type, key_part, rsa_format) ==
  Command("WriteRSAKey_Ver", INS.WRITE + ins_type, P1.RSA + key_part, rsa_format,
    <<Se05xPolicy(TAG_POLICY), U32(TAG_1), U16Optional(TAG_2), ByteShift(TAG_3),
      ByteShift(TAG_4), ByteShift(TAG_5), ByteShift(TAG_6), ByteShift(TAG_7),
      U8bufOptional(TAG_8), ByteShift(TAG_9), ByteShift(TAG_10),
      U32(TAG_11)>>, StatusOnly)

WriteECKey_Ver(ins_type, key_part) ==
  Command("WriteECKey_Ver", INS.WRITE + ins_type, P1.EC + key_part, P2.DEFAULT,
  <<Se05xPolicy(TAG_POLICY), MaxAttemps(TAG_MAX_ATTEMPTS), U32(TAG_1), ECCurve(TAG_2),
    U8bufOptional(TAG_3), U8bufOptional(TAG_4), U32(TAG_11)>>, StatusOnly)

WriteSymmKey_Ver(ins_type, type) ==
  Command("WriteSymmKey_Ver", INS.WRITE + ins_type, type, P2.DEFAULT,
  <<Se05xPolicy(TAG_POLICY), MaxAttemps(TAG_MAX_ATTEMPTS), U32(TAG_1), KeyID(TAG_2),
    U8bufOptional(TAG_3)>>
    \o (IF type = P1.HMAC THEN <<U16(TAG_5)>> ELSE <<>>) \o <<U32(TAG_11)>>, StatusOnly)

WriteBinary_Ver ==
  Command("WriteBinary_Ver", INS.WRITE, P1.BINARY, P2.DEFAULT,
  <<Se05xPolicy(TAG_POLICY), U32(TAG_1), U16Optional(TAG_2), U16Optional(TAG_3),
    U8bufOptional(TAG_4), U32(TAG_11)>>,
  StatusOnly)

ReadState ==
  Command("ReadState", INS.READ, P1.DEFAULT, P2.READ_STATE,
  <<>>, <<GetU8buf(TAG_1)>>)

GetExtVersion ==
  Command("GetExtVersion", INS.MGMT, P1.DEFAULT, P2.VERSION_EXT,
  <<>>, <<GetU8buf(TAG_1)>>)

SendCardManagerCmd ==
  Command("SendCardManagerCmd", INS.MGMT, P1.DEFAULT, P2.CM_COMMAND,
  <<U8bufOptional(TAG_1)>>, <<GetU8buf(TAG_1)>>)

UpdateRSAKey_Ver(ins_type, key_part, rsa_format) ==
  Command("UpdateRSAKey_Ver", INS.WRITE + ins_type, P1.RSA + key_part, rsa_format,
    <<WithAny(Se05xPolicy(TAG_POLICY_CHECK), {4, 9, 10}), U32(TAG_1), U16Optional(TAG_2), ByteShift(TAG_3),
      ByteShift(TAG_4), ByteShift(TAG_5), ByteShift(TAG_6), ByteShift(TAG_7),
      U8bufOptional(TAG_8), ByteShift(TAG_9), ByteShift(TAG_10),
      U32(TAG_11)>>, StatusOnly)

UpdateECKey_Ver(ins_type, key_part) ==
  Command("UpdateECKey_Ver", INS.WRITE + ins_type, P1.EC + key_part, P2.DEFAULT,
  <<MaxAttemps(TAG_MAX_ATTEMPTS), WithAny(Se05xPolicy(TAG_POLICY_CHECK), {5, 6}), U32(TAG_1),
    ECCurve(TAG_2), U8bufOptional(TAG_3), U8bufOptional(TAG_4), U32(TAG_11)>>, StatusOnly)

UpdateBinary_Ver ==
  Command("UpdateBinary_Ver", INS.WRITE, P1.BINARY, P2.DEFAULT,
  <<Se05xPolicy(TAG_POLICY_CHECK), U32(TAG_1), U16Optional(TAG_2), U16Optional(TAG_3),
    U8bufOptional(TAG_4), U32(TAG_11)>>,
  StatusOnly)

UpdateSymmKey_Ver(ins_type, type) ==
  Command("UpdateSymmKey_Ver", INS.WRITE + ins_type, type, P2.DEFAULT,
  <<MaxAttemps(TAG_MAX_ATTEMPTS), Se05xPolicy(TAG_POLICY_CHECK), U32(TAG_1), KeyID(TAG_2),
    U8bufOptional(TAG_3), U32(TAG_11)>>, StatusOnly)

UpdatePCR ==
  Command("UpdatePCR", INS.WRITE, P1.PCR, P2.DEFAULT,
  <<Se05xPolicy(TAG_POLICY_CHECK), U32(TAG_1), U8bufOptional(TAG_3)>>, StatusOnly)

UpdateCounter(size) ==
  RefusedUnless(size \in 1 .. 8, Command("UpdateCounter", INS.WRITE, P1.COUNTER, P2.DEFAULT,
  <<Se05xPolicy(TAG_POLICY_CHECK), U32(TAG_1), Optional(U64Size(TAG_3, size))>>, StatusOnly))

WriteSymmKey_Ver_extended(ins_type, type) ==
  Command("WriteSymmKey_Ver_extended", INS.WRITE + ins_type, type, P2.DEFAULT,
  <<Se05xPolicy(TAG_POLICY), MaxAttemps(TAG_MAX_ATTEMPTS), U32(TAG_1), KeyID(TAG_2),
    U8bufOptional(TAG_3)>>
    \o (IF type = P1.AES THEN <<U16(TAG_4)>> ELSE <<>>)
    \o (IF type = P1.HMAC THEN <<U16(TAG_5)>> ELSE <<>>) \o <<U32(TAG_11)>>, StatusOnly)

PBKDF2_extended(salted, output) ==
  Command("PBKDF2_extended", INS.CRYPTO, P1.DEFAULT, P2.PBKDF,
  <<U32(TAG_1)>> \o (IF salted THEN <<U8bufOptional(TAG_2)>> ELSE <<>>)
    \o <<U16(TAG_3), U16(TAG_4), U8(TAG_5)>>
    \o (IF salted THEN <<>> ELSE <<U32(TAG_6)>>) \o (IF output THEN <<>> ELSE <<U32(TAG_7)>>),
  IF output THEN <<GetU8buf(TAG_1)>> ELSE <<>>)

ECDHGenerateSharedSecret_InObject_extended(p2) ==
  Command("ECDHGenerateSharedSecret_InObject_extended", INS.CRYPTO, P1.EC, p2,
  <<U32(TAG_1), U8bufOptional(TAG_2), U8(TAG_4), U32(TAG_7)>>, <<>>)

ECPointMultiply_InputObj(output) ==
  Extended(Command("ECPointMultiply_InputObj", INS.CRYPTO, P1.EC, P2.ECPM,
  <<U32(TAG_1), U32(TAG_3), U8(TAG_4)>> \o (IF output THEN <<>> ELSE <<U32(TAG_7)>>),
  IF output THEN <<GetU8buf(TAG_1)>> ELSE <<>>))

RSASign_WithSalt ==
  Extended(Command("RSASign_WithSalt", INS.CRYPTO, P1.SIGNATURE, P2.SIGN,
  <<U32(TAG_1), U8(TAG_2), U8bufOptional(TAG_3), AtMost(U8bufOptional(TAG_4), 256)>>,
  <<GetU8buf(TAG_1)>>))

RSAVerify_WithSalt ==
  Command("RSAVerify_WithSalt", INS.CRYPTO, P1.SIGNATURE, P2.VERIFY,
  <<U32(TAG_1), U8(TAG_2), U8bufOptional(TAG_3), AtMost(U8bufOptional(TAG_4), 256),
    U8bufOptional(TAG_5)>>, <<GetResult(TAG_1)>>)

----------------------------------------------------------------------------
(* se05x_pake_APDU_impl.h *)

PAKEConfigDevice ==
  Command("PAKEConfigDevice", INS.CRYPTO, P1.PAKE, P2.TYPE,
  <<U16(TAG_2), U8(TAG_3)>>, StatusOnly)

PAKEInitDevice ==
  Command("PAKEInitDevice", INS.CRYPTO, P1.PAKE, P2.ID,
  <<U16(TAG_2), U8bufOptional(TAG_3), U8bufOptional(TAG_4), U8bufOptional(TAG_5)>>, StatusOnly)

PAKEInitCredentials ==
  Command("PAKEInitCredentials", INS.CRYPTO, P1.PAKE, P2.PARAM,
  <<U16(TAG_2), Optional(U32(TAG_3)), Optional(U32(TAG_4)), Optional(U32(TAG_5))>>, StatusOnly)

PAKEComputeKeyShare ==
  Command("PAKEComputeKeyShare", INS.CRYPTO, P1.PAKE, P2.UPDATE,
  <<U16(TAG_2), U8bufOptional(TAG_3)>>, <<GetU8buf(TAG_1)>>)

PAKEComputeSessionKeys ==
  Command("PAKEComputeSessionKeys", INS.CRYPTO, P1.PAKE, P2.GENERATE,
  <<U16(TAG_2), U8bufOptional(TAG_3)>>, <<GetIfThere(GetU8buf(TAG_1)), GetU8buf(TAG_2)>>)

PAKEVerifySessionKeys ==
  Command("PAKEVerifySessionKeys", INS.CRYPTO, P1.PAKE, P2.VERIFY,
  <<U16(TAG_2), U8bufOptional(TAG_3)>>, <<GetResult(TAG_1)>>)

PAKEReadDeviceType ==
  Command("PAKEReadDeviceType", INS.READ, P1.PAKE, P2.DEFAULT,
  <<U16(TAG_2)>>, <<GetU8(TAG_1)>>)

PAKEReadState ==
  Command("PAKEReadState", INS.READ, P1.PAKE, P2.READ_STATE,
  <<U16(TAG_2)>>, <<GetU8(TAG_1)>>)

ECDSA_Internal_Sign ==
  Command("ECDSA_Internal_Sign", INS.CRYPTO, P1.SIGNATURE, P2.SIGN,
  <<U32(TAG_1), U8(TAG_2)>>, <<GetU8buf(TAG_1), GetU8buf(TAG_2)>>)

RSA_Internal_Sign ==
  Extended(Command("RSA_Internal_Sign", INS.CRYPTO, P1.SIGNATURE, P2.SIGN,
  <<U32(TAG_1), U8(TAG_2)>>, <<GetU8buf(TAG_1), GetU8buf(TAG_2)>>))

EdDSA_Internal_Sign ==
  Command("EdDSA_Internal_Sign", INS.CRYPTO, P1.SIGNATURE, P2.SIGN,
  <<U32(TAG_1), U8(TAG_2)>>, <<GetU8buf(TAG_1), GetU8buf(TAG_2)>>)

CreateCryptoObject_WithTargetSecObj ==
  Command("CreateCryptoObject_WithTargetSecObj", INS.WRITE, P1.CRYPTO_OBJ, P2.DEFAULT,
  <<U16(TAG_1), U8(TAG_2), U8(TAG_3), U32(TAG_4)>>, StatusOnly)

----------------------------------------------------------------------------
(* se05x_T4T_APDU_impl.h *)

T4T_SelectFile ==
  ToT4T(Command("T4T_SelectFile", 164, 0, P2.DEFAULT, <<Raw>>, StatusOnly))

T4T_ReadBinary ==
  ToT4T(Command("T4T_ReadBinary", 176, 0, P2.DEFAULT, <<>>, <<GetIfThere(GetRaw(Caller))>>))

T4T_UpdateBinary ==
  ToT4T(Command("T4T_UpdateBinary", 214, 0, P2.DEFAULT, <<Raw>>, StatusOnly))

T4T_GetVersion ==
  ToT4T(Command("T4T_GetVersion", 202, 159, 126, <<>>, <<GetU8buf(TAG_1)>>))

T4T_ManageReadCounter(p1, p2) ==
  [ToT4T(Command("T4T_ManageReadCounter", 66, p1, p2, <<>>, StatusOnly)) EXCEPT !.cla = 128]

T4T_ReadCounterValue ==
  ToT4T(Command("T4T_ReadCounterValue", 202, 159, 58, <<>>, <<GetRaw(4)>>))

T4T_ConfigureAccessCtrl(operaion, seInterface) ==
  [ToT4T(Command("T4T_ConfigureAccessCtrl", 65, operaion, seInterface,
  <<Arg(0, 1)>>, StatusOnly)) EXCEPT !.cla = 128]

T4T_ReadAccessCtrl(p2) ==
  ToT4T(Command("T4T_ReadAccessCtrl", 202, 0, p2, <<>>, <<GetRaw(2)>>))

----------------------------------------------------------------------------
(* Every command, with the choices its parameters leave. *)
PlainCommands ==
  {CreateSession, ExchangeSessionData, RefreshSession, CloseSession, VerifySessionUserID,
   SetLockState, SetPlatformSCPRequest, WriteBinary, CreateCounter, IncCounter, WritePCR,
   ImportObject, ImportExternalObject, ReadObject, ReadObject_W_Attst_V2,
   ReadObject_W_Attst, ReadRSA, ReadRSA_W_Attst_V2, ReadRSA_W_Attst, ExportObject,
   ReadSize, ReadIDList, CheckObjectExists, DeleteSecureObject, CreateECCurve,
   SetECCurveParam, GetECCurveId, ReadECCurveList, DeleteECCurve, CreateCryptoObject,
   ReadCryptoObjectList, DeleteCryptoObject, ECDSASign, EdDSASign, ECDSAVerify,
   EdDSAVerify, ECDHGenerateSharedSecret, RSASign, RSAVerify, RSAEncrypt, RSADecrypt,
   CipherUpdate, CipherFinal, MACUpdate, MACFinal, MACOneShot_G, MACOneShot_V, HKDF,
   PBKDF2, DFDiversifyKey, DFAuthenticateFirstPart1, DFAuthenticateNonFirstPart1,
   DFAuthenticateFirstPart2, DFAuthenticateNonFirstPart2, DFDumpSessionKeys,
   DFChangeKeyPart1, DFChangeKeyPart2, DFKillAuthentication, TLSGenerateRandom,
   TLSCalculatePreMasterSecret, I2CM_ExecuteCommandSet, I2CM_ExecuteCommandSet_03,
   DigestInit, DigestUpdate, DigestFinal, DigestOneShot, GetVersion, GetTimestamp,
   GetFreeMemory, GetRandom, DeleteAll, AeadUpdate_aad, AeadUpdate, AeadCCMLastUpdate,
   DisableObjCreation, TriggerSelfTest, TriggerSelfTest_W_Attst,
   TriggerSelfTest_W_Attst_06, ReadObjectAttributes, ReadObjectAttributes_W_Attst_V2,
   ReadObjectAttributes_W_Attst, TLSCalculateRsaPreMasterSecret, WriteBinary_Ver,
   ReadState, GetExtVersion, SendCardManagerCmd, UpdateBinary_Ver, UpdatePCR,
   RSASign_WithSalt, RSAVerify_WithSalt, PAKEConfigDevice, PAKEInitDevice,
   PAKEInitCredentials, PAKEComputeKeyShare, PAKEComputeSessionKeys, PAKEVerifySessionKeys,
   PAKEReadDeviceType, PAKEReadState, ECDSA_Internal_Sign, RSA_Internal_Sign,
   EdDSA_Internal_Sign, CreateCryptoObject_WithTargetSecObj, T4T_SelectFile,
   T4T_ReadBinary, T4T_UpdateBinary, T4T_GetVersion, T4T_ReadCounterValue, I2CM_Send}

InsTypes == {INS.NA, INS.TRANSIENT, INS.AUTH_OBJECT}

KeyParts == {<<INS.NA, P1.KEY_PAIR>>, <<INS.TRANSIENT, P1.PRIVATE>>, <<INS.AUTH_OBJECT, P1.PUBLIC>>}

SymmKeyTypes == {P1.AES, P1.DES, P1.HMAC}

KeyCommands ==
  UNION {{WriteECKey(k[1], k[2]), WriteECKey_Ver(k[1], k[2]), UpdateECKey_Ver(k[1], k[2])}
           : k \in KeyParts}
    \cup UNION {{WriteRSAKey(k[1], k[2], f), WriteRSAKey_Ver(k[1], k[2], f),
                  UpdateRSAKey_Ver(k[1], k[2], f)} : k \in KeyParts, f \in {P2.DEFAULT, P2.RAW}}
    \cup UNION {{WriteSymmKey(i, t), WriteSymmKey_Ver(i, t), WriteSymmKey_Ver_extended(i, t),
                  UpdateSymmKey_Ver(i, t)} : i \in InsTypes, t \in SymmKeyTypes}
    \cup {WritePCR_WithType(i) : i \in InsTypes}
    \cup {WriteUserID(i) : i \in {INS.NA, INS.AUTH_OBJECT}}
    \cup {ReadType(i) : i \in {INS.NA, INS.AUTH_OBJECT}}

CounterCommands ==
  UNION {{SetCounterValue(size), UpdateCounter(size)} : size \in {0, 1, 8, 9}}

CipherCommands ==
  UNION {{CipherInit(o, i), AeadInit(o, i), AeadCCMInit(o, i)}
           : o \in {P2.ENCRYPT, P2.DECRYPT}, i \in BOOLEAN}
    \cup UNION {{CipherOneShot(o, i), AeadOneShot(o, i)}
                  : o \in {P2.ENCRYPT_ONESHOT, P2.DECRYPT_ONESHOT}, i \in BOOLEAN}
    \cup UNION {{AeadFinal(o), AeadCCMFinal(o)} : o \in {P2.ENCRYPT, P2.DECRYPT}}
    \cup {MACInit(o) : o \in {P2.GENERATE, P2.VALIDATE}}

DerivationCommands ==
  UNION {{HKDF_Extended(p, s, o), PBKDF2_extended(s, o), ECPointMultiply_InputObj(o)}
           : p \in {P2.HKDF, P2.HKDF_EXPAND_ONLY}, s \in BOOLEAN, o \in BOOLEAN}
    \cup UNION {{ECDHGenerateSharedSecret_InObject(p),
                  ECDHGenerateSharedSecret_InObject_extended(p)} : p \in {P2.DH, P2.DH_REVERSE}}
    \cup {TLSPerformPRF(p) : p \in {P2.TLS_PRF_CLI_HELLO, P2.TLS_PRF_SRV_HELLO,
                                     P2.TLS_PRF_CLI_RND, P2.TLS_PRF_SRV_RND, P2.TLS_PRF_BOTH}}

OtherCommands ==
  {SetAppletFeatures(x) : x \in BOOLEAN}
    \cup {T4T_ManageReadCounter(p[1], p[2]) : p \in {<<0, 0>>, <<0, 255>>, <<255, 255>>}}
    \cup {T4T_ConfigureAccessCtrl(o, i) : o \in {0, 255}, i \in {0, 255}}
    \cup {T4T_ReadAccessCtrl(p) : p \in {215, 216}}

AllCommands ==
  PlainCommands \cup KeyCommands \cup CounterCommands \cup CipherCommands
    \cup DerivationCommands \cup OtherCommands

=============================================================================
