----------------------------- MODULE SssObjects -----------------------------
(***************************************************************************)
(* Key objects of the SE05x back end: sss_se05x_key_object_* and           *)
(* sss_se05x_key_store_* of fsl_sss_se05x_apis.c, with the curves of       *)
(* se05x_ECC_curves.c.  One call is several commands to the SE; a command  *)
(* may fail before or after the SE has executed it, and another client's   *)
(* commands come between.                                                  *)
(***************************************************************************)
EXTENDS Integers, Sequences, FiniteSets, FiniteSetsExt, Functions

CONSTANTS
    Clients,      \* applications or threads, each with one key object
    Keys,         \* key values and contents of files
    Curves,       \* Weierstrass curves, which the SE must be told of
    Mont,         \* Montgomery curves, which only applets since 7.02 create
    Edwards,      \* curves that are always there
    VER_GTE_07_02,\* SSS_HAVE_SE05X_VER_GTE_07_02
    Kinds,        \* <<cipherType, keyPart, options>> of the clients' allocate_handle
    Lens,         \* lengths of files
    BINARY_WRITE_MAX_LEN,
    None,         \* no object, no handle
    Zero,         \* what a place holds that was not written
    MaxHandles, MaxCalls, MaxFaults, MaxCloses

ASSUME ObjectsAssumption ==
    /\ BINARY_WRITE_MAX_LEN \in Nat \ {0}
    /\ Lens \subseteq Nat
    /\ {MaxHandles, MaxCalls, MaxFaults, MaxCloses} \subseteq Nat
    /\ VER_GTE_07_02 \in BOOLEAN
    /\ Curves \cap Mont = {} /\ Curves \cap Edwards = {} /\ Mont \cap Edwards = {}

(* The types a caller may ask for, and what the SE may have under an       *)
(* identifier.                                                             *)
SeCiphers == {"EC", "RSA", "RSA_CRT", "AES", "HMAC", "DES", "Binary"}
Ciphers == SeCiphers \cup {"CMAC", "Certificate"}
Parts == {"Pair", "Public", "Private", "Default"}

KeyPlaces == {"priv", "pub", "key", "E", "D", "N", "P", "Q", "DP", "DQ", "QINV"}
Units == {Zero} \cup (Keys \X (KeyPlaces \cup Nat))
Contents == UNION {[places -> Units] : places \in (SUBSET KeyPlaces) \cup {1 .. n : n \in Lens}}

Objects ==
    [cipher : SeCiphers, part : Parts, curve : Curves \cup Mont \cup Edwards \cup {None},
     transient : BOOLEAN, content : Contents]

ASSUME KindsAssumption ==
    /\ Kinds \subseteq Ciphers \X Parts \X {0, 1, 2}
    /\ None \notin Objects \cup Ciphers \cup Parts \cup Nat

VARIABLES
    object,  \* the SE's object under the one identifier used
    curve,   \* what has been done for each curve, of CurveSteps
    client,  \* key object of each client, and its running or last call
    used     \* calls, faults and closed sessions so far

vars == <<object, curve, client, used>>

-----------------------------------------------------------------------------
(* What objects are made of.                                               *)

kKeyObject_Mode_Persistent == 1
kKeyObject_Mode_Transient == 2
SE05X_MAX_ATTST_DATA == 2

AllCurves == Curves \cup Mont \cup Edwards
IsEC(cipher) == cipher = "EC"
IsRSA(cipher) == cipher \in {"RSA", "RSA_CRT"}
IsFile(cipher) == cipher \in {"Binary", "Certificate"}

(* The commands of set_rsa_key, one for each component.                    *)
RsaPublic == <<"E", "N">>
RsaPrivate == <<"D", "N">>
RsaPrivateCrt == <<"P", "Q", "DP", "DQ", "QINV">>
RsaPair == <<"E", "D", "N">>
RsaPairPublic == <<"E", "N">>
RsaPairCrt == <<"P", "Q", "DP", "DQ", "QINV">> \o RsaPairPublic

Components(cipher, part) ==
    CASE part = "Public"                       -> RsaPublic
      [] part = "Private" /\ cipher = "RSA"     -> RsaPrivate
      [] part = "Private" /\ cipher = "RSA_CRT" -> RsaPrivateCrt
      [] part = "Pair" /\ cipher = "RSA"        -> RsaPair
      [] OTHER                                  -> RsaPairCrt

EcParts(part) ==
    CASE part = "Pair" -> {"priv", "pub"}
      [] part = "Private" -> {"priv"}
      [] OTHER -> {"pub"}

(* The bytes that each WriteBinary of a file of n units carries.           *)
Pieces_Whole(n) ==
    [i \in 1 .. (n + BINARY_WRITE_MAX_LEN - 1) \div BINARY_WRITE_MAX_LEN |->
        {p \in 1 .. n : p <= BINARY_WRITE_MAX_LEN}]

Pieces(n) ==
    [i \in 1 .. (n + BINARY_WRITE_MAX_LEN - 1) \div BINARY_WRITE_MAX_LEN |->
        {p \in 1 .. n : (p - 1) \div BINARY_WRITE_MAX_LEN = i - 1}]

(* The places each write of a set_key fills.                               *)
Writes(cipher, part, n) ==
    CASE IsEC(cipher)   -> <<EcParts(part)>>
      [] IsRSA(cipher)  -> [i \in DOMAIN Components(cipher, part) |-> {Components(cipher, part)[i]}]
      [] IsFile(cipher) -> Pieces(n)
      [] OTHER          -> <<{"key"}>>

(* What makes an object of this type complete.                             *)
AllPlaces(cipher, part, n) ==
    IF IsFile(cipher) THEN 1 .. n ELSE UNION Range(Writes(cipher, part, n))

(* A unit of a key knows which place it is meant for.                      *)
Data(key, places) == [p \in places |-> <<key, p>>]
Blank(places) == [p \in places |-> Zero]

-----------------------------------------------------------------------------
(* The SE, as far as the code relies on it: it creates an object when it   *)
(* is given the curve, the bit length or the file size, and refuses that   *)
(* for an object that exists; otherwise it changes the object that exists  *)
(* if the key is of the same kind.  It lists a curve once it is created.   *)

CurveSteps == 1 .. 6    \* CreateECCurve, then parameters A, B, G, N, PRIME

Usable(k) ==
    CASE k \in Edwards -> TRUE
      [] k \in Mont    -> VER_GTE_07_02 => curve[k] # {}
      [] OTHER         -> curve[k] = CurveSteps

(* The type the SE gives the object.                                       *)
SecureObjectType(r) ==
    CASE r.cipherType = "Certificate"                         -> "Binary"
      [] r.cipherType = "CMAC"                                -> "AES"
      [] r.cipherType = "RSA_CRT" /\ r.objectType = "Public"  -> "RSA"
      [] OTHER                                                -> r.cipherType

(* Only asymmetric keys have parts.                                        *)
SecureObjectPart(r) ==
    IF IsEC(r.cipherType) \/ IsRSA(r.cipherType) THEN r.objectType ELSE "Default"

SameKind(r) ==
    /\ object # None
    /\ object.cipher = SecureObjectType(r) /\ object.part = SecureObjectPart(r)

Overwrites(r, places) ==
    /\ SameKind(r)
    /\ places \subseteq DOMAIN object.content
    /\ IsEC(r.cipherType) => places = DOMAIN object.content

Symmetric(cipher) == cipher \in {"AES", "CMAC", "HMAC", "DES"}

Creates_Always(r) == r.first /\ ~Symmetric(r.cipherType)
Creates(r) == r.first /\ ~r.exists /\ ~Symmetric(r.cipherType)

Accepts(r, places) ==
    CASE Creates(r)              -> object = None /\ (IsEC(r.cipherType) => Usable(r.curve_id))
      [] Symmetric(r.cipherType) -> object = None \/ Overwrites(r, places)
      [] OTHER                   -> Overwrites(r, places)

NewObject(r) ==
    [cipher |-> SecureObjectType(r), part |-> SecureObjectPart(r),
     curve |-> IF IsEC(r.cipherType) THEN r.curve_id ELSE None,
     transient |-> ~IsFile(r.cipherType) /\ ~r.isPersistant,
     content |-> Blank(AllPlaces(r.cipherType, r.objectType, r.len))]

Written(r, places) ==
    LET old == IF object = None THEN NewObject(r) ELSE object
    IN  [old EXCEPT !.content = [p \in DOMAIN @ |-> IF p \in places THEN <<r.key, p>> ELSE @[p]]]

(* What can be read: no private part, nothing that was not written.        *)
PrivateParts == {"priv", "key", "D", "P", "Q", "DP", "DQ", "QINV"}

Readable ==
    IF object = None THEN {}
    ELSE IF object.cipher = "Binary" THEN DOMAIN object.content
    ELSE {p \in DOMAIN object.content \ PrivateParts : object.content[p] # Zero}

-----------------------------------------------------------------------------
(* One command and its answer.  Then(status) is the client after it.       *)

Changed == object' # object \/ curve' # curve

Continue(c, r) ==
    client' = [d \in Clients |->
        IF d = c THEN r ELSE [client[d] EXCEPT !.clean = @ /\ ~Changed]]

Errors == {"SM_NOT_OK", "SM_ERR_APDU_THROUGHPUT"}

Exchange(c, can, obj, crv, Then(_)) ==
    \/ /\ can
       /\ object' = obj /\ curve' = crv
       /\ Continue(c, Then("SM_OK"))
       /\ UNCHANGED used
    \/ /\ ~can
       /\ UNCHANGED <<object, curve, used>>
       /\ Continue(c, Then("SM_ERR_CONDITIONS_NOT_SATISFIED"))
    \/ /\ used.faults < MaxFaults
       /\ used' = [used EXCEPT !.faults = @ + 1]
       /\ \E status \in Errors : \E done \in BOOLEAN :
            /\ done => can /\ status = "SM_NOT_OK"
            /\ object' = IF done THEN obj ELSE object
            /\ curve' = IF done THEN crv ELSE curve
            /\ Continue(c, [Then(status) EXCEPT !.faulty = TRUE])

Asks(c, can, Then(_)) == Exchange(c, can, object, curve, Then)

(* How a call ends; its local variables are gone.                          *)
Ends(r, status) ==
    [r EXCEPT !.pc = "idle", !.status = status, !.key = None, !.len = 0, !.asked = None,
              !.wellFormed = TRUE, !.todo = <<>>, !.first = FALSE,
              !.exists = FALSE, !.step = 0]
Success(r) == Ends(r, "kStatus_SSS_Success")
Fails(r) == Ends([r EXCEPT !.got = <<>>, !.given = <<>>], "kStatus_SSS_Fail")
FailsWith(r, status) ==
    IF status = "SM_ERR_APDU_THROUGHPUT"
    THEN [Fails(r) EXCEPT !.status = "kStatus_SSS_ApduThroughputError"] ELSE Fails(r)

-----------------------------------------------------------------------------
(* Handles.                                                                *)

NoHandle ==
    [hasId |-> FALSE, cipherType |-> None, objectType |-> None, curve_id |-> None,
     isPersistant |-> FALSE, mode |-> None,
     op |-> "none", pc |-> "idle", status |-> "none", key |-> None, len |-> 0, asked |-> None,
     wellFormed |-> TRUE, attested |-> FALSE, todo |-> <<>>, first |-> FALSE, exists |-> FALSE,
     step |-> 0, got |-> <<>>, given |-> <<>>, valid_number |-> 0,
     faulty |-> FALSE, clean |-> TRUE, fits |-> TRUE, created |-> FALSE]

Called(c, op) ==
    [client[c] EXCEPT !.op = op, !.status = "running", !.key = None, !.len = 0, !.asked = None,
                      !.wellFormed = TRUE, !.attested = FALSE, !.first = TRUE, !.exists = FALSE,
                      !.got = <<>>, !.given = <<>>, !.valid_number = 0,
                      !.faulty = FALSE, !.clean = TRUE, !.fits = TRUE, !.created = FALSE]

(* A call that fills in a handle, or one that uses it.                     *)
Starts(c, r, kind, most) ==
    /\ client[c].pc = "idle" /\ used[kind] < most
    /\ client' = [client EXCEPT ![c] = r]
    /\ used' = [used EXCEPT ![kind] = @ + 1]
    /\ UNCHANGED <<object, curve>>

CallsHandle(c, r) == Starts(c, r, "handles", MaxHandles)
Calls(c, r) == Starts(c, r, "calls", MaxCalls)

(* sss_se05x_key_object_free, or _init of a used one.                      *)
KeyObjectInit(c) ==
    /\ client[c].pc = "idle" /\ client[c].hasId
    /\ client' = [client EXCEPT ![c] = NoHandle]
    /\ UNCHANGED <<object, curve, used>>

AllocateHandle(c) == \E kind \in Kinds :
    /\ ~client[c].hasId
    /\ CallsHandle(c, [Called(c, "allocate") EXCEPT
            !.hasId = TRUE, !.cipherType = kind[1], !.objectType = kind[2], !.mode = kind[3],
            !.isPersistant = @ \/ kind[3] = kKeyObject_Mode_Persistent, !.pc = "allocateCheck"])

AllocateChecked(c) ==
    LET r == client[c]
        Then(status) == IF status = "SM_OK" THEN Success(r) ELSE FailsWith(r, status)
    IN  client[c].pc = "allocateCheck" /\ Asks(c, TRUE, Then)

GetHandle(c) ==
    /\ ~client[c].hasId
    /\ CallsHandle(c, [Called(c, "getHandle") EXCEPT !.mode = None, !.pc = "handleCheck"])

HandleChecked(c) ==
    LET r == client[c]
        Then(status) ==
            IF status = "SM_OK" /\ object # None THEN [r EXCEPT !.hasId = TRUE, !.pc = "readType"]
            ELSE FailsWith(r, status)
    IN  r.pc = "handleCheck" /\ Asks(c, TRUE, Then)

(* ReadType's answer goes into a field of one bit.                         *)
TransientIndicator == IF object.transient THEN 2 ELSE 1
OneBit_Any(n) == IF n = 0 THEN 0 ELSE 1

OneBit(n) == n % 2

(* The types get_handle finds an objectType for.                           *)
PartKnown(cipher, part) ==
    part = "Private" => IsEC(cipher) /\ VER_GTE_07_02

WithPart(r, cipher, part) ==
    IF PartKnown(cipher, part) THEN Success([r EXCEPT !.objectType = part]) ELSE Fails(r)

ReadType(c) ==
    LET r == client[c]
        Then(status) ==
            CASE status = "SM_OK" ->
                    LET typed == [r EXCEPT !.isPersistant = OneBit(TransientIndicator) = 1]
                    IN  IF IsEC(object.cipher)
                        THEN [typed EXCEPT !.pc = "typeCurve", !.key = object.part]
                        ELSE WithPart([typed EXCEPT !.cipherType = object.cipher], object.cipher, object.part)
              [] status = "SM_ERR_APDU_THROUGHPUT" -> FailsWith(r, status)
              [] OTHER -> Success(r)
    IN  r.pc = "readType" /\ Asks(c, object # None, Then)

IsCurveKey == object # None /\ IsEC(object.cipher)

TypeCurve(c) ==
    LET r == client[c]
        Then(status) ==
            IF status = "SM_OK"
            THEN WithPart([r EXCEPT !.curve_id = object.curve, !.cipherType = "EC"], "EC", r.key)
            ELSE FailsWith(r, status)
    IN  r.pc = "typeCurve" /\ Asks(c, IsCurveKey, Then)

-----------------------------------------------------------------------------
(* Curves: sss_se05x_create_curve_if_needed.                               *)

(* What the callers do with its status.                                    *)
CurveDone(r, status) ==
    IF r.op = "generate" THEN [r EXCEPT !.pc = "keyCheck"]
    ELSE IF status = "SM_NOT_OK" THEN Fails(r)
    ELSE IF status = "SM_ERR_APDU_THROUGHPUT" /\ r.objectType = "Public" THEN FailsWith(r, status)
    ELSE [r EXCEPT !.pc = "keyCheck", !.step = 0]

CurveStart(r) ==
    CASE r.curve_id \in Edwards                  -> CurveDone(r, "SM_OK")
      [] r.curve_id \in Mont /\ ~VER_GTE_07_02   -> CurveDone(r, "SM_OK")
      [] r.curve_id \in Mont /\ VER_GTE_07_02    -> [r EXCEPT !.pc = "curveMont"]
      [] OTHER                                   -> [r EXCEPT !.pc = "curveList"]

CurveMont(c) ==
    LET r == client[c]
        Then(status) == CurveDone(r, IF status = "SM_ERR_APDU_THROUGHPUT" THEN status ELSE "SM_OK")
    IN  /\ r.pc = "curveMont"
        /\ Exchange(c, curve[r.curve_id] = {}, object, [curve EXCEPT ![r.curve_id] = {1}], Then)

CurveListed(c) ==
    LET r == client[c]
        Then(status) ==
            IF status = "SM_OK" /\ 1 \notin curve[r.curve_id]
            THEN [r EXCEPT !.pc = "curveCreate", !.step = 1]
            ELSE CurveDone(r, status)
    IN  r.pc = "curveList" /\ Asks(c, TRUE, Then)

(* Se05x_API_CreateCurve_<name>: gives up at the first step that fails.    *)
CurveCreated(c) ==
    LET r == client[c]
        k == r.curve_id
        can == IF r.step = 1 THEN curve[k] = {} ELSE 1 \in curve[k] /\ r.step \notin curve[k]
        Then(status) ==
            IF status = "SM_OK" /\ r.step < Max(CurveSteps) THEN [r EXCEPT !.step = @ + 1]
            ELSE CurveDone(r, status)
    IN  /\ r.pc = "curveCreate"
        /\ Exchange(c, can, object, [curve EXCEPT ![k] = @ \cup {r.step}], Then)

-----------------------------------------------------------------------------
(* sss_se05x_key_store_set_key.                                            *)

CurveFor(r, k) == IF r.curve_id = None THEN k ELSE r.curve_id

(* No reason in sight why the call should fail.                            *)
Fits(r) ==
    /\ r.wellFormed
    /\ object = None \/ (Overwrites(r, UNION Range(r.todo)) /\ (IsEC(r.cipherType) => object.curve = r.asked))
    /\ IsEC(r.cipherType) =>
          r.curve_id = r.asked /\ (curve[r.asked] = {} \/ Usable(r.asked))

Begun(r) ==
    [r EXCEPT !.fits = Fits(r), !.created = (object = None), 
              !.given = Data(r.key, AllPlaces(r.cipherType, r.objectType, r.len))]

Setting(c, key, wellFormed) == [Called(c, "set") EXCEPT !.key = key, !.wellFormed = wellFormed]
With(r, n) == [r EXCEPT !.todo = Writes(r.cipherType, r.objectType, n), !.len = n]

Parsed(r) == IF r.wellFormed THEN [Begun(r) EXCEPT !.pc = "keyCheck"] ELSE Fails(Begun(r))

(* set_ecc_* and set_rsa_key fail at once for any other part.               *)
KeyParts == {"Pair", "Public", "Private"}

(* The key is parsed first.                                                *)
SetRsaKey(c) == \E key \in Keys, wellFormed \in BOOLEAN :
    /\ client[c].hasId /\ IsRSA(client[c].cipherType) /\ client[c].objectType \in KeyParts
    /\ Calls(c, Parsed(With(Setting(c, key, wellFormed), 0)))

(* An AES key's length is looked at.                                       *)
SetSymmetricKey(c) == \E key \in Keys, wellFormed \in BOOLEAN :
    /\ client[c].hasId /\ Symmetric(client[c].cipherType)
    /\ client[c].cipherType # "AES" => wellFormed
    /\ Calls(c, Parsed(With(Setting(c, key, wellFormed), 0)))

SetFile(c) == \E key \in Keys, n \in Lens :
    /\ client[c].hasId /\ IsFile(client[c].cipherType)
    /\ Calls(c, Parsed(With(Setting(c, key, TRUE), n)))

SetEccKey(c) == \E key \in Keys, wellFormed \in BOOLEAN, k \in AllCurves :
    LET r == [Setting(c, key, wellFormed) EXCEPT !.asked = k, !.curve_id = CurveFor(client[c], k)]
    IN  /\ r.hasId /\ IsEC(r.cipherType) /\ r.objectType \in KeyParts
        /\ Calls(c, CurveStart(Begun(With(r, 0))))

(* sss_se05x_key_store_generate_key: one command, whatever the key.        *)
Generating(r) == [r EXCEPT !.todo = <<AllPlaces(r.cipherType, r.objectType, 0)>>]

GenerateRsaKey(c) == \E key \in Keys :
    LET r == [Called(c, "generate") EXCEPT !.key = key]
    IN  /\ r.hasId /\ r.objectType = "Pair" /\ IsRSA(r.cipherType)
        /\ Calls(c, [Begun(Generating(r)) EXCEPT !.pc = "keyCheck"])

GenerateEccKey(c) == \E key \in Keys, k \in AllCurves :
    LET r == [Called(c, "generate") EXCEPT !.key = key, !.asked = k, !.curve_id = CurveFor(client[c], k)]
    IN  /\ r.hasId /\ r.objectType = "Pair" /\ IsEC(r.cipherType)
        /\ Calls(c, CurveStart(Begun(Generating(r))))

(* set_ecc_*: the key is looked at after the SE was asked; its lengths     *)
(* must be those of the object's curve.                                    *)
LengthsFit(r) == r.asked = r.curve_id

EccParsed(r, exists) ==
    IF r.wellFormed /\ LengthsFit(r) THEN [r EXCEPT !.pc = "write", !.exists = exists]
    ELSE Fails(r)

(* CheckObjectExists: set_ecc_* fails when it does; CheckIfKeyIdExists of  *)
(* the others takes every error but one for an object that does not exist. *)
(* A file of no bytes needs no write.                                      *)
KeyChecked(c) ==
    LET r == client[c]
        found == object # None
        EccThen(status) ==
            IF status # "SM_OK" THEN FailsWith(r, status)
            ELSE IF found THEN [r EXCEPT !.pc = "curveGetId"] ELSE EccParsed(r, FALSE)
        Then(status) ==
            IF status = "SM_ERR_APDU_THROUGHPUT" THEN FailsWith(r, status)
            ELSE IF r.todo = <<>> THEN Success(r)
            ELSE [r EXCEPT !.pc = "write", !.exists = status = "SM_OK" /\ found]
    IN  /\ r.pc = "keyCheck"
        /\ IF IsEC(r.cipherType) /\ r.op = "set" THEN Asks(c, TRUE, EccThen) ELSE Asks(c, TRUE, Then)

CurveGot(c) ==
    LET r == client[c]
        Then(status) ==
            IF status # "SM_OK" THEN FailsWith(r, status)
            ELSE IF object.curve # r.curve_id THEN Fails(r) ELSE EccParsed(r, TRUE)
    IN  r.pc = "curveGetId" /\ Asks(c, IsCurveKey, Then)

Write(c) ==
    LET r == client[c]
        places == Head(r.todo)
        Then(status) ==
            IF status # "SM_OK" THEN FailsWith(r, status)
            ELSE IF Len(r.todo) = 1 THEN Success(r)
            ELSE [r EXCEPT !.todo = Tail(@), !.first = FALSE]
    IN  /\ r.pc = "write"
        /\ Exchange(c, Accepts(r, places), Written(r, places), curve, Then)

-----------------------------------------------------------------------------
(* Reading and erasing.                                                    *)

(* sss_se05x_key_store_get_key, and _get_key_attst.                        *)
Reads_Modulus(cipher) ==
    CASE IsRSA(cipher)  -> <<{"N"}>>
      [] OTHER          -> <<{"key"}>>

Reads(cipher) ==
    CASE IsRSA(cipher)  -> <<{"N"}, {"E"}>>
      [] OTHER          -> <<{"key"}>>

Needed(cipher) ==
    CASE IsFile(cipher) -> Readable
      [] IsEC(cipher)   -> {"pub"}
      [] OTHER          -> UNION Range(Reads(cipher))

CanRead(r) ==
    /\ SameKind(r)
    /\ Needed(r.cipherType) # {} /\ Needed(r.cipherType) \subseteq Readable
    /\ IsFile(r.cipherType) /\ r.attested => Cardinality(Readable) <= BINARY_WRITE_MAX_LEN

Getting(c, attested) ==
    LET r == [Called(c, "get") EXCEPT !.attested = attested,
                                      !.valid_number = IF attested THEN SE05X_MAX_ATTST_DATA ELSE 0]
    IN  [r EXCEPT !.fits = CanRead(r), !.todo = Reads(r.cipherType),
                  !.pc = IF IsFile(r.cipherType) THEN "readSize" ELSE "read"]

GetKey(c) ==
    LET r == Getting(c, FALSE)
    IN  /\ r.hasId
        /\ Calls(c, IF r.cipherType \in {None, "HMAC", "CMAC"} THEN Fails(r) ELSE r)

(* The key that attests is not modelled; it is the caller's.               *)
GetKeyAttst(c) ==
    LET r == Getting(c, TRUE)
    IN  /\ r.hasId
        /\ Calls(c, IF r.cipherType = None THEN Fails(r) ELSE r)

ReadSize(c) ==
    LET r == client[c]
        size == Cardinality(DOMAIN object.content)
        Then(status) ==
            IF status # "SM_OK" THEN FailsWith(r, status)
            ELSE IF r.attested /\ size > BINARY_WRITE_MAX_LEN THEN Fails(r)
            ELSE [r EXCEPT !.todo = Pieces(size), !.pc = "read"]
    IN  r.pc = "readSize" /\ Asks(c, object # None, Then)

(* The entries of attestation data that the answer to this read completes; *)
(* a file's are not counted, what the caller had there stays.              *)
EntriesRsa(r) == IF Len(r.todo) = 2 THEN r.valid_number ELSE 2
EntriesEc == 1
EntriesSymmetric == 1
EntriesMac == 1
EntriesFile(r) == r.valid_number

ValidNumber(r) ==
    IF ~r.attested THEN r.valid_number
    ELSE CASE IsFile(r.cipherType)            -> EntriesFile(r)
           [] IsRSA(r.cipherType)             -> EntriesRsa(r)
           [] IsEC(r.cipherType)              -> EntriesEc
           [] r.cipherType \in {"AES", "DES"} -> EntriesSymmetric
           [] OTHER                           -> EntriesMac

(* A read of part of a file or of an RSA component; any other object is    *)
(* read whole, whatever it is.                                             *)
Read(c) ==
    LET r == [client[c] EXCEPT !.valid_number = ValidNumber(client[c])]
        inParts == IsFile(r.cipherType) \/ IsRSA(r.cipherType)
        apt == /\ IsFile(r.cipherType) => object # None /\ IsFile(object.cipher)
               /\ IsRSA(r.cipherType) => object # None /\ IsRSA(object.cipher)
        places == IF inParts THEN Head(r.todo) ELSE Readable
        Seen == [p \in DOMAIN r.got \cup places |-> IF p \in places THEN object.content[p] ELSE r.got[p]]
        Then(status) ==
            IF status # "SM_OK" THEN FailsWith(r, status)
            ELSE IF Len(r.todo) = 1 THEN Success([r EXCEPT !.got = Seen])
            ELSE [r EXCEPT !.got = Seen, !.todo = Tail(@)]
    IN  r.pc = "read" /\ Asks(c, apt /\ places # {} /\ places \subseteq Readable, Then)

EraseKey(c) ==
    /\ client[c].hasId
    /\ Calls(c, [Called(c, "erase") EXCEPT !.pc = "erase"])

Erased(c) ==
    LET r == client[c]
        Then(status) == IF status = "SM_OK" THEN Success(r) ELSE FailsWith(r, status)
    IN  client[c].pc = "erase" /\ Exchange(c, object # None, None, curve, Then)

(* The session is closed, the handles are gone; what the SE has in RAM     *)
(* loses its contents.                                                     *)
MustStay(r) ==
    r.created /\ IF r.mode = None THEN r.isPersistant ELSE r.mode # kKeyObject_Mode_Transient

CloseSession ==
    /\ \A c \in Clients : client[c].pc = "idle"
    /\ used.closes < MaxCloses
    /\ used' = [used EXCEPT !.closes = @ + 1]
    /\ UNCHANGED curve
    /\ object' = IF object # None /\ object.transient
                 THEN [object EXCEPT !.content = Blank(DOMAIN @)] ELSE object
    /\ client' = [c \in Clients |->
                    [client[c] EXCEPT !.hasId = FALSE, !.cipherType = None, !.objectType = None,
                                      !.curve_id = None, !.isPersistant = FALSE,
                                      !.clean = @ /\ (Changed => MustStay(client[c]))]]

-----------------------------------------------------------------------------
Init ==
    /\ object = None
    /\ curve = [k \in AllCurves |-> IF k \in Edwards THEN CurveSteps ELSE {}]
    /\ client = [c \in Clients |-> NoHandle]
    /\ used = [handles |-> 0, calls |-> 0, faults |-> 0, closes |-> 0]

Done ==
    /\ \A c \in Clients :
         /\ client[c].pc = "idle"
         /\ used.calls = MaxCalls \/ (used.handles = MaxHandles /\ ~client[c].hasId)
    /\ UNCHANGED vars

Next ==
    \/ \E c \in Clients :
          \/ KeyObjectInit(c) \/ AllocateHandle(c) \/ AllocateChecked(c)
          \/ GetHandle(c) \/ HandleChecked(c) \/ ReadType(c) \/ TypeCurve(c)
          \/ SetRsaKey(c) \/ SetEccKey(c) \/ SetSymmetricKey(c) \/ SetFile(c)
          \/ GenerateRsaKey(c) \/ GenerateEccKey(c)
          \/ CurveMont(c) \/ CurveListed(c) \/ CurveCreated(c)
          \/ KeyChecked(c) \/ CurveGot(c) \/ Write(c)
          \/ GetKey(c) \/ GetKeyAttst(c) \/ ReadSize(c) \/ Read(c)
          \/ EraseKey(c) \/ Erased(c)
    \/ CloseSession
    \/ Done

Spec == Init /\ [][Next]_vars

-----------------------------------------------------------------------------
(* Properties.                                                             *)

Succeeded(c, op) == client[c].op = op /\ client[c].status = "kStatus_SSS_Success" /\ client[c].clean

Holds(c) == \A p \in DOMAIN client[c].given :
    object # None /\ p \in DOMAIN object.content /\ object.content[p] = client[c].given[p]

(* A key or file that set_key or generate_key reported as written is in    *)
(* the SE with every component and every byte, whatever failed attempts    *)
(* came before, and stays there until somebody changes it; closing the     *)
(* session loses a new object's content only if it was asked to be         *)
(* transient, with kKeyObject_Mode_Transient or the options 0.  A key that *)
(* was set is on the curve of the handle.                                  *)
WholeAfterSuccess == \A c \in Clients :
    /\ client[c].mode # 0 /\ (Succeeded(c, "set") \/ Succeeded(c, "generate")) => Holds(c)
    /\ Succeeded(c, "set") /\ client[c].curve_id # None /\ IsEC(client[c].cipherType)
         => object.curve = client[c].curve_id

(* A well-formed key that the SE could take, and an object that could be   *)
(* read, are refused only if a command of this call failed or another      *)
(* client changed the object or the curve meanwhile: what an earlier       *)
(* failed call left behind does not stand in the way.                      *)
FailsForReason == \A c \in Clients :
    /\ client[c].op \in {"set", "generate", "get"} /\ client[c].pc = "idle"
    /\ client[c].status # "kStatus_SSS_Success"
    => client[c].faulty \/ ~client[c].clean \/ ~client[c].fits

(* What get_key returns is all that the object holds and can be read, in   *)
(* its place, though it is read in pieces; and get_key_attst says of a key *)
(* how many entries of attestation data came with it.                      *)
ReadsWhole == \A c \in Clients :
    Succeeded(c, "get") =>
        /\ \A p \in Readable : p \in DOMAIN client[c].got /\ client[c].got[p] = object.content[p]
        /\ client[c].attested /\ client[c].hasId /\ ~IsFile(client[c].cipherType) =>
              client[c].valid_number = IF IsRSA(client[c].cipherType) THEN 2 ELSE 1

(* A handle that get_handle filled in describes the object: its type,      *)
(* part, curve and lifetime.                                               *)
HandleMatches == \A c \in Clients :
    Succeeded(c, "getHandle") /\ client[c].hasId /\ ~client[c].faulty =>
        /\ object # None
        /\ client[c].cipherType = object.cipher /\ client[c].objectType = object.part
        /\ client[c].isPersistant = ~object.transient
        /\ IsEC(object.cipher) => client[c].curve_id = object.curve
=============================================================================
