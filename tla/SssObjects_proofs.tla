------------------------- MODULE SssObjects_proofs -------------------------
(***************************************************************************)
(* Theorems about SssObjects, for any clients, kinds of keys, lengths of   *)
(* files and any number of calls, failures and closed sessions: what is    *)
(* reported as written is whole, what is read is whole, a call fails only  *)
(* for a reason, and a handle that was got describes its object.           *)
(***************************************************************************)
EXTENDS SssObjects, SequenceTheorems, FiniteSetTheorems, TLAPS

-----------------------------------------------------------------------------
(* The inductive invariant.  Nothing in it ties two clients together: what *)
(* it says of a client is about that client's record and the SE, and the   *)
(* part about the SE holds while nobody else has changed the SE (clean).   *)

\* What is in the SE.
CiphersOf(o) ==
    /\ o.cipher = "Binary" => \E n \in Nat \ {0} : DOMAIN o.content = 1 .. n
    /\ o.cipher # "Binary" => DOMAIN o.content \subseteq KeyPlaces
    /\ IsRSA(o.cipher) => DOMAIN o.content \cap {"priv", "pub", "key"} = {}
    /\ IsEC(o.cipher) => o.curve \in AllCurves

SeTyped ==
    /\ object # None => object \in Objects /\ CiphersOf(object)
    /\ curve \in [AllCurves -> SUBSET CurveSteps]

\* The record of a client; what was given and got may be anything.
Settles == {"set", "generate"}
CurveStages == {"curveMont", "curveList", "curveCreate"}
SetStages == CurveStages \cup {"keyCheck", "curveGetId", "write"}
GetStages == {"readSize", "read"}
HandleStages == {"handleCheck", "readType", "typeCurve"}
Stages == {"idle", "allocateCheck", "erase"} \cup SetStages \cup GetStages \cup HandleStages
Statuses ==
    {"none", "running", "kStatus_SSS_Success", "kStatus_SSS_Fail", "kStatus_SSS_ApduThroughputError"}

Shape(r) ==
    r \in [hasId : BOOLEAN, cipherType : Ciphers \cup {None}, objectType : Parts \cup {None},
           curve_id : AllCurves \cup {None}, isPersistant : BOOLEAN, mode : {None, 0, 1, 2},
           op : {"none", "allocate", "getHandle", "get", "erase"} \cup Settles,
           pc : Stages,
           status : Statuses, key : {r.key}, len : Nat, asked : AllCurves \cup {None},
           wellFormed : BOOLEAN, attested : BOOLEAN, todo : {r.todo}, first : BOOLEAN,
           exists : BOOLEAN, step : Nat, got : {r.got}, given : {r.given}, valid_number : Nat,
           faulty : BOOLEAN, clean : BOOLEAN, fits : BOOLEAN, created : BOOLEAN]

Handle(r) ==
    /\ ~r.hasId => r.cipherType = None /\ ~r.isPersistant
    /\ r.hasId /\ r.mode = 1 => r.isPersistant
    /\ r.op \notin Settles => ~r.created

Stage(r) ==
    /\ r.pc # "idle" <=> r.status = "running"
    /\ r.pc = "allocateCheck" => r.op = "allocate"
    /\ r.pc = "erase" => r.op = "erase"
    /\ r.pc \in HandleStages => r.op = "getHandle" /\ r.mode = None /\ (r.hasId <=> r.pc # "handleCheck")
    /\ r.pc = "typeCurve" => r.key \in Parts
    /\ r.pc \in GetStages => r.op = "get" /\ r.hasId /\ r.cipherType # None
    /\ r.pc = "readSize" => IsFile(r.cipherType)
    /\ r.pc \in SetStages => r.op \in Settles /\ r.hasId /\ r.cipherType # None

\* A call that sets a key: what is given, and the writes still to do.
Given(r) == AllPlaces(r.cipherType, r.objectType, r.len)
Left(r) == UNION Range(r.todo)

Sets(r) ==
    r.pc \in SetStages =>
        /\ r.key \in Keys /\ r.given = Data(r.key, Given(r))
        /\ Left(r) \subseteq Given(r)
        /\ r.first => Left(r) = Given(r)
        /\ r.pc # "write" => r.first
        /\ IsFile(r.cipherType) => r.op = "set" /\ r.len \in Lens
        /\ r.todo \in Seq(SUBSET Given(r))
        /\ r.todo = << >> => r.pc = "keyCheck" /\ IsFile(r.cipherType) /\ r.len = 0
        /\ IsFile(r.cipherType) /\ r.len = 0 => r.todo = << >>
        /\ SecureObjectPart(r) \in Parts

SetsEC(r) ==
    /\ r.pc \in SetStages /\ IsEC(r.cipherType) =>
          /\ r.curve_id \in AllCurves /\ r.asked \in AllCurves
          /\ Len(r.todo) = 1 /\ r.first
    /\ r.pc \in CurveStages \cup {"curveGetId"} => IsEC(r.cipherType)
    /\ r.pc = "curveGetId" => r.op = "set"
    /\ r.pc = "curveMont" => r.curve_id \in Mont
    /\ r.pc \in {"curveList", "curveCreate"} => r.curve_id \in Curves
    /\ r.pc = "curveCreate" => r.step \in CurveSteps

\* A call that gets a key: the reads still to do.
Gets(r) ==
    /\ r.pc = "read" /\ IsRSA(r.cipherType) => r.todo = <<{"N"}, {"E"}>> \/ r.todo = <<{"E"}>>
    /\ r.pc = "read" /\ ~IsRSA(r.cipherType) /\ ~IsFile(r.cipherType) => r.todo = <<{"key"}>>

Counted(r) ==
    r.op = "get" /\ r.status = "kStatus_SSS_Success" /\ r.attested /\ r.hasId /\ ~IsFile(r.cipherType) =>
        r.valid_number = IF IsRSA(r.cipherType) THEN 2 ELSE 1

Local(r) == Handle(r) /\ Stage(r) /\ Sets(r) /\ SetsEC(r) /\ Gets(r) /\ Counted(r)

\* What is not to be written any more is in the SE.
InSE(r, p) == object # None /\ p \in DOMAIN object.content /\ object.content[p] = r.given[p]
WrittenSoFar(r) == r.pc = "write" => \A p \in DOMAIN r.given : p \in Left(r) \/ InSE(r, p)
OnItsCurve(r) ==
    r.pc = "write" /\ r.op = "set" /\ IsEC(r.cipherType) /\ r.exists =>
        object # None /\ object.curve = r.curve_id
\* An object that this call has made is transient if the handle is.
Lifetime(r) ==
    r.pc \in SetStages /\ r.created =>
        IF r.first THEN object = None ELSE object # None /\ object.transient => ~r.isPersistant

\* A call that has set a key.
HasSet(r) ==
    r.op \in Settles /\ r.status = "kStatus_SSS_Success" =>
        /\ r.mode # 0 => \A p \in DOMAIN r.given : InSE(r, p)
        /\ r.op = "set" /\ r.curve_id # None /\ IsEC(r.cipherType) =>
              object # None /\ object.curve = r.curve_id
        /\ r.created /\ object # None /\ object.transient =>
              r.mode \in {0, 2} \/ (r.mode = None /\ ~r.isPersistant)

\* A call that gets a key, and one that has got it.
SeenAt(r, p) == p \in DOMAIN r.got /\ r.got[p] = object.content[p]
ReadSoFar(r) ==
    /\ r.pc = "read" /\ IsFile(r.cipherType) /\ object # None /\ IsFile(object.cipher) =>
          /\ r.todo \in Seq(SUBSET DOMAIN object.content) /\ r.todo # << >>
          /\ \A i \in DOMAIN r.todo : r.todo[i] # {}
          /\ \A p \in DOMAIN object.content : p \in Left(r) \/ SeenAt(r, p)
    /\ r.pc = "read" /\ IsRSA(r.cipherType) /\ r.todo = <<{"E"}>> => object # None /\ SeenAt(r, "N")
HasRead(r) ==
    r.op = "get" /\ r.status = "kStatus_SSS_Success" => \A p \in Readable : SeenAt(r, p)

\* A call that describes the object, and one that has.
Describes(r) ==
    /\ r.pc \in {"readType", "typeCurve"} => object # None
    /\ r.pc = "typeCurve" =>
          IsEC(object.cipher) /\ r.key = object.part /\ (r.isPersistant <=> ~object.transient)
    /\ r.op = "getHandle" /\ r.status = "kStatus_SSS_Success" /\ r.hasId /\ ~r.faulty =>
          /\ object # None
          /\ r.cipherType = object.cipher /\ r.objectType = object.part
          /\ r.isPersistant <=> ~object.transient
          /\ IsEC(object.cipher) => r.curve_id = object.curve

\* A call of which nothing is to be feared.
Fair(r) == r.fits /\ ~r.faulty
CurveReady(r) ==
    /\ r.pc = "curveList" => curve[r.curve_id] \in {{}, CurveSteps}
    /\ r.pc = "curveCreate" => curve[r.curve_id] = 1 .. (r.step - 1)
    /\ r.pc \in {"keyCheck", "curveGetId", "write"} => Usable(r.curve_id)
SetGoesOn(r) ==
    r.pc \in SetStages =>
        /\ r.wellFormed
        /\ IsEC(r.cipherType) =>
              /\ r.curve_id = r.asked /\ CurveReady(r)
              /\ object # None => object.curve = r.asked
        /\ object = None \/ Overwrites(r, Left(r))
        /\ r.pc = "curveGetId" => object # None
        /\ r.pc = "write" => (object # None <=> r.exists \/ ~r.first)
GetGoesOn(r) == r.pc \in GetStages => CanRead(r)
Ended(r) ==
    r.op \in Settles \cup {"get"} /\ r.pc = "idle" => r.status = "kStatus_SSS_Success"

Global(r) ==
    /\ WrittenSoFar(r) /\ OnItsCurve(r) /\ Lifetime(r) /\ HasSet(r)
    /\ ReadSoFar(r) /\ HasRead(r) /\ Describes(r)
    /\ Fair(r) => SetGoesOn(r) /\ GetGoesOn(r) /\ Ended(r)

ClientInv(r) == Shape(r) /\ Local(r) /\ (r.clean => Global(r))

IInv ==
    /\ SeTyped
    /\ client = [c \in Clients |-> client[c]]
    /\ \A c \in Clients : ClientInv(client[c])

-----------------------------------------------------------------------------
(* Places and pieces.                                                      *)

LEMMA Quotients ==
  ASSUME NEW B \in Nat \ {0}, NEW n \in Nat
  PROVE  /\ n \div B \in Nat
         /\ B * (n \div B) <= n /\ n < B * (n \div B + 1)
OBVIOUS

LEMMA FirstOf ==
  ASSUME NEW S, NEW s \in Seq(S), s # << >>
  PROVE  /\ Head(s) \in S /\ Head(s) = s[1] /\ 1 \in DOMAIN s
         /\ Tail(s) \in Seq(S) /\ (Tail(s) = << >> <=> Len(s) = 1)
         /\ UNION Range(s) = Head(s) \cup UNION Range(Tail(s))
         /\ Len(s) = 1 => UNION Range(s) = Head(s)
<1>1. /\ Head(s) \in S /\ Head(s) = s[1] /\ 1 \in DOMAIN s
      /\ Tail(s) \in Seq(S) /\ Len(Tail(s)) = Len(s) - 1 /\ Len(s) \in Nat \ {0}
      /\ \A i \in 1 .. (Len(s) - 1) : Tail(s)[i] = s[i + 1]
      /\ DOMAIN s = 1 .. Len(s) /\ DOMAIN Tail(s) = 1 .. (Len(s) - 1)
  OBVIOUS
<1>2. Tail(s) = << >> <=> Len(s) = 1
  <2>1. PICK t \in Seq(S) : t = Tail(s)
    BY <1>1
  <2>2. t = << >> <=> Len(t) = 0
    BY <2>1, EmptySeq
  <2> QED BY <1>1, <2>1, <2>2
<1>3. Range(s) = {Head(s)} \cup Range(Tail(s))
  <2>1. ASSUME NEW x \in Range(s)
        PROVE  x \in {Head(s)} \cup Range(Tail(s))
    <3>1. PICK i \in DOMAIN s : x = s[i]
      BY <2>1 DEF Range
    <3>2. CASE i = 1
      BY <3>1, <3>2, <1>1
    <3>3. CASE i # 1
      <4>1. i - 1 \in 1 .. (Len(s) - 1) /\ s[i] = Tail(s)[i - 1]
        BY <3>3, <1>1
      <4> QED BY <4>1, <3>1, <1>1 DEF Range
    <3> QED BY <3>2, <3>3
  <2>2. ASSUME NEW x \in {Head(s)} \cup Range(Tail(s))
        PROVE  x \in Range(s)
    <3>1. CASE x = Head(s)
      BY <3>1, <1>1 DEF Range
    <3>2. CASE x \in Range(Tail(s))
      <4>1. PICK i \in 1 .. (Len(s) - 1) : x = Tail(s)[i]
        BY <3>2, <1>1 DEF Range
      <4>2. i + 1 \in DOMAIN s /\ x = s[i + 1]
        BY <4>1, <1>1
      <4> QED BY <4>2 DEF Range
    <3> QED BY <2>2, <3>1, <3>2
  <2> QED BY <2>1, <2>2
<1>4. Len(s) = 1 => Range(Tail(s)) = {}
  BY <1>1 DEF Range
<1> QED BY <1>1, <1>2, <1>3, <1>4

\* The pieces of a file cover it, and none is empty.
LEMMA PiecesCover ==
  ASSUME NEW n \in Nat
  PROVE  /\ Pieces(n) \in Seq(SUBSET (1 .. n))
         /\ UNION Range(Pieces(n)) = 1 .. n
         /\ \A i \in DOMAIN Pieces(n) : Pieces(n)[i] # {}
         /\ Pieces(n) = << >> <=> n = 0
<1> DEFINE B == BINARY_WRITE_MAX_LEN
           m == (n + B - 1) \div B
<1>1. B \in Nat \ {0}
  BY ObjectsAssumption
<1> HIDE DEF B
<1>2. m \in Nat /\ B * m <= n + B - 1 /\ n + B - 1 < B * (m + 1)
  <2>1. n + B - 1 \in Nat
    BY <1>1
  <2> QED BY <2>1, <1>1, Quotients
<1> HIDE DEF m
<1>3. Pieces(n) = [i \in 1 .. m |-> {p \in 1 .. n : (p - 1) \div B = i - 1}]
  BY DEF Pieces, B, m
<1>4. /\ DOMAIN Pieces(n) = 1 .. m /\ Len(Pieces(n)) = m
      /\ \A i \in 1 .. m : Pieces(n)[i] = {p \in 1 .. n : (p - 1) \div B = i - 1}
      /\ Pieces(n) \in Seq(SUBSET (1 .. n))
  BY <1>2, <1>3
<1>5. ASSUME NEW p \in 1 .. n
      PROVE  \E i \in 1 .. m : p \in Pieces(n)[i]
  <2> DEFINE q == (p - 1) \div B
  <2>1. q \in Nat /\ B * q <= p - 1
    BY <1>1, Quotients
  <2> HIDE DEF q
  <2>2. q + 1 <= m
    <3>1. SUFFICES ASSUME q >= m PROVE FALSE
      BY <2>1, <1>2
    <3>2. B * q >= B * m
      BY <3>1, <2>1, <1>1, <1>2
    <3>3. B * (m + 1) = B * m + B
      BY <1>1, <1>2
    <3>4. p - 1 >= B * m /\ n + B - 1 < B * m + B
      BY <3>2, <3>3, <2>1, <1>1, <1>2
    <3> QED BY <3>4, <1>1, <1>2
  <2>3. q + 1 \in 1 .. m /\ p \in Pieces(n)[q + 1]
    <3>1. q + 1 \in 1 .. m /\ (q + 1) - 1 = q
      BY <2>1, <2>2, <1>2
    <3> QED BY <3>1, <1>4 DEF q
  <2> QED BY <2>3
<1>6. UNION Range(Pieces(n)) = 1 .. n
  <2>1. \A i \in 1 .. m : Pieces(n)[i] \subseteq 1 .. n
    BY <1>4
  <2>2. Range(Pieces(n)) = {Pieces(n)[i] : i \in 1 .. m}
    BY <1>4 DEF Range
  <2> QED BY <2>1, <2>2, <1>5
<1>7. ASSUME NEW i \in 1 .. m
      PROVE  Pieces(n)[i] # {}
  <2> DEFINE p == B * (i - 1) + 1
  <2>1. B * m = B * (m - 1) + B /\ B * (i - 1) <= B * (m - 1) /\ B * (i - 1) \in Nat
    BY <1>1, <1>2
  <2>2. B * (i - 1) \in Nat /\ B * (i - 1) <= n - 1
    BY <2>1, <1>1, <1>2
  <2>3. p \in 1 .. n /\ p - 1 = B * (i - 1)
    BY <2>2
  <2>4. (B * (i - 1)) \div B = i - 1
    BY <1>1, <1>2
  <2> QED BY <2>3, <2>4, <1>4
<1>8. m = 0 <=> n = 0
  BY <1>1, <1>2, <1>5, <1>7, <1>4
<1>9. Pieces(n) = << >> <=> m = 0
  BY <1>4, EmptySeq
<1> QED BY <1>4, <1>6, <1>7, <1>8, <1>9
-----------------------------------------------------------------------------
(* What keys and objects are made of.                                      *)

LEMMA SetOfOne ==
  ASSUME NEW S, NEW x \in S
  PROVE  /\ <<x>> \in Seq(S) /\ Len(<<x>>) = 1 /\ <<x>> # << >> /\ Head(<<x>>) = x
         /\ DOMAIN <<x>> = {1} /\ <<x>>[1] = x
OBVIOUS

RsaPlaces == {"E", "D", "N", "P", "Q", "DP", "DQ", "QINV"}

LEMMA ComponentsAre ==
  ASSUME NEW cipher, NEW part
  PROVE  Components(cipher, part) \in Seq(RsaPlaces) /\ Components(cipher, part) # << >>
<1>1. /\ RsaPublic \in Seq(RsaPlaces) /\ RsaPublic # << >>
      /\ RsaPrivate \in Seq(RsaPlaces) /\ RsaPrivate # << >>
      /\ RsaPair \in Seq(RsaPlaces) /\ RsaPair # << >>
      /\ RsaPrivateCrt \in Seq(RsaPlaces) /\ RsaPrivateCrt # << >>
  BY DEF RsaPublic, RsaPrivate, RsaPair, RsaPrivateCrt, RsaPlaces
<1>2. RsaPairCrt \in Seq(RsaPlaces) /\ RsaPairCrt # << >>
  <2> DEFINE s == <<"P", "Q", "DP", "DQ", "QINV">>
  <2>1. s \in Seq(RsaPlaces) /\ Len(s) = 5
    BY DEF RsaPlaces
  <2>2. RsaPairPublic \in Seq(RsaPlaces) /\ Len(RsaPairPublic) = 2
    BY DEF RsaPlaces, RsaPairPublic
  <2> HIDE DEF s
  <2>3. s \o RsaPairPublic \in Seq(RsaPlaces) /\ Len(s \o RsaPairPublic) = 7
    <3>1. PICK u \in Seq(RsaPlaces), v \in Seq(RsaPlaces) : u = s /\ v = RsaPairPublic
      BY <2>1, <2>2
    <3>2. u \o v \in Seq(RsaPlaces) /\ Len(u \o v) = Len(u) + Len(v)
      BY ConcatProperties
    <3> QED BY <3>1, <3>2, <2>1, <2>2
  <2>4. s \o RsaPairPublic # << >>
    BY <2>3, EmptySeq
  <2> QED BY <2>3, <2>4 DEF RsaPairCrt, s
<1> QED BY <1>1, <1>2 DEF Components

LEMMA UnionOfSeq ==
  ASSUME NEW s, s \in Seq(SUBSET UNION Range(s)) \/ \E S : s \in Seq(S)
  PROVE  s \in Seq(SUBSET UNION Range(s))
<1> SUFFICES ASSUME NEW S, s \in Seq(S) PROVE s \in Seq(SUBSET UNION Range(s))
  OBVIOUS
<1>1. DOMAIN s = 1 .. Len(s) /\ Len(s) \in Nat /\ s = [i \in 1 .. Len(s) |-> s[i]]
  OBVIOUS
<1>2. \A i \in 1 .. Len(s) : s[i] \in SUBSET UNION Range(s)
  BY <1>1 DEF Range
<1> QED BY <1>1, <1>2

LEMMA WritesAre ==
  ASSUME NEW cipher, NEW part, NEW n \in Nat
  PROVE  /\ Writes(cipher, part, n) \in Seq(SUBSET AllPlaces(cipher, part, n))
         /\ UNION Range(Writes(cipher, part, n)) = AllPlaces(cipher, part, n)
         /\ Writes(cipher, part, n) = << >> <=> IsFile(cipher) /\ n = 0
         /\ IsEC(cipher) => Len(Writes(cipher, part, n)) = 1
         /\ ~IsFile(cipher) => AllPlaces(cipher, part, n) \subseteq KeyPlaces
         /\ IsRSA(cipher) => AllPlaces(cipher, part, n) \subseteq RsaPlaces
<1> DEFINE W == Writes(cipher, part, n)
<1>1. CASE IsFile(cipher)
  <2>1. ~IsEC(cipher) /\ ~IsRSA(cipher)
    BY <1>1 DEF IsFile, IsEC, IsRSA
  <2>2. W = Pieces(n) /\ AllPlaces(cipher, part, n) = 1 .. n
    BY <1>1, <2>1 DEF Writes, AllPlaces
  <2> QED BY <1>1, <2>1, <2>2, PiecesCover
<1>2. CASE IsEC(cipher)
  <2>1. ~IsFile(cipher) /\ ~IsRSA(cipher)
    BY <1>2 DEF IsFile, IsEC, IsRSA
  <2>2. W = <<EcParts(part)>> /\ EcParts(part) \in SUBSET KeyPlaces
    BY <1>2, <2>1 DEF Writes, EcParts, KeyPlaces
  <2>3. W \in Seq(SUBSET KeyPlaces) /\ Len(W) = 1 /\ W # << >>
    BY <2>2, SetOfOne
  <2> QED BY <2>1, <2>2, <2>3, UnionOfSeq, SetOfOne DEF AllPlaces, Range
<1>3. CASE IsRSA(cipher)
  <2>1. ~IsFile(cipher) /\ ~IsEC(cipher)
    BY <1>3 DEF IsFile, IsEC, IsRSA
  <2>2. PICK s \in Seq(RsaPlaces) : s = Components(cipher, part) /\ s # << >>
    BY ComponentsAre
  <2>3. W = [i \in DOMAIN s |-> {s[i]}]
    BY <1>3, <2>1, <2>2 DEF Writes
  <2>4. W \in Seq(SUBSET RsaPlaces) /\ W # << >>
    <3>1. DOMAIN s = 1 .. Len(s) /\ Len(s) \in Nat /\ \A i \in 1 .. Len(s) : s[i] \in RsaPlaces
      OBVIOUS
    <3>2. Len(s) > 0
      BY <2>2, <3>1, EmptySeq
    <3> QED BY <2>3, <3>1, <3>2
  <2>5. UNION Range(W) \subseteq RsaPlaces
    BY <2>4 DEF Range
  <2> QED BY <2>1, <2>4, <2>5, UnionOfSeq DEF AllPlaces, RsaPlaces, KeyPlaces
<1>4. CASE ~IsFile(cipher) /\ ~IsEC(cipher) /\ ~IsRSA(cipher)
  <2>2. W = <<{"key"}>> /\ {"key"} \in SUBSET KeyPlaces
    BY <1>4 DEF Writes, KeyPlaces
  <2>3. W \in Seq(SUBSET KeyPlaces) /\ Len(W) = 1 /\ W # << >>
    BY <2>2, SetOfOne
  <2> QED BY <1>4, <2>2, <2>3, UnionOfSeq, SetOfOne DEF AllPlaces, Range
<1> QED BY <1>1, <1>2, <1>3, <1>4

\* The type of the object that a handle stands for.
LEMMA TypeOfHandle ==
  ASSUME NEW r, r.cipherType \in Ciphers
  PROVE  /\ SecureObjectType(r) \in SeCiphers
         /\ SecureObjectType(r) = "Binary" <=> IsFile(r.cipherType)
         /\ IsEC(SecureObjectType(r)) <=> IsEC(r.cipherType)
         /\ IsRSA(SecureObjectType(r)) <=> IsRSA(r.cipherType)
BY DEF SecureObjectType, SeCiphers, Ciphers, IsFile, IsEC, IsRSA

-----------------------------------------------------------------------------
(* How calls end.                                                          *)

\* A call that has failed, and had a reason: nothing more is said of it.
Failing(r) ==
    /\ Shape(r) /\ Handle(r)
    /\ r.pc = "idle" /\ r.status \notin {"running", "kStatus_SSS_Success"}
    /\ r.op \in Settles \cup {"get"} /\ r.clean => ~Fair(r)

LEMMA FailingHolds ==
  ASSUME NEW r, Failing(r)
  PROVE  ClientInv(r) /\ ClientInv(r)'
<1>1. Local(r)
  BY DEF Failing, Local, Stage, Sets, SetsEC, Gets, Counted, SetStages, CurveStages, GetStages, HandleStages
<1>2. r.clean => Global(r)
  BY DEF Failing, Global, WrittenSoFar, OnItsCurve, Lifetime, HasSet, ReadSoFar, HasRead, Describes,
         SetGoesOn, GetGoesOn, Ended, SetStages, CurveStages, GetStages
<1>3. r.clean => Global(r)'
  BY DEF Failing, Global, WrittenSoFar, OnItsCurve, Lifetime, HasSet, ReadSoFar, HasRead, Describes,
         SetGoesOn, GetGoesOn, Ended, SetStages, CurveStages, GetStages
<1> QED BY <1>1, <1>2, <1>3 DEF ClientInv, Failing

\* One field of a record set.
LEMMA Setters ==
  ASSUME NEW r, Shape(r)
  PROVE  /\ \A x \in BOOLEAN : Shape([r EXCEPT !.hasId = x])
         /\ \A x \in Ciphers \cup {None} : Shape([r EXCEPT !.cipherType = x])
         /\ \A x \in Parts \cup {None} : Shape([r EXCEPT !.objectType = x])
         /\ \A x \in AllCurves \cup {None} : Shape([r EXCEPT !.curve_id = x])
         /\ \A x \in BOOLEAN : Shape([r EXCEPT !.isPersistant = x])
         /\ \A x \in Stages : Shape([r EXCEPT !.pc = x])
         /\ \A x \in Nat : Shape([r EXCEPT !.len = x])
         /\ \A x \in BOOLEAN : Shape([r EXCEPT !.wellFormed = x])
         /\ \A x \in BOOLEAN : Shape([r EXCEPT !.attested = x])
         /\ \A x \in BOOLEAN : Shape([r EXCEPT !.first = x])
         /\ \A x \in BOOLEAN : Shape([r EXCEPT !.exists = x])
         /\ \A x \in Nat : Shape([r EXCEPT !.step = x])
         /\ \A x \in Nat : Shape([r EXCEPT !.valid_number = x])
         /\ \A x \in BOOLEAN : Shape([r EXCEPT !.faulty = x])
         /\ \A x \in BOOLEAN : Shape([r EXCEPT !.fits = x])
         /\ \A x \in BOOLEAN : Shape([r EXCEPT !.created = x])
         /\ \A x \in AllCurves \cup {None} : Shape([r EXCEPT !.asked = x])
         /\ \A x : Shape([r EXCEPT !.key = x])
         /\ \A x : Shape([r EXCEPT !.todo = x])
         /\ \A x : Shape([r EXCEPT !.got = x])
         /\ \A x : Shape([r EXCEPT !.given = x])
<1>1. \A x \in BOOLEAN : Shape([r EXCEPT !.hasId = x])
  BY DEF Shape
<1>2. \A x \in Ciphers \cup {None} : Shape([r EXCEPT !.cipherType = x])
  BY DEF Shape
<1>3. \A x \in Parts \cup {None} : Shape([r EXCEPT !.objectType = x])
  BY DEF Shape
<1>4. \A x \in AllCurves \cup {None} : Shape([r EXCEPT !.curve_id = x])
  BY DEF Shape
<1>5. \A x \in BOOLEAN : Shape([r EXCEPT !.isPersistant = x])
  BY DEF Shape
<1>6. \A x \in Stages : Shape([r EXCEPT !.pc = x])
  BY DEF Shape, Stages
<1>7. \A x \in Nat : Shape([r EXCEPT !.len = x])
  BY DEF Shape
<1>8. \A x \in BOOLEAN : Shape([r EXCEPT !.wellFormed = x])
  BY DEF Shape
<1>9. \A x \in BOOLEAN : Shape([r EXCEPT !.attested = x])
  BY DEF Shape
<1>10. \A x \in BOOLEAN : Shape([r EXCEPT !.first = x])
  BY DEF Shape
<1>11. \A x \in BOOLEAN : Shape([r EXCEPT !.exists = x])
  BY DEF Shape
<1>12. \A x \in Nat : Shape([r EXCEPT !.step = x])
  BY DEF Shape
<1>13. \A x \in Nat : Shape([r EXCEPT !.valid_number = x])
  BY DEF Shape
<1>14. \A x \in BOOLEAN : Shape([r EXCEPT !.faulty = x])
  BY DEF Shape
<1>15. \A x \in BOOLEAN : Shape([r EXCEPT !.fits = x])
  BY DEF Shape
<1>16. \A x \in BOOLEAN : Shape([r EXCEPT !.created = x])
  BY DEF Shape
<1>17. \A x \in AllCurves \cup {None} : Shape([r EXCEPT !.asked = x])
  BY DEF Shape
<1>18. \A x : Shape([r EXCEPT !.key = x])
  BY DEF Shape
<1>19. \A x : Shape([r EXCEPT !.todo = x])
  BY DEF Shape
<1>20. \A x : Shape([r EXCEPT !.got = x])
  BY DEF Shape
<1>21. \A x : Shape([r EXCEPT !.given = x])
  BY DEF Shape
<1> QED BY <1>1, <1>2, <1>3, <1>4, <1>5, <1>6, <1>7, <1>8, <1>9, <1>10, <1>11, <1>12, <1>13, <1>14,
           <1>15, <1>16, <1>17, <1>18, <1>19, <1>20, <1>21

LEMMA StagesAre ==
  /\ {"idle", "allocateCheck", "erase"} \subseteq Stages
  /\ SetStages \subseteq Stages /\ GetStages \subseteq Stages /\ HandleStages \subseteq Stages
  /\ CurveStages \subseteq SetStages /\ {"keyCheck", "curveGetId", "write"} \subseteq SetStages
  /\ {"curveMont", "curveList", "curveCreate"} \subseteq CurveStages
  /\ {"readSize", "read"} \subseteq GetStages
  /\ {"handleCheck", "readType", "typeCurve"} \subseteq HandleStages
BY DEF Stages, SetStages, CurveStages, GetStages, HandleStages


\* What the end of a call leaves.
Kept(n, r) ==
    /\ n.hasId = r.hasId /\ n.cipherType = r.cipherType /\ n.objectType = r.objectType
    /\ n.curve_id = r.curve_id /\ n.isPersistant = r.isPersistant /\ n.mode = r.mode
    /\ n.op = r.op /\ n.attested = r.attested /\ n.valid_number = r.valid_number
    /\ n.clean = r.clean /\ n.fits = r.fits /\ n.created = r.created

LEMMA EndsIs ==
  ASSUME NEW r, Shape(r), NEW st \in Statuses, NEW n, n = Ends(r, st)
  PROVE  /\ Shape(n) /\ n.pc = "idle" /\ n.status = st /\ Kept(n, r)
         /\ n.got = r.got /\ n.given = r.given /\ n.faulty = r.faulty
<1>1. n = [r EXCEPT !.pc = "idle", !.status = st, !.key = None, !.len = 0, !.asked = None,
              !.wellFormed = TRUE, !.todo = <<>>, !.first = FALSE,
              !.exists = FALSE, !.step = 0]
  BY DEF Ends
<1>2. 0 \in Nat
  OBVIOUS
<1>3. Shape(n)
  <2>1. PICK k, l, m : /\ k = [[[r EXCEPT !.pc = "idle"] EXCEPT !.key = None] EXCEPT !.len = 0]
                       /\ l = [[[k EXCEPT !.asked = None] EXCEPT !.wellFormed = TRUE] EXCEPT !.todo = <<>>]
                       /\ m = [[[l EXCEPT !.first = FALSE] EXCEPT !.exists = FALSE] EXCEPT !.step = 0]
    OBVIOUS
  <2>2. Shape(k)
    BY <2>1, <1>2, Setters, StagesAre
  <2>3. Shape(l)
    BY <2>1, <2>2, Setters
  <2>4. Shape(m)
    BY <2>1, <2>3, <1>2, Setters
  <2>5. n = [m EXCEPT !.status = st]
    BY <1>1, <2>1 DEF Shape
  <2> QED BY <2>4, <2>5 DEF Shape
<1>4. n.pc = "idle" /\ n.status = st /\ Kept(n, r)
  BY <1>1 DEF Shape, Kept
<1>5. n.got = r.got /\ n.given = r.given /\ n.faulty = r.faulty
  BY <1>1 DEF Shape
<1> QED BY <1>3, <1>4, <1>5

LEMMA SuccessIs ==
  ASSUME NEW r, Shape(r), NEW n, n = Success(r)
  PROVE  /\ Shape(n) /\ n.pc = "idle" /\ n.status = "kStatus_SSS_Success" /\ Kept(n, r)
         /\ n.got = r.got /\ n.given = r.given /\ n.faulty = r.faulty
BY EndsIs DEF Success, Statuses

LEMMA FailIs ==
  ASSUME NEW r, Shape(r), NEW s, NEW n, n \in {Fails(r), FailsWith(r, s)}
  PROVE  /\ Shape(n) /\ n.pc = "idle" /\ Kept(n, r) /\ n.faulty = r.faulty
         /\ n.status \in {"kStatus_SSS_Fail", "kStatus_SSS_ApduThroughputError"}
<1> DEFINE q == [r EXCEPT !.got = <<>>, !.given = <<>>]
           e == Ends(q, "kStatus_SSS_Fail")
<1>1. Shape(q) /\ Kept(q, r) /\ q.faulty = r.faulty
  BY DEF Shape, Kept
<1> HIDE DEF q
<1>2. /\ Shape(e) /\ e.pc = "idle" /\ e.status = "kStatus_SSS_Fail" /\ Kept(e, q)
      /\ e.faulty = q.faulty
  BY <1>1, EndsIs DEF Statuses
<1>3. Fails(r) = e
  BY DEF Fails, q
<1> HIDE DEF e
<1>4. Kept(e, r) /\ e.faulty = r.faulty
  BY <1>1, <1>2 DEF Kept
<1>5. CASE n = e
  BY <1>2, <1>4, <1>5
<1>6. CASE n = [e EXCEPT !.status = "kStatus_SSS_ApduThroughputError"]
  <2>1. Shape(n) /\ n.status = "kStatus_SSS_ApduThroughputError" /\ n.pc = "idle" /\ n.faulty = e.faulty
    BY <1>2, <1>6 DEF Shape, Statuses
  <2>2. Kept(n, e)
    BY <1>2, <1>6 DEF Shape, Kept
  <2> QED BY <2>1, <2>2, <1>4 DEF Kept
<1> QED BY <1>3, <1>5, <1>6 DEF FailsWith

LEMMA Fail ==
  ASSUME NEW r, Shape(r), Handle(r), NEW s, NEW n, n \in {Fails(r), FailsWith(r, s)},
         r.op \in Settles \cup {"get"} /\ r.clean => ~Fair(r)
  PROVE  Failing(n)
<1>1. /\ Shape(n) /\ n.pc = "idle" /\ Kept(n, r) /\ n.faulty = r.faulty
      /\ n.status \in {"kStatus_SSS_Fail", "kStatus_SSS_ApduThroughputError"}
  BY FailIs
<1> QED BY <1>1 DEF Failing, Kept, Handle, Fair

LEMMA FaultFail ==
  ASSUME NEW r, Shape(r), Handle(r), NEW s, NEW f, f \in {Fails(r), FailsWith(r, s)},
         NEW n, n = [f EXCEPT !.faulty = TRUE]
  PROVE  Failing(n)
<1>1. /\ Shape(f) /\ f.pc = "idle" /\ Kept(f, r)
      /\ f.status \in {"kStatus_SSS_Fail", "kStatus_SSS_ApduThroughputError"}
  BY FailIs
<1>2. Shape(n) /\ n.pc = "idle" /\ n.status = f.status /\ n.faulty = TRUE
  BY <1>1 DEF Shape
<1>3. Kept(n, f)
  BY <1>1 DEF Shape, Kept
<1> QED BY <1>1, <1>2, <1>3 DEF Failing, Kept, Handle, Fair

-----------------------------------------------------------------------------
(* Steps.                                                                  *)

\* What another client's step does to a client.
LEMMA OthersKeep ==
  ASSUME NEW r, ClientInv(r), NEW b \in BOOLEAN, b => r.clean, b => ~Changed,
         NEW n, n = [r EXCEPT !.clean = b]
  PROVE  ClientInv(n)'
<1>1. Shape(n) /\ n.clean = b
  BY DEF ClientInv, Shape
<1>2. /\ n.hasId = r.hasId /\ n.cipherType = r.cipherType /\ n.objectType = r.objectType
      /\ n.curve_id = r.curve_id /\ n.isPersistant = r.isPersistant /\ n.mode = r.mode
      /\ n.op = r.op /\ n.attested = r.attested /\ n.valid_number = r.valid_number
      /\ n.fits = r.fits /\ n.created = r.created /\ n.pc = r.pc /\ n.status = r.status
  BY DEF ClientInv, Shape
<1>3. /\ n.key = r.key /\ n.len = r.len
      /\ n.asked = r.asked /\ n.wellFormed = r.wellFormed /\ n.todo = r.todo /\ n.first = r.first
      /\ n.exists = r.exists /\ n.step = r.step /\ n.got = r.got /\ n.given = r.given /\ n.faulty = r.faulty
  BY DEF ClientInv, Shape
<1>4. Given(n) = Given(r) /\ Left(n) = Left(r) /\ SecureObjectPart(n) = SecureObjectPart(r)
  BY <1>2, <1>3 DEF Given, Left, SecureObjectPart
<1>5. Local(n)
  <2>1. Handle(n) /\ Stage(n)
    BY <1>2 DEF ClientInv, Local, Handle, Stage
  <2>2. Sets(n)
    BY <1>2, <1>3, <1>4 DEF ClientInv, Local, Sets
  <2>3. SetsEC(n) /\ Gets(n) /\ Counted(n)
    BY <1>2, <1>3 DEF ClientInv, Local, SetsEC, Gets, Counted
  <2> QED BY <2>1, <2>2, <2>3 DEF Local
<1>6. ASSUME b
      PROVE  Global(n)'
  <2>1. Global(r) /\ object' = object /\ curve' = curve
    BY <1>6 DEF ClientInv, Changed
  <2>2. (WrittenSoFar(n) /\ OnItsCurve(n) /\ Lifetime(n) /\ HasSet(n))'
    BY <2>1, <1>2, <1>3, <1>4 DEF Global, WrittenSoFar, OnItsCurve, Lifetime, HasSet, InSE
  <2>3. (ReadSoFar(n) /\ HasRead(n) /\ Describes(n))'
    BY <2>1, <1>2, <1>3, <1>4 DEF Global, ReadSoFar, HasRead, Describes, SeenAt, Readable
  <2>4. Fair(n) <=> Fair(r)
    BY <1>2, <1>3 DEF Fair
  <2>5. ASSUME Fair(n) PROVE SetGoesOn(n)'
    <3>1. SetGoesOn(r)
      BY <2>1, <2>4, <2>5 DEF Global
    <3>2. SecureObjectType(n) = SecureObjectType(r) /\ SecureObjectPart(n) = SecureObjectPart(r)
      BY <1>2 DEF SecureObjectType, SecureObjectPart
    <3>3. Overwrites(r, Left(r)) => Overwrites(n, Left(n))'
      BY <2>1, <3>2, <1>2, <1>4 DEF Overwrites, SameKind
    <3>4. CurveReady(r) => CurveReady(n)'
      BY <2>1, <1>2, <1>3 DEF CurveReady, Usable
    <3> QED BY <3>1, <3>3, <3>4, <2>1, <1>2, <1>3 DEF SetGoesOn
  <2>6. ASSUME Fair(n) PROVE (GetGoesOn(n) /\ Ended(n))'
    <3>1. GetGoesOn(r) /\ Ended(r)
      BY <2>1, <2>4, <2>6 DEF Global
    <3>2. SecureObjectType(n) = SecureObjectType(r) /\ SecureObjectPart(n) = SecureObjectPart(r)
      BY <1>2 DEF SecureObjectType, SecureObjectPart
    <3>3. SameKind(r) => SameKind(n)'
      BY <2>1, <3>2, <1>2 DEF SameKind
    <3>4. Readable' = Readable
      BY <2>1 DEF Readable
    <3>5. CanRead(r) => CanRead(n)'
      BY <3>3, <3>4, <1>2 DEF CanRead, Needed
    <3> QED BY <3>1, <3>5, <1>2 DEF GetGoesOn, Ended
  <2> QED BY <2>2, <2>3, <2>5, <2>6 DEF Global
<1> QED BY <1>1, <1>5, <1>6 DEF ClientInv

\* A step of one client, given what becomes of the SE and of that client.
LEMMA ClientStep ==
  ASSUME IInv, NEW c \in Clients, NEW n, Continue(c, n), SeTyped', ClientInv(n)'
  PROVE  IInv'
<1>1. client' = [d \in Clients |-> IF d = c THEN n ELSE [client[d] EXCEPT !.clean = @ /\ ~Changed]]
  BY DEF Continue
<1>2. ASSUME NEW d \in Clients
      PROVE  ClientInv(client[d])'
  <2>1. CASE d = c
    BY <1>1, <2>1
  <2>2. CASE d # c
    <3>1. PICK r : r = client[d]
      OBVIOUS
    <3>2. PICK b : b = (r.clean /\ ~Changed)
      OBVIOUS
    <3>3. ClientInv(r)
      BY <3>1 DEF IInv
    <3>4. b \in BOOLEAN /\ (b => r.clean) /\ (b => ~Changed)
      BY <3>2
    <3>5. client'[d] = [r EXCEPT !.clean = b]
      BY <1>1, <2>2, <3>1, <3>2
    <3>6. PICK m : m = [r EXCEPT !.clean = b]
      OBVIOUS
    <3>7. ClientInv(m)'
      BY <3>3, <3>4, <3>6, OthersKeep
    <3> QED BY <3>5, <3>6, <3>7
  <2> QED BY <2>1, <2>2
<1>3. (client = [d \in Clients |-> client[d]])'
  BY <1>1
<1> QED BY <1>2, <1>3 DEF IInv

\* A step that leaves the SE as it is.
LEMMA QuietStep ==
  ASSUME IInv, NEW c \in Clients, NEW n, UNCHANGED <<object, curve>>, ClientInv(n),
         \/ Continue(c, n)
         \/ client' = [client EXCEPT ![c] = n]
  PROVE  IInv'
<1>1. n.clean \in BOOLEAN /\ n = [n EXCEPT !.clean = n.clean]
  BY DEF ClientInv, Shape
<1>2. ~Changed
  BY DEF Changed
<1>3. ClientInv(n)'
  <2>1. PICK b : b = n.clean
    OBVIOUS
  <2> QED BY <2>1, <1>1, <1>2, OthersKeep
<1>4. SeTyped'
  BY DEF IInv, SeTyped, CiphersOf
<1>5. CASE Continue(c, n)
  BY <1>3, <1>4, <1>5, ClientStep
<1>6. CASE client' = [client EXCEPT ![c] = n]
  <2>1. Continue(c, n)
    <3>1. ASSUME NEW d \in Clients
          PROVE  client'[d] = IF d = c THEN n ELSE [client[d] EXCEPT !.clean = @ /\ ~Changed]
      <4>1. client[d].clean \in BOOLEAN /\ client[d] = [client[d] EXCEPT !.clean = client[d].clean]
        BY DEF IInv, ClientInv, Shape
      <4>2. (client[d].clean /\ ~Changed) = client[d].clean
        BY <4>1, <1>2
      <4> QED BY <1>6, <4>1, <4>2 DEF IInv
    <3>2. client' = [d \in Clients |-> client'[d]]
      BY <1>6 DEF IInv
    <3> QED BY <3>1, <3>2 DEF Continue
  <2> QED BY <2>1, <1>3, <1>4, ClientStep
<1> QED BY <1>5, <1>6
-----------------------------------------------------------------------------
(* Calls begin.                                                            *)

LEMMA CalledIs ==
  ASSUME IInv, NEW c \in Clients, client[c].pc = "idle", NEW n,
         NEW op \in {"allocate", "getHandle", "get", "erase"} \cup Settles, n = Called(c, op)
  PROVE  /\ Shape(n) /\ Handle(n)
         /\ n.hasId = client[c].hasId /\ n.cipherType = client[c].cipherType
         /\ n.objectType = client[c].objectType /\ n.curve_id = client[c].curve_id
         /\ n.isPersistant = client[c].isPersistant /\ n.mode = client[c].mode
         /\ n.op = op /\ n.pc = "idle" /\ n.status = "running" /\ n.key = None /\ n.len = 0
         /\ n.asked = None /\ n.wellFormed /\ ~n.attested /\ n.first /\ ~n.exists
         /\ n.got = << >> /\ n.given = << >> /\ n.valid_number = 0
         /\ ~n.faulty /\ n.clean /\ n.fits /\ ~n.created
<1> DEFINE r == client[c]
<1>1. Shape(r) /\ Handle(r) /\ r.pc = "idle"
  BY DEF IInv, ClientInv, Local
<1> HIDE DEF r
<1>2. PICK k : k = [r EXCEPT !.op = op, !.status = "running", !.key = None, !.len = 0]
  OBVIOUS
<1>3. PICK q : q = [k EXCEPT !.asked = None, !.got = <<>>, !.given = <<>>, !.valid_number = 0]
  OBVIOUS
<1>4. Shape(k)
  <2>1. ASSUME NEW m, Shape(m)
        PROVE  Shape([m EXCEPT !.op = op]) /\ Shape([m EXCEPT !.status = "running"])
    <3>1. Shape([m EXCEPT !.op = op])
      BY <2>1 DEF Shape
    <3>2. Shape([m EXCEPT !.status = "running"])
      BY <2>1 DEF Shape, Statuses
    <3> QED BY <3>1, <3>2
  <2>2. PICK l : l = [r EXCEPT !.key = None, !.len = 0]
    OBVIOUS
  <2>3. 0 \in Nat
    OBVIOUS
  <2>4. Shape(l)
    BY <1>1, <2>2, <2>3 DEF Shape
  <2>5. k = [[l EXCEPT !.op = op] EXCEPT !.status = "running"]
    BY <1>1, <1>2, <2>2 DEF Shape
  <2> QED BY <2>1, <2>4, <2>5
<1>5. Shape(q)
  <2>1. 0 \in Nat
    OBVIOUS
  <2>2. PICK l : l = [k EXCEPT !.asked = None, !.valid_number = 0]
    OBVIOUS
  <2>3. Shape(l)
    BY <2>1, <2>2, <1>4 DEF Shape
  <2>4. q = [l EXCEPT !.got = <<>>, !.given = <<>>]
    BY <1>3, <2>2, <1>4 DEF Shape
  <2> QED BY <2>3, <2>4 DEF Shape
<1>6. ASSUME NEW b \in BOOLEAN, NEW m, Shape(m)
      PROVE  /\ Shape([m EXCEPT !.wellFormed = b]) /\ Shape([m EXCEPT !.attested = b])
             /\ Shape([m EXCEPT !.first = b]) /\ Shape([m EXCEPT !.exists = b])
             /\ Shape([m EXCEPT !.faulty = b]) /\ Shape([m EXCEPT !.clean = b])
             /\ Shape([m EXCEPT !.fits = b]) /\ Shape([m EXCEPT !.created = b])
  <2>1. Shape([m EXCEPT !.wellFormed = b])
    BY <1>6 DEF Shape
  <2>2. Shape([m EXCEPT !.attested = b])
    BY <1>6 DEF Shape
  <2>3. Shape([m EXCEPT !.first = b])
    BY <1>6 DEF Shape
  <2>4. Shape([m EXCEPT !.exists = b])
    BY <1>6 DEF Shape
  <2>5. Shape([m EXCEPT !.faulty = b])
    BY <1>6 DEF Shape
  <2>6. Shape([m EXCEPT !.clean = b])
    BY <1>6 DEF Shape
  <2>7. Shape([m EXCEPT !.fits = b])
    BY <1>6 DEF Shape
  <2>8. Shape([m EXCEPT !.created = b])
    BY <1>6 DEF Shape
  <2> QED BY <2>1, <2>2, <2>3, <2>4, <2>5, <2>6, <2>7, <2>8
<1>7. n = [[[[[[[[q EXCEPT !.wellFormed = TRUE] EXCEPT !.attested = FALSE] EXCEPT !.first = TRUE]
             EXCEPT !.exists = FALSE] EXCEPT !.faulty = FALSE] EXCEPT !.clean = TRUE]
             EXCEPT !.fits = TRUE] EXCEPT !.created = FALSE]
  BY <1>2, <1>3, <1>1 DEF Called, r, Shape
<1>8. Shape(n)
  BY <1>5, <1>6, <1>7
<1>9. /\ n.hasId = r.hasId /\ n.cipherType = r.cipherType
      /\ n.objectType = r.objectType /\ n.curve_id = r.curve_id
      /\ n.isPersistant = r.isPersistant /\ n.mode = r.mode
      /\ n.op = op /\ n.pc = "idle" /\ n.status = "running" /\ n.key = None /\ n.len = 0
      /\ n.asked = None /\ n.wellFormed /\ ~n.attested /\ n.first /\ ~n.exists
  BY <1>1, <1>2, <1>3, <1>7 DEF Shape
<1>10. /\ n.got = << >> /\ n.given = << >> /\ n.valid_number = 0
       /\ ~n.faulty /\ n.clean /\ n.fits /\ ~n.created
  BY <1>1, <1>2, <1>3, <1>7 DEF Shape
<1>11. Handle(n)
  BY <1>1, <1>9, <1>10 DEF Handle
<1> QED BY <1>8, <1>9, <1>10, <1>11 DEF r

\* Calls of which nothing is said but how they stand.
LEMMA PlainHolds ==
  ASSUME NEW n, Shape(n), Handle(n), Stage(n), n.pc \in {"allocateCheck", "erase", "handleCheck"}
  PROVE  ClientInv(n)
<1>1. n.pc \notin SetStages \cup GetStages /\ n.status = "running"
  BY DEF SetStages, CurveStages, GetStages, Stage
<1>2. Local(n)
  BY <1>1 DEF Local, Sets, SetsEC, Gets, Counted, SetStages, CurveStages, GetStages
<1>3. Global(n)
  BY <1>1 DEF Global, WrittenSoFar, OnItsCurve, Lifetime, HasSet, ReadSoFar, HasRead, Describes,
              SetGoesOn, GetGoesOn, Ended, SetStages, CurveStages, GetStages
<1> QED BY <1>2, <1>3 DEF ClientInv

LEMMA PlainSuccess ==
  ASSUME NEW n, Shape(n), Handle(n), n.pc = "idle", n.status \in {"none", "kStatus_SSS_Success"},
         n.op \in {"none", "allocate", "erase"}
  PROVE  ClientInv(n) /\ ClientInv(n)'
<1>1. n.pc \notin SetStages \cup GetStages \cup HandleStages
  BY DEF SetStages, CurveStages, GetStages, HandleStages
<1>2. n.op \notin Settles \cup {"get", "getHandle"}
  BY DEF Settles
<1>3. Local(n)
  BY <1>1, <1>2 DEF Local, Sets, SetsEC, Gets, Counted, SetStages, CurveStages, GetStages, Stage
<1>4. Global(n)
  BY <1>1, <1>2 DEF Global, WrittenSoFar, OnItsCurve, Lifetime, HasSet, ReadSoFar, HasRead, Describes,
              SetGoesOn, GetGoesOn, Ended, SetStages, CurveStages, GetStages
<1>5. Global(n)'
  BY <1>1, <1>2 DEF Global, WrittenSoFar, OnItsCurve, Lifetime, HasSet, ReadSoFar, HasRead, Describes,
              SetGoesOn, GetGoesOn, Ended, SetStages, CurveStages, GetStages
<1> QED BY <1>3, <1>4, <1>5 DEF ClientInv

-----------------------------------------------------------------------------
(* Handles.                                                                *)

LEMMA NoHandleHolds ==
  ClientInv(NoHandle) /\ ClientInv(NoHandle)'
<1>1. PICK n : n = NoHandle
  OBVIOUS
<1>2. n = [hasId |-> FALSE, cipherType |-> None, objectType |-> None, curve_id |-> None,
     isPersistant |-> FALSE, mode |-> None,
     op |-> "none", pc |-> "idle", status |-> "none", key |-> None, len |-> 0, asked |-> None,
     wellFormed |-> TRUE, attested |-> FALSE, todo |-> <<>>, first |-> FALSE, exists |-> FALSE,
     step |-> 0, got |-> <<>>, given |-> <<>>, valid_number |-> 0,
     faulty |-> FALSE, clean |-> TRUE, fits |-> TRUE, created |-> FALSE]
  BY <1>1 DEF NoHandle
<1>3. Shape(n)
  <2>1. /\ FALSE \in BOOLEAN /\ TRUE \in BOOLEAN /\ 0 \in Nat
        /\ None \in Ciphers \cup {None} /\ None \in Parts \cup {None} /\ None \in AllCurves \cup {None}
        /\ None \in {None, 0, 1, 2} /\ "none" \in {"none", "allocate", "getHandle", "get", "erase"} \cup Settles
        /\ "idle" \in Stages /\ "none" \in Statuses
    BY StagesAre DEF Statuses
  <2> QED BY <1>2, <2>1, Zenon DEF Shape
<1>4. ~n.hasId /\ n.cipherType = None /\ ~n.isPersistant /\ ~n.created /\ n.pc = "idle"
      /\ n.status = "none" /\ n.op = "none"
  BY <1>2
<1>5. ClientInv(n) /\ ClientInv(n)'
  BY <1>3, <1>4, PlainSuccess DEF Handle
<1>6. NoHandle = n /\ NoHandle' = n
  BY <1>2 DEF NoHandle
<1> QED BY <1>5, <1>6

LEMMA InitHolds ==
  ASSUME Init
  PROVE  IInv
<1>1. client = [c \in Clients |-> NoHandle]
  BY DEF Init
<1>2. SeTyped
  BY DEF Init, SeTyped
<1> QED BY <1>1, <1>2, NoHandleHolds DEF IInv

LEMMA StartStep ==
  ASSUME IInv, NEW c \in Clients, NEW n, NEW kind, NEW most, Starts(c, n, kind, most), ClientInv(n)
  PROVE  IInv'
BY QuietStep DEF Starts

LEMMA KeyObjectInitStep ==
  ASSUME IInv, NEW c \in Clients, KeyObjectInit(c)
  PROVE  IInv'
<1>1. PICK n : n = NoHandle
  OBVIOUS
<1>2. client' = [client EXCEPT ![c] = n] /\ UNCHANGED <<object, curve>>
  BY <1>1 DEF KeyObjectInit
<1>3. ClientInv(n)
  BY <1>1, NoHandleHolds
<1> QED BY <1>2, <1>3, QuietStep

LEMMA AllocateHandleStep ==
  ASSUME IInv, NEW c \in Clients, AllocateHandle(c)
  PROVE  IInv'
<1>1. PICK kind \in Kinds :
         /\ ~client[c].hasId
         /\ CallsHandle(c, [Called(c, "allocate") EXCEPT
            !.hasId = TRUE, !.cipherType = kind[1], !.objectType = kind[2], !.mode = kind[3],
            !.isPersistant = @ \/ kind[3] = kKeyObject_Mode_Persistent, !.pc = "allocateCheck"])
  BY DEF AllocateHandle
<1>2. PICK q : q = Called(c, "allocate")
  OBVIOUS
<1>3. PICK b \in BOOLEAN : b <=> q.isPersistant \/ kind[3] = 1
  OBVIOUS
<1>4. client[c].pc = "idle"
  BY <1>1 DEF CallsHandle, Starts
<1>5. /\ Shape(q) /\ ~q.hasId /\ q.op = "allocate" /\ q.status = "running" /\ ~q.created
  BY <1>1, <1>2, <1>4, CalledIs
<1>6. kind[1] \in Ciphers /\ kind[2] \in Parts /\ kind[3] \in {0, 1, 2}
  BY KindsAssumption
<1>7. (q.isPersistant \/ kind[3] = kKeyObject_Mode_Persistent) = b
  BY <1>3, <1>5 DEF kKeyObject_Mode_Persistent, Shape
<1>8. PICK n : n = [[[[q EXCEPT !.hasId = TRUE] EXCEPT !.isPersistant = b]
                  EXCEPT !.cipherType = kind[1], !.objectType = kind[2]] EXCEPT !.mode = kind[3], !.pc = "allocateCheck"]
  OBVIOUS
<1>9. n = [q EXCEPT !.hasId = TRUE, !.cipherType = kind[1], !.objectType = kind[2], !.mode = kind[3],
                    !.isPersistant = @ \/ kind[3] = kKeyObject_Mode_Persistent, !.pc = "allocateCheck"]
  BY <1>7, <1>8, <1>5 DEF Shape
<1>10. Shape(n)
  <2>1. ASSUME NEW m, Shape(m), NEW x \in BOOLEAN
        PROVE  Shape([m EXCEPT !.hasId = x]) /\ Shape([m EXCEPT !.isPersistant = x])
    <3>1. Shape([m EXCEPT !.hasId = x])
      BY <2>1 DEF Shape
    <3>2. Shape([m EXCEPT !.isPersistant = x])
      BY <2>1 DEF Shape
    <3> QED BY <3>1, <3>2
  <2>2. PICK k : k = [[q EXCEPT !.hasId = TRUE] EXCEPT !.isPersistant = b]
    OBVIOUS
  <2>3. Shape(k)
    BY <2>1, <2>2, <1>5
  <2>4. PICK l : l = [k EXCEPT !.cipherType = kind[1], !.objectType = kind[2]]
    OBVIOUS
  <2>5. Shape(l)
    BY <2>3, <2>4, <1>6 DEF Shape
  <2>6. n = [l EXCEPT !.mode = kind[3], !.pc = "allocateCheck"]
    BY <1>8, <2>2, <2>4
  <2>7. Shape([l EXCEPT !.mode = kind[3]])
    BY <2>5, <1>6 DEF Shape
  <2>8. n = [[l EXCEPT !.mode = kind[3]] EXCEPT !.pc = "allocateCheck"]
    BY <2>5, <2>6 DEF Shape
  <2> QED BY <2>7, <2>8, Setters, StagesAre
<1>11. /\ n.hasId /\ n.mode = kind[3] /\ n.isPersistant = b /\ ~n.created /\ n.pc = "allocateCheck"
       /\ n.op = "allocate" /\ n.status = "running"
  BY <1>5, <1>8 DEF Shape
<1>12. Handle(n) /\ Stage(n)
  BY <1>3, <1>11 DEF Handle, Stage, HandleStages, GetStages, SetStages, CurveStages
<1>13. ClientInv(n)
  BY <1>10, <1>11, <1>12, PlainHolds
<1>14. Starts(c, n, "handles", MaxHandles)
  BY <1>1, <1>2, <1>9 DEF CallsHandle
<1> QED BY <1>13, <1>14, StartStep

LEMMA AllocateCheckedStep ==
  ASSUME IInv, NEW c \in Clients, AllocateChecked(c)
  PROVE  IInv'
<1>1. PICK r : r = client[c]
  OBVIOUS
<1>2. ClientInv(r) /\ r.pc = "allocateCheck"
  BY <1>1 DEF IInv, AllocateChecked
<1>3. Shape(r) /\ Handle(r) /\ r.op = "allocate"
  BY <1>2 DEF ClientInv, Local, Stage
<1> DEFINE Then(s) == IF s = "SM_OK" THEN Success(r) ELSE FailsWith(r, s)
<1>4. PICK n : /\ Continue(c, n) /\ UNCHANGED <<object, curve>>
               /\ \/ n = Then("SM_OK")
                  \/ \E s \in Errors : n = [Then(s) EXCEPT !.faulty = TRUE]
  BY <1>1 DEF AllocateChecked, Asks, Exchange
<1>5. n = Success(r) \/ \E s \in Errors : n = [FailsWith(r, s) EXCEPT !.faulty = TRUE]
  BY <1>4 DEF Errors
<1> HIDE DEF Then
<1>6. CASE n = Success(r)
  <2>1. /\ Shape(n) /\ n.pc = "idle" /\ n.status = "kStatus_SSS_Success" /\ Kept(n, r)
    BY <1>6, <1>3, SuccessIs
  <2>2. Handle(n) /\ n.op = "allocate"
    BY <2>1, <1>3 DEF Kept, Handle
  <2> QED BY <2>1, <2>2, <1>4, PlainSuccess, QuietStep
<1>7. CASE \E s \in Errors : n = [FailsWith(r, s) EXCEPT !.faulty = TRUE]
  BY <1>7, <1>3, <1>4, FaultFail, FailingHolds, QuietStep
<1> QED BY <1>5, <1>6, <1>7

LEMMA GetHandleStep ==
  ASSUME IInv, NEW c \in Clients, GetHandle(c)
  PROVE  IInv'
<1>1. ~client[c].hasId /\ client[c].pc = "idle"
  BY DEF GetHandle, CallsHandle, Starts
<1>2. PICK q : q = Called(c, "getHandle")
  OBVIOUS
<1>3. /\ Shape(q) /\ Handle(q) /\ ~q.hasId /\ q.op = "getHandle" /\ q.status = "running" /\ ~q.created
  BY <1>1, <1>2, CalledIs
<1>4. PICK n : n = [q EXCEPT !.mode = None, !.pc = "handleCheck"]
  OBVIOUS
<1>5. Shape(n)
  <2>1. Shape([q EXCEPT !.mode = None])
    BY <1>3 DEF Shape
  <2>2. n = [[q EXCEPT !.mode = None] EXCEPT !.pc = "handleCheck"]
    BY <1>3, <1>4 DEF Shape
  <2> QED BY <2>1, <2>2, Setters, StagesAre
<1>6. /\ ~n.hasId /\ n.mode = None /\ n.pc = "handleCheck" /\ n.op = "getHandle" /\ n.status = "running"
      /\ ~n.created /\ n.cipherType = q.cipherType /\ n.isPersistant = q.isPersistant
  BY <1>3, <1>4 DEF Shape
<1>7. Handle(n) /\ Stage(n)
  BY <1>3, <1>6 DEF Handle, Stage, HandleStages, GetStages, SetStages, CurveStages, Settles
<1>8. Starts(c, n, "handles", MaxHandles)
  BY <1>2, <1>4 DEF GetHandle, CallsHandle
<1> QED BY <1>5, <1>6, <1>7, <1>8, PlainHolds, StartStep

LEMMA NoMode == None # 1 /\ None \notin {0, 1, 2}
BY KindsAssumption

\* A call that fills in a handle, and one that has.
LEMMA DescribingHolds ==
  ASSUME NEW n, Shape(n), Handle(n), n.op = "getHandle", n.clean => Describes(n),
         n.pc = "typeCurve" => n.key \in Parts,
         \/ n.pc \in {"readType", "typeCurve"} /\ n.status = "running" /\ n.hasId /\ n.mode = None
         \/ n.pc = "idle" /\ n.status = "kStatus_SSS_Success"
  PROVE  ClientInv(n)
<1>1. n.pc \notin SetStages \cup GetStages /\ n.op \notin Settles \cup {"get"}
  BY DEF SetStages, CurveStages, GetStages, Settles
<1>2. Local(n)
  BY <1>1 DEF Local, Sets, SetsEC, Gets, Counted, Stage, SetStages, CurveStages, GetStages, HandleStages
<1>3. n.clean => Global(n)
  BY <1>1 DEF Global, WrittenSoFar, OnItsCurve, Lifetime, HasSet, ReadSoFar, HasRead,
              SetGoesOn, GetGoesOn, Ended, SetStages, CurveStages, GetStages
<1> QED BY <1>2, <1>3 DEF ClientInv

LEMMA HandleCheckedStep ==
  ASSUME IInv, NEW c \in Clients, HandleChecked(c)
  PROVE  IInv'
<1>1. PICK r : r = client[c]
  OBVIOUS
<1>2. ClientInv(r) /\ r.pc = "handleCheck"
  BY <1>1 DEF IInv, HandleChecked
<1>3. /\ Shape(r) /\ Handle(r) /\ r.op = "getHandle" /\ r.status = "running" /\ r.mode = None
      /\ ~r.created /\ r.op \notin Settles \cup {"get"}
  BY <1>2 DEF ClientInv, Local, Stage, HandleStages, Handle, Settles
<1> DEFINE Then(s) == IF s = "SM_OK" /\ object # None THEN [r EXCEPT !.hasId = TRUE, !.pc = "readType"]
                      ELSE FailsWith(r, s)
<1>4. PICK n : /\ Continue(c, n) /\ UNCHANGED <<object, curve>>
               /\ \/ n = Then("SM_OK")
                  \/ \E s \in Errors : n = [Then(s) EXCEPT !.faulty = TRUE]
  BY <1>1 DEF HandleChecked, Asks, Exchange
<1>5. \/ n = [r EXCEPT !.hasId = TRUE, !.pc = "readType"] /\ object # None
      \/ n = FailsWith(r, "SM_OK")
      \/ \E s \in Errors : n = [FailsWith(r, s) EXCEPT !.faulty = TRUE]
  BY <1>4 DEF Errors
<1> HIDE DEF Then
<1>6. CASE n = [r EXCEPT !.hasId = TRUE, !.pc = "readType"] /\ object # None
  <2>1. Shape(n)
    <3>1. n = [[r EXCEPT !.hasId = TRUE] EXCEPT !.pc = "readType"]
      BY <1>3, <1>6 DEF Shape
    <3> QED BY <3>1, <1>3, Setters, StagesAre
  <2>2. /\ n.hasId /\ n.pc = "readType" /\ n.op = "getHandle" /\ n.status = "running" /\ n.mode = None
        /\ ~n.created
    BY <1>3, <1>6 DEF Shape
  <2>3. Handle(n) /\ Describes(n)
    BY <2>2, <1>6, NoMode DEF Handle, Describes
  <2> QED BY <2>1, <2>2, <2>3, <1>4, DescribingHolds, QuietStep
<1>7. CASE n = FailsWith(r, "SM_OK")
  BY <1>7, <1>3, <1>4, Fail, FailingHolds, QuietStep
<1>8. CASE \E s \in Errors : n = [FailsWith(r, s) EXCEPT !.faulty = TRUE]
  BY <1>8, <1>3, <1>4, FaultFail, FailingHolds, QuietStep
<1> QED BY <1>5, <1>6, <1>7, <1>8

LEMMA WithPartHolds ==
  ASSUME NEW r, Shape(r), r.hasId, r.mode = None, ~r.created, r.op = "getHandle",
         object # None, object \in Objects,
         r.cipherType = object.cipher, r.isPersistant <=> ~object.transient,
         IsEC(object.cipher) => r.curve_id = object.curve,
         NEW n, n = WithPart(r, object.cipher, object.part)
  PROVE  ClientInv(n)
<1>1. object.part \in Parts
  BY DEF Objects
<1>2. r.op \notin Settles \cup {"get"}
  BY DEF Settles
<1>3. PICK q : q = [r EXCEPT !.objectType = object.part]
  OBVIOUS
<1>4. CASE n = Success(q)
  <2>1. Shape(q)
    BY <1>1, <1>3 DEF Shape
  <2>2. /\ q.hasId = r.hasId /\ q.mode = r.mode /\ q.created = r.created /\ q.op = r.op
        /\ q.cipherType = r.cipherType /\ q.isPersistant = r.isPersistant /\ q.curve_id = r.curve_id
        /\ q.objectType = object.part
    BY <1>3 DEF Shape
  <2>3. Shape(n) /\ n.pc = "idle" /\ n.status = "kStatus_SSS_Success" /\ Kept(n, q)
    BY <1>4, <2>1, SuccessIs
  <2>4. Handle(n) /\ Describes(n) /\ n.op = "getHandle"
    BY <2>2, <2>3, NoMode DEF Kept, Handle, Describes
  <2> QED BY <2>3, <2>4, DescribingHolds
<1>5. CASE n = Fails(r)
  <2>1. Handle(r)
    BY NoMode DEF Handle
  <2> QED BY <1>2, <1>5, <2>1, Fail, FailingHolds
<1> QED BY <1>3, <1>4, <1>5 DEF WithPart

LEMMA ReadTypeStep ==
  ASSUME IInv, NEW c \in Clients, ReadType(c)
  PROVE  IInv'
<1>1. PICK r : r = client[c]
  OBVIOUS
<1>2. ClientInv(r) /\ r.pc = "readType"
  BY <1>1 DEF IInv, ReadType
<1>3. /\ Shape(r) /\ Handle(r) /\ r.op = "getHandle" /\ r.status = "running" /\ r.mode = None /\ r.hasId
      /\ ~r.created /\ r.op \notin Settles \cup {"get"}
  BY <1>2 DEF ClientInv, Local, Stage, HandleStages, Handle, Settles
<1> DEFINE b == OneBit(TransientIndicator) = 1
           typed == [r EXCEPT !.isPersistant = b]
           Typed == IF IsEC(object.cipher)
                    THEN [typed EXCEPT !.pc = "typeCurve", !.key = object.part]
                    ELSE WithPart([typed EXCEPT !.cipherType = object.cipher], object.cipher, object.part)
           Then(s) == CASE s = "SM_OK" -> Typed
                        [] s = "SM_ERR_APDU_THROUGHPUT" -> FailsWith(r, s)
                        [] OTHER -> Success(r)
<1>4. PICK n : /\ Continue(c, n) /\ UNCHANGED <<object, curve>>
               /\ \/ n = Then("SM_OK") /\ object # None
                  \/ n = Then("SM_ERR_CONDITIONS_NOT_SATISFIED") /\ object = None
                  \/ \E s \in Errors : n = [Then(s) EXCEPT !.faulty = TRUE]
  BY <1>1 DEF ReadType, Asks, Exchange
<1> HIDE DEF Typed
<1>5. \/ n = Typed /\ object # None
      \/ n = Success(r) /\ object = None
      \/ \E s \in Errors : n = [FailsWith(r, s) EXCEPT !.faulty = TRUE]
      \/ n = [Success(r) EXCEPT !.faulty = TRUE]
  BY <1>4 DEF Errors
<1> HIDE DEF Then
<1>6. CASE n = Typed /\ object # None
  <2>1. object \in Objects /\ (IsEC(object.cipher) => object.curve \in AllCurves)
    BY <1>6 DEF IInv, SeTyped, CiphersOf
  <2>2. object.cipher \in SeCiphers /\ object.part \in Parts /\ object.transient \in BOOLEAN
    BY <2>1 DEF Objects
  <2>3. b <=> ~object.transient
    BY <2>2 DEF OneBit, TransientIndicator
  <2>4. b \in BOOLEAN
    OBVIOUS
  <2> HIDE DEF b
  <2>5. PICK t : t = typed
    OBVIOUS
  <2>6. /\ Shape(t) /\ t.isPersistant = b /\ t.hasId /\ t.op = "getHandle" /\ t.status = "running"
        /\ t.mode = None /\ ~t.created
    BY <2>4, <2>5, <1>3 DEF Shape
  <2>7. CASE IsEC(object.cipher)
    <3>1. n = [t EXCEPT !.pc = "typeCurve", !.key = object.part]
      BY <1>6, <2>5, <2>7 DEF Typed
    <3>2. Shape(n)
      <4>1. n = [[t EXCEPT !.pc = "typeCurve"] EXCEPT !.key = object.part]
        BY <3>1, <2>6 DEF Shape
      <4> QED BY <4>1, <2>6, Setters, StagesAre
    <3>3. /\ n.hasId /\ n.pc = "typeCurve" /\ n.op = "getHandle" /\ n.status = "running" /\ n.mode = None
          /\ ~n.created /\ n.key = object.part /\ n.isPersistant = b
      BY <3>1, <2>6 DEF Shape
    <3>4. Handle(n)
      BY <3>3, NoMode DEF Handle
    <3>5. Describes(n)
      BY <3>3, <1>6, <2>3, <2>7 DEF Describes
    <3> QED BY <3>2, <3>3, <3>4, <3>5, <2>2, <1>4, DescribingHolds, QuietStep
  <2>8. CASE ~IsEC(object.cipher)
    <3>1. PICK q : q = [t EXCEPT !.cipherType = object.cipher]
      OBVIOUS
    <3>2. n = WithPart(q, object.cipher, object.part)
      BY <1>6, <2>5, <2>8, <3>1 DEF Typed
    <3>3. Shape(q)
      <4>1. object.cipher \in Ciphers
        BY <2>2 DEF Ciphers
      <4> QED BY <3>1, <2>6, <4>1 DEF Shape
    <3>4. /\ q.isPersistant = b /\ q.hasId /\ q.op = "getHandle" /\ q.cipherType = object.cipher
          /\ q.mode = None /\ ~q.created
      BY <3>1, <2>6 DEF Shape
    <3> QED BY <3>2, <3>3, <3>4, <2>1, <2>3, <2>8, <1>6, <1>4, WithPartHolds, QuietStep
  <2> QED BY <2>7, <2>8
<1>7. CASE n = Success(r) /\ object = None
  <2>1. /\ Shape(n) /\ n.pc = "idle" /\ n.status = "kStatus_SSS_Success" /\ Kept(n, r)
    BY <1>7, <1>3, SuccessIs
  <2>2. ~r.clean
    BY <1>2, <1>7 DEF ClientInv, Global, Describes
  <2>3. Handle(n) /\ n.op = "getHandle" /\ ~n.clean
    BY <2>1, <2>2, <1>3 DEF Kept, Handle
  <2> QED BY <2>1, <2>3, <1>4, DescribingHolds, QuietStep
<1>8. CASE \E s \in Errors : n = [FailsWith(r, s) EXCEPT !.faulty = TRUE]
  BY <1>8, <1>3, <1>4, FaultFail, FailingHolds, QuietStep
<1>9. CASE n = [Success(r) EXCEPT !.faulty = TRUE]
  <2>1. PICK e : e = Success(r)
    OBVIOUS
  <2>2. /\ Shape(e) /\ e.pc = "idle" /\ e.status = "kStatus_SSS_Success" /\ Kept(e, r)
    BY <2>1, <1>3, SuccessIs
  <2>3. n = [e EXCEPT !.faulty = TRUE]
    BY <2>1, <1>9
  <2>4. Shape(n)
    BY <2>2, <2>3, Setters
  <2>5. n.pc = e.pc /\ n.status = e.status /\ n.faulty /\ n.op = e.op
        /\ n.created = e.created /\ n.hasId = e.hasId /\ n.mode = e.mode
    BY <2>2, <2>3 DEF Shape
  <2>6. Handle(n) /\ Describes(n) /\ n.op = "getHandle"
    BY <2>2, <2>5, <1>3, NoMode DEF Kept, Handle, Describes
  <2> QED BY <2>2, <2>4, <2>5, <2>6, <1>4, DescribingHolds, QuietStep
<1> QED BY <1>5, <1>6, <1>7, <1>8, <1>9

LEMMA TypeCurveStep ==
  ASSUME IInv, NEW c \in Clients, TypeCurve(c)
  PROVE  IInv'
<1>1. PICK r : r = client[c]
  OBVIOUS
<1>2. ClientInv(r) /\ r.pc = "typeCurve"
  BY <1>1 DEF IInv, TypeCurve
<1>3. /\ Shape(r) /\ Handle(r) /\ r.op = "getHandle" /\ r.status = "running" /\ r.mode = None /\ r.hasId
      /\ ~r.created /\ r.op \notin Settles \cup {"get"}
  BY <1>2 DEF ClientInv, Local, Stage, HandleStages, Handle, Settles
<1> DEFINE Typed == WithPart([r EXCEPT !.curve_id = object.curve, !.cipherType = "EC"], "EC", r.key)
           Then(s) == IF s = "SM_OK" THEN Typed ELSE FailsWith(r, s)
<1>4. PICK n : /\ Continue(c, n) /\ UNCHANGED <<object, curve>>
               /\ \/ n = Then("SM_OK") /\ IsCurveKey
                  \/ n = Then("SM_ERR_CONDITIONS_NOT_SATISFIED") /\ ~IsCurveKey
                  \/ \E s \in Errors : n = [Then(s) EXCEPT !.faulty = TRUE]
  BY <1>1 DEF TypeCurve, Asks, Exchange
<1> HIDE DEF Typed
<1>5. \/ n = Typed /\ IsCurveKey
      \/ n = FailsWith(r, "SM_ERR_CONDITIONS_NOT_SATISFIED")
      \/ \E s \in Errors : n = [FailsWith(r, s) EXCEPT !.faulty = TRUE]
  BY <1>4 DEF Errors
<1> HIDE DEF Then
<1>6. CASE n = Typed /\ IsCurveKey
  <2>1. /\ object # None /\ object \in Objects /\ IsEC(object.cipher) /\ object.cipher = "EC"
        /\ object.curve \in AllCurves
    BY <1>6 DEF IInv, SeTyped, CiphersOf, IsCurveKey, IsEC
  <2>2. object.part \in Parts
    BY <2>1 DEF Objects
  <2>3. PICK q : q = [r EXCEPT !.curve_id = object.curve, !.cipherType = "EC"]
    OBVIOUS
  <2>4. Shape(q)
    <3>1. "EC" \in Ciphers
      BY DEF Ciphers, SeCiphers
    <3>2. q = [[r EXCEPT !.curve_id = object.curve] EXCEPT !.cipherType = "EC"]
      BY <2>3, <1>3 DEF Shape
    <3> QED BY <2>1, <3>1, <3>2, <1>3, Setters
  <2>5. /\ q.hasId /\ q.op = "getHandle" /\ q.mode = None /\ ~q.created /\ q.cipherType = "EC"
        /\ q.curve_id = object.curve /\ q.isPersistant = r.isPersistant /\ q.clean = r.clean
    BY <2>3, <1>3 DEF Shape
  <2>6. CASE r.clean
    <3>1. r.key = object.part /\ (r.isPersistant <=> ~object.transient)
      BY <1>2, <2>6 DEF ClientInv, Global, Describes
    <3>2. n = WithPart(q, object.cipher, object.part)
      BY <1>6, <2>1, <2>3, <3>1 DEF Typed
    <3> QED BY <3>1, <3>2, <2>1, <2>4, <2>5, <1>4, WithPartHolds, QuietStep
  <2>7. CASE ~r.clean
    <3>1. n = WithPart(q, "EC", r.key)
      BY <1>6, <2>3 DEF Typed
    <3>2. Handle(q) /\ q.op \notin Settles \cup {"get"}
      BY <2>5, NoMode DEF Handle, Settles
    <3>3. CASE n = Fails(q)
      BY <3>3, <3>2, <2>4, <1>4, Fail, FailingHolds, QuietStep
    <3>4. CASE n = Success([q EXCEPT !.objectType = r.key])
      <4>1. PICK k : k = [q EXCEPT !.objectType = r.key]
        OBVIOUS
      <4>2. r.key \in Parts
        BY <1>2 DEF ClientInv, Local, Stage
      <4>3. Shape(k) /\ k.hasId /\ k.mode = None /\ ~k.created /\ k.op = "getHandle" /\ ~k.clean
        BY <4>1, <4>2, <2>4, <2>5, <2>7 DEF Shape
      <4>4. /\ Shape(n) /\ n.pc = "idle" /\ n.status = "kStatus_SSS_Success" /\ Kept(n, k)
        BY <3>4, <4>1, <4>3, SuccessIs
      <4>5. Handle(n) /\ n.op = "getHandle" /\ ~n.clean
        BY <4>3, <4>4, NoMode DEF Kept, Handle
      <4> QED BY <4>4, <4>5, <1>4, DescribingHolds, QuietStep
    <3> QED BY <3>1, <3>3, <3>4 DEF WithPart
  <2> QED BY <2>6, <2>7
<1>7. CASE n = FailsWith(r, "SM_ERR_CONDITIONS_NOT_SATISFIED")
  BY <1>7, <1>3, <1>4, Fail, FailingHolds, QuietStep
<1>8. CASE \E s \in Errors : n = [FailsWith(r, s) EXCEPT !.faulty = TRUE]
  BY <1>8, <1>3, <1>4, FaultFail, FailingHolds, QuietStep
<1> QED BY <1>5, <1>6, <1>7, <1>8

-----------------------------------------------------------------------------
(* Erasing, and the end of a session.                                      *)

LEMMA EraseKeyStep ==
  ASSUME IInv, NEW c \in Clients, EraseKey(c)
  PROVE  IInv'
<1>1. client[c].hasId /\ client[c].pc = "idle"
  BY DEF EraseKey, Calls, Starts
<1>2. PICK q : q = Called(c, "erase")
  OBVIOUS
<1>3. /\ Shape(q) /\ Handle(q) /\ q.hasId /\ q.op = "erase" /\ q.status = "running"
  BY <1>1, <1>2, CalledIs
<1>4. PICK n : n = [q EXCEPT !.pc = "erase"]
  OBVIOUS
<1>5. Shape(n)
  BY <1>3, <1>4, Setters, StagesAre
<1>6. /\ n.hasId = q.hasId /\ n.mode = q.mode /\ n.pc = "erase" /\ n.op = "erase" /\ n.status = "running"
      /\ n.created = q.created /\ n.cipherType = q.cipherType /\ n.isPersistant = q.isPersistant
  BY <1>3, <1>4 DEF Shape
<1>7. Handle(n) /\ Stage(n)
  BY <1>3, <1>6 DEF Handle, Stage, HandleStages, GetStages, SetStages, CurveStages
<1>8. Starts(c, n, "calls", MaxCalls)
  BY <1>2, <1>4 DEF EraseKey, Calls
<1> QED BY <1>5, <1>6, <1>7, <1>8, PlainHolds, StartStep

LEMMA ErasedStep ==
  ASSUME IInv, NEW c \in Clients, Erased(c)
  PROVE  IInv'
<1>1. PICK r : r = client[c]
  OBVIOUS
<1>2. ClientInv(r) /\ r.pc = "erase"
  BY <1>1 DEF IInv, Erased
<1>3. Shape(r) /\ Handle(r) /\ r.op = "erase" /\ r.op \notin Settles \cup {"get"}
  BY <1>2 DEF ClientInv, Local, Stage, Settles
<1> DEFINE Then(s) == IF s = "SM_OK" THEN Success(r) ELSE FailsWith(r, s)
<1>4. PICK n : /\ Continue(c, n) /\ object' \in {object, None} /\ curve' = curve
               /\ \/ n = Then("SM_OK")
                  \/ n = Then("SM_ERR_CONDITIONS_NOT_SATISFIED")
                  \/ \E s \in Errors : n = [Then(s) EXCEPT !.faulty = TRUE]
  BY <1>1 DEF Erased, Exchange
<1>5. \/ n = Success(r)
      \/ n = FailsWith(r, "SM_ERR_CONDITIONS_NOT_SATISFIED")
      \/ \E s \in Errors : n = [FailsWith(r, s) EXCEPT !.faulty = TRUE]
  BY <1>4 DEF Errors
<1> HIDE DEF Then
<1>6. ClientInv(n)'
  <2>1. CASE n = Success(r)
    <3>1. /\ Shape(n) /\ n.pc = "idle" /\ n.status = "kStatus_SSS_Success" /\ Kept(n, r)
      BY <2>1, <1>3, SuccessIs
    <3>2. Handle(n) /\ n.op = "erase"
      BY <3>1, <1>3 DEF Kept, Handle
    <3> QED BY <3>1, <3>2, PlainSuccess
  <2>2. CASE n = FailsWith(r, "SM_ERR_CONDITIONS_NOT_SATISFIED")
    BY <2>2, <1>3, Fail, FailingHolds
  <2>3. CASE \E s \in Errors : n = [FailsWith(r, s) EXCEPT !.faulty = TRUE]
    BY <2>3, <1>3, FaultFail, FailingHolds
  <2> QED BY <1>5, <2>1, <2>2, <2>3
<1>7. SeTyped'
  BY <1>4 DEF IInv, SeTyped, CiphersOf
<1> QED BY <1>4, <1>6, <1>7, ClientStep

LEMMA CloseSessionStep ==
  ASSUME IInv, CloseSession
  PROVE  IInv'
<1> DEFINE Lost == object # None /\ object.transient
<1>1. /\ \A c \in Clients : client[c].pc = "idle"
      /\ curve' = curve
      /\ object' = IF Lost THEN [object EXCEPT !.content = Blank(DOMAIN object.content)] ELSE object
      /\ client' = [c \in Clients |->
                    [client[c] EXCEPT !.hasId = FALSE, !.cipherType = None, !.objectType = None,
                                      !.curve_id = None, !.isPersistant = FALSE,
                                      !.clean = @ /\ (Changed => MustStay(client[c]))]]
  BY DEF CloseSession
<1>2. Lost => /\ object' # None /\ object' \in Objects /\ CiphersOf(object')
              /\ object'.curve = object.curve /\ object'.transient = object.transient
  <2> SUFFICES ASSUME Lost PROVE /\ object' # None /\ object' \in Objects /\ CiphersOf(object')
                                 /\ object'.curve = object.curve /\ object'.transient = object.transient
    OBVIOUS
  <2>1. object \in Objects /\ CiphersOf(object)
    BY DEF IInv, SeTyped
  <2>2. PICK places \in (SUBSET KeyPlaces) \cup {1 .. n : n \in Lens} : object.content \in [places -> Units]
    BY <2>1 DEF Objects, Contents
  <2>3. DOMAIN object.content = places
    BY <2>2
  <2>4. PICK b : b = Blank(places)
    OBVIOUS
  <2>5. b \in [places -> Units] /\ DOMAIN b = places
    BY <2>4 DEF Blank, Units
  <2>6. b \in Contents
    BY <2>2, <2>5 DEF Contents
  <2>7. object' = [object EXCEPT !.content = b]
    BY <1>1, <2>3, <2>4
  <2>8. object' \in Objects
    BY <2>1, <2>6, <2>7 DEF Objects
  <2>9. /\ object'.cipher = object.cipher /\ object'.curve = object.curve
        /\ object'.transient = object.transient /\ DOMAIN object'.content = DOMAIN object.content
    BY <2>1, <2>3, <2>5, <2>7 DEF Objects
  <2>10. CiphersOf(object')
    BY <2>1, <2>9 DEF CiphersOf
  <2>11. object' # None
    BY <2>8, KindsAssumption
  <2> QED BY <2>8, <2>9, <2>10, <2>11
<1>3. SeTyped'
  BY <1>1, <1>2 DEF IInv, SeTyped, CiphersOf
<1>4. ASSUME NEW c \in Clients
      PROVE  ClientInv(client[c])'
  <2>1. PICK r : r = client[c]
    OBVIOUS
  <2>2. ClientInv(r) /\ r.pc = "idle"
    BY <1>1, <2>1 DEF IInv
  <2>3. PICK b : b = (r.clean /\ (Changed => MustStay(r)))
    OBVIOUS
  <2>4. b \in BOOLEAN /\ (b => r.clean /\ (Changed => MustStay(r)))
    BY <2>3
  <2>5. PICK n : n = [r EXCEPT !.hasId = FALSE, !.cipherType = None, !.objectType = None,
                               !.curve_id = None, !.isPersistant = FALSE, !.clean = b]
    OBVIOUS
  <2>6. client'[c] = n
    BY <1>1, <2>1, <2>3, <2>5
  <2>7. Shape(n)
    <3>1. Shape(r)
      BY <2>2 DEF ClientInv
    <3>2. PICK k : k = [r EXCEPT !.clean = b]
      OBVIOUS
    <3>3. Shape(k)
      BY <3>1, <3>2, <2>4 DEF Shape
    <3>4. PICK l : l = [[[k EXCEPT !.hasId = FALSE] EXCEPT !.cipherType = None] EXCEPT !.objectType = None]
      OBVIOUS
    <3>5. Shape(l)
      BY <3>3, <3>4, Setters
    <3>6. n = [[l EXCEPT !.curve_id = None] EXCEPT !.isPersistant = FALSE]
      BY <2>5, <3>1, <3>2, <3>4 DEF Shape
    <3> QED BY <3>5, <3>6, Setters
  <2>8. /\ ~n.hasId /\ n.cipherType = None /\ n.curve_id = None /\ ~n.isPersistant /\ n.clean = b
        /\ n.mode = r.mode /\ n.op = r.op /\ n.pc = "idle" /\ n.status = r.status
        /\ n.got = r.got /\ n.given = r.given /\ n.faulty = r.faulty /\ n.fits = r.fits /\ n.created = r.created
    BY <2>2, <2>5 DEF ClientInv, Shape
  <2>9. Local(n)
    <3>1. Handle(n) /\ Stage(n)
      BY <2>2, <2>8 DEF ClientInv, Local, Handle, Stage, SetStages, CurveStages, GetStages, HandleStages
    <3>2. Sets(n) /\ SetsEC(n) /\ Gets(n) /\ Counted(n)
      BY <2>8 DEF Sets, SetsEC, Gets, Counted, SetStages, CurveStages
    <3> QED BY <3>1, <3>2 DEF Local
  <2>10. ASSUME b
         PROVE  Global(n)'
    <3>1. Global(r) /\ (Changed => MustStay(r)) /\ Handle(r)
      BY <2>2, <2>4, <2>10 DEF ClientInv, Local
    <3>2. (WrittenSoFar(n) /\ OnItsCurve(n) /\ Lifetime(n) /\ ReadSoFar(n) /\ Describes(n))'
      BY <2>8 DEF WrittenSoFar, OnItsCurve, Lifetime, ReadSoFar, Describes, SetStages, CurveStages
    <3>3. HasSet(n)'
      <4>1. SUFFICES ASSUME r.op \in Settles, r.status = "kStatus_SSS_Success"
                     PROVE  /\ r.mode # 0 => \A p \in DOMAIN r.given : InSE(n, p)'
                            /\ r.created /\ object' # None /\ object'.transient =>
                                  r.mode \in {0, 2} \/ r.mode = None
        BY <2>8 DEF HasSet
      <4>2. /\ r.mode # 0 => \A p \in DOMAIN r.given : InSE(r, p)
            /\ r.created /\ object # None /\ object.transient =>
                  r.mode \in {0, 2} \/ (r.mode = None /\ ~r.isPersistant)
        BY <3>1, <4>1 DEF Global, HasSet
      <4>3. CASE ~Changed
        BY <4>2, <4>3, <2>8 DEF Changed, InSE
      <4>4. CASE Changed
        <5>1. Lost
          BY <1>1, <4>4 DEF Changed
        <5>2. r.created /\ (r.mode = None => r.isPersistant) /\ r.mode # 2
          BY <3>1, <4>4, NoMode DEF MustStay, kKeyObject_Mode_Transient
        <5>3. r.mode = 0
          BY <5>1, <5>2, <4>2
        <5> QED BY <5>3, <1>2, <5>1
      <4> QED BY <4>3, <4>4
    <3>4. HasRead(n)'
      <4>1. SUFFICES ASSUME r.op = "get", r.status = "kStatus_SSS_Success"
                     PROVE  (\A p \in Readable : SeenAt(n, p))'
        BY <2>8 DEF HasRead
      <4>2. ~r.created
        BY <3>1, <4>1 DEF Handle, Settles
      <4>3. object' = object
        BY <4>2, <3>1 DEF MustStay, Changed
      <4>4. \A p \in Readable : SeenAt(r, p)
        BY <3>1, <4>1 DEF Global, HasRead
      <4> QED BY <4>3, <4>4, <2>8 DEF Readable, SeenAt
    <3>5. ASSUME Fair(n)
          PROVE  (SetGoesOn(n) /\ GetGoesOn(n) /\ Ended(n))'
      <4>1. Fair(r)
        BY <3>5, <2>8 DEF Fair
      <4>2. Ended(r)
        BY <3>1, <4>1 DEF Global
      <4> QED BY <4>2, <2>2, <2>8 DEF SetGoesOn, GetGoesOn, Ended, SetStages, CurveStages, GetStages
    <3> QED BY <3>2, <3>3, <3>4, <3>5 DEF Global
  <2> QED BY <2>6, <2>7, <2>8, <2>9, <2>10 DEF ClientInv
<1>5. (client = [c \in Clients |-> client[c]])'
  BY <1>1
<1> QED BY <1>3, <1>4, <1>5 DEF IInv

-----------------------------------------------------------------------------
(* Getting.                                                                *)

LEMMA ReadableIs ==
  ASSUME SeTyped, object # None
  PROVE  /\ IsFile(object.cipher) => object.cipher = "Binary"
         /\ object.cipher = "Binary" => Readable = DOMAIN object.content
         /\ object.cipher # "Binary" => Readable \cap PrivateParts = {}
         /\ IsRSA(object.cipher) => Readable \subseteq {"N", "E"}
         /\ Readable \subseteq DOMAIN object.content
<1>1. object \in Objects /\ CiphersOf(object)
  BY DEF SeTyped
<1>2. object.cipher \in SeCiphers
  BY <1>1 DEF Objects
<1>3. IsFile(object.cipher) => object.cipher = "Binary"
  BY <1>2 DEF IsFile, SeCiphers
<1>4. CASE object.cipher = "Binary"
  BY <1>3, <1>4 DEF Readable, IsRSA
<1>5. CASE object.cipher # "Binary"
  <2>1. Readable = {p \in DOMAIN object.content \ PrivateParts : object.content[p] # Zero}
    BY <1>5 DEF Readable
  <2>2. IsRSA(object.cipher) => DOMAIN object.content \subseteq KeyPlaces \ {"priv", "pub", "key"}
    BY <1>1, <1>5 DEF CiphersOf
  <2>3. KeyPlaces \ ({"priv", "pub", "key"} \cup PrivateParts) \subseteq {"N", "E"}
    BY DEF KeyPlaces, PrivateParts
  <2> QED BY <1>3, <1>5, <2>1, <2>2, <2>3
<1> QED BY <1>4, <1>5

\* Only files, and what is public of RSA and EC keys, are ever read.
LEMMA CanReadIs ==
  ASSUME SeTyped, NEW r, r.cipherType \in Ciphers \cup {None}, CanRead(r)
  PROVE  /\ object # None /\ r.cipherType \in Ciphers
         /\ IsFile(r.cipherType) => object.cipher = "Binary"
         /\ IsRSA(r.cipherType) => IsRSA(object.cipher) /\ {"N", "E"} \subseteq Readable
         /\ ~IsFile(r.cipherType) /\ ~IsRSA(r.cipherType) =>
               IsEC(r.cipherType) /\ Readable # {}
<1>1. /\ object # None /\ object.cipher = SecureObjectType(r)
      /\ Needed(r.cipherType) # {} /\ Needed(r.cipherType) \subseteq Readable
  BY DEF CanRead, SameKind
<1>2. object.cipher \in SeCiphers
  BY <1>1 DEF SeTyped, Objects
<1>3. r.cipherType \in Ciphers
  <2>1. None \notin Ciphers /\ SeCiphers \subseteq Ciphers /\ {"Certificate", "CMAC", "RSA_CRT"} \subseteq Ciphers
    BY KindsAssumption DEF Ciphers, SeCiphers
  <2>2. r.cipherType = None => SecureObjectType(r) = None
    BY <2>1 DEF SecureObjectType
  <2> QED BY <1>1, <1>2, <2>1, <2>2
<1>4. IsFile(r.cipherType) => object.cipher = "Binary"
  BY <1>1, <1>3, TypeOfHandle
<1>5. ASSUME IsRSA(r.cipherType)
      PROVE  IsRSA(object.cipher) /\ {"N", "E"} \subseteq Readable
  <2>1. ~IsFile(r.cipherType) /\ ~IsEC(r.cipherType)
    BY <1>5 DEF IsRSA, IsFile, IsEC
  <2>2. Needed(r.cipherType) = UNION Range(<<{"N"}, {"E"}>>)
    BY <2>1, <1>5 DEF Needed, Reads
  <2>3. {"N", "E"} \subseteq UNION Range(<<{"N"}, {"E"}>>)
    <3>1. <<{"N"}, {"E"}>>[1] = {"N"} /\ <<{"N"}, {"E"}>>[2] = {"E"} /\ {1, 2} \subseteq DOMAIN <<{"N"}, {"E"}>>
      OBVIOUS
    <3> QED BY <3>1 DEF Range
  <2> QED BY <2>2, <2>3, <1>1, <1>3, <1>5, TypeOfHandle
<1>6. ASSUME ~IsFile(r.cipherType), ~IsRSA(r.cipherType)
      PROVE  IsEC(r.cipherType) /\ Readable # {}
  <2>1. Readable # {}
    BY <1>1
  <2>2. ASSUME ~IsEC(r.cipherType) PROVE FALSE
    <3>1. Needed(r.cipherType) = UNION Range(<<{"key"}>>)
      BY <2>2, <1>6 DEF Needed, Reads
    <3>2. "key" \in UNION Range(<<{"key"}>>)
      <4>1. <<{"key"}>>[1] = {"key"} /\ 1 \in DOMAIN <<{"key"}>>
        OBVIOUS
      <4> QED BY <4>1 DEF Range
    <3>3. object.cipher # "Binary"
      BY <1>1, <1>3, <1>6, TypeOfHandle
    <3> QED BY <3>1, <3>2, <3>3, <1>1, ReadableIs DEF PrivateParts
  <2> QED BY <2>1, <2>2
<1> QED BY <1>1, <1>3, <1>4, <1>5, <1>6

\* CanRead looks at four fields.
LEMMA CanReadSame ==
  ASSUME NEW r, NEW n, n.cipherType = r.cipherType, n.objectType = r.objectType, n.attested = r.attested
  PROVE  CanRead(n) <=> CanRead(r)
<1>1. SecureObjectType(n) = SecureObjectType(r) /\ SecureObjectPart(n) = SecureObjectPart(r)
  BY DEF SecureObjectType, SecureObjectPart
<1> QED BY <1>1 DEF CanRead, SameKind

LEMMA GettingIs ==
  ASSUME IInv, NEW c \in Clients, client[c].pc = "idle", client[c].hasId, NEW attested \in BOOLEAN,
         NEW n, n = Getting(c, attested)
  PROVE  /\ Shape(n) /\ Handle(n) /\ n.op = "get" /\ n.hasId /\ n.status = "running"
         /\ n.cipherType = client[c].cipherType /\ (n.fits <=> CanRead(n)) /\ ~n.faulty
         /\ n.pc = IF IsFile(n.cipherType) THEN "readSize" ELSE "read"
         /\ n.todo = Reads(n.cipherType) /\ n.got = << >>
<1>1. PICK a : a = Called(c, "get")
  OBVIOUS
<1>2. /\ Shape(a) /\ Handle(a) /\ a.op = "get" /\ a.hasId /\ a.status = "running" /\ ~a.faulty
      /\ a.cipherType = client[c].cipherType /\ a.got = << >> /\ a.clean
  BY <1>1, CalledIs
<1>3. PICK v : v = IF attested THEN SE05X_MAX_ATTST_DATA ELSE 0
  OBVIOUS
<1>4. v \in Nat
  BY <1>3 DEF SE05X_MAX_ATTST_DATA
<1>5. PICK q : q = [[a EXCEPT !.attested = attested] EXCEPT !.valid_number = v]
  OBVIOUS
<1>6. Shape(q)
  BY <1>2, <1>4, <1>5, Setters
<1>7. /\ q.hasId = a.hasId /\ q.op = a.op /\ q.status = a.status /\ q.faulty = a.faulty
      /\ q.cipherType = a.cipherType /\ q.got = a.got /\ q.created = a.created
      /\ q.mode = a.mode /\ q.isPersistant = a.isPersistant /\ q.attested = attested
  BY <1>2, <1>5 DEF Shape
<1>8. q = [Called(c, "get") EXCEPT !.attested = attested,
                                   !.valid_number = IF attested THEN SE05X_MAX_ATTST_DATA ELSE 0]
  BY <1>1, <1>2, <1>3, <1>5 DEF Shape
<1>9. n = [q EXCEPT !.fits = CanRead(q), !.todo = Reads(q.cipherType),
                    !.pc = IF IsFile(q.cipherType) THEN "readSize" ELSE "read"]
  BY <1>8 DEF Getting
<1>10. PICK f \in BOOLEAN : f = CanRead(q)
  BY DEF CanRead
<1>11. PICK p \in Stages : p = IF IsFile(q.cipherType) THEN "readSize" ELSE "read"
  BY StagesAre
<1>12. n = [[[q EXCEPT !.fits = f] EXCEPT !.todo = Reads(q.cipherType)] EXCEPT !.pc = p]
  BY <1>6, <1>9, <1>10, <1>11 DEF Shape
<1>13. Shape(n)
  <2>1. PICK k, l : k = [q EXCEPT !.fits = f] /\ l = [k EXCEPT !.todo = Reads(q.cipherType)]
    OBVIOUS
  <2>2. Shape(k)
    BY <1>6, <2>1, Setters
  <2>3. Shape(l)
    BY <2>1, <2>2, Setters
  <2>4. n = [l EXCEPT !.pc = p]
    BY <2>1, <1>12
  <2> QED BY <2>3, <2>4, Setters
<1>14. /\ n.hasId = q.hasId /\ n.op = q.op /\ n.status = q.status /\ n.faulty = q.faulty
       /\ n.cipherType = q.cipherType /\ n.objectType = q.objectType /\ n.got = q.got /\ n.created = q.created
       /\ n.mode = q.mode /\ n.isPersistant = q.isPersistant /\ n.attested = q.attested
       /\ n.fits = f /\ n.pc = p /\ n.todo = Reads(q.cipherType)
  BY <1>6, <1>12 DEF Shape
<1>15. CanRead(n) <=> CanRead(q)
  BY <1>14, CanReadSame
<1>16. Handle(n)
  BY <1>2, <1>7, <1>14 DEF Handle
<1>17. n.fits <=> CanRead(n)
  BY <1>10, <1>14, <1>15
<1> QED BY <1>2, <1>7, <1>11, <1>13, <1>14, <1>16, <1>17

\* A call that reads, as long as it does.
LEMMA GettingHolds ==
  ASSUME NEW n, Shape(n), Handle(n), n.op = "get", n.status = "running", n.hasId, n.cipherType # None,
         n.pc \in {"readSize", "read"}, n.pc = "readSize" => IsFile(n.cipherType),
         Gets(n), n.clean => ReadSoFar(n), n.clean /\ Fair(n) => CanRead(n)
  PROVE  ClientInv(n)
<1>1. n.pc \notin SetStages \cup HandleStages \cup {"idle"} /\ n.op \notin Settles
  BY DEF SetStages, CurveStages, HandleStages, Settles
<1>2. Local(n)
  BY <1>1 DEF Local, Sets, SetsEC, Counted, Stage, CurveStages, HandleStages, SetStages
<1>3. n.clean => Global(n)
  BY <1>1 DEF Global, WrittenSoFar, OnItsCurve, Lifetime, HasSet, HasRead, Describes,
              SetGoesOn, GetGoesOn, Ended, SetStages, CurveStages, HandleStages
<1> QED BY <1>2, <1>3 DEF ClientInv

LEMMA BeginsToGet ==
  ASSUME IInv, NEW c \in Clients, client[c].pc = "idle", client[c].hasId, NEW attested \in BOOLEAN,
         NEW n, NEW g, g = Getting(c, attested),
         \/ n = g /\ g.cipherType # None
         \/ n = Fails(g) /\ g.cipherType \in {None, "HMAC", "CMAC"}
  PROVE  ClientInv(n)
<1>1. /\ Shape(g) /\ Handle(g) /\ g.op = "get" /\ g.hasId /\ g.status = "running" /\ ~g.faulty
      /\ (g.fits <=> CanRead(g)) /\ g.pc = IF IsFile(g.cipherType) THEN "readSize" ELSE "read"
      /\ g.todo = Reads(g.cipherType) /\ g.got = << >>
  BY GettingIs
<1>2. CASE n = g /\ g.cipherType # None
  <2>1. IsRSA(g.cipherType) => ~IsFile(g.cipherType)
    BY DEF IsRSA, IsFile
  <2>2. Gets(g)
    BY <1>1 DEF Gets, Reads
  <2>3. <<{"N"}, {"E"}>> # <<{"E"}>>
    OBVIOUS
  <2>4. ReadSoFar(g)
    BY <1>1, <2>1, <2>3 DEF ReadSoFar, Reads
  <2> QED BY <1>1, <1>2, <2>2, <2>4, GettingHolds DEF Fair
<1>3. CASE n = Fails(g) /\ g.cipherType \in {None, "HMAC", "CMAC"}
  <2>1. SeTyped /\ g.cipherType \in Ciphers \cup {None}
    BY <1>1 DEF IInv, Shape
  <2>2. \/ ~IsFile(g.cipherType) /\ ~IsRSA(g.cipherType) /\ ~IsEC(g.cipherType)
        \/ g.cipherType = None
    BY <1>3 DEF IsFile, IsRSA, IsEC
  <2>3. None \notin Ciphers
    BY KindsAssumption
  <2>4. ~CanRead(g)
    BY <2>1, <2>2, <2>3, CanReadIs
  <2>5. ~Fair(g)
    BY <2>4, <1>1 DEF Fair
  <2> QED BY <1>1, <1>3, <2>5, Fail, FailingHolds
<1> QED BY <1>2, <1>3

LEMMA GetKeyStep ==
  ASSUME IInv, NEW c \in Clients, GetKey(c) \/ GetKeyAttst(c)
  PROVE  IInv'
<1>1. PICK attested \in BOOLEAN :
         LET g == Getting(c, attested)
         IN  /\ g.hasId
             /\ \/ Calls(c, g) /\ g.cipherType # None
                \/ Calls(c, Fails(g)) /\ g.cipherType \in {None, "HMAC", "CMAC"}
  <2>1. CASE GetKey(c)
    BY <2>1 DEF GetKey
  <2>2. CASE GetKeyAttst(c)
    BY <2>2 DEF GetKeyAttst
  <2> QED BY <2>1, <2>2
<1>2. PICK g : g = Getting(c, attested)
  OBVIOUS
<1>3. PICK n : /\ Calls(c, n)
               /\ \/ n = g /\ g.cipherType # None
                  \/ n = Fails(g) /\ g.cipherType \in {None, "HMAC", "CMAC"}
  BY <1>1, <1>2
<1>4. client[c].pc = "idle" /\ Starts(c, n, "calls", MaxCalls)
  BY <1>3 DEF Calls, Starts
<1>5. client[c].hasId
  <2>1. PICK a : a = Called(c, "get")
    OBVIOUS
  <2>2. Shape(a) /\ a.hasId = client[c].hasId
    BY <1>4, <2>1, CalledIs
  <2>3. g.hasId = a.hasId
    BY <1>2, <2>1, <2>2 DEF Getting, Shape
  <2> QED BY <1>1, <1>2, <2>2, <2>3
<1>6. ClientInv(n)
  BY <1>2, <1>3, <1>4, <1>5, BeginsToGet
<1> QED BY <1>4, <1>6, StartStep

LEMMA ReadSizeStep ==
  ASSUME IInv, NEW c \in Clients, ReadSize(c)
  PROVE  IInv'
<1>1. PICK r : r = client[c]
  OBVIOUS
<1>2. ClientInv(r) /\ r.pc = "readSize" /\ SeTyped
  BY <1>1 DEF IInv, ReadSize
<1>3. /\ Shape(r) /\ Handle(r) /\ r.op = "get" /\ r.status = "running" /\ r.hasId
      /\ r.cipherType # None /\ IsFile(r.cipherType)
  BY <1>2 DEF ClientInv, Local, Stage, GetStages
<1>4. r.clean /\ Fair(r) => CanRead(r)
  BY <1>2 DEF ClientInv, Global, GetGoesOn, GetStages
<1> DEFINE size == Cardinality(DOMAIN object.content)
           Then(s) == IF s # "SM_OK" THEN FailsWith(r, s)
                      ELSE IF r.attested /\ size > BINARY_WRITE_MAX_LEN THEN Fails(r)
                      ELSE [r EXCEPT !.todo = Pieces(size), !.pc = "read"]
<1>5. PICK n : /\ Continue(c, n) /\ UNCHANGED <<object, curve>>
               /\ \/ n = Then("SM_OK") /\ object # None
                  \/ n = Then("SM_ERR_CONDITIONS_NOT_SATISFIED") /\ object = None
                  \/ \E s \in Errors : n = [Then(s) EXCEPT !.faulty = TRUE]
  BY <1>1 DEF ReadSize, Asks, Exchange
<1>6. \/ n = Fails(r) /\ object # None /\ r.attested /\ size > BINARY_WRITE_MAX_LEN
      \/ n = [r EXCEPT !.todo = Pieces(size), !.pc = "read"] /\ object # None
      \/ n = FailsWith(r, "SM_ERR_CONDITIONS_NOT_SATISFIED") /\ object = None
      \/ \E s \in Errors : n = [FailsWith(r, s) EXCEPT !.faulty = TRUE]
  BY <1>5 DEF Errors
<1> HIDE DEF Then
<1>7. CASE n = Fails(r) /\ object # None /\ r.attested /\ size > BINARY_WRITE_MAX_LEN
  <2>1. ASSUME CanRead(r) PROVE FALSE
    <3>1. object.cipher = "Binary"
      <4>1. r.cipherType \in Ciphers \cup {None}
        BY <1>3 DEF Shape
      <4> QED BY <4>1, <2>1, <1>2, <1>3, CanReadIs
    <3>2. Readable = DOMAIN object.content
      BY <3>1, <1>2, <1>7, ReadableIs
    <3>3. size <= BINARY_WRITE_MAX_LEN
      BY <2>1, <1>3, <1>7, <3>2 DEF CanRead
    <3>4. \E k \in Nat \ {0} : DOMAIN object.content = 1 .. k
      BY <1>2, <1>7, <3>1 DEF SeTyped, CiphersOf
    <3>5. size \in Nat
      BY <3>4, FS_Interval
    <3> QED BY <3>3, <3>5, <1>7, ObjectsAssumption
  <2> QED BY <1>3, <1>4, <1>5, <1>7, <2>1, Fail, FailingHolds, QuietStep
<1>8. CASE n = [r EXCEPT !.todo = Pieces(size), !.pc = "read"] /\ object # None
  <2>1. n = [[r EXCEPT !.todo = Pieces(size)] EXCEPT !.pc = "read"]
    BY <1>3, <1>8 DEF Shape
  <2>2. Shape(n)
    BY <2>1, <1>3, Setters, StagesAre
  <2>3. /\ n.hasId = r.hasId /\ n.op = r.op /\ n.status = r.status /\ n.faulty = r.faulty
        /\ n.cipherType = r.cipherType /\ n.objectType = r.objectType /\ n.got = r.got /\ n.created = r.created
        /\ n.mode = r.mode /\ n.isPersistant = r.isPersistant /\ n.attested = r.attested
        /\ n.fits = r.fits /\ n.clean = r.clean /\ n.pc = "read" /\ n.todo = Pieces(size)
    BY <2>1, <1>3 DEF Shape
  <2>4. Handle(n)
    BY <2>3, <1>3 DEF Handle
  <2>5. ~IsRSA(n.cipherType)
    BY <2>3, <1>3 DEF IsRSA, IsFile
  <2>6. CanRead(n) <=> CanRead(r)
    BY <2>3, CanReadSame
  <2>7. ReadSoFar(n)
    <3>1. SUFFICES ASSUME IsFile(object.cipher)
                   PROVE  /\ n.todo \in Seq(SUBSET DOMAIN object.content) /\ n.todo # << >>
                          /\ \A i \in DOMAIN n.todo : n.todo[i] # {}
                          /\ DOMAIN object.content = Left(n)
      BY <2>5 DEF ReadSoFar
    <3>2. object.cipher = "Binary"
      BY <3>1, <1>2, <1>8, ReadableIs
    <3>3. PICK k \in Nat \ {0} : DOMAIN object.content = 1 .. k
      BY <1>2, <1>8, <3>2 DEF SeTyped, CiphersOf
    <3>4. size = k
      BY <3>3, FS_Interval
    <3>5. n.todo = Pieces(k)
      BY <2>3, <3>4
    <3>6. k \in Nat
      OBVIOUS
    <3> QED BY <3>3, <3>5, <3>6, PiecesCover DEF Left
  <2>8. Gets(n)
    BY <2>3, <2>5, <1>3 DEF Gets
  <2>9. n.clean /\ Fair(n) => CanRead(n)
    BY <2>3, <2>6, <1>4 DEF Fair
  <2> QED BY <2>2, <2>3, <2>4, <2>7, <2>8, <2>9, <1>3, <1>5, GettingHolds, QuietStep
<1>9. CASE n = FailsWith(r, "SM_ERR_CONDITIONS_NOT_SATISFIED") /\ object = None
  <2>1. ~CanRead(r)
    BY <1>9 DEF CanRead, SameKind
  <2> QED BY <2>1, <1>3, <1>4, <1>5, <1>9, Fail, FailingHolds, QuietStep
<1>10. CASE \E s \in Errors : n = [FailsWith(r, s) EXCEPT !.faulty = TRUE]
  BY <1>10, <1>3, <1>5, FaultFail, FailingHolds, QuietStep
<1> QED BY <1>6, <1>7, <1>8, <1>9, <1>10

\* A call that has read.
LEMMA HasReadHolds ==
  ASSUME NEW n, Shape(n), Handle(n), n.op = "get", n.status = "kStatus_SSS_Success", n.pc = "idle",
         n.clean => HasRead(n), Counted(n)
  PROVE  ClientInv(n)
<1>1. n.pc \notin SetStages \cup GetStages \cup HandleStages /\ n.op \notin Settles
  BY DEF SetStages, CurveStages, GetStages, HandleStages, Settles
<1>2. Local(n)
  BY <1>1 DEF Local, Sets, SetsEC, Gets, Stage, CurveStages, HandleStages, SetStages, GetStages
<1>3. n.clean => Global(n)
  BY <1>1 DEF Global, WrittenSoFar, OnItsCurve, Lifetime, HasSet, ReadSoFar, Describes,
              SetGoesOn, GetGoesOn, Ended, SetStages, CurveStages, GetStages
<1> QED BY <1>2, <1>3 DEF ClientInv

LEMMA ReadStep ==
  ASSUME IInv, NEW c \in Clients, Read(c)
  PROVE  IInv'
<1>1. PICK o : o = client[c]
  OBVIOUS
<1>2. ClientInv(o) /\ o.pc = "read" /\ SeTyped
  <2>1. ClientInv(o) /\ SeTyped /\ Shape(o)
    BY <1>1 DEF IInv, ClientInv
  <2>2. [o EXCEPT !.valid_number = ValidNumber(o)].pc = "read"
    BY <1>1 DEF Read
  <2> QED BY <2>1, <2>2 DEF Shape
<1>3. /\ Shape(o) /\ Handle(o) /\ Gets(o) /\ o.op = "get" /\ o.status = "running" /\ o.hasId
      /\ o.cipherType # None
  BY <1>2 DEF ClientInv, Local, Stage, GetStages
<1>4. /\ o.clean /\ Fair(o) => CanRead(o)
      /\ o.clean => ReadSoFar(o)
  BY <1>2 DEF ClientInv, Global, GetGoesOn, GetStages
<1>5. PICK v : v = ValidNumber(o)
  OBVIOUS
<1>6. v \in Nat
  BY <1>3, <1>5 DEF ValidNumber, EntriesRsa, EntriesEc, EntriesSymmetric, EntriesMac, EntriesFile, Shape
<1>7. PICK r : r = [o EXCEPT !.valid_number = v]
  OBVIOUS
<1>8. Shape(r)
  BY <1>3, <1>6, <1>7, Setters
<1>9. /\ r.hasId = o.hasId /\ r.op = o.op /\ r.status = o.status /\ r.faulty = o.faulty /\ r.pc = o.pc
      /\ r.cipherType = o.cipherType /\ r.objectType = o.objectType /\ r.got = o.got /\ r.created = o.created
      /\ r.mode = o.mode /\ r.isPersistant = o.isPersistant /\ r.attested = o.attested
      /\ r.fits = o.fits /\ r.clean = o.clean /\ r.todo = o.todo /\ r.valid_number = v
  BY <1>3, <1>7 DEF Shape
<1>10. /\ Handle(r) /\ Gets(r) /\ (r.clean /\ Fair(r) => CanRead(r)) /\ (r.clean => ReadSoFar(r))
  <2>1. Handle(r) /\ Gets(r)
    BY <1>3, <1>9 DEF Handle, Gets
  <2>2. CanRead(r) <=> CanRead(o)
    BY <1>9, CanReadSame
  <2>3. Left(r) = Left(o)
    BY <1>9 DEF Left
  <2>4. ReadSoFar(o) => ReadSoFar(r)
    BY <1>9, <2>3 DEF ReadSoFar, SeenAt
  <2> QED BY <2>1, <2>2, <2>4, <1>4, <1>9 DEF Fair
<1> DEFINE inParts == IsFile(r.cipherType) \/ IsRSA(r.cipherType)
           apt == /\ IsFile(r.cipherType) => object # None /\ IsFile(object.cipher)
                  /\ IsRSA(r.cipherType) => object # None /\ IsRSA(object.cipher)
           places == IF inParts THEN Head(r.todo) ELSE Readable
           can == apt /\ places # {} /\ places \subseteq Readable
           G == [p \in DOMAIN r.got \cup places |-> IF p \in places THEN object.content[p] ELSE r.got[p]]
           Then(s) == IF s # "SM_OK" THEN FailsWith(r, s)
                      ELSE IF Len(r.todo) = 1 THEN Success([r EXCEPT !.got = G])
                      ELSE [r EXCEPT !.got = G, !.todo = Tail(r.todo)]
<1>11. PICK n : /\ Continue(c, n) /\ UNCHANGED <<object, curve>>
                /\ \/ n = Then("SM_OK") /\ can
                   \/ n = Then("SM_ERR_CONDITIONS_NOT_SATISFIED") /\ ~can
                   \/ \E s \in Errors : n = [Then(s) EXCEPT !.faulty = TRUE]
  <2> DEFINE R == [client[c] EXCEPT !.valid_number = ValidNumber(client[c])]
             Apt(x) == /\ IsFile(x.cipherType) => object # None /\ IsFile(object.cipher)
                       /\ IsRSA(x.cipherType) => object # None /\ IsRSA(object.cipher)
             Places(x) == IF IsFile(x.cipherType) \/ IsRSA(x.cipherType) THEN Head(x.todo) ELSE Readable
             Can(x) == Apt(x) /\ Places(x) # {} /\ Places(x) \subseteq Readable
             Now(x, s) ==
                IF s # "SM_OK" THEN FailsWith(x, s)
                ELSE IF Len(x.todo) = 1
                THEN Success([x EXCEPT !.got = [p \in DOMAIN x.got \cup Places(x) |->
                                                   IF p \in Places(x) THEN object.content[p] ELSE x.got[p]]])
                ELSE [x EXCEPT !.got = [p \in DOMAIN x.got \cup Places(x) |->
                                           IF p \in Places(x) THEN object.content[p] ELSE x.got[p]],
                               !.todo = Tail(@)]
  <2>1. \/ Can(R) /\ UNCHANGED <<object, curve>> /\ Continue(c, Now(R, "SM_OK"))
        \/ ~Can(R) /\ UNCHANGED <<object, curve>> /\ Continue(c, Now(R, "SM_ERR_CONDITIONS_NOT_SATISFIED"))
        \/ \E s \in Errors : UNCHANGED <<object, curve>> /\ Continue(c, [Now(R, s) EXCEPT !.faulty = TRUE])
    <3> HIDE DEF ValidNumber
    <3> QED BY DEF Read, Asks, Exchange
  <2>2. R = r
    BY <1>1, <1>5, <1>7
  <2> HIDE DEF R, Now, Can
  <2>3. Can(r) <=> can
    BY DEF Can
  <2>4. \A s : Now(r, s) = Then(s)
    <3>1. [r EXCEPT !.got = G, !.todo = Tail(@)] = [r EXCEPT !.got = G, !.todo = Tail(r.todo)]
      BY <1>8 DEF Shape
    <3> QED BY <3>1 DEF Now
  <2> HIDE DEF Then, can
  <2> QED BY <2>1, <2>2, <2>3, <2>4
<1> HIDE DEF apt, places, G
<1>12. \/ n = Success([r EXCEPT !.got = G]) /\ can /\ Len(r.todo) = 1
       \/ n = [r EXCEPT !.got = G, !.todo = Tail(r.todo)] /\ can /\ Len(r.todo) # 1
       \/ n = FailsWith(r, "SM_ERR_CONDITIONS_NOT_SATISFIED") /\ ~can
       \/ \E s \in Errors : n = [FailsWith(r, s) EXCEPT !.faulty = TRUE]
  BY <1>11 DEF Errors
<1> HIDE DEF Then
<1>13. PICK g : g = G
  OBVIOUS
<1>14. /\ \A p \in places : p \in DOMAIN g /\ g[p] = object.content[p]
       /\ \A p \in DOMAIN r.got \ places : p \in DOMAIN g /\ g[p] = r.got[p]
  BY <1>13 DEF G
<1>15. r.cipherType \in Ciphers \cup {None}
  BY <1>8 DEF Shape
<1>16. IsFile(r.cipherType) => ~IsRSA(r.cipherType)
  BY DEF IsFile, IsRSA
<1>17. CASE n = Success([r EXCEPT !.got = G]) /\ can /\ Len(r.todo) = 1
  <2>1. PICK q : q = [r EXCEPT !.got = g]
    OBVIOUS
  <2>2. Shape(q) /\ Kept(q, r) /\ q.got = g
    BY <1>8, <2>1, Setters DEF Shape, Kept
  <2>3. /\ Shape(n) /\ n.pc = "idle" /\ n.status = "kStatus_SSS_Success" /\ Kept(n, q) /\ n.got = g
    BY <2>1, <2>2, <1>13, <1>17, SuccessIs
  <2>4. Kept(n, r)
    BY <2>2, <2>3 DEF Kept
  <2>5. Handle(n) /\ n.op = "get"
    BY <2>4, <1>3, <1>9, <1>10 DEF Kept, Handle
  <2>6. Counted(n)
    <3>1. SUFFICES ASSUME r.attested, ~IsFile(r.cipherType)
                   PROVE  v = IF IsRSA(r.cipherType) THEN 2 ELSE 1
      BY <2>4, <1>9 DEF Counted, Kept
    <3>2. IsRSA(r.cipherType) => Len(o.todo) # 2
      BY <1>17, <1>9
    <3>4. o.attested /\ ~IsFile(o.cipherType) /\ o.cipherType = r.cipherType
      BY <3>1, <1>9
    <3>5. CASE IsRSA(r.cipherType)
      <4>0. o.attested /\ ~IsFile(o.cipherType) /\ IsRSA(o.cipherType)
        BY <3>4, <3>5
      <4>1. v = EntriesRsa(o)
        BY <4>0, <1>5 DEF ValidNumber, IsRSA, IsEC, IsFile
      <4> QED BY <4>1, <3>2, <3>5 DEF EntriesRsa
    <3>6. CASE ~IsRSA(r.cipherType)
      <4>1. v \in {EntriesEc, EntriesSymmetric, EntriesMac}
        BY <3>4, <3>6, <1>5 DEF ValidNumber
      <4> QED BY <4>1, <3>6 DEF EntriesEc, EntriesSymmetric, EntriesMac
    <3> QED BY <3>5, <3>6
  <2>7. ASSUME r.clean
        PROVE  HasRead(n)
    <3>1. SUFFICES ASSUME NEW p \in Readable PROVE p \in DOMAIN g /\ g[p] = object.content[p]
      BY <2>3 DEF HasRead, SeenAt
    <3>2. object # None
      BY <3>1 DEF Readable
    <3>3. ReadSoFar(r)
      BY <1>10, <2>7
    <3>4. CASE IsFile(r.cipherType)
      <4>1. IsFile(object.cipher) /\ Readable \subseteq DOMAIN object.content
        BY <3>2, <3>4, <1>2, <1>17, ReadableIs DEF apt
      <4>2. /\ r.todo \in Seq(SUBSET DOMAIN object.content) /\ r.todo # << >>
            /\ p \in Left(r) \/ SeenAt(r, p)
        BY <3>2, <3>3, <3>4, <4>1, <1>2, <1>9 DEF ReadSoFar
      <4>3. Left(r) = places
        BY <4>2, <1>17, <3>4, FirstOf DEF Left, places
      <4> QED BY <4>2, <4>3, <1>14 DEF SeenAt
    <3>5. CASE IsRSA(r.cipherType)
      <4>1. p \in {"N", "E"}
        BY <3>1, <3>2, <3>5, <1>2, <1>17, ReadableIs DEF apt
      <4>2. r.todo = <<{"E"}>>
        <5>1. Len(<<{"N"}, {"E"}>>) = 2
          OBVIOUS
        <5> QED BY <5>1, <3>5, <1>2, <1>9, <1>10, <1>17 DEF Gets
      <4>3. SeenAt(r, "N")
        BY <4>2, <3>3, <3>5, <1>2, <1>9 DEF ReadSoFar
      <4>4. places = {"E"}
        BY <4>2, <3>5 DEF places
      <4>5. CASE p = "E"
        BY <4>4, <4>5, <1>14
      <4>6. CASE p = "N"
        BY <4>3, <4>4, <4>6, <1>14 DEF SeenAt
      <4> QED BY <4>1, <4>5, <4>6
    <3>6. CASE ~IsFile(r.cipherType) /\ ~IsRSA(r.cipherType)
      BY <3>6, <1>14 DEF places
    <3> QED BY <3>4, <3>5, <3>6
  <2>8. n.clean => HasRead(n)
    BY <2>4, <2>7 DEF Kept
  <2> QED BY <2>3, <2>5, <2>6, <2>8, <1>11, HasReadHolds, QuietStep
<1>18. CASE n = [r EXCEPT !.got = G, !.todo = Tail(r.todo)] /\ can /\ Len(r.todo) # 1
  <2>1. n = [[r EXCEPT !.got = g] EXCEPT !.todo = Tail(r.todo)]
    BY <1>8, <1>13, <1>18 DEF Shape
  <2>2. Shape(n)
    BY <2>1, <1>8, Setters
  <2>3. /\ n.hasId = r.hasId /\ n.op = r.op /\ n.status = r.status /\ n.faulty = r.faulty
        /\ n.cipherType = r.cipherType /\ n.objectType = r.objectType /\ n.got = g /\ n.created = r.created
        /\ n.mode = r.mode /\ n.isPersistant = r.isPersistant /\ n.attested = r.attested
        /\ n.fits = r.fits /\ n.clean = r.clean /\ n.pc = "read" /\ n.todo = Tail(r.todo)
    BY <2>1, <1>2, <1>8, <1>9 DEF Shape
  <2>4. Handle(n) /\ (n.clean /\ Fair(n) => CanRead(n))
    <3>1. CanRead(n) <=> CanRead(r)
      BY <2>3, CanReadSame
    <3> QED BY <3>1, <2>3, <1>10 DEF Handle, Fair
  <2>5. IsRSA(r.cipherType) => r.todo = <<{"N"}, {"E"}>> /\ n.todo = <<{"E"}>>
    <3>1. Len(<<{"E"}>>) = 1 /\ Tail(<<{"N"}, {"E"}>>) = <<{"E"}>>
      OBVIOUS
    <3> QED BY <3>1, <2>3, <1>2, <1>9, <1>10, <1>18 DEF Gets
  <2>6. ~IsFile(r.cipherType) => IsRSA(r.cipherType)
    <3>1. Len(<<{"key"}>>) = 1
      OBVIOUS
    <3> QED BY <3>1, <1>2, <1>9, <1>10, <1>18 DEF Gets
  <2>7. Gets(n)
    BY <2>3, <2>5, <2>6, <1>16 DEF Gets
  <2>8. ASSUME r.clean
        PROVE  ReadSoFar(n)
    <3>1. ReadSoFar(r)
      BY <1>10, <2>8
    <3>2. CASE IsFile(r.cipherType)
      <4>1. object # None /\ IsFile(object.cipher)
        BY <3>2, <1>18 DEF apt
      <4>2. /\ r.todo \in Seq(SUBSET DOMAIN object.content) /\ r.todo # << >>
            /\ \A i \in DOMAIN r.todo : r.todo[i] # {}
            /\ \A p \in DOMAIN object.content : p \in Left(r) \/ SeenAt(r, p)
        BY <3>1, <3>2, <4>1, <1>2, <1>9 DEF ReadSoFar
      <4>3. /\ n.todo \in Seq(SUBSET DOMAIN object.content) /\ n.todo # << >>
            /\ Left(r) = places \cup Left(n)
        <5>1. PICK s \in Seq(SUBSET DOMAIN object.content) : s = r.todo
          BY <4>2
        <5>2. /\ Tail(s) \in Seq(SUBSET DOMAIN object.content) /\ (Tail(s) = << >> <=> Len(s) = 1)
              /\ UNION Range(s) = Head(s) \cup UNION Range(Tail(s))
          BY <4>2, <5>1, FirstOf
        <5>3. places = Head(s)
          BY <5>1, <3>2 DEF places
        <5> QED BY <5>1, <5>2, <5>3, <2>3, <1>18 DEF Left
      <4>4. \A i \in DOMAIN n.todo : n.todo[i] # {}
        <5>1. \A i \in DOMAIN n.todo : i + 1 \in DOMAIN r.todo /\ n.todo[i] = r.todo[i + 1]
          BY <4>2, <2>3
        <5> QED BY <5>1, <4>2
      <4>5. ASSUME NEW p \in DOMAIN object.content
            PROVE  p \in Left(n) \/ SeenAt(n, p)
        BY <4>2, <4>3, <4>5, <2>3, <1>14 DEF SeenAt
      <4> QED BY <4>3, <4>4, <4>5, <2>3, <1>16, <3>2 DEF ReadSoFar
    <3>3. CASE IsRSA(r.cipherType)
      <4>1. object # None /\ Head(<<{"N"}, {"E"}>>) = {"N"}
        BY <3>3, <1>18 DEF apt
      <4>2. "N" \in places
        BY <4>1, <3>3, <2>5 DEF places
      <4> QED BY <4>1, <4>2, <3>3, <2>3, <1>14, <1>16 DEF ReadSoFar, SeenAt
    <3> QED BY <3>2, <3>3, <2>6
  <2>9. n.clean => ReadSoFar(n)
    BY <2>3, <2>8
  <2> QED BY <2>2, <2>3, <2>4, <2>7, <2>9, <1>3, <1>9, <1>11, GettingHolds, QuietStep
<1>19. CASE n = FailsWith(r, "SM_ERR_CONDITIONS_NOT_SATISFIED") /\ ~can
  <2>1. ASSUME r.clean, Fair(r)
        PROVE  FALSE
    <3>1. CanRead(r) /\ ReadSoFar(r)
      BY <2>1, <1>10
    <3>2. /\ object # None /\ r.cipherType \in Ciphers
          /\ IsFile(r.cipherType) => object.cipher = "Binary"
          /\ IsRSA(r.cipherType) => IsRSA(object.cipher) /\ {"N", "E"} \subseteq Readable
          /\ ~IsFile(r.cipherType) /\ ~IsRSA(r.cipherType) => Readable # {}
      BY <3>1, <1>2, <1>15, CanReadIs
    <3>3. CASE IsFile(r.cipherType)
      <4>1. IsFile(object.cipher)
        BY <3>2, <3>3 DEF IsFile
      <4>2. /\ r.todo \in Seq(SUBSET DOMAIN object.content) /\ r.todo # << >>
            /\ \A i \in DOMAIN r.todo : r.todo[i] # {}
        BY <3>1, <3>2, <3>3, <4>1, <1>2, <1>9 DEF ReadSoFar
      <4>3. places # {} /\ places \subseteq DOMAIN object.content
        BY <4>2, <3>3, FirstOf DEF places
      <4>4. Readable = DOMAIN object.content
        BY <3>2, <3>3, <1>2, ReadableIs
      <4> QED BY <3>2, <3>3, <4>1, <4>3, <4>4, <1>16, <1>19 DEF apt
    <3>4. CASE IsRSA(r.cipherType)
      <4>1. Head(<<{"N"}, {"E"}>>) = {"N"} /\ Head(<<{"E"}>>) = {"E"}
        OBVIOUS
      <4>2. places \in {{"N"}, {"E"}}
        BY <4>1, <3>4, <1>2, <1>9, <1>10 DEF Gets, places
      <4> QED BY <3>2, <3>4, <4>2, <1>16, <1>19 DEF apt
    <3>5. CASE ~IsFile(r.cipherType) /\ ~IsRSA(r.cipherType)
      BY <3>2, <3>5, <1>19 DEF apt, places
    <3> QED BY <3>3, <3>4, <3>5
  <2> QED BY <2>1, <1>8, <1>10, <1>11, <1>19, Fail, FailingHolds, QuietStep
<1>20. CASE \E s \in Errors : n = [FailsWith(r, s) EXCEPT !.faulty = TRUE]
  BY <1>20, <1>8, <1>10, <1>11, FaultFail, FailingHolds, QuietStep
<1> QED BY <1>12, <1>17, <1>18, <1>19, <1>20
-----------------------------------------------------------------------------
(* Setting and generating: up to the first write.                          *)

\* A call that sets or generates a key and has not written yet.
Prepared(r) ==
    /\ Shape(r) /\ Handle(r) /\ r.status = "running"
    /\ r.op \in Settles /\ r.hasId /\ r.cipherType # None
    /\ r.key \in Keys /\ r.given = Data(r.key, Given(r))
    /\ r.first /\ Left(r) = Given(r) /\ r.todo \in Seq(SUBSET Given(r))
    /\ SecureObjectPart(r) \in Parts
    /\ IsFile(r.cipherType) => r.op = "set" /\ r.len \in Lens
    /\ r.todo = << >> => IsFile(r.cipherType) /\ r.len = 0
    /\ IsFile(r.cipherType) /\ r.len = 0 => r.todo = << >>
    /\ IsEC(r.cipherType) => r.curve_id \in AllCurves /\ r.asked \in AllCurves /\ Len(r.todo) = 1

\* What it relies on, if nobody interferes and nothing fails.
PreparedNow(r) ==
    /\ r.clean /\ r.created => object = None
    /\ r.clean /\ Fair(r) =>
          /\ r.wellFormed
          /\ IsEC(r.cipherType) => r.curve_id = r.asked /\ (object # None => object.curve = r.asked)
          /\ object = None \/ Overwrites(r, Left(r))

LEMMA PreparedFrom ==
  ASSUME NEW r, ClientInv(r), r.pc \in SetStages, r.pc # "write"
  PROVE  Prepared(r) /\ PreparedNow(r) /\ (r.clean /\ Fair(r) => SetGoesOn(r))
<1>1. Prepared(r)
  BY DEF ClientInv, Local, Stage, Sets, SetsEC, Prepared, SetStages, CurveStages, GetStages, HandleStages
<1>2. r.clean /\ Fair(r) => SetGoesOn(r)
  BY DEF ClientInv, Global
<1>3. r.clean => Lifetime(r)
  BY DEF ClientInv, Global
<1>4. PreparedNow(r)
  BY <1>1, <1>2, <1>3 DEF Prepared, PreparedNow, SetGoesOn, Lifetime
<1> QED BY <1>1, <1>2, <1>4

\* Where it stands does not matter.
LEMMA PreparedSame ==
  ASSUME NEW r, Prepared(r), PreparedNow(r)', NEW n, Shape(n),
         n.hasId = r.hasId, n.cipherType = r.cipherType, n.objectType = r.objectType,
         n.curve_id = r.curve_id, n.isPersistant = r.isPersistant, n.mode = r.mode,
         n.op = r.op, n.status = r.status, n.key = r.key, n.len = r.len, n.asked = r.asked,
         n.wellFormed = r.wellFormed, n.todo = r.todo, n.first = r.first, n.given = r.given,
         r.faulty => n.faulty, n.clean = r.clean, n.fits = r.fits, n.created = r.created
  PROVE  Prepared(n) /\ PreparedNow(n)'
<1>1. Given(n) = Given(r) /\ Left(n) = Left(r) /\ SecureObjectPart(n) = SecureObjectPart(r)
  BY DEF Given, Left, SecureObjectPart
<1>2. Prepared(n)
  BY <1>1 DEF Prepared, Handle
<1>3. SecureObjectType(n) = SecureObjectType(r) /\ SecureObjectPart(n) = SecureObjectPart(r)
  BY DEF SecureObjectType, SecureObjectPart
<1>4. Overwrites(r, Left(r))' => Overwrites(n, Left(n))'
  BY <1>1, <1>3 DEF Overwrites, SameKind
<1>5. Fair(n) => Fair(r)
  BY DEF Fair
<1>6. PreparedNow(n)'
  BY <1>4, <1>5 DEF PreparedNow
<1> QED BY <1>2, <1>6

LEMMA PreparedHolds ==
  ASSUME NEW r, Prepared(r), PreparedNow(r)', r.pc \in SetStages, r.pc # "write",
         r.pc \in CurveStages \cup {"curveGetId"} => IsEC(r.cipherType),
         r.pc = "curveGetId" => r.op = "set",
         r.pc = "curveMont" => r.curve_id \in Mont,
         r.pc \in {"curveList", "curveCreate"} => r.curve_id \in Curves,
         r.pc = "curveCreate" => r.step \in CurveSteps,
         r.clean /\ Fair(r) /\ IsEC(r.cipherType) => CurveReady(r)',
         r.clean /\ Fair(r) /\ r.pc = "curveGetId" => object' # None,
         r.todo = << >> => r.pc = "keyCheck"
  PROVE  ClientInv(r)'
<1>1. r.pc \notin GetStages \cup HandleStages \cup {"idle", "allocateCheck", "erase", "read", "readSize"}
      /\ r.op \notin {"get", "getHandle"} /\ r.status # "kStatus_SSS_Success"
  BY DEF SetStages, CurveStages, GetStages, HandleStages, Prepared, Settles
<1>2. Handle(r) /\ Stage(r) /\ Gets(r) /\ Counted(r)
  BY <1>1 DEF Prepared, Stage, Gets, Counted, HandleStages
<1>3. Sets(r) /\ SetsEC(r)
  BY DEF Prepared, Sets, SetsEC
<1>4. ASSUME r.clean
      PROVE  Global(r)'
  <2>1. (WrittenSoFar(r) /\ OnItsCurve(r) /\ HasSet(r) /\ ReadSoFar(r) /\ HasRead(r))'
    BY <1>1 DEF WrittenSoFar, OnItsCurve, HasSet, ReadSoFar, HasRead
  <2>2. Lifetime(r)'
    BY <1>4 DEF Prepared, PreparedNow, Lifetime
  <2>3. Describes(r)'
    BY <1>1 DEF Describes, HandleStages
  <2>4. ASSUME Fair(r) PROVE SetGoesOn(r)'
    BY <1>4, <2>4 DEF PreparedNow, SetGoesOn
  <2>5. (GetGoesOn(r) /\ Ended(r))'
    BY <1>1 DEF GetGoesOn, Ended
  <2> QED BY <2>1, <2>2, <2>3, <2>4, <2>5 DEF Global, Fair
<1> QED BY <1>2, <1>3, <1>4 DEF ClientInv, Local, Prepared

\* On to the first write.
LEMMA WriteBegins ==
  ASSUME NEW q, Prepared(q), PreparedNow(q)', q.todo # << >>, NEW b \in BOOLEAN,
         q.clean /\ q.op = "set" /\ IsEC(q.cipherType) /\ b => object' # None /\ object'.curve = q.curve_id,
         q.clean /\ Fair(q) => (object' # None <=> b),
         q.clean /\ Fair(q) /\ IsEC(q.cipherType) => Usable(q.curve_id)',
         NEW r, r = [[q EXCEPT !.pc = "write"] EXCEPT !.exists = b]
  PROVE  ClientInv(r)'
<1>1. Shape(q)
  BY DEF Prepared
<1>2. Shape(r)
  BY <1>1, Setters, StagesAre
<1>3. /\ r.hasId = q.hasId /\ r.cipherType = q.cipherType /\ r.objectType = q.objectType
      /\ r.curve_id = q.curve_id /\ r.isPersistant = q.isPersistant /\ r.mode = q.mode
      /\ r.op = q.op /\ r.status = q.status /\ r.key = q.key /\ r.len = q.len /\ r.asked = q.asked
      /\ r.wellFormed = q.wellFormed /\ r.todo = q.todo
  BY <1>1 DEF Shape
<1>4. /\ r.first = q.first /\ r.given = q.given /\ r.pc = "write" /\ r.exists = b
      /\ r.faulty = q.faulty /\ r.clean = q.clean /\ r.fits = q.fits /\ r.created = q.created
  BY <1>1 DEF Shape
<1>5. Prepared(r) /\ PreparedNow(r)'
  <2>1. q.faulty => r.faulty
    BY <1>4
  <2> QED BY <2>1, <1>2, <1>3, <1>4, PreparedSame
<1>6. r.pc \notin CurveStages \cup GetStages \cup HandleStages
      /\ r.pc \in SetStages /\ r.op \notin {"get", "getHandle"} /\ r.status # "kStatus_SSS_Success"
  BY <1>4, <1>5 DEF SetStages, CurveStages, GetStages, HandleStages, Prepared, Settles
<1>7. Handle(r) /\ Stage(r) /\ Gets(r) /\ Counted(r)
  BY <1>4, <1>5, <1>6 DEF Prepared, Stage, Gets, Counted
<1>8. Sets(r) /\ SetsEC(r)
  BY <1>3, <1>4, <1>5, <1>6 DEF Prepared, Sets, SetsEC, CurveStages
<1>9. ASSUME r.clean
      PROVE  Global(r)'
  <2>1. WrittenSoFar(r)'
    BY <1>5 DEF WrittenSoFar, Prepared, Data
  <2>2. (OnItsCurve(r) /\ Lifetime(r))'
    BY <1>3, <1>4, <1>5, <1>9 DEF OnItsCurve, Prepared, PreparedNow, Lifetime
  <2>3. (HasSet(r) /\ ReadSoFar(r) /\ HasRead(r) /\ Describes(r))'
    BY <1>4, <1>6 DEF HasSet, ReadSoFar, HasRead, Describes, HandleStages
  <2>4. ASSUME Fair(r) PROVE SetGoesOn(r)'
    <3>1. Fair(q)
      BY <2>4, <1>4 DEF Fair
    <3>2. IsEC(r.cipherType) => CurveReady(r)'
      BY <3>1, <1>3, <1>4, <1>9 DEF CurveReady
    <3>3. r.first
      BY <1>5 DEF Prepared
    <3> QED BY <3>1, <3>2, <3>3, <1>4, <1>5, <1>9, <2>4 DEF PreparedNow, SetGoesOn
  <2>5. (GetGoesOn(r) /\ Ended(r))'
    BY <1>4, <1>6 DEF GetGoesOn, Ended
  <2> QED BY <2>1, <2>2, <2>3, <2>4, <2>5 DEF Global, Fair
<1> QED BY <1>2, <1>7, <1>8, <1>9 DEF ClientInv, Local

\* On to another stage before the first write; the last command may have failed.
LEMMA MovesOn ==
  ASSUME NEW q, Prepared(q), PreparedNow(q)',
         NEW p \in CurveStages \cup {"keyCheck", "curveGetId"}, NEW st \in Nat,
         NEW m, m = [[q EXCEPT !.pc = p] EXCEPT !.step = st],
         p # "keyCheck" => IsEC(q.cipherType),
         p = "curveGetId" => q.op = "set",
         p = "curveMont" => q.curve_id \in Mont,
         p \in {"curveList", "curveCreate"} => q.curve_id \in Curves,
         p = "curveCreate" => st \in CurveSteps,
         NEW n,
         \/ n = [m EXCEPT !.faulty = TRUE]
         \/ /\ n = m
            /\ q.clean /\ Fair(q) /\ IsEC(q.cipherType) =>
                  /\ p = "curveList" => curve'[q.curve_id] \in {{}, CurveSteps}
                  /\ p = "curveCreate" => curve'[q.curve_id] = 1 .. (st - 1)
                  /\ p \in {"keyCheck", "curveGetId"} => Usable(q.curve_id)'
                  /\ p = "curveGetId" => object' # None
  PROVE  ClientInv(n)'
<1>1. p \in SetStages /\ p # "write" /\ p \in Stages
  BY DEF SetStages, CurveStages, Stages
<1>2. Shape(q)
  BY DEF Prepared
<1>3. Shape(m)
  BY <1>1, <1>2, Setters
<1> DEFINE MayGoOn ==
               q.clean /\ Fair(q) /\ IsEC(q.cipherType) =>
                  /\ p = "curveList" => curve'[q.curve_id] \in {{}, CurveSteps}
                  /\ p = "curveCreate" => curve'[q.curve_id] = 1 .. (st - 1)
                  /\ p \in {"keyCheck", "curveGetId"} => Usable(q.curve_id)'
                  /\ p = "curveGetId" => object' # None
           F == [m EXCEPT !.faulty = TRUE]
<1> HIDE DEF MayGoOn
<1>0. n = F \/ (n = m /\ MayGoOn)
  BY DEF MayGoOn
<1>4. Shape(n)
  <2>1. Shape(F)
    BY <1>3, Setters
  <2> QED BY <2>1, <1>3, <1>0
<1>5. /\ m.hasId = q.hasId /\ m.cipherType = q.cipherType /\ m.objectType = q.objectType
      /\ m.curve_id = q.curve_id /\ m.isPersistant = q.isPersistant /\ m.mode = q.mode
      /\ m.op = q.op /\ m.status = q.status /\ m.key = q.key /\ m.len = q.len /\ m.asked = q.asked
      /\ m.wellFormed = q.wellFormed /\ m.todo = q.todo
  BY <1>2 DEF Shape
<1>6. /\ m.first = q.first /\ m.given = q.given /\ m.pc = p /\ m.step = st
      /\ m.faulty = q.faulty /\ m.clean = q.clean /\ m.fits = q.fits /\ m.created = q.created
  BY <1>2 DEF Shape
<1>7. /\ n.hasId = m.hasId /\ n.cipherType = m.cipherType /\ n.objectType = m.objectType
      /\ n.curve_id = m.curve_id /\ n.isPersistant = m.isPersistant /\ n.mode = m.mode
      /\ n.op = m.op /\ n.status = m.status /\ n.key = m.key /\ n.len = m.len /\ n.asked = m.asked
      /\ n.wellFormed = m.wellFormed /\ n.todo = m.todo
  <2>1. CASE n = F
    BY <1>3, <2>1 DEF Shape
  <2> QED BY <2>1, <1>0
<1>8. /\ n.first = m.first /\ n.given = m.given /\ n.pc = m.pc /\ n.step = m.step
      /\ n.clean = m.clean /\ n.fits = m.fits /\ n.created = m.created
  <2>1. CASE n = F
    BY <1>3, <2>1 DEF Shape
  <2> QED BY <2>1, <1>0
<1>9. /\ q.faulty => n.faulty
      /\ ~n.faulty => n = m /\ MayGoOn
  <2>1. CASE n = m /\ MayGoOn
    BY <2>1, <1>6
  <2>2. CASE n = F
    BY <2>2, <1>3 DEF Shape
  <2> QED BY <2>1, <2>2, <1>0
<1>10. Prepared(n) /\ PreparedNow(n)'
  BY <1>4, <1>5, <1>6, <1>7, <1>8, <1>9, PreparedSame
<1>11. Fair(n) => Fair(q) /\ MayGoOn
  BY <1>6, <1>8, <1>9 DEF Fair
<1>12. n.clean /\ Fair(n) /\ IsEC(n.cipherType) => CurveReady(n)' /\ (p = "curveGetId" => object' # None)
  <2> SUFFICES ASSUME n.clean, Fair(n), IsEC(n.cipherType)
               PROVE  CurveReady(n)' /\ (p = "curveGetId" => object' # None)
    OBVIOUS
  <2>1. /\ p = "curveList" => curve'[q.curve_id] \in {{}, CurveSteps}
        /\ p = "curveCreate" => curve'[q.curve_id] = 1 .. (st - 1)
        /\ p \in {"keyCheck", "curveGetId"} => Usable(q.curve_id)'
        /\ p = "curveGetId" => object' # None
    BY <1>5, <1>6, <1>7, <1>8, <1>11 DEF MayGoOn
  <2>2. n.pc = p /\ n.curve_id = q.curve_id /\ n.step = st
    BY <1>5, <1>6, <1>7, <1>8
  <2>3. p # "write"
    BY DEF CurveStages
  <2> QED BY <2>1, <2>2, <2>3 DEF CurveReady
<1>13. n.todo = << >> => p = "keyCheck"
  BY <1>10, <1>5, <1>7 DEF Prepared, IsFile, IsEC
<1>14. p = "curveGetId" => IsEC(n.cipherType)
  BY <1>5, <1>7
<1> QED BY <1>1, <1>5, <1>6, <1>7, <1>8, <1>10, <1>12, <1>13, <1>14, PreparedHolds DEF CurveStages

LEMMA CurveDoneHolds ==
  ASSUME NEW q, Prepared(q), PreparedNow(q)', NEW s, IsEC(q.cipherType),
         NEW m, m = CurveDone(q, s),
         NEW n,
         \/ n = [m EXCEPT !.faulty = TRUE]
         \/ n = m /\ (q.clean /\ Fair(q) => s = "SM_OK" /\ Usable(q.curve_id)')
  PROVE  ClientInv(n)'
<1>1. Shape(q) /\ Handle(q) /\ q.step \in Nat
  BY DEF Prepared, Shape
<1>2. ASSUME NEW st \in Nat, m = [[q EXCEPT !.pc = "keyCheck"] EXCEPT !.step = st]
      PROVE  ClientInv(n)'
  <2>1. PICK p \in CurveStages \cup {"keyCheck", "curveGetId"} : p = "keyCheck"
    OBVIOUS
  <2>2. p # "curveGetId" /\ p # "curveMont" /\ p \notin {"curveList", "curveCreate"}
    BY <2>1
  <2>3. m = [[q EXCEPT !.pc = p] EXCEPT !.step = st]
    BY <1>2, <2>1
  <2>4. CASE n = [m EXCEPT !.faulty = TRUE]
    BY <2>1, <2>2, <2>3, <2>4, MovesOn
  <2>5. CASE n = m /\ (q.clean /\ Fair(q) => s = "SM_OK" /\ Usable(q.curve_id)')
    BY <2>1, <2>2, <2>3, <2>5, MovesOn
  <2> QED BY <2>4, <2>5
<1>3. CASE m = [q EXCEPT !.pc = "keyCheck"]
  <2>1. m = [[q EXCEPT !.pc = "keyCheck"] EXCEPT !.step = q.step]
    BY <1>1, <1>3 DEF Shape
  <2> QED BY <2>1, <1>1, <1>2
<1>4. CASE m = [q EXCEPT !.pc = "keyCheck", !.step = 0]
  <2>1. m = [[q EXCEPT !.pc = "keyCheck"] EXCEPT !.step = 0] /\ 0 \in Nat
    BY <1>1, <1>4 DEF Shape
  <2> QED BY <2>1, <1>2
<1>5. CASE m \in {Fails(q), FailsWith(q, s)} /\ s # "SM_OK"
  <2>1. CASE n = m /\ (q.clean /\ Fair(q) => s = "SM_OK" /\ Usable(q.curve_id)')
    BY <2>1, <1>1, <1>5, Fail, FailingHolds
  <2>2. CASE n = [m EXCEPT !.faulty = TRUE]
    BY <2>2, <1>1, <1>5, FaultFail, FailingHolds
  <2> QED BY <2>1, <2>2
<1> QED BY <1>3, <1>4, <1>5 DEF CurveDone

LEMMA LastCurveStep == Max(CurveSteps) = 6 /\ CurveSteps = 1 .. 6
BY DEF Max, CurveSteps

\* What of the SE stays well-formed when only a curve changes.
LEMMA CurveTyped ==
  ASSUME SeTyped, object' = object, NEW k \in AllCurves, NEW S \in SUBSET CurveSteps,
         curve' \in {curve, [curve EXCEPT ![k] = S]}
  PROVE  SeTyped'
BY DEF SeTyped, CiphersOf

LEMMA CurveMontStep ==
  ASSUME IInv, NEW c \in Clients, CurveMont(c)
  PROVE  IInv'
<1>1. PICK q : q = client[c]
  OBVIOUS
<1>2. ClientInv(q) /\ q.pc = "curveMont" /\ SeTyped
  BY <1>1 DEF IInv, CurveMont
<1>3. Prepared(q) /\ PreparedNow(q) /\ IsEC(q.cipherType) /\ q.curve_id \in Mont
  BY <1>2, PreparedFrom DEF SetStages, CurveStages, ClientInv, Local, SetsEC
<1> DEFINE can == curve[q.curve_id] = {}
           crv == [curve EXCEPT ![q.curve_id] = {1}]
           Then(s) == CurveDone(q, IF s = "SM_ERR_APDU_THROUGHPUT" THEN s ELSE "SM_OK")
<1>4. PICK n : /\ Continue(c, n) /\ object' = object
               /\ \/ n = Then("SM_OK") /\ curve' = crv
                  \/ n = Then("SM_ERR_CONDITIONS_NOT_SATISFIED") /\ ~can /\ curve' = curve
                  \/ /\ \E s \in Errors : n = [Then(s) EXCEPT !.faulty = TRUE]
                     /\ curve' \in {curve, crv}
  BY <1>1 DEF CurveMont, Exchange
<1>5. q.curve_id \in AllCurves /\ 1 \in CurveSteps
  BY <1>3, LastCurveStep DEF AllCurves
<1>6. SeTyped'
  BY <1>2, <1>4, <1>5, CurveTyped
<1>7. PreparedNow(q)'
  BY <1>3, <1>4 DEF PreparedNow, Overwrites, SameKind
<1>8. \/ n = CurveDone(q, "SM_OK") /\ curve'[q.curve_id] # {}
      \/ \E s : n = [CurveDone(q, s) EXCEPT !.faulty = TRUE]
  BY <1>2, <1>4, <1>5 DEF SeTyped
<1>9. CASE n = CurveDone(q, "SM_OK") /\ curve'[q.curve_id] # {}
  <2>1. Usable(q.curve_id)'
    BY <1>3, <1>9, ObjectsAssumption DEF Usable
  <2> QED BY <2>1, <1>3, <1>4, <1>6, <1>7, <1>9, CurveDoneHolds, ClientStep
<1>10. CASE \E s : n = [CurveDone(q, s) EXCEPT !.faulty = TRUE]
  <2>1. PICK s : n = [CurveDone(q, s) EXCEPT !.faulty = TRUE]
    BY <1>10
  <2>2. PICK m : m = CurveDone(q, s)
    OBVIOUS
  <2>3. n = [m EXCEPT !.faulty = TRUE]
    BY <2>1, <2>2
  <2> QED BY <2>2, <2>3, <1>3, <1>4, <1>6, <1>7, CurveDoneHolds, ClientStep
<1> QED BY <1>8, <1>9, <1>10

LEMMA CurveListedStep ==
  ASSUME IInv, NEW c \in Clients, CurveListed(c)
  PROVE  IInv'
<1>1. PICK q : q = client[c]
  OBVIOUS
<1>2. ClientInv(q) /\ q.pc = "curveList" /\ SeTyped
  BY <1>1 DEF IInv, CurveListed
<1>3. /\ Prepared(q) /\ PreparedNow(q) /\ IsEC(q.cipherType) /\ q.curve_id \in Curves
      /\ q.clean /\ Fair(q) => curve[q.curve_id] \in {{}, CurveSteps}
  <2>1. Prepared(q) /\ PreparedNow(q) /\ IsEC(q.cipherType) /\ q.curve_id \in Curves
        /\ (q.clean /\ Fair(q) => SetGoesOn(q))
    BY <1>2, PreparedFrom DEF SetStages, CurveStages, ClientInv, Local, SetsEC
  <2> QED BY <2>1, <1>2 DEF SetGoesOn, CurveReady, SetStages, CurveStages
<1>4. q.curve_id \in AllCurves
  BY <1>3 DEF AllCurves
<1> DEFINE Then(s) ==
             IF s = "SM_OK" /\ 1 \notin curve[q.curve_id] THEN [q EXCEPT !.pc = "curveCreate", !.step = 1]
             ELSE CurveDone(q, s)
<1>5. PICK n : /\ Continue(c, n) /\ UNCHANGED <<object, curve>>
               /\ \/ n = Then("SM_OK")
                  \/ \E s \in Errors : n = [Then(s) EXCEPT !.faulty = TRUE]
  BY <1>1 DEF CurveListed, Asks, Exchange
<1>6. \/ n = [q EXCEPT !.pc = "curveCreate", !.step = 1] /\ 1 \notin curve[q.curve_id]
      \/ n = CurveDone(q, "SM_OK") /\ 1 \in curve[q.curve_id]
      \/ \E s : n = [CurveDone(q, s) EXCEPT !.faulty = TRUE]
  BY <1>5 DEF Errors
<1> HIDE DEF Then
<1>7. SeTyped'
  BY <1>2, <1>5 DEF SeTyped, CiphersOf
<1>8. PreparedNow(q)'
  BY <1>3, <1>5 DEF PreparedNow, Overwrites, SameKind
<1>9. CASE n = [q EXCEPT !.pc = "curveCreate", !.step = 1] /\ 1 \notin curve[q.curve_id]
  <2>1. PICK p \in CurveStages \cup {"keyCheck", "curveGetId"} : p = "curveCreate"
    BY DEF CurveStages
  <2>2. p # "curveGetId" /\ p # "curveMont" /\ p # "curveList" /\ p \notin {"keyCheck", "curveGetId"}
    BY <2>1
  <2>3. n = [[q EXCEPT !.pc = p] EXCEPT !.step = 1]
    BY <1>3, <1>9, <2>1 DEF Prepared, Shape
  <2>4. q.clean /\ Fair(q) => curve'[q.curve_id] = 1 .. (1 - 1)
    BY <1>3, <1>5, <1>9, LastCurveStep
  <2>5. 1 \in Nat /\ 1 \in CurveSteps
    BY LastCurveStep
  <2>6. ClientInv(n)'
    BY <2>1, <2>2, <2>3, <2>4, <2>5, <1>3, <1>8, MovesOn
  <2> QED BY <2>6, <1>5, <1>7, ClientStep
<1>10. CASE n = CurveDone(q, "SM_OK") /\ 1 \in curve[q.curve_id]
  <2>1. q.clean /\ Fair(q) => curve'[q.curve_id] = CurveSteps
    BY <1>3, <1>5, <1>10
  <2>2. q.clean /\ Fair(q) => Usable(q.curve_id)'
    BY <2>1, <1>3, ObjectsAssumption DEF Usable
  <2> QED BY <2>2, <1>3, <1>5, <1>7, <1>8, <1>10, CurveDoneHolds, ClientStep
<1>11. CASE \E s : n = [CurveDone(q, s) EXCEPT !.faulty = TRUE]
  BY <1>11, <1>3, <1>5, <1>7, <1>8, CurveDoneHolds, ClientStep
<1> QED BY <1>6, <1>9, <1>10, <1>11

LEMMA CurveCreatedStep ==
  ASSUME IInv, NEW c \in Clients, CurveCreated(c)
  PROVE  IInv'
<1>1. PICK q : q = client[c]
  OBVIOUS
<1>2. ClientInv(q) /\ q.pc = "curveCreate" /\ SeTyped
  BY <1>1 DEF IInv, CurveCreated
<1>3. /\ Prepared(q) /\ PreparedNow(q) /\ IsEC(q.cipherType) /\ q.curve_id \in Curves /\ q.step \in CurveSteps
      /\ q.clean /\ Fair(q) => curve[q.curve_id] = 1 .. (q.step - 1)
  <2>1. /\ Prepared(q) /\ PreparedNow(q) /\ IsEC(q.cipherType) /\ q.curve_id \in Curves /\ q.step \in CurveSteps
        /\ q.clean /\ Fair(q) => SetGoesOn(q)
    BY <1>2, PreparedFrom DEF SetStages, CurveStages, ClientInv, Local, SetsEC
  <2> QED BY <2>1, <1>2 DEF SetGoesOn, CurveReady, SetStages, CurveStages
<1>4. q.curve_id \in AllCurves /\ q.step \in 1 .. 6
  BY <1>3, LastCurveStep DEF AllCurves
<1> DEFINE k == q.curve_id
           can == IF q.step = 1 THEN curve[k] = {} ELSE 1 \in curve[k] /\ q.step \notin curve[k]
           crv == [curve EXCEPT ![k] = @ \cup {q.step}]
           Then(s) ==
             IF s = "SM_OK" /\ q.step < Max(CurveSteps) THEN [q EXCEPT !.step = @ + 1]
             ELSE CurveDone(q, s)
<1>5. PICK n : /\ Continue(c, n) /\ object' = object
               /\ \/ n = Then("SM_OK") /\ can /\ curve' = crv
                  \/ n = Then("SM_ERR_CONDITIONS_NOT_SATISFIED") /\ ~can /\ curve' = curve
                  \/ /\ \E s \in Errors : n = [Then(s) EXCEPT !.faulty = TRUE]
                     /\ curve' \in {curve, crv}
  BY <1>1 DEF CurveCreated, Exchange
<1>6. \/ n = [q EXCEPT !.step = @ + 1] /\ can /\ curve' = crv /\ q.step < 6
      \/ n = CurveDone(q, "SM_OK") /\ can /\ curve' = crv /\ q.step = 6
      \/ n = CurveDone(q, "SM_ERR_CONDITIONS_NOT_SATISFIED") /\ ~can
      \/ \E s : n = [CurveDone(q, s) EXCEPT !.faulty = TRUE]
  BY <1>4, <1>5, LastCurveStep DEF Errors
<1> HIDE DEF Then
<1>7. crv = [curve EXCEPT ![k] = curve[k] \cup {q.step}] /\ curve[k] \cup {q.step} \in SUBSET CurveSteps
  BY <1>2, <1>3, <1>4 DEF SeTyped
<1>8. SeTyped'
  BY <1>2, <1>4, <1>5, <1>7, CurveTyped
<1>9. PreparedNow(q)'
  BY <1>3, <1>5 DEF PreparedNow, Overwrites, SameKind
<1>10. q.clean /\ Fair(q) => can
  BY <1>3, <1>4
<1>11. q.clean /\ Fair(q) /\ curve' = crv => curve'[k] = 1 .. q.step
  <2>1. curve' = crv => curve'[k] = curve[k] \cup {q.step}
    BY <1>2, <1>4 DEF SeTyped
  <2>2. (1 .. (q.step - 1)) \cup {q.step} = 1 .. q.step
    BY <1>4
  <2> QED BY <2>1, <2>2, <1>3
<1> HIDE DEF can, crv
<1>12. CASE n = [q EXCEPT !.step = @ + 1] /\ can /\ curve' = crv /\ q.step < 6
  <2>1. PICK p \in CurveStages \cup {"keyCheck", "curveGetId"} : p = "curveCreate"
    BY DEF CurveStages
  <2>2. p # "curveGetId" /\ p # "curveMont" /\ p # "curveList" /\ p \notin {"keyCheck", "curveGetId"}
    BY <2>1
  <2>3. PICK st \in Nat : st = q.step + 1
    BY <1>4
  <2>4. n = [[q EXCEPT !.pc = p] EXCEPT !.step = st]
    BY <1>2, <1>3, <1>12, <2>1, <2>3 DEF Prepared, Shape
  <2>5. q.clean /\ Fair(q) => curve'[q.curve_id] = 1 .. (st - 1)
    BY <1>11, <1>12, <1>4, <2>3
  <2>6. st \in CurveSteps
    BY <2>3, <1>4, <1>12, LastCurveStep
  <2>7. ClientInv(n)'
    BY <2>1, <2>2, <2>4, <2>5, <2>6, <1>3, <1>9, MovesOn
  <2> QED BY <2>7, <1>5, <1>8, ClientStep
<1>13. CASE n = CurveDone(q, "SM_OK") /\ can /\ curve' = crv /\ q.step = 6
  <2>1. q.clean /\ Fair(q) => curve'[q.curve_id] = CurveSteps
    BY <1>11, <1>13, LastCurveStep
  <2>2. q.clean /\ Fair(q) => Usable(q.curve_id)'
    BY <2>1, <1>3, ObjectsAssumption DEF Usable
  <2> QED BY <2>2, <1>3, <1>5, <1>8, <1>9, <1>13, CurveDoneHolds, ClientStep
<1>14. CASE n = CurveDone(q, "SM_ERR_CONDITIONS_NOT_SATISFIED") /\ ~can
  BY <1>14, <1>3, <1>5, <1>8, <1>9, <1>10, CurveDoneHolds, ClientStep
<1>15. CASE \E s : n = [CurveDone(q, s) EXCEPT !.faulty = TRUE]
  BY <1>15, <1>3, <1>5, <1>8, <1>9, CurveDoneHolds, ClientStep
<1> QED BY <1>6, <1>12, <1>13, <1>14, <1>15

LEMMA CurveStartHolds ==
  ASSUME NEW q, Prepared(q), PreparedNow(q)', IsEC(q.cipherType), NEW n, n = CurveStart(q),
         q.clean /\ Fair(q) => curve'[q.curve_id] = {} \/ Usable(q.curve_id)'
  PROVE  ClientInv(n)'
<1>1. q.curve_id \in AllCurves /\ Shape(q)
  BY DEF Prepared
<1>2. CASE q.curve_id \in Edwards \/ (q.curve_id \in Mont /\ ~VER_GTE_07_02)
  <2>1. Usable(q.curve_id)'
    BY <1>2, ObjectsAssumption DEF Usable
  <2>2. n = CurveDone(q, "SM_OK")
    BY <1>2, ObjectsAssumption DEF CurveStart
  <2> QED BY <2>1, <2>2, CurveDoneHolds
<1>3. ASSUME NEW p \in {"curveMont", "curveList"}, n = [q EXCEPT !.pc = p],
             p = "curveMont" => q.curve_id \in Mont,
             p = "curveList" => q.curve_id \in Curves
      PROVE  ClientInv(n)'
  <2>1. p \in CurveStages \cup {"keyCheck", "curveGetId"}
        /\ p # "curveGetId" /\ p # "curveCreate" /\ p \notin {"keyCheck", "curveGetId"}
    BY <1>3 DEF CurveStages
  <2>2. PICK st \in Nat : st = q.step
    BY <1>1 DEF Shape
  <2>3. n = [[q EXCEPT !.pc = p] EXCEPT !.step = st]
    BY <1>1, <1>3, <2>2 DEF Shape
  <2>4. q.clean /\ Fair(q) /\ p = "curveList" => curve'[q.curve_id] \in {{}, CurveSteps}
    BY <1>3, ObjectsAssumption DEF Usable
  <2> QED BY <1>3, <2>1, <2>3, <2>4, MovesOn
<1>4. CASE q.curve_id \in Mont /\ VER_GTE_07_02
  <2>1. n = [q EXCEPT !.pc = "curveMont"]
    BY <1>4, ObjectsAssumption DEF CurveStart
  <2> QED BY <2>1, <1>3, <1>4
<1>5. CASE q.curve_id \in Curves
  <2>1. n = [q EXCEPT !.pc = "curveList"]
    BY <1>5, ObjectsAssumption DEF CurveStart
  <2> QED BY <2>1, <1>3, <1>5
<1> QED BY <1>1, <1>2, <1>4, <1>5, ObjectsAssumption DEF AllCurves

\* A call that has set a key.
LEMMA HasSetHolds ==
  ASSUME NEW n, Shape(n), Handle(n), n.op \in Settles, n.status = "kStatus_SSS_Success", n.pc = "idle",
         n.clean => HasSet(n)'
  PROVE  ClientInv(n)'
<1>1. n.pc \notin SetStages \cup GetStages \cup HandleStages /\ n.op \notin {"get", "getHandle"}
  BY DEF SetStages, CurveStages, GetStages, HandleStages, Settles
<1>2. Local(n)
  BY <1>1 DEF Local, Sets, SetsEC, Gets, Counted, Stage, CurveStages, HandleStages, SetStages, GetStages
<1>3. n.clean => Global(n)'
  BY <1>1 DEF Global, WrittenSoFar, OnItsCurve, Lifetime, HasRead, ReadSoFar, Describes,
              SetGoesOn, GetGoesOn, Ended, SetStages, CurveStages, GetStages
<1> QED BY <1>2, <1>3 DEF ClientInv

LEMMA EccParsedHolds ==
  ASSUME NEW q, Prepared(q), PreparedNow(q)', IsEC(q.cipherType), NEW b \in BOOLEAN,
         q.clean /\ q.op = "set" /\ b => object' # None /\ object'.curve = q.curve_id,
         q.clean /\ Fair(q) => (object' # None <=> b) /\ Usable(q.curve_id)',
         NEW n, n = EccParsed(q, b)
  PROVE  ClientInv(n)'
<1>1. Shape(q) /\ Handle(q)
  BY DEF Prepared
<1>2. q.clean /\ Fair(q) => q.wellFormed /\ LengthsFit(q)
  BY DEF PreparedNow, LengthsFit
<1>3. CASE n = [q EXCEPT !.pc = "write", !.exists = b]
  <2>1. n = [[q EXCEPT !.pc = "write"] EXCEPT !.exists = b]
    BY <1>1, <1>3 DEF Shape
  <2>2. q.todo # << >>
    BY DEF Prepared, IsFile, IsEC
  <2> QED BY <2>1, <2>2, WriteBegins
<1>4. CASE n = Fails(q) /\ ~(q.wellFormed /\ LengthsFit(q))
  BY <1>1, <1>2, <1>4, Fail, FailingHolds
<1> QED BY <1>3, <1>4 DEF EccParsed

\* A command whose failure does not matter.
LEMMA PreparedFaulty ==
  ASSUME NEW q, Prepared(q), PreparedNow(q)', NEW n, n = [q EXCEPT !.faulty = TRUE]
  PROVE  Prepared(n) /\ PreparedNow(n)' /\ ~Fair(n) /\ n.todo = q.todo /\ n.cipherType = q.cipherType
<1>1. Shape(q)
  BY DEF Prepared
<1>2. Shape(n)
  BY <1>1, Setters
<1>3. /\ n.hasId = q.hasId /\ n.cipherType = q.cipherType /\ n.objectType = q.objectType
      /\ n.curve_id = q.curve_id /\ n.isPersistant = q.isPersistant /\ n.mode = q.mode
      /\ n.op = q.op /\ n.status = q.status /\ n.key = q.key /\ n.len = q.len /\ n.asked = q.asked
      /\ n.wellFormed = q.wellFormed /\ n.todo = q.todo
  BY <1>1 DEF Shape
<1>4. n.first = q.first /\ n.given = q.given /\ n.clean = q.clean /\ n.fits = q.fits /\ n.created = q.created
  BY <1>1 DEF Shape
<1>5. n.faulty
  BY <1>1 DEF Shape
<1> QED BY <1>2, <1>3, <1>4, <1>5, PreparedSame DEF Fair

\* A file of no bytes.
LEMMA NothingToWrite ==
  ASSUME NEW q, Prepared(q), PreparedNow(q)', q.todo = << >>,
         NEW m, m = Success(q), NEW n, n = m \/ n = [m EXCEPT !.faulty = TRUE]
  PROVE  ClientInv(n)'
<1>1. Shape(q) /\ Handle(q)
  BY DEF Prepared
<1>2. /\ Shape(m) /\ m.pc = "idle" /\ m.status = "kStatus_SSS_Success" /\ Kept(m, q) /\ m.given = q.given
  BY <1>1, SuccessIs
<1>3. /\ Shape(n) /\ n.pc = "idle" /\ n.status = "kStatus_SSS_Success" /\ Kept(n, q) /\ n.given = q.given
  <2>1. CASE n = [m EXCEPT !.faulty = TRUE]
    <3>1. Shape(n)
      BY <2>1, <1>2, Setters
    <3>2. n.pc = m.pc /\ n.status = m.status /\ n.given = m.given
      BY <2>1, <1>2 DEF Shape
    <3>3. Kept(n, m)
      BY <2>1, <1>2 DEF Shape, Kept
    <3> QED BY <3>1, <3>2, <3>3, <1>2 DEF Kept
  <2> QED BY <2>1, <1>2
<1>4. Handle(n) /\ n.op \in Settles
  BY <1>1, <1>3 DEF Handle, Kept, Prepared
<1>5. DOMAIN q.given = {} /\ ~IsEC(q.cipherType)
  <2>1. IsFile(q.cipherType) /\ q.len = 0 /\ q.given = Data(q.key, Given(q))
    BY DEF Prepared
  <2>2. Given(q) = 1 .. 0
    BY <2>1 DEF Given, AllPlaces
  <2> QED BY <2>1, <2>2 DEF Data, IsFile, IsEC
<1>6. n.clean => HasSet(n)'
  BY <1>3, <1>5 DEF HasSet, PreparedNow, Kept
<1> QED BY <1>3, <1>4, <1>6, HasSetHolds

LEMMA KeyCheckedStep ==
  ASSUME IInv, NEW c \in Clients, KeyChecked(c)
  PROVE  IInv'
<1>1. PICK q : q = client[c]
  OBVIOUS
<1>2. ClientInv(q) /\ q.pc = "keyCheck" /\ SeTyped
  BY <1>1 DEF IInv, KeyChecked
<1>3. /\ Prepared(q) /\ PreparedNow(q) /\ Shape(q) /\ Handle(q)
      /\ q.clean /\ Fair(q) /\ IsEC(q.cipherType) => Usable(q.curve_id)
  <2>1. Prepared(q) /\ PreparedNow(q) /\ (q.clean /\ Fair(q) => SetGoesOn(q))
    BY <1>2, PreparedFrom DEF SetStages
  <2> QED BY <2>1, <1>2 DEF SetGoesOn, CurveReady, SetStages, Prepared
<1>4. PICK b \in BOOLEAN : b <=> object # None
  OBVIOUS
<1> DEFINE found == object # None
           EccThen(s) ==
             IF s # "SM_OK" THEN FailsWith(q, s)
             ELSE IF found THEN [q EXCEPT !.pc = "curveGetId"] ELSE EccParsed(q, FALSE)
           Then(s) ==
             IF s = "SM_ERR_APDU_THROUGHPUT" THEN FailsWith(q, s)
             ELSE IF q.todo = <<>> THEN Success(q)
             ELSE [q EXCEPT !.pc = "write", !.exists = s = "SM_OK" /\ found]
<1>5. PICK n : /\ Continue(c, n) /\ UNCHANGED <<object, curve>>
               /\ \/ /\ IsEC(q.cipherType) /\ q.op = "set"
                     /\ \/ n = EccThen("SM_OK")
                        \/ \E s \in Errors : n = [EccThen(s) EXCEPT !.faulty = TRUE]
                  \/ /\ ~(IsEC(q.cipherType) /\ q.op = "set")
                     /\ \/ n = Then("SM_OK")
                        \/ \E s \in Errors : n = [Then(s) EXCEPT !.faulty = TRUE]
  BY <1>1 DEF KeyChecked, Asks, Exchange
<1>6. \/ n = [q EXCEPT !.pc = "curveGetId"] /\ object # None /\ IsEC(q.cipherType) /\ q.op = "set"
      \/ n = EccParsed(q, FALSE) /\ object = None /\ IsEC(q.cipherType)
      \/ \E s : n = [FailsWith(q, s) EXCEPT !.faulty = TRUE]
      \/ n \in {Success(q), [Success(q) EXCEPT !.faulty = TRUE]} /\ q.todo = << >>
      \/ /\ n = [q EXCEPT !.pc = "write", !.exists = b] /\ q.todo # << >>
         /\ ~(IsEC(q.cipherType) /\ q.op = "set")
      \/ /\ n = [[q EXCEPT !.pc = "write", !.exists = FALSE] EXCEPT !.faulty = TRUE] /\ q.todo # << >>
         /\ ~(IsEC(q.cipherType) /\ q.op = "set")
  <2>1. CASE IsEC(q.cipherType) /\ q.op = "set"
    BY <2>1, <1>5 DEF Errors
  <2>2. CASE ~(IsEC(q.cipherType) /\ q.op = "set") /\ n = Then("SM_OK")
    <3>1. ("SM_OK" = "SM_OK" /\ found) = b
      BY <1>4
    <3> QED BY <3>1, <2>2
  <2>3. CASE ~(IsEC(q.cipherType) /\ q.op = "set") /\ \E s \in Errors : n = [Then(s) EXCEPT !.faulty = TRUE]
    <3>1. ("SM_NOT_OK" = "SM_OK" /\ found) = FALSE
      OBVIOUS
    <3> QED BY <3>1, <2>3 DEF Errors
  <2> QED BY <2>1, <2>2, <2>3, <1>5
<1> HIDE DEF Then, EccThen
<1>7. SeTyped'
  BY <1>2, <1>5 DEF SeTyped, CiphersOf
<1>8. PreparedNow(q)'
  BY <1>3, <1>5 DEF PreparedNow, Overwrites, SameKind
<1>9. q.clean /\ Fair(q) /\ IsEC(q.cipherType) => Usable(q.curve_id)'
  BY <1>3, <1>5 DEF Usable
<1>10. CASE n = [q EXCEPT !.pc = "curveGetId"] /\ object # None /\ IsEC(q.cipherType) /\ q.op = "set"
  <2>1. PICK p \in CurveStages \cup {"keyCheck", "curveGetId"} : p = "curveGetId"
    BY DEF CurveStages
  <2>2. p # "curveCreate" /\ p # "curveMont" /\ p # "curveList" /\ p \notin {"curveList", "curveCreate"}
    BY <2>1
  <2>3. PICK st \in Nat : st = q.step
    BY <1>3 DEF Shape
  <2>4. n = [[q EXCEPT !.pc = p] EXCEPT !.step = st]
    BY <1>3, <1>10, <2>1, <2>3 DEF Shape
  <2>5. ClientInv(n)'
    BY <2>1, <2>2, <2>4, <1>3, <1>5, <1>8, <1>9, <1>10, MovesOn
  <2> QED BY <2>5, <1>5, <1>7, ClientStep
<1>11. CASE n = EccParsed(q, FALSE) /\ object = None /\ IsEC(q.cipherType)
  <2>1. PICK f \in BOOLEAN : f = FALSE
    OBVIOUS
  <2>2. ClientInv(n)'
    BY <2>1, <1>3, <1>5, <1>8, <1>9, <1>11, EccParsedHolds
  <2> QED BY <2>2, <1>5, <1>7, ClientStep
<1>12. CASE \E s : n = [FailsWith(q, s) EXCEPT !.faulty = TRUE]
  BY <1>12, <1>3, <1>5, FaultFail, FailingHolds, QuietStep
<1>13. CASE n \in {Success(q), [Success(q) EXCEPT !.faulty = TRUE]} /\ q.todo = << >>
  BY <1>13, <1>3, <1>5, <1>7, <1>8, NothingToWrite, ClientStep
<1>14. CASE /\ n = [q EXCEPT !.pc = "write", !.exists = b] /\ q.todo # << >>
            /\ ~(IsEC(q.cipherType) /\ q.op = "set")
  <2>1. n = [[q EXCEPT !.pc = "write"] EXCEPT !.exists = b]
    BY <1>3, <1>14 DEF Shape
  <2>2. ClientInv(n)'
    BY <2>1, <1>3, <1>4, <1>5, <1>8, <1>9, <1>14, WriteBegins
  <2> QED BY <2>2, <1>5, <1>7, ClientStep
<1>15. CASE /\ n = [[q EXCEPT !.pc = "write", !.exists = FALSE] EXCEPT !.faulty = TRUE] /\ q.todo # << >>
            /\ ~(IsEC(q.cipherType) /\ q.op = "set")
  <2>1. PICK m : m = [q EXCEPT !.faulty = TRUE]
    OBVIOUS
  <2>2. Prepared(m) /\ PreparedNow(m)' /\ ~Fair(m) /\ m.todo = q.todo /\ m.cipherType = q.cipherType
    BY <2>1, <1>3, <1>8, PreparedFaulty
  <2>3. PICK f \in BOOLEAN : f = FALSE
    OBVIOUS
  <2>4. n = [[m EXCEPT !.pc = "write"] EXCEPT !.exists = f]
    BY <2>1, <2>3, <1>3, <1>15 DEF Shape
  <2>5. ClientInv(n)'
    BY <2>2, <2>3, <2>4, <1>15, WriteBegins
  <2> QED BY <2>5, <1>5, <1>7, ClientStep
<1> QED BY <1>6, <1>10, <1>11, <1>12, <1>13, <1>14, <1>15

LEMMA CurveGotStep ==
  ASSUME IInv, NEW c \in Clients, CurveGot(c)
  PROVE  IInv'
<1>1. PICK q : q = client[c]
  OBVIOUS
<1>2. ClientInv(q) /\ q.pc = "curveGetId" /\ SeTyped
  BY <1>1 DEF IInv, CurveGot
<1>3. /\ Prepared(q) /\ PreparedNow(q) /\ Shape(q) /\ Handle(q) /\ IsEC(q.cipherType)
      /\ q.clean /\ Fair(q) => Usable(q.curve_id) /\ object # None
  <2>1. Prepared(q) /\ PreparedNow(q) /\ (q.clean /\ Fair(q) => SetGoesOn(q)) /\ IsEC(q.cipherType)
    BY <1>2, PreparedFrom DEF SetStages, ClientInv, Local, SetsEC
  <2> QED BY <2>1, <1>2 DEF SetGoesOn, CurveReady, SetStages, Prepared
<1> DEFINE Then(s) ==
             IF s # "SM_OK" THEN FailsWith(q, s)
             ELSE IF object.curve # q.curve_id THEN Fails(q) ELSE EccParsed(q, TRUE)
<1>4. PICK n : /\ Continue(c, n) /\ UNCHANGED <<object, curve>>
               /\ \/ n = Then("SM_OK") /\ IsCurveKey
                  \/ n = Then("SM_ERR_CONDITIONS_NOT_SATISFIED") /\ ~IsCurveKey
                  \/ \E s \in Errors : n = [Then(s) EXCEPT !.faulty = TRUE]
  BY <1>1 DEF CurveGot, Asks, Exchange
<1>5. \/ n = EccParsed(q, TRUE) /\ object # None /\ object.curve = q.curve_id
      \/ n = Fails(q) /\ object # None /\ object.curve # q.curve_id
      \/ n = FailsWith(q, "SM_ERR_CONDITIONS_NOT_SATISFIED") /\ ~IsCurveKey
      \/ \E s : n = [FailsWith(q, s) EXCEPT !.faulty = TRUE]
  BY <1>4 DEF Errors, IsCurveKey
<1> HIDE DEF Then
<1>6. SeTyped'
  BY <1>2, <1>4 DEF SeTyped, CiphersOf
<1>7. PreparedNow(q)'
  BY <1>3, <1>4 DEF PreparedNow, Overwrites, SameKind
<1>8. q.clean /\ Fair(q) => Usable(q.curve_id)'
  BY <1>3, <1>4 DEF Usable
<1>9. q.clean /\ Fair(q) => IsCurveKey /\ object.curve = q.curve_id
  <2>1. SUFFICES ASSUME q.clean, Fair(q) PROVE IsCurveKey /\ object.curve = q.curve_id
    OBVIOUS
  <2>2. object # None /\ object.cipher = SecureObjectType(q) /\ object.curve = q.curve_id
    BY <2>1, <1>3 DEF PreparedNow, Overwrites, SameKind
  <2>3. q.cipherType \in Ciphers
    BY <1>3 DEF Shape, Prepared
  <2> QED BY <2>2, <2>3, <1>3, TypeOfHandle DEF IsCurveKey
<1>10. CASE n = EccParsed(q, TRUE) /\ object # None /\ object.curve = q.curve_id
  <2>1. PICK t \in BOOLEAN : t = TRUE
    OBVIOUS
  <2>2. ClientInv(n)'
    BY <2>1, <1>3, <1>4, <1>7, <1>8, <1>10, EccParsedHolds
  <2> QED BY <2>2, <1>4, <1>6, ClientStep
<1>11. CASE n = Fails(q) /\ object # None /\ object.curve # q.curve_id
  BY <1>11, <1>3, <1>4, <1>9, Fail, FailingHolds, QuietStep
<1>12. CASE n = FailsWith(q, "SM_ERR_CONDITIONS_NOT_SATISFIED") /\ ~IsCurveKey
  BY <1>12, <1>3, <1>4, <1>9, Fail, FailingHolds, QuietStep
<1>13. CASE \E s : n = [FailsWith(q, s) EXCEPT !.faulty = TRUE]
  BY <1>13, <1>3, <1>4, FaultFail, FailingHolds, QuietStep
<1> QED BY <1>5, <1>10, <1>11, <1>12, <1>13

\* The beginning of a call.
LEMMA StartNextStep ==
  ASSUME IInv, NEW c \in Clients, NEW n, NEW kind, NEW most, Starts(c, n, kind, most), ClientInv(n)'
  PROVE  IInv'
<1>1. client' = [client EXCEPT ![c] = n] /\ UNCHANGED <<object, curve>>
  BY DEF Starts
<1>2. ~Changed
  BY <1>1 DEF Changed
<1>3. ASSUME NEW d \in Clients
      PROVE  client'[d] = IF d = c THEN n ELSE [client[d] EXCEPT !.clean = @ /\ ~Changed]
  <2>1. client[d].clean \in BOOLEAN /\ client[d] = [client[d] EXCEPT !.clean = client[d].clean]
    BY DEF IInv, ClientInv, Shape
  <2>2. (client[d].clean /\ ~Changed) = client[d].clean
    BY <2>1, <1>2
  <2> QED BY <1>1, <2>1, <2>2 DEF IInv
<1>4. client' = [d \in Clients |-> client'[d]]
  BY <1>1 DEF IInv
<1>5. Continue(c, n)
  BY <1>3, <1>4 DEF Continue
<1>6. SeTyped'
  BY <1>1 DEF IInv, SeTyped, CiphersOf
<1> QED BY <1>5, <1>6, ClientStep

\* A call that is about to look at what is in the SE.
Preparing(r) ==
    /\ Shape(r) /\ Handle(r) /\ r.status = "running"
    /\ r.op \in Settles /\ r.hasId /\ r.cipherType # None
    /\ r.key \in Keys
    /\ r.first /\ Left(r) = Given(r) /\ r.todo \in Seq(SUBSET Given(r))
    /\ SecureObjectPart(r) \in Parts
    /\ IsFile(r.cipherType) => r.op = "set" /\ r.len \in Lens
    /\ r.todo = << >> => IsFile(r.cipherType) /\ r.len = 0
    /\ IsFile(r.cipherType) /\ r.len = 0 => r.todo = << >>
    /\ IsEC(r.cipherType) => r.curve_id \in AllCurves /\ r.asked \in AllCurves /\ Len(r.todo) = 1

Filled(a, key, wf, k, cid, todo, size) ==
    [[[[[[a EXCEPT !.key = key] EXCEPT !.wellFormed = wf] EXCEPT !.asked = k]
        EXCEPT !.curve_id = cid] EXCEPT !.todo = todo] EXCEPT !.len = size]

MayFill(a, key, wf, k, cid, todo, size) ==
    /\ Shape(a) /\ Handle(a) /\ a.op \in Settles /\ a.hasId /\ a.status = "running" /\ a.first
    /\ a.cipherType # None
    /\ key \in Keys /\ wf \in BOOLEAN /\ k \in AllCurves \cup {None} /\ cid \in AllCurves \cup {None}
    /\ size \in Nat /\ todo \in Seq(SUBSET AllPlaces(a.cipherType, a.objectType, size))
    /\ UNION Range(todo) = AllPlaces(a.cipherType, a.objectType, size)
    /\ SecureObjectPart(a) \in Parts
    /\ IsFile(a.cipherType) => a.op = "set" /\ size \in Lens
    /\ todo = << >> => IsFile(a.cipherType) /\ size = 0
    /\ IsFile(a.cipherType) /\ size = 0 => todo = << >>
    /\ IsEC(a.cipherType) => k \in AllCurves /\ cid \in AllCurves /\ Len(todo) = 1

LEMMA PreparingIs ==
  ASSUME NEW a, NEW key, NEW wf, NEW k, NEW cid, NEW todo, NEW size,
         MayFill(a, key, wf, k, cid, todo, size),
         NEW n, n = Filled(a, key, wf, k, cid, todo, size)
  PROVE  Preparing(n) /\ n.cipherType = a.cipherType /\ n.curve_id = cid /\ n.wellFormed = wf
<1>0. PICK places : places = AllPlaces(a.cipherType, a.objectType, size)
  OBVIOUS
<1>1. PICK l : l = [[[a EXCEPT !.key = key] EXCEPT !.wellFormed = wf] EXCEPT !.asked = k]
  OBVIOUS
<1>2. PICK m : m = [[l EXCEPT !.curve_id = cid] EXCEPT !.todo = todo]
  OBVIOUS
<1>3. Shape(l)
  BY <1>1, Setters DEF MayFill
<1>4. Shape(m)
  BY <1>2, <1>3, Setters DEF MayFill
<1>5. n = [m EXCEPT !.len = size]
  BY <1>1, <1>2 DEF Filled
<1>6. Shape(n)
  <2>1. PICK z : z = [m EXCEPT !.len = size]
    OBVIOUS
  <2>2. Shape(z)
    BY <1>4, <2>1, Setters DEF MayFill
  <2> QED BY <1>5, <2>1, <2>2
<1>7. /\ n.hasId = a.hasId /\ n.cipherType = a.cipherType /\ n.objectType = a.objectType
      /\ n.op = a.op /\ n.status = a.status /\ n.key = key /\ n.len = size /\ n.asked = k
      /\ n.wellFormed = wf /\ n.todo = todo /\ n.curve_id = cid
  BY DEF MayFill, Shape, Filled
<1>8. n.first = a.first /\ n.isPersistant = a.isPersistant /\ n.mode = a.mode
  BY DEF MayFill, Shape, Filled
<1>9. Given(n) = places /\ Left(n) = places /\ SecureObjectPart(n) = SecureObjectPart(a)
  BY <1>0, <1>7 DEF MayFill, Given, Left, SecureObjectPart
<1>10. Handle(n)
  BY <1>7, <1>8 DEF MayFill, Handle
<1> QED BY <1>0, <1>6, <1>7, <1>8, <1>9, <1>10 DEF MayFill, Preparing

LEMMA BegunIs ==
  ASSUME NEW r, Preparing(r), UNCHANGED <<object, curve>>, NEW n, n = Begun(r)
  PROVE  /\ Prepared(n) /\ PreparedNow(n)'
         /\ n.cipherType = r.cipherType /\ n.todo = r.todo /\ n.curve_id = r.curve_id
         /\ Fair(n) => r.wellFormed
         /\ Fair(n) /\ IsEC(n.cipherType) => curve'[n.curve_id] = {} \/ Usable(n.curve_id)'
<1>1. Shape(r) /\ Handle(r)
  BY DEF Preparing
<1>2. PICK f \in BOOLEAN : f = Fits(r)
  BY DEF Fits
<1>3. PICK b \in BOOLEAN : b = (object = None)
  OBVIOUS
<1>4. PICK g : g = Data(r.key, Given(r))
  OBVIOUS
<1>5. n = [r EXCEPT !.fits = f, !.created = b, !.given = g]
  BY <1>2, <1>3, <1>4 DEF Begun, Given
<1>6. n = [[[r EXCEPT !.fits = f] EXCEPT !.created = b] EXCEPT !.given = g]
  BY <1>1, <1>5 DEF Shape
<1>7. Shape(n)
  <2>1. PICK l : l = [[r EXCEPT !.fits = f] EXCEPT !.created = b]
    OBVIOUS
  <2>2. Shape(l)
    BY <1>1, <2>1, Setters
  <2>3. \A x : Shape([l EXCEPT !.given = x])
    BY <2>2, Setters
  <2> QED BY <2>1, <2>3, <1>6
<1>8. /\ n.hasId = r.hasId /\ n.cipherType = r.cipherType /\ n.objectType = r.objectType
      /\ n.curve_id = r.curve_id /\ n.isPersistant = r.isPersistant /\ n.mode = r.mode
      /\ n.op = r.op /\ n.status = r.status /\ n.key = r.key /\ n.len = r.len /\ n.asked = r.asked
      /\ n.wellFormed = r.wellFormed /\ n.todo = r.todo
  BY <1>1, <1>6 DEF Shape
<1>9. n.first = r.first /\ n.given = g /\ n.fits = f /\ n.created = b
  BY <1>1, <1>6 DEF Shape
<1>10. /\ Given(n) = Given(r) /\ Left(n) = Left(r)
       /\ SecureObjectType(n) = SecureObjectType(r) /\ SecureObjectPart(n) = SecureObjectPart(r)
  BY <1>8 DEF Given, Left, SecureObjectType, SecureObjectPart
<1>11. Prepared(n)
  BY <1>4, <1>7, <1>8, <1>9, <1>10 DEF Preparing, Prepared, Handle
<1>12. Fair(n) => Fits(r)
  BY <1>2, <1>9 DEF Fair
<1>13. Overwrites(r, UNION Range(r.todo)) => Overwrites(n, Left(n))'
  BY <1>8, <1>10 DEF Overwrites, SameKind, Left
<1>14. PreparedNow(n)'
  <2>1. n.created => object' = None
    BY <1>3, <1>9
  <2>2. Fair(n) => /\ n.wellFormed
                   /\ IsEC(n.cipherType) => n.curve_id = n.asked /\ (object' # None => object'.curve = n.asked)
                   /\ object' = None \/ Overwrites(n, Left(n))'
    BY <1>8, <1>12, <1>13 DEF Fits
  <2> QED BY <2>1, <2>2 DEF PreparedNow
<1>15. Fair(n) => r.wellFormed
  BY <1>12 DEF Fits
<1>16. Fair(n) /\ IsEC(n.cipherType) => curve'[n.curve_id] = {} \/ Usable(n.curve_id)'
  BY <1>8, <1>12 DEF Fits, Usable
<1> QED BY <1>8, <1>11, <1>14, <1>15, <1>16

\* A call whose key has been looked at, or that needs none.
LEMMA ParsedHolds ==
  ASSUME NEW r, Preparing(r), UNCHANGED <<object, curve>>,
         ~IsEC(r.cipherType), NEW n, n = Parsed(r)
  PROVE  ClientInv(n)'
<1>1. PICK b : b = Begun(r)
  OBVIOUS
<1>2. Prepared(b) /\ PreparedNow(b)' /\ ~IsEC(b.cipherType) /\ (Fair(b) => r.wellFormed)
  BY <1>1, BegunIs
<1>3. Shape(b) /\ Handle(b)
  BY <1>2 DEF Prepared
<1>4. CASE n = [b EXCEPT !.pc = "keyCheck"]
  <2>1. PICK p \in CurveStages \cup {"keyCheck", "curveGetId"} : p = "keyCheck"
    OBVIOUS
  <2>2. p # "curveGetId" /\ p # "curveMont" /\ p \notin {"curveList", "curveCreate"} /\ p # "curveCreate"
    BY <2>1
  <2>3. PICK st \in Nat : st = b.step
    BY <1>3 DEF Shape
  <2>4. n = [[b EXCEPT !.pc = p] EXCEPT !.step = st]
    BY <1>3, <1>4, <2>1, <2>3 DEF Shape
  <2> QED BY <2>1, <2>2, <2>4, <1>2, MovesOn
<1>5. CASE n = Fails(b) /\ ~r.wellFormed
  BY <1>2, <1>3, <1>5, Fail, FailingHolds
<1> QED BY <1>1, <1>4, <1>5 DEF Parsed

SetFor(c, key, wf, k, cid) == [Setting(c, key, wf) EXCEPT !.asked = k, !.curve_id = cid]

MaySet(c, key, wf, k, cid, size) ==
    /\ client[c].pc = "idle" /\ client[c].hasId /\ client[c].cipherType # None
    /\ key \in Keys /\ wf \in BOOLEAN /\ k \in AllCurves \cup {None} /\ cid \in AllCurves \cup {None}
    /\ size \in Nat /\ (IsFile(client[c].cipherType) => size \in Lens)
    /\ IsEC(client[c].cipherType) => k \in AllCurves /\ cid \in AllCurves
    /\ SecureObjectPart(client[c]) \in Parts

LEMMA SettingIs ==
  ASSUME IInv, NEW c \in Clients, NEW key, NEW wf, NEW k, NEW cid, NEW size,
         MaySet(c, key, wf, k, cid, size),
         NEW r, \/ r = SetFor(c, key, wf, k, cid)
                \/ r = Setting(c, key, wf) /\ k = None /\ cid = client[c].curve_id,
         NEW n, n = With(r, size)
  PROVE  Preparing(n) /\ n.cipherType = client[c].cipherType /\ n.curve_id = cid
<1>1. "set" \in Settles /\ "set" \in {"allocate", "getHandle", "get", "erase"} \cup Settles
  BY DEF Settles
<1>2. PICK a : a = Called(c, "set")
  OBVIOUS
<1>3. /\ Shape(a) /\ Handle(a) /\ a.hasId /\ a.op = "set" /\ a.status = "running" /\ a.first
      /\ a.cipherType = client[c].cipherType /\ a.objectType = client[c].objectType
      /\ a.asked = None /\ a.curve_id = client[c].curve_id
  BY <1>1, <1>2, CalledIs DEF MaySet
<1>4. r = [[[[a EXCEPT !.key = key] EXCEPT !.wellFormed = wf] EXCEPT !.asked = k] EXCEPT !.curve_id = cid]
  <2>1. Setting(c, key, wf) = [[a EXCEPT !.key = key] EXCEPT !.wellFormed = wf]
    BY <1>2, <1>3 DEF Setting, Shape
  <2>2. PICK q : q = [[a EXCEPT !.key = key] EXCEPT !.wellFormed = wf]
    OBVIOUS
  <2>3. Shape(q) /\ q.asked = a.asked /\ q.curve_id = a.curve_id
    <3>1. Shape(q)
      BY <1>3, <2>2, Setters DEF MaySet
    <3> QED BY <3>1, <1>3, <2>2 DEF Shape
  <2>4. CASE r = SetFor(c, key, wf, k, cid)
    BY <2>1, <2>2, <2>3, <2>4 DEF Shape, SetFor
  <2>5. CASE r = Setting(c, key, wf) /\ k = None /\ cid = client[c].curve_id
    <3>1. r = q /\ q.asked = k /\ q.curve_id = cid
      BY <1>3, <2>1, <2>2, <2>3, <2>5
    <3>2. r = [[q EXCEPT !.asked = k] EXCEPT !.curve_id = cid]
      BY <3>1, <2>3 DEF Shape
    <3> QED BY <3>2, <2>2
  <2> QED BY <2>4, <2>5
<1>5. Shape(r) /\ r.cipherType = a.cipherType /\ r.objectType = a.objectType
  <2>1. PICK q : q = [[[a EXCEPT !.key = key] EXCEPT !.wellFormed = wf] EXCEPT !.asked = k]
    OBVIOUS
  <2>2. Shape(q)
    BY <1>3, <2>1, Setters DEF MaySet
  <2>3. PICK z : z = [q EXCEPT !.curve_id = cid]
    OBVIOUS
  <2>4. Shape(z)
    BY <2>2, <2>3, Setters DEF MaySet
  <2>5. z.cipherType = a.cipherType /\ z.objectType = a.objectType
    BY <1>3, <2>1, <2>3 DEF Shape
  <2>6. r = z
    BY <1>4, <2>1, <2>3
  <2> QED BY <2>4, <2>5, <2>6
<1>6. PICK places : places = AllPlaces(a.cipherType, a.objectType, size)
  OBVIOUS
<1>7. PICK todo : todo = Writes(a.cipherType, a.objectType, size)
  OBVIOUS
<1>8. /\ todo \in Seq(SUBSET places) /\ UNION Range(todo) = places
      /\ todo = << >> <=> IsFile(a.cipherType) /\ size = 0
      /\ IsEC(a.cipherType) => Len(todo) = 1
  BY <1>6, <1>7, WritesAre DEF MaySet
<1>9. n = [[r EXCEPT !.todo = todo] EXCEPT !.len = size]
  BY <1>5, <1>7 DEF With, Shape
<1>10. n = Filled(a, key, wf, k, cid, todo, size)
  BY <1>4, <1>9 DEF Filled
<1>11. MayFill(a, key, wf, k, cid, todo, size)
  <2>1. SecureObjectPart(a) \in Parts
    BY <1>3 DEF MaySet, SecureObjectPart
  <2> QED BY <2>1, <1>1, <1>3, <1>6, <1>8 DEF MayFill, MaySet
<1>12. Preparing(n) /\ n.cipherType = a.cipherType /\ n.curve_id = cid
  BY <1>10, <1>11, PreparingIs
<1> QED BY <1>3, <1>12

\* Keys and files that need no curve.
LEMMA SetParsedStep ==
  ASSUME IInv, NEW c \in Clients, client[c].hasId, ~IsEC(client[c].cipherType), client[c].cipherType # None,
         SecureObjectPart(client[c]) \in Parts,
         NEW key \in Keys, NEW wf \in BOOLEAN, NEW size \in Nat, IsFile(client[c].cipherType) => size \in Lens,
         Calls(c, Parsed(With(Setting(c, key, wf), size)))
  PROVE  IInv'
<1>1. PICK n : n = With(Setting(c, key, wf), size)
  OBVIOUS
<1>2. PICK m : m = Parsed(n)
  OBVIOUS
<1>3. Starts(c, m, "calls", MaxCalls) /\ client[c].pc = "idle" /\ UNCHANGED <<object, curve>>
  BY <1>1, <1>2 DEF Calls, Starts
<1>4. PICK cid \in AllCurves \cup {None} : cid = client[c].curve_id
  BY DEF IInv, ClientInv, Shape
<1>5. PICK k \in AllCurves \cup {None} : k = None
  OBVIOUS
<1>6. PICK r : r = Setting(c, key, wf)
  OBVIOUS
<1>7. Preparing(n) /\ n.cipherType = client[c].cipherType
  <2>1. n = With(r, size) /\ (r = Setting(c, key, wf) /\ k = None /\ cid = client[c].curve_id)
    BY <1>1, <1>4, <1>5, <1>6
  <2>2. MaySet(c, key, wf, k, cid, size)
    BY <1>3, <1>4, <1>5 DEF MaySet
  <2> QED BY <2>1, <2>2, SettingIs
<1>8. ClientInv(m)'
  BY <1>2, <1>3, <1>7, ParsedHolds
<1> QED BY <1>3, <1>8, StartNextStep

LEMMA SetSteps ==
  ASSUME IInv, NEW c \in Clients, SetRsaKey(c) \/ SetSymmetricKey(c) \/ SetFile(c)
  PROVE  IInv'
<1>0. None \notin {"RSA", "RSA_CRT", "AES", "CMAC", "HMAC", "DES", "Binary", "Certificate"}
  BY KindsAssumption DEF Ciphers, SeCiphers
<1>1. CASE SetRsaKey(c)
  <2>1. PICK key \in Keys, wf \in BOOLEAN :
           /\ client[c].hasId /\ IsRSA(client[c].cipherType) /\ client[c].objectType \in KeyParts
           /\ Calls(c, Parsed(With(Setting(c, key, wf), 0)))
    BY <1>1 DEF SetRsaKey
  <2>2. /\ ~IsEC(client[c].cipherType) /\ ~IsFile(client[c].cipherType) /\ client[c].cipherType # None
        /\ 0 \in Nat
    BY <2>1, <1>0 DEF IsRSA, IsEC, IsFile
  <2>3. SecureObjectPart(client[c]) \in Parts
    BY <2>1 DEF SecureObjectPart, KeyParts, Parts
  <2> QED BY <2>1, <2>2, <2>3, SetParsedStep
<1>2. CASE SetSymmetricKey(c)
  <2>1. PICK key \in Keys, wf \in BOOLEAN :
           /\ client[c].hasId /\ Symmetric(client[c].cipherType)
           /\ Calls(c, Parsed(With(Setting(c, key, wf), 0)))
    BY <1>2 DEF SetSymmetricKey
  <2>2. /\ ~IsEC(client[c].cipherType) /\ ~IsFile(client[c].cipherType) /\ client[c].cipherType # None
        /\ 0 \in Nat
    BY <2>1, <1>0 DEF Symmetric, IsEC, IsFile
  <2>3. SecureObjectPart(client[c]) \in Parts
    BY <2>1 DEF SecureObjectPart, Symmetric, IsEC, IsRSA, Parts
  <2> QED BY <2>1, <2>2, <2>3, SetParsedStep
<1>3. CASE SetFile(c)
  <2>1. PICK key \in Keys, size \in Lens :
           /\ client[c].hasId /\ IsFile(client[c].cipherType)
           /\ Calls(c, Parsed(With(Setting(c, key, TRUE), size)))
    BY <1>3 DEF SetFile
  <2>2. /\ ~IsEC(client[c].cipherType) /\ client[c].cipherType # None /\ size \in Nat
    BY <2>1, <1>0, ObjectsAssumption DEF IsEC, IsFile
  <2>3. PICK wf \in BOOLEAN : wf = TRUE
    OBVIOUS
  <2>4. SecureObjectPart(client[c]) \in Parts
    BY <2>1 DEF SecureObjectPart, IsFile, IsEC, IsRSA, Parts
  <2> QED BY <2>1, <2>2, <2>3, <2>4, SetParsedStep
<1> QED BY <1>1, <1>2, <1>3

\* The curve of a call for an EC key.
LEMMA CurveForIs ==
  ASSUME IInv, NEW c \in Clients, NEW k \in AllCurves
  PROVE  CurveFor(client[c], k) \in AllCurves
BY DEF CurveFor, IInv, ClientInv, Shape

LEMMA NoneIsNoEC == ~IsEC(None)
BY KindsAssumption DEF IsEC, Ciphers, SeCiphers

LEMMA CurveStartStep ==
  ASSUME IInv, NEW c \in Clients, NEW r, Preparing(r), IsEC(r.cipherType), Calls(c, CurveStart(Begun(r)))
  PROVE  IInv'
<1>1. PICK b : b = Begun(r)
  OBVIOUS
<1>2. PICK n : n = CurveStart(b)
  OBVIOUS
<1>3. Starts(c, n, "calls", MaxCalls) /\ UNCHANGED <<object, curve>>
  BY <1>1, <1>2 DEF Calls, Starts
<1>4. /\ Prepared(b) /\ PreparedNow(b)' /\ IsEC(b.cipherType)
      /\ Fair(b) => curve'[b.curve_id] = {} \/ Usable(b.curve_id)'
  BY <1>1, <1>3, BegunIs
<1>5. ClientInv(n)'
  BY <1>2, <1>4, CurveStartHolds
<1> QED BY <1>3, <1>5, StartNextStep

LEMMA SetEccKeyStep ==
  ASSUME IInv, NEW c \in Clients, SetEccKey(c)
  PROVE  IInv'
<1>1. PICK key \in Keys, wf \in BOOLEAN, k \in AllCurves :
        LET r == [Setting(c, key, wf) EXCEPT !.asked = k, !.curve_id = CurveFor(client[c], k)]
        IN  /\ r.hasId /\ IsEC(r.cipherType) /\ r.objectType \in KeyParts
            /\ Calls(c, CurveStart(Begun(With(r, 0))))
  BY DEF SetEccKey
<1>2. PICK cid \in AllCurves : cid = CurveFor(client[c], k)
  BY CurveForIs
<1>3. PICK r : r = [Setting(c, key, wf) EXCEPT !.asked = k, !.curve_id = cid]
  OBVIOUS
<1>4. r.hasId /\ IsEC(r.cipherType) /\ r.objectType \in KeyParts /\ Calls(c, CurveStart(Begun(With(r, 0))))
  BY <1>1, <1>2, <1>3
<1>5. client[c].pc = "idle"
  BY <1>4 DEF Calls, Starts
<1>6. r.hasId = client[c].hasId /\ r.cipherType = client[c].cipherType /\ r.objectType = client[c].objectType
  <2>1. "set" \in {"allocate", "getHandle", "get", "erase"} \cup Settles
    BY DEF Settles
  <2>2. PICK a : a = Called(c, "set")
    OBVIOUS
  <2>3. Shape(a) /\ a.hasId = client[c].hasId /\ a.cipherType = client[c].cipherType
        /\ a.objectType = client[c].objectType
    BY <2>1, <2>2, <1>5, CalledIs
  <2>4. r = [[a EXCEPT !.key = key, !.wellFormed = wf] EXCEPT !.asked = k, !.curve_id = cid]
    BY <2>2, <1>3 DEF Setting
  <2> QED BY <2>3, <2>4 DEF Shape
<1>7. /\ client[c].hasId /\ IsEC(client[c].cipherType) /\ ~IsFile(client[c].cipherType)
      /\ client[c].cipherType # None /\ 0 \in Nat /\ SecureObjectPart(client[c]) \in Parts
  BY <1>4, <1>6, NoneIsNoEC DEF IsEC, IsFile, SecureObjectPart, KeyParts, Parts
<1>8. PICK n : n = With(r, 0)
  OBVIOUS
<1>9. Preparing(n) /\ n.cipherType = client[c].cipherType
  <2>1. r = SetFor(c, key, wf, k, cid)
    BY <1>3 DEF SetFor
  <2>2. MaySet(c, key, wf, k, cid, 0)
    BY <1>2, <1>5, <1>7 DEF MaySet
  <2> QED BY <2>1, <2>2, <1>8, SettingIs
<1> QED BY <1>4, <1>7, <1>8, <1>9, CurveStartStep

\* Keys that the SE makes.
GenerateFor(a, key, k, cid) == [a EXCEPT !.key = key, !.asked = k, !.curve_id = cid]

MayGenerate(c, key, k, cid) ==
    /\ client[c].pc = "idle" /\ key \in Keys
    /\ k \in AllCurves \cup {None} /\ cid \in AllCurves \cup {None}

CanGenerate(r, k, cid) ==
    /\ r.hasId /\ r.objectType = "Pair"
    /\ IsRSA(r.cipherType) \/ (IsEC(r.cipherType) /\ {k, cid} \subseteq AllCurves)

LEMMA GeneratingIs ==
  ASSUME IInv, NEW c \in Clients, NEW key, NEW k, NEW cid, MayGenerate(c, key, k, cid),
         NEW a, a = Called(c, "generate"),
         NEW r, \/ r = GenerateFor(a, key, k, cid)
                \/ r = [a EXCEPT !.key = key] /\ k = None /\ cid = client[c].curve_id,
         CanGenerate(r, k, cid), NEW n, n = Generating(r)
  PROVE  Preparing(n) /\ n.cipherType = r.cipherType /\ n.wellFormed
<1>1. "generate" \in Settles /\ "generate" \in {"allocate", "getHandle", "get", "erase"} \cup Settles
  BY DEF Settles
<1>2. /\ Shape(a) /\ Handle(a) /\ a.op = "generate" /\ a.status = "running" /\ a.first
      /\ a.asked = None /\ a.curve_id = client[c].curve_id /\ a.len = 0 /\ a.wellFormed
  BY <1>1, CalledIs DEF MayGenerate
<1>3. PICK wf \in BOOLEAN, size \in Nat : wf = a.wellFormed /\ size = 0
  BY <1>2 DEF Shape
<1>4. r = [[[[a EXCEPT !.key = key] EXCEPT !.wellFormed = wf] EXCEPT !.asked = k] EXCEPT !.curve_id = cid]
  <2>1. CASE r = GenerateFor(a, key, k, cid)
    BY <2>1, <1>2, <1>3 DEF Shape, GenerateFor
  <2>2. CASE r = [a EXCEPT !.key = key] /\ k = None /\ cid = client[c].curve_id
    <3>1. PICK q : q = [a EXCEPT !.key = key]
      OBVIOUS
    <3>2. Shape(q) /\ q.wellFormed = a.wellFormed /\ q.asked = a.asked /\ q.curve_id = a.curve_id
      <4>1. Shape(q)
        BY <1>2, <3>1, Setters
      <4> QED BY <4>1, <3>1, <1>2 DEF Shape
    <3>3. q.wellFormed = wf /\ q.asked = k /\ q.curve_id = cid
      BY <3>2, <2>2, <1>2, <1>3
    <3>4. q = [[[q EXCEPT !.wellFormed = wf] EXCEPT !.asked = k] EXCEPT !.curve_id = cid]
      BY <3>2, <3>3 DEF Shape
    <3> QED BY <3>1, <3>4, <2>2
  <2> QED BY <2>1, <2>2
<1>5. /\ r.cipherType = a.cipherType /\ r.objectType = a.objectType /\ r.hasId = a.hasId
      /\ r.len = size /\ Shape(r)
  <2>1. PICK q : q = [[[a EXCEPT !.key = key] EXCEPT !.wellFormed = wf] EXCEPT !.asked = k]
    OBVIOUS
  <2>2. Shape(q)
    BY <1>2, <2>1, Setters DEF MayGenerate
  <2>3. PICK z : z = [q EXCEPT !.curve_id = cid]
    OBVIOUS
  <2>4. Shape(z)
    BY <2>2, <2>3, Setters DEF MayGenerate
  <2>5. z.cipherType = a.cipherType /\ z.objectType = a.objectType /\ z.hasId = a.hasId /\ z.len = a.len
    BY <1>2, <2>1, <2>3 DEF Shape
  <2> QED BY <1>2, <1>3, <1>4, <2>1, <2>3, <2>4, <2>5
<1>6. ~IsFile(a.cipherType) /\ a.cipherType # None /\ SecureObjectPart(a) \in Parts
  <2>1. None \notin {"RSA", "RSA_CRT", "EC"}
    BY KindsAssumption DEF Ciphers, SeCiphers
  <2> QED BY <2>1, <1>5 DEF CanGenerate, IsRSA, IsEC, IsFile, SecureObjectPart, Parts
<1>7. PICK places : places = AllPlaces(a.cipherType, a.objectType, size)
  OBVIOUS
<1>8. PICK todo : todo = <<places>>
  OBVIOUS
<1>9. todo \in Seq(SUBSET places) /\ Len(todo) = 1 /\ todo # << >> /\ UNION Range(todo) = places
  BY <1>8, SetOfOne DEF Range
<1>10. n = [[r EXCEPT !.todo = todo] EXCEPT !.len = size]
  BY <1>3, <1>5, <1>7, <1>8 DEF Generating, Shape
<1>11. n = Filled(a, key, wf, k, cid, todo, size)
  BY <1>4, <1>10 DEF Filled
<1>12. MayFill(a, key, wf, k, cid, todo, size)
  BY <1>1, <1>2, <1>3, <1>5, <1>6, <1>7, <1>9 DEF MayFill, MayGenerate, CanGenerate, IsRSA, IsEC
<1>13. Preparing(n) /\ n.cipherType = a.cipherType /\ n.wellFormed = wf
  BY <1>11, <1>12, PreparingIs
<1> QED BY <1>2, <1>3, <1>5, <1>13

LEMMA GenerateSteps ==
  ASSUME IInv, NEW c \in Clients, GenerateRsaKey(c) \/ GenerateEccKey(c)
  PROVE  IInv'
<1>1. PICK a : a = Called(c, "generate")
  OBVIOUS
<1>2. CASE GenerateRsaKey(c)
  <2>1. PICK key \in Keys : 
           LET r == [a EXCEPT !.key = key]
           IN  /\ r.hasId /\ r.objectType = "Pair" /\ IsRSA(r.cipherType)
               /\ Calls(c, [Begun(Generating(r)) EXCEPT !.pc = "keyCheck"])
    BY <1>1, <1>2 DEF GenerateRsaKey
  <2>2. PICK r : r = [a EXCEPT !.key = key]
    OBVIOUS
  <2>3. PICK n : n = Generating(r)
    OBVIOUS
  <2>4. /\ r.hasId /\ r.objectType = "Pair" /\ IsRSA(r.cipherType)
        /\ Calls(c, [Begun(n) EXCEPT !.pc = "keyCheck"])
    BY <2>1, <2>2, <2>3
  <2>5. client[c].pc = "idle" /\ UNCHANGED <<object, curve>>
    BY <2>4 DEF Calls, Starts
  <2>6. PICK cid \in AllCurves \cup {None}, k \in AllCurves \cup {None} : cid = client[c].curve_id /\ k = None
    BY DEF IInv, ClientInv, Shape
  <2>7. Preparing(n) /\ n.cipherType = r.cipherType /\ n.wellFormed
    <3>1. MayGenerate(c, key, k, cid) /\ CanGenerate(r, k, cid)
      BY <2>4, <2>5, <2>6 DEF MayGenerate, CanGenerate
    <3>2. \/ r = GenerateFor(a, key, k, cid)
          \/ r = [a EXCEPT !.key = key] /\ k = None /\ cid = client[c].curve_id
      BY <2>2, <2>6
    <3> QED BY <3>1, <3>2, <1>1, <2>3, GeneratingIs
  <2>8. PICK m : m = [Begun(n) EXCEPT !.pc = "keyCheck"]
    OBVIOUS
  <2>9. m = Parsed(n) /\ ~IsEC(n.cipherType)
    BY <2>4, <2>7, <2>8 DEF Parsed, IsRSA, IsEC
  <2>10. ClientInv(m)'
    BY <2>5, <2>7, <2>9, ParsedHolds
  <2>11. Starts(c, m, "calls", MaxCalls)
    BY <2>4, <2>8 DEF Calls
  <2> QED BY <2>10, <2>11, StartNextStep
<1>3. CASE GenerateEccKey(c)
  <2>1. PICK key \in Keys, k \in AllCurves :
           LET r == [a EXCEPT !.key = key, !.asked = k, !.curve_id = CurveFor(client[c], k)]
           IN  /\ r.hasId /\ r.objectType = "Pair" /\ IsEC(r.cipherType)
               /\ Calls(c, CurveStart(Begun(Generating(r))))
    BY <1>1, <1>3 DEF GenerateEccKey
  <2>2. PICK cid \in AllCurves : cid = CurveFor(client[c], k)
    BY CurveForIs
  <2>3. PICK r : r = [a EXCEPT !.key = key, !.asked = k, !.curve_id = cid]
    OBVIOUS
  <2>4. PICK n : n = Generating(r)
    OBVIOUS
  <2>5. /\ r.hasId /\ r.objectType = "Pair" /\ IsEC(r.cipherType)
        /\ Calls(c, CurveStart(Begun(n)))
    BY <2>1, <2>2, <2>3, <2>4
  <2>6. client[c].pc = "idle"
    BY <2>5 DEF Calls, Starts
  <2>7. Preparing(n) /\ n.cipherType = r.cipherType
    <3>1. MayGenerate(c, key, k, cid) /\ CanGenerate(r, k, cid)
      BY <2>2, <2>5, <2>6 DEF MayGenerate, CanGenerate
    <3>2. r = GenerateFor(a, key, k, cid)
      BY <2>3 DEF GenerateFor
    <3> QED BY <3>1, <3>2, <1>1, <2>4, GeneratingIs
  <2> QED BY <2>5, <2>7, CurveStartStep
<1> QED BY <1>2, <1>3
-----------------------------------------------------------------------------
(* Writing.                                                                *)

MayWrite(q, places) ==
    /\ SeTyped /\ Shape(q) /\ q.cipherType # None /\ q.key \in Keys
    /\ SecureObjectPart(q) \in Parts
    /\ IsFile(q.cipherType) => q.len \in Lens /\ q.len # 0
    /\ IsEC(q.cipherType) => q.curve_id \in AllCurves
    /\ places \subseteq Given(q)

\* What a write makes of the object.
LEMMA WrittenIs ==
  ASSUME NEW q, NEW places, MayWrite(q, places), NEW w, w = Written(q, places)
  PROVE  /\ w \in Objects /\ w # None /\ CiphersOf(w)
         /\ object = None =>
               /\ DOMAIN w.content = Given(q)
               /\ w.cipher = SecureObjectType(q) /\ w.part = SecureObjectPart(q)
               /\ IsEC(q.cipherType) => w.curve = q.curve_id
               /\ w.transient => ~q.isPersistant
         /\ object # None =>
               /\ DOMAIN w.content = DOMAIN object.content
               /\ w.cipher = object.cipher /\ w.part = object.part
               /\ w.curve = object.curve /\ w.transient = object.transient
         /\ \A p \in DOMAIN w.content :
               /\ p \in places => w.content[p] = <<q.key, p>>
               /\ p \notin places /\ object # None => w.content[p] = object.content[p]
<1>1. PICK size \in Nat : size = q.len /\ (IsFile(q.cipherType) => size \in Lens)
  BY DEF MayWrite, Shape
<1>2. PICK D : D = Given(q)
  OBVIOUS
<1>3. PICK old : old = IF object = None THEN NewObject(q) ELSE object
  OBVIOUS
<1>4. q.cipherType \in Ciphers /\ q.isPersistant \in BOOLEAN /\ q.key \in Keys
  BY DEF MayWrite, Shape
<1>5. /\ IsFile(q.cipherType) => D = 1 .. size /\ size # 0
      /\ ~IsFile(q.cipherType) => D \subseteq KeyPlaces
      /\ IsRSA(q.cipherType) => D \subseteq RsaPlaces
  BY <1>1, <1>2, WritesAre DEF Given, MayWrite, AllPlaces
<1>6. D \in (SUBSET KeyPlaces) \cup {1 .. n : n \in Lens}
  <2>1. CASE IsFile(q.cipherType)
    <3>1. size \in Lens /\ D = 1 .. size
      BY <2>1, <1>1, <1>5
    <3>2. 1 .. size \in {1 .. n : n \in Lens}
      BY <3>1
    <3> QED BY <3>1, <3>2
  <2>2. CASE ~IsFile(q.cipherType)
    BY <2>2, <1>5
  <2> QED BY <2>1, <2>2
<1>7. /\ old \in Objects /\ CiphersOf(old)
      /\ object = None =>
               /\ DOMAIN old.content = D
               /\ old.cipher = SecureObjectType(q) /\ old.part = SecureObjectPart(q)
               /\ IsEC(q.cipherType) => old.curve = q.curve_id
               /\ old.transient => ~q.isPersistant
  <2>1. CASE object # None
    BY <2>1, <1>3 DEF MayWrite, SeTyped
  <2>2. CASE object = None
    <3>1. PICK k : k = IF IsEC(q.cipherType) THEN q.curve_id ELSE None
      OBVIOUS
    <3>2. PICK t \in BOOLEAN : t <=> ~IsFile(q.cipherType) /\ ~q.isPersistant
      OBVIOUS
    <3>3. PICK b : b = Blank(D)
      OBVIOUS
    <3>4. (~IsFile(q.cipherType) /\ ~q.isPersistant) = t
      BY <3>2, <1>4 DEF IsFile
    <3>5. old = [cipher |-> SecureObjectType(q), part |-> SecureObjectPart(q), curve |-> k,
                 transient |-> t, content |-> b]
      BY <2>2, <3>1, <3>3, <3>4, <1>2, <1>3 DEF NewObject, Given
    <3>6. b \in Contents /\ DOMAIN b = D
      BY <3>3, <1>6 DEF Contents, Units, Blank
    <3>7. SecureObjectType(q) \in SeCiphers /\ SecureObjectPart(q) \in Parts
      BY <1>4, TypeOfHandle DEF MayWrite
    <3>8. k \in Curves \cup Mont \cup Edwards \cup {None}
      BY <3>1 DEF MayWrite, AllCurves
    <3>9. old \in Objects
      BY <3>5, <3>6, <3>7, <3>8 DEF Objects
    <3>10. /\ old.cipher = "Binary" <=> IsFile(q.cipherType)
           /\ IsRSA(old.cipher) <=> IsRSA(q.cipherType)
           /\ IsEC(old.cipher) <=> IsEC(q.cipherType)
           /\ old.curve = k /\ DOMAIN old.content = D
      BY <3>5, <3>6, <1>4, TypeOfHandle
    <3>11. RsaPlaces \cap {"priv", "pub", "key"} = {}
      BY DEF RsaPlaces
    <3>12. CiphersOf(old)
      BY <3>10, <3>11, <3>1, <1>1, <1>5 DEF CiphersOf, MayWrite
    <3> QED BY <3>1, <3>2, <3>5, <3>9, <3>10, <3>12
  <2> QED BY <2>1, <2>2
<1>8. PICK f : f = [p \in DOMAIN old.content |-> IF p \in places THEN <<q.key, p>> ELSE old.content[p]]
  OBVIOUS
<1>9. w = [old EXCEPT !.content = f]
  BY <1>3, <1>8 DEF Written
<1>10. f \in Contents /\ DOMAIN f = DOMAIN old.content
  <2>1. PICK P \in (SUBSET KeyPlaces) \cup {1 .. n : n \in Lens} : old.content \in [P -> Units]
    BY <1>7 DEF Objects, Contents
  <2>2. P \subseteq KeyPlaces \cup Nat
    <3>1. CASE P \in SUBSET KeyPlaces
      BY <3>1
    <3>2. CASE P \in {1 .. n : n \in Lens}
      <4>1. PICK n \in Lens : P = 1 .. n
        BY <3>2
      <4>2. n \in Nat
        BY ObjectsAssumption
      <4> QED BY <4>1, <4>2
    <3> QED BY <3>1, <3>2, <2>1
  <2>3. ASSUME NEW p \in P
        PROVE  f[p] \in Units
    BY <2>1, <2>2, <1>4, <1>8 DEF Units
  <2>4. f \in [P -> Units]
    BY <2>1, <2>3, <1>8
  <2> QED BY <2>1, <2>4, <1>8 DEF Contents
<1>11. /\ w.cipher = old.cipher /\ w.part = old.part /\ w.curve = old.curve
       /\ w.transient = old.transient /\ w.content = f /\ w \in Objects
  BY <1>7, <1>9, <1>10 DEF Objects
<1>12. w # None
  BY <1>11, KindsAssumption
<1>13. CiphersOf(w)
  BY <1>7, <1>10, <1>11 DEF CiphersOf
<1>14. \A p \in DOMAIN w.content :
           /\ p \in places => w.content[p] = <<q.key, p>>
           /\ p \notin places /\ object # None => w.content[p] = object.content[p]
  BY <1>3, <1>8, <1>11
<1> QED BY <1>2, <1>3, <1>7, <1>10, <1>11, <1>12, <1>13, <1>14

\* A call that writes.
Writing(q) ==
    /\ SeTyped /\ Shape(q) /\ Handle(q) /\ q.pc = "write" /\ q.status = "running"
    /\ q.op \in Settles /\ q.hasId /\ q.cipherType # None
    /\ q.key \in Keys /\ q.given = Data(q.key, Given(q)) /\ Left(q) \subseteq Given(q)
    /\ q.todo \in Seq(SUBSET Given(q)) /\ q.todo # << >>
    /\ SecureObjectPart(q) \in Parts
    /\ IsFile(q.cipherType) => q.op = "set" /\ q.len \in Lens /\ q.len # 0
    /\ IsEC(q.cipherType) =>
          q.curve_id \in AllCurves /\ q.asked \in AllCurves /\ Len(q.todo) = 1 /\ q.first
    /\ q.clean => Global(q)

LEMMA WritingIs ==
  ASSUME SeTyped, NEW q, ClientInv(q), q.pc = "write"
  PROVE  Writing(q)
<1>1. q.pc \in SetStages /\ q.pc # "idle" /\ q.pc # "keyCheck"
  BY DEF SetStages
<1>2. Shape(q) /\ Handle(q) /\ Stage(q) /\ Sets(q) /\ SetsEC(q) /\ (q.clean => Global(q))
  BY DEF ClientInv, Local
<1> QED BY <1>1, <1>2 DEF Writing, Stage, Sets, SetsEC

\* The places of the next write, and those after it.
LEMMA NextPlaces ==
  ASSUME NEW q, Writing(q), NEW places, places = Head(q.todo)
  PROVE  /\ places \subseteq Given(q) /\ MayWrite(q, places)
         /\ Left(q) = places \cup UNION Range(Tail(q.todo))
         /\ Len(q.todo) = 1 => Left(q) = places
         /\ Tail(q.todo) \in Seq(SUBSET Given(q))
         /\ Tail(q.todo) = << >> <=> Len(q.todo) = 1
<1>1. PICK S : S = SUBSET Given(q)
  OBVIOUS
<1>2. PICK s \in Seq(S) : s = q.todo /\ s # << >>
  BY <1>1 DEF Writing
<1>3. /\ Head(s) \in S /\ Tail(s) \in Seq(S) /\ (Tail(s) = << >> <=> Len(s) = 1)
      /\ UNION Range(s) = Head(s) \cup UNION Range(Tail(s))
      /\ Len(s) = 1 => UNION Range(s) = Head(s)
  BY <1>2, FirstOf
<1>4. MayWrite(q, places)
  BY <1>1, <1>2, <1>3 DEF Writing, MayWrite
<1> QED BY <1>1, <1>2, <1>3, <1>4 DEF Left

\* The SE takes what was to be expected.
LEMMA WriteAccepted ==
  ASSUME NEW q, Writing(q), NEW places, places = Head(q.todo), q.clean, Fair(q)
  PROVE  Accepts(q, places)
<1>1. SetGoesOn(q) /\ q.pc = "write" /\ q.pc \in SetStages
  BY DEF Writing, Global, SetStages
<1>2. /\ object = None \/ Overwrites(q, Left(q))
      /\ object # None <=> q.exists \/ ~q.first
      /\ IsEC(q.cipherType) => Usable(q.curve_id)
  BY <1>1 DEF SetGoesOn, CurveReady
<1>3. places \subseteq Left(q) /\ (IsEC(q.cipherType) => places = Left(q))
  <2>1. Left(q) = places \cup UNION Range(Tail(q.todo)) /\ (Len(q.todo) = 1 => Left(q) = places)
    BY NextPlaces
  <2>2. IsEC(q.cipherType) => Len(q.todo) = 1
    BY DEF Writing
  <2> QED BY <2>1, <2>2
<1>4. object = None \/ Overwrites(q, places)
  BY <1>2, <1>3 DEF Overwrites
<1>5. CASE Creates(q)
  BY <1>2, <1>5 DEF Accepts, Creates
<1>6. CASE ~Creates(q) /\ Symmetric(q.cipherType)
  BY <1>4, <1>6 DEF Accepts
<1>7. CASE ~Creates(q) /\ ~Symmetric(q.cipherType)
  BY <1>2, <1>4, <1>7 DEF Accepts, Creates
<1> QED BY <1>5, <1>6, <1>7

\* After a write that the SE has taken.
LEMMA AfterWrite ==
  ASSUME NEW q, Writing(q), NEW places, places = Head(q.todo), Accepts(q, places),
         object' = Written(q, places)
  PROVE  /\ object' # None /\ object' \in Objects /\ CiphersOf(object')
         /\ q.clean => \A p \in DOMAIN q.given :
               (p \in UNION Range(Tail(q.todo)) /\ Len(q.todo) # 1) \/ InSE(q, p)'
         /\ q.clean /\ q.op = "set" /\ IsEC(q.cipherType) => object'.curve = q.curve_id
         /\ q.clean /\ q.created /\ object'.transient => ~q.isPersistant
         /\ q.clean /\ Fair(q) /\ ~IsEC(q.cipherType) => Overwrites(q, Left(q))'
<1>1. /\ places \subseteq Given(q) /\ MayWrite(q, places)
      /\ Left(q) = places \cup UNION Range(Tail(q.todo)) /\ (Len(q.todo) = 1 => Left(q) = places)
  BY NextPlaces
<1>2. PICK w : w = Written(q, places)
  OBVIOUS
<1>3. /\ w \in Objects /\ w # None /\ CiphersOf(w)
      /\ object = None =>
            /\ DOMAIN w.content = Given(q)
            /\ w.cipher = SecureObjectType(q) /\ w.part = SecureObjectPart(q)
            /\ IsEC(q.cipherType) => w.curve = q.curve_id
            /\ w.transient => ~q.isPersistant
      /\ object # None =>
            /\ DOMAIN w.content = DOMAIN object.content
            /\ w.cipher = object.cipher /\ w.part = object.part
            /\ w.curve = object.curve /\ w.transient = object.transient
      /\ \A p \in DOMAIN w.content :
            /\ p \in places => w.content[p] = <<q.key, p>>
            /\ p \notin places /\ object # None => w.content[p] = object.content[p]
  BY <1>1, <1>2, WrittenIs
<1>4. object' = w
  BY <1>2
<1>5. object = None \/ Overwrites(q, places)
  BY DEF Accepts, Creates
<1>6. places \subseteq DOMAIN w.content
  BY <1>1, <1>3, <1>5 DEF Overwrites
<1>7. \A p \in Given(q) : p \in DOMAIN q.given /\ q.given[p] = <<q.key, p>>
  BY DEF Writing, Data
<1>8. DOMAIN q.given = Given(q)
  BY DEF Writing, Data
<1>9. ASSUME q.clean, NEW p \in DOMAIN q.given
      PROVE  (p \in UNION Range(Tail(q.todo)) /\ Len(q.todo) # 1) \/ InSE(q, p)'
  <2>1. p \in Left(q) \/ InSE(q, p)
    BY <1>9 DEF Writing, Global, WrittenSoFar
  <2>2. CASE p \in places
    <3>1. w.content[p] = <<q.key, p>> /\ p \in DOMAIN w.content /\ q.given[p] = <<q.key, p>>
      BY <2>2, <1>1, <1>3, <1>6, <1>7
    <3> QED BY <3>1, <1>3, <1>4 DEF InSE
  <2>3. CASE p \notin places /\ InSE(q, p)
    <3>1. object # None /\ p \in DOMAIN object.content /\ object.content[p] = q.given[p]
      BY <2>3 DEF InSE
    <3>2. p \in DOMAIN w.content /\ w.content[p] = object.content[p]
      BY <3>1, <2>3, <1>3
    <3> QED BY <3>1, <3>2, <1>3, <1>4 DEF InSE
  <2>4. CASE p \notin places /\ p \in Left(q)
    BY <2>4, <1>1
  <2> QED BY <2>1, <2>2, <2>3, <2>4
<1>10. ASSUME q.clean, q.op = "set", IsEC(q.cipherType)
       PROVE  object'.curve = q.curve_id
  <2>1. CASE object = None
    BY <2>1, <1>3, <1>4, <1>10
  <2>2. CASE object # None
    <3>1. q.first /\ ~Symmetric(q.cipherType)
      BY <1>10 DEF Writing, IsEC, Symmetric
    <3>2. q.exists
      BY <2>2, <3>1 DEF Accepts, Creates
    <3>3. object.curve = q.curve_id
      BY <3>2, <1>10 DEF Writing, Global, OnItsCurve
    <3> QED BY <3>3, <2>2, <1>3, <1>4
  <2> QED BY <2>1, <2>2
<1>11. ASSUME q.clean, q.created, object'.transient
       PROVE  ~q.isPersistant
  <2>1. CASE object = None
    BY <2>1, <1>3, <1>4, <1>11
  <2>2. CASE object # None
    <3>1. Lifetime(q) /\ q.pc \in SetStages
      BY <1>11 DEF Writing, Global, SetStages
    <3>2. object.transient => ~q.isPersistant
      BY <3>1, <2>2, <1>11 DEF Lifetime
    <3> QED BY <3>2, <2>2, <1>3, <1>4, <1>11
  <2> QED BY <2>1, <2>2
<1>12. ASSUME q.clean, Fair(q), ~IsEC(q.cipherType)
       PROVE  Overwrites(q, Left(q))'
  <2>1. object = None \/ Overwrites(q, Left(q))
    BY <1>12 DEF Writing, Global, SetGoesOn, SetStages
  <2>2. Left(q) \subseteq Given(q)
    BY DEF Writing
  <2>3. w.cipher = SecureObjectType(q) /\ w.part = SecureObjectPart(q) /\ Left(q) \subseteq DOMAIN w.content
    BY <2>1, <2>2, <1>3 DEF Overwrites, SameKind
  <2> QED BY <2>3, <1>3, <1>4, <1>12 DEF Overwrites, SameKind
<1> QED BY <1>3, <1>4, <1>9, <1>10, <1>11, <1>12

LEMMA LastWrite ==
  ASSUME NEW q, Writing(q), NEW places, places = Head(q.todo), Accepts(q, places),
         object' = Written(q, places), Len(q.todo) = 1, NEW n, n = Success(q)
  PROVE  ClientInv(n)'
<1>1. Shape(q) /\ Handle(q) /\ q.hasId /\ q.op \in Settles
  BY DEF Writing
<1>2. /\ Shape(n) /\ n.pc = "idle" /\ n.status = "kStatus_SSS_Success" /\ Kept(n, q) /\ n.given = q.given
  BY <1>1, SuccessIs
<1>3. Handle(n) /\ n.op \in Settles
  BY <1>1, <1>2 DEF Handle, Kept
<1>4. ASSUME n.clean
      PROVE  HasSet(n)'
  <2>1. q.clean
    BY <1>2, <1>4 DEF Kept
  <2>2. /\ object' # None
        /\ \A p \in DOMAIN q.given : InSE(q, p)'
        /\ q.op = "set" /\ IsEC(q.cipherType) => object'.curve = q.curve_id
        /\ q.created /\ object'.transient => ~q.isPersistant
    BY <2>1, AfterWrite
  <2>3. \A p \in DOMAIN n.given : InSE(n, p)'
    BY <1>2, <2>2 DEF InSE
  <2>4. q.mode \in {None, 0, 1, 2} /\ (q.mode = 1 => q.isPersistant)
    BY <1>1 DEF Shape, Handle
  <2>5. n.created /\ object'.transient => n.mode \in {0, 2} \/ (n.mode = None /\ ~n.isPersistant)
    BY <1>2, <2>2, <2>4 DEF Kept
  <2>6. n.op = "set" /\ IsEC(n.cipherType) => object'.curve = n.curve_id
    BY <1>2, <2>2 DEF Kept
  <2> QED BY <2>2, <2>3, <2>5, <2>6 DEF HasSet
<1> QED BY <1>2, <1>3, <1>4, HasSetHolds

LEMMA MoreToWrite ==
  ASSUME NEW q, Writing(q), NEW places, places = Head(q.todo), Accepts(q, places),
         object' = Written(q, places), Len(q.todo) # 1,
         NEW n, n = [q EXCEPT !.todo = Tail(@), !.first = FALSE]
  PROVE  ClientInv(n)'
<1>1. Shape(q) /\ Handle(q) /\ q.hasId /\ q.op \in Settles /\ ~IsEC(q.cipherType)
  BY DEF Writing
<1>2. PICK rest : rest = Tail(q.todo)
  OBVIOUS
<1>3. n = [[q EXCEPT !.todo = rest] EXCEPT !.first = FALSE]
  BY <1>1, <1>2 DEF Shape
<1>4. Shape(n)
  <2>1. PICK m : m = [q EXCEPT !.todo = rest]
    OBVIOUS
  <2>2. Shape(m)
    BY <1>1, <2>1, Setters
  <2>3. PICK z : z = [m EXCEPT !.first = FALSE]
    OBVIOUS
  <2>4. Shape(z)
    BY <2>2, <2>3, Setters
  <2> QED BY <1>3, <2>1, <2>3, <2>4
<1>5. /\ n.hasId = q.hasId /\ n.cipherType = q.cipherType /\ n.objectType = q.objectType
      /\ n.curve_id = q.curve_id /\ n.isPersistant = q.isPersistant /\ n.mode = q.mode
      /\ n.op = q.op /\ n.status = q.status /\ n.key = q.key /\ n.len = q.len /\ n.asked = q.asked
      /\ n.wellFormed = q.wellFormed /\ n.pc = q.pc
  BY <1>1, <1>3 DEF Shape
<1>6. /\ n.exists = q.exists /\ n.given = q.given /\ n.faulty = q.faulty /\ n.clean = q.clean
      /\ n.fits = q.fits /\ n.created = q.created /\ n.todo = rest /\ ~n.first
  BY <1>1, <1>3 DEF Shape
<1>7. /\ Given(n) = Given(q) /\ Left(n) = UNION Range(rest)
      /\ SecureObjectType(n) = SecureObjectType(q) /\ SecureObjectPart(n) = SecureObjectPart(q)
  BY <1>5, <1>6 DEF Given, Left, SecureObjectType, SecureObjectPart
<1>8. /\ rest \in Seq(SUBSET Given(q)) /\ rest # << >>
      /\ Left(n) \subseteq Left(q) /\ Left(q) \subseteq Given(q)
  <2>1. /\ rest \in Seq(SUBSET Given(q)) /\ rest # << >>
        /\ Left(q) = places \cup UNION Range(rest)
    BY <1>2, NextPlaces
  <2>2. Left(q) \subseteq Given(q)
    BY DEF Writing
  <2> QED BY <2>1, <2>2, <1>7
<1>9. n.pc = "write" /\ n.status = "running" /\ n.op \in Settles /\ n.hasId
  BY <1>1, <1>5 DEF Writing
<1>10. n.pc \notin CurveStages \cup GetStages \cup HandleStages
       /\ n.pc \in SetStages /\ n.op \notin {"get", "getHandle"} /\ n.status # "kStatus_SSS_Success"
  BY <1>9 DEF SetStages, CurveStages, GetStages, HandleStages, Settles
<1>11. Handle(n) /\ Stage(n) /\ Gets(n) /\ Counted(n)
  BY <1>1, <1>5, <1>6, <1>9, <1>10 DEF Writing, Handle, Stage, Gets, Counted
<1>12. Sets(n)
  BY <1>5, <1>6, <1>7, <1>8, <1>9 DEF Writing, Sets
<1>13. SetsEC(n)
  BY <1>1, <1>5, <1>9, <1>10 DEF SetsEC, CurveStages
<1>14. ASSUME n.clean
       PROVE  Global(n)'
  <2>1. q.clean
    BY <1>6, <1>14
  <2>2. /\ object' # None
        /\ \A p \in DOMAIN q.given : p \in UNION Range(rest) \/ InSE(q, p)'
        /\ q.created /\ object'.transient => ~q.isPersistant
        /\ Fair(q) => Overwrites(q, Left(q))'
    BY <1>1, <1>2, <2>1, AfterWrite
  <2>3. WrittenSoFar(n)'
    BY <2>2, <1>6, <1>7 DEF WrittenSoFar, InSE
  <2>4. (OnItsCurve(n) /\ Lifetime(n))'
    BY <2>2, <1>1, <1>5, <1>6 DEF OnItsCurve, Lifetime
  <2>5. (HasSet(n) /\ ReadSoFar(n) /\ HasRead(n) /\ Describes(n))'
    BY <1>9, <1>10 DEF HasSet, ReadSoFar, HasRead, Describes, HandleStages
  <2>6. ASSUME Fair(n) PROVE SetGoesOn(n)'
    <3>1. Fair(q)
      BY <2>6, <1>6 DEF Fair
    <3>2. Overwrites(n, Left(n))'
      <4>1. Overwrites(q, Left(q))'
        BY <2>2, <3>1
      <4> QED BY <4>1, <1>1, <1>5, <1>7, <1>8 DEF Overwrites, SameKind
    <3>3. q.wellFormed
      BY <2>1, <3>1 DEF Writing, Global, SetGoesOn, SetStages
    <3> QED BY <3>2, <3>3, <2>2, <1>1, <1>5, <1>6, <1>9 DEF SetGoesOn
  <2>7. (GetGoesOn(n) /\ Ended(n))'
    BY <1>9, <1>10 DEF GetGoesOn, Ended
  <2> QED BY <2>3, <2>4, <2>5, <2>6, <2>7 DEF Global, Fair
<1> QED BY <1>4, <1>11, <1>12, <1>13, <1>14 DEF ClientInv, Local

LEMMA WriteStep ==
  ASSUME IInv, NEW c \in Clients, Write(c)
  PROVE  IInv'
<1>1. PICK q : q = client[c]
  OBVIOUS
<1>2. PICK places : places = Head(q.todo)
  OBVIOUS
<1>3. Writing(q) /\ SeTyped /\ Shape(q) /\ Handle(q)
  BY <1>1, WritingIs DEF IInv, Write, Writing
<1>4. PICK w : w = Written(q, places)
  OBVIOUS
<1>5. /\ w \in Objects /\ CiphersOf(w)
  BY <1>2, <1>3, <1>4, NextPlaces, WrittenIs
<1> DEFINE Then(s) ==
             IF s # "SM_OK" THEN FailsWith(q, s)
             ELSE IF Len(q.todo) = 1 THEN Success(q)
             ELSE [q EXCEPT !.todo = Tail(@), !.first = FALSE]
<1>6. PICK n : /\ Continue(c, n) /\ curve' = curve
               /\ \/ n = Then("SM_OK") /\ Accepts(q, places) /\ object' = w
                  \/ n = Then("SM_ERR_CONDITIONS_NOT_SATISFIED") /\ ~Accepts(q, places) /\ object' = object
                  \/ /\ \E s \in Errors : n = [Then(s) EXCEPT !.faulty = TRUE]
                     /\ object' \in {object, w}
  BY <1>1, <1>2, <1>4 DEF Write, Exchange
<1>7. \/ n = Success(q) /\ Accepts(q, places) /\ object' = w /\ Len(q.todo) = 1
      \/ n = [q EXCEPT !.todo = Tail(@), !.first = FALSE] /\ Accepts(q, places) /\ object' = w /\ Len(q.todo) # 1
      \/ n = FailsWith(q, "SM_ERR_CONDITIONS_NOT_SATISFIED") /\ ~Accepts(q, places) /\ object' = object
      \/ \E s : n = [FailsWith(q, s) EXCEPT !.faulty = TRUE]
  BY <1>6 DEF Errors
<1> HIDE DEF Then
<1>8. SeTyped'
  BY <1>3, <1>5, <1>6 DEF SeTyped, CiphersOf
<1>9. CASE n = Success(q) /\ Accepts(q, places) /\ object' = w /\ Len(q.todo) = 1
  <2>1. ClientInv(n)'
    BY <1>2, <1>3, <1>4, <1>9, LastWrite
  <2> QED BY <2>1, <1>6, <1>8, ClientStep
<1>10. CASE /\ n = [q EXCEPT !.todo = Tail(@), !.first = FALSE] /\ Accepts(q, places)
            /\ object' = w /\ Len(q.todo) # 1
  <2>1. ClientInv(n)'
    BY <1>2, <1>3, <1>4, <1>10, MoreToWrite
  <2> QED BY <2>1, <1>6, <1>8, ClientStep
<1>11. CASE n = FailsWith(q, "SM_ERR_CONDITIONS_NOT_SATISFIED") /\ ~Accepts(q, places) /\ object' = object
  <2>1. q.clean => ~Fair(q)
    BY <1>2, <1>3, <1>11, WriteAccepted
  <2>2. ClientInv(n)'
    BY <2>1, <1>3, <1>11, Fail, FailingHolds
  <2> QED BY <2>2, <1>6, <1>8, ClientStep
<1>12. CASE \E s : n = [FailsWith(q, s) EXCEPT !.faulty = TRUE]
  <2>1. ClientInv(n)'
    BY <1>3, <1>12, FaultFail, FailingHolds
  <2> QED BY <2>1, <1>6, <1>8, ClientStep
<1> QED BY <1>7, <1>9, <1>10, <1>11, <1>12
-----------------------------------------------------------------------------
(* The theorems.                                                           *)

LEMMA InvHolds == Spec => []IInv
<1>1. Init => IInv
  BY InitHolds
<1>2. ASSUME IInv, [Next]_vars
      PROVE  IInv'
  <2>1. ASSUME NEW c \in Clients,
               \/ KeyObjectInit(c) \/ AllocateHandle(c) \/ AllocateChecked(c)
               \/ GetHandle(c) \/ HandleChecked(c) \/ ReadType(c) \/ TypeCurve(c)
        PROVE  IInv'
    BY <1>2, <2>1, KeyObjectInitStep, AllocateHandleStep, AllocateCheckedStep, GetHandleStep,
       HandleCheckedStep, ReadTypeStep, TypeCurveStep
  <2>2. ASSUME NEW c \in Clients,
               \/ SetRsaKey(c) \/ SetEccKey(c) \/ SetSymmetricKey(c) \/ SetFile(c)
               \/ GenerateRsaKey(c) \/ GenerateEccKey(c)
               \/ CurveMont(c) \/ CurveListed(c) \/ CurveCreated(c)
               \/ KeyChecked(c) \/ CurveGot(c) \/ Write(c)
        PROVE  IInv'
    BY <1>2, <2>2, SetSteps, SetEccKeyStep, GenerateSteps, CurveMontStep, CurveListedStep,
       CurveCreatedStep, KeyCheckedStep, CurveGotStep, WriteStep
  <2>3. ASSUME NEW c \in Clients,
               \/ GetKey(c) \/ GetKeyAttst(c) \/ ReadSize(c) \/ Read(c)
               \/ EraseKey(c) \/ Erased(c)
        PROVE  IInv'
    BY <1>2, <2>3, GetKeyStep, ReadSizeStep, ReadStep, EraseKeyStep, ErasedStep
  <2>4. CASE CloseSession
    BY <1>2, <2>4, CloseSessionStep
  <2>5. CASE UNCHANGED vars
    <3>1. UNCHANGED <<object, curve, client>>
      BY <2>5 DEF vars
    <3>2. SeTyped'
      BY <1>2, <3>1 DEF IInv, SeTyped, CiphersOf
    <3>3. ASSUME NEW c \in Clients
          PROVE  ClientInv(client[c])'
      <4>1. PICK r : r = client[c]
        OBVIOUS
      <4>2. PICK b \in BOOLEAN : b = r.clean
        BY <1>2, <4>1 DEF IInv, ClientInv, Shape
      <4>3. r = [r EXCEPT !.clean = b]
        BY <1>2, <4>1, <4>2 DEF IInv, ClientInv, Shape
      <4>4. ~Changed
        BY <3>1 DEF Changed
      <4>5. ClientInv(r)
        BY <1>2, <4>1 DEF IInv
      <4>6. ClientInv(r)'
        BY <4>2, <4>3, <4>4, <4>5, OthersKeep
      <4> QED BY <4>1, <4>6, <3>1
    <3> QED BY <1>2, <3>1, <3>2, <3>3 DEF IInv
  <2>6. CASE Done
    BY <2>5, <2>6 DEF Done
  <2> QED BY <1>2, <2>1, <2>2, <2>3, <2>4, <2>5, <2>6 DEF Next
<1> QED BY <1>1, <1>2, PTL DEF Spec

LEMMA InvClient ==
  ASSUME IInv, NEW c \in Clients
  PROVE  ClientInv(client[c])
BY DEF IInv

(* What set_key or generate_key reported as written is in the SE with      *)
(* every component and every byte, whatever failed attempts came before    *)
(* and however many commands it took, until another client or the owner    *)
(* changes it; closing the session loses it only if transient was asked    *)
(* for; and a key that was set is on the handle's curve.                   *)
THEOREM WrittenIsWhole == Spec => []WholeAfterSuccess
<1>1. IInv => WholeAfterSuccess
  <2> SUFFICES ASSUME IInv, NEW c \in Clients
               PROVE  /\ client[c].mode # 0 /\ (Succeeded(c, "set") \/ Succeeded(c, "generate")) => Holds(c)
                      /\ Succeeded(c, "set") /\ client[c].curve_id # None /\ IsEC(client[c].cipherType)
                           => object.curve = client[c].curve_id
    BY DEF WholeAfterSuccess
  <2>1. client[c].clean => HasSet(client[c])
    BY InvClient DEF ClientInv, Global
  <2> QED BY <2>1 DEF HasSet, Succeeded, Holds, InSE, Settles
<1> QED BY <1>1, InvHolds, PTL

(* A well-formed key that the SE could take, and an object that could be   *)
(* read, are refused only if a command of the call failed or another       *)
(* client changed the object or the curve meanwhile.                       *)
THEOREM FailureHasReason == Spec => []FailsForReason
<1>1. IInv => FailsForReason
  <2> SUFFICES ASSUME IInv, NEW c \in Clients,
                      client[c].op \in {"set", "generate", "get"}, client[c].pc = "idle",
                      client[c].status # "kStatus_SSS_Success"
               PROVE  client[c].faulty \/ ~client[c].clean \/ ~client[c].fits
    BY DEF FailsForReason
  <2>1. client[c].clean /\ Fair(client[c]) => Ended(client[c])
    BY InvClient DEF ClientInv, Global
  <2> QED BY <2>1 DEF Ended, Fair, Settles
<1> QED BY <1>1, InvHolds, PTL

(* get_key returns everything the object holds that can be read, though it *)
(* is read in pieces that other clients' commands come between, and        *)
(* get_key_attst counts the entries of attestation data right.             *)
THEOREM ReadIsWhole == Spec => []ReadsWhole
<1>1. IInv => ReadsWhole
  <2> SUFFICES ASSUME IInv, NEW c \in Clients, Succeeded(c, "get")
               PROVE  /\ \A p \in Readable :
                           p \in DOMAIN client[c].got /\ client[c].got[p] = object.content[p]
                      /\ client[c].attested /\ client[c].hasId /\ ~IsFile(client[c].cipherType) =>
                           client[c].valid_number = IF IsRSA(client[c].cipherType) THEN 2 ELSE 1
    BY DEF ReadsWhole
  <2>1. HasRead(client[c])
    BY InvClient DEF ClientInv, Global, Succeeded
  <2>2. Counted(client[c])
    BY InvClient DEF ClientInv, Local
  <2> QED BY <2>1, <2>2 DEF HasRead, SeenAt, Counted, Succeeded
<1> QED BY <1>1, InvHolds, PTL

(* A handle that get_handle filled in from the SE, with two commands that  *)
(* others' come between, has the object's type, part, lifetime and curve.  *)
THEOREM HandleIsRight == Spec => []HandleMatches
<1>1. IInv => HandleMatches
  <2> SUFFICES ASSUME IInv, NEW c \in Clients,
                      Succeeded(c, "getHandle") /\ client[c].hasId /\ ~client[c].faulty
               PROVE  /\ object # None
                      /\ client[c].cipherType = object.cipher /\ client[c].objectType = object.part
                      /\ client[c].isPersistant = ~object.transient
                      /\ IsEC(object.cipher) => client[c].curve_id = object.curve
    BY DEF HandleMatches
  <2>1. Shape(client[c]) /\ Describes(client[c])
    BY InvClient DEF ClientInv, Global, Succeeded
  <2>2. /\ object # None
        /\ client[c].cipherType = object.cipher /\ client[c].objectType = object.part
        /\ client[c].isPersistant <=> ~object.transient
        /\ IsEC(object.cipher) => client[c].curve_id = object.curve
    BY <2>1 DEF Describes, Succeeded
  <2>3. client[c].isPersistant \in BOOLEAN /\ object.transient \in BOOLEAN
    BY <2>1, <2>2 DEF Shape, IInv, SeTyped, Objects
  <2> QED BY <2>2, <2>3
<1> QED BY <1>1, InvHolds, PTL

=============================================================================
