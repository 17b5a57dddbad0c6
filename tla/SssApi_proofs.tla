---------------------------- MODULE SssApi_proofs ----------------------------
(***************************************************************************)
(* Theorems about SssApi, for every set of authentications, every host     *)
(* back end and all one-go calls: links are given back, and a call is      *)
(* served by the session its handle was made for, or refused.  Then about  *)
(* the one-go operations it calls: for every choice of key sizes, and any  *)
(* number of faults and of keys replaced meanwhile, a call that returns    *)
(* has done what its answer says.                                          *)
(***************************************************************************)
EXTENDS SssApi, FiniteSetTheorems, SequenceTheorems, TLAPS

-----------------------------------------------------------------------------
(* The inductive invariant.                                                *)

StepNames ==
    {"Connect", "GetVersion", "CheckObjectExists", "ReadAttestationKey", "StoreAttestationKey",
     "ReadObject_W_Attst", "VerifyAttestation", "CreateSession", "HostGetKey",
     "VerifySessionUserID", "AuthenticateChannel", "ExchangeSessionData", "Refuse"}

Auths == {NONE, "None", "SCP03", "ID", "AESKey", "ECKey"}
SessionType == [sub : {NONE, "SE05X", HostBackEnd}, auth : Auths,
                fits : BOOLEAN, skip : BOOLEAN, hasSession : BOOLEAN, proved : BOOLEAN]
OpeningType == [cell : {NONE, "se", "tun"}, auth : Auths, fits : BOOLEAN, skip : BOOLEAN,
                todo : Seq(StepNames), connected : BOOLEAN, hasSession : BOOLEAN, proved : BOOLEAN]

Typed ==
    /\ sess \in [Cells -> SessionType]
    /\ sess["se"].sub \in {NONE, "SE05X"} /\ sess["tun"].sub \in {NONE, "SE05X"}
    /\ sess["host"].sub \in {NONE, HostBackEnd}
    /\ link \in Int
    /\ opening \in OpeningType

Opens == opening # NotOpening

Proves(step) == step \in {"VerifySessionUserID", "AuthenticateChannel"}
WillProve(steps) == \E i \in DOMAIN steps : Proves(steps[i])

WillRefuse(steps) == \E i \in DOMAIN steps : steps[i] = "Refuse"

\* A session is created before anything is proved in it.
CreatesFirst(steps) ==
    /\ WillProve(steps)
    /\ \E i \in DOMAIN steps :
          steps[i] = "CreateSession" /\ \A j \in DOMAIN steps : Proves(steps[j]) => i < j

\* The link is the first thing a session of its own link sets up, and nothing
\* else of an opening does.
ConnectsAtMost(steps, n) == \A i \in DOMAIN steps : steps[i] = "Connect" => i <= n

ConnectsFirst ==
    IF opening.cell = "se" /\ ~opening.connected
    THEN /\ opening.todo # <<>> /\ Head(opening.todo) = "Connect"
         /\ ConnectsAtMost(opening.todo, 1)
    ELSE ConnectsAtMost(opening.todo, 0)

\* What is still to do makes the session ready.
ReadyToCome ==
    /\ opening.auth # "None" /\ ~opening.proved => WillProve(opening.todo)
    /\ Over(opening.auth) = "session" =>
          /\ ~opening.hasSession => ~opening.proved /\ CreatesFirst(opening.todo)
          /\ opening.proved => Known(opening.cell, TRUE) \in seSess

\* Or it is refused, or it is one that contradicts itself and is not stopped.
ToBeProved == WillRefuse(opening.todo) \/ Unasked(opening.cell, opening) \/ ReadyToCome

OpeningGoesOn ==
    Opens =>
       /\ opening.cell \in {"se", "tun"} /\ opening.cell \notin {ks.cell, ctx.cell}
       /\ sess[opening.cell].sub = NONE
       /\ opening.cell = "tun" => sess["se"].sub = "SE05X" /\ ~opening.connected
       /\ ConnectsFirst /\ ToBeProved

LinkCounted ==
    link = (IF sess["se"].sub = "SE05X" THEN 1 ELSE 0) + (IF opening.connected THEN 1 ELSE 0)

SessionsReady ==
    /\ Ready("se") /\ Ready("tun")
    /\ sess["tun"].sub = "SE05X" => sess["se"].sub = "SE05X"

\* The session a handle points to is the one it was made in, or is closed.
HandleHolds(h) == h.cell # NONE => h.cell \in Cells /\ sess[h.cell].sub \in {NONE, h.made}

HandlesHold ==
    /\ HandleHolds(ks) /\ HandleHolds(ctx)
    /\ ks.cell # NONE /\ obj # NoHandle => obj.made = ks.made

IInv ==
    /\ Typed /\ OpeningGoesOn /\ LinkCounted
    /\ SessionsReady /\ HandlesHold /\ ServedByItsSession

-----------------------------------------------------------------------------
(* The steps of an opening, as sequences.                                  *)

LEMMA Concatenated ==
    ASSUME NEW a \in Seq(StepNames), NEW b \in Seq(StepNames)
    PROVE  /\ a \o b \in Seq(StepNames)
           /\ Len(a) \in Nat /\ Len(b) \in Nat
           /\ DOMAIN a = 1..Len(a) /\ DOMAIN b = 1..Len(b)
           /\ DOMAIN (a \o b) = 1..(Len(a) + Len(b))
           /\ \A i \in DOMAIN a : (a \o b)[i] = a[i]
           /\ \A i \in DOMAIN b : (a \o b)[Len(a) + i] = b[i]
           /\ \A i \in DOMAIN (a \o b) : i > Len(a) => (a \o b)[i] = b[i - Len(a)]
BY ConcatProperties

LEMMA ConnectsInConcat ==
    ASSUME NEW a \in Seq(StepNames), NEW b \in Seq(StepNames), NEW n \in Nat,
           ConnectsAtMost(a, n), ConnectsAtMost(b, 0)
    PROVE  ConnectsAtMost(a \o b, n)
BY Concatenated DEF ConnectsAtMost

LEMMA WillProveInConcat ==
    ASSUME NEW a \in Seq(StepNames), NEW b \in Seq(StepNames), WillProve(a) \/ WillProve(b)
    PROVE  WillProve(a \o b)
<1>1. CASE WillProve(a)
  <2>1. PICK i \in DOMAIN a : Proves(a[i])
    BY <1>1 DEF WillProve
  <2>2. i \in DOMAIN (a \o b) /\ (a \o b)[i] = a[i]
    BY Concatenated
  <2> QED BY <2>1, <2>2 DEF WillProve
<1>2. CASE WillProve(b)
  <2>1. PICK i \in DOMAIN b : Proves(b[i])
    BY <1>2 DEF WillProve
  <2>2. Len(a) + i \in DOMAIN (a \o b) /\ (a \o b)[Len(a) + i] = b[i]
    BY Concatenated
  <2> QED BY <2>1, <2>2 DEF WillProve
<1> QED BY <1>1, <1>2

LEMMA WillRefuseInConcat ==
    ASSUME NEW a \in Seq(StepNames), NEW b \in Seq(StepNames), WillRefuse(b)
    PROVE  WillRefuse(a \o b)
<1>1. PICK i \in DOMAIN b : b[i] = "Refuse"
  BY DEF WillRefuse
<1>2. Len(a) + i \in DOMAIN (a \o b) /\ (a \o b)[Len(a) + i] = b[i]
  BY Concatenated
<1> QED BY <1>1, <1>2 DEF WillRefuse

\* What goes before must prove nothing; what comes after does not matter.
LEMMA CreatesFirstAfter ==
    ASSUME NEW a \in Seq(StepNames), NEW b \in Seq(StepNames), ~WillProve(a), CreatesFirst(b)
    PROVE  CreatesFirst(a \o b)
<1> DEFINE s == a \o b
<1>1. WillProve(s)
  BY WillProveInConcat DEF CreatesFirst
<1>2. PICK i \in DOMAIN b :
          b[i] = "CreateSession" /\ \A j \in DOMAIN b : Proves(b[j]) => i < j
  BY DEF CreatesFirst
<1>3. Len(a) + i \in DOMAIN s /\ s[Len(a) + i] = "CreateSession"
  BY <1>2, Concatenated
<1>4. ASSUME NEW j \in DOMAIN s, Proves(s[j])
      PROVE  Len(a) + i < j
  <2>1. CASE j <= Len(a)
    <3>1. j \in DOMAIN a /\ s[j] = a[j]
      BY <2>1, Concatenated
    <3> QED BY <3>1, <1>4 DEF WillProve
  <2>2. CASE j > Len(a)
    <3>1. j - Len(a) \in DOMAIN b /\ s[j] = b[j - Len(a)] /\ j \in Nat /\ Len(a) \in Nat /\ i \in Nat
      BY <2>2, Concatenated
    <3>2. i < j - Len(a)
      BY <3>1, <1>2, <1>4
    <3> QED BY <3>1, <3>2
  <2>3. j \in Nat /\ Len(a) \in Nat
    BY Concatenated
  <2> QED BY <2>1, <2>2, <2>3
<1> QED BY <1>1, <1>3, <1>4 DEF CreatesFirst

LEMMA CreatesFirstBefore ==
    ASSUME NEW a \in Seq(StepNames), NEW b \in Seq(StepNames), CreatesFirst(a)
    PROVE  CreatesFirst(a \o b)
<1> DEFINE s == a \o b
<1>1. WillProve(s)
  BY WillProveInConcat DEF CreatesFirst
<1>2. PICK i \in DOMAIN a :
          a[i] = "CreateSession" /\ \A j \in DOMAIN a : Proves(a[j]) => i < j
  BY DEF CreatesFirst
<1>3. i \in DOMAIN s /\ s[i] = "CreateSession"
  BY <1>2, Concatenated
<1>4. ASSUME NEW j \in DOMAIN s, Proves(s[j])
      PROVE  i < j
  <2>1. CASE j <= Len(a)
    <3>1. j \in DOMAIN a /\ s[j] = a[j]
      BY <2>1, Concatenated
    <3> QED BY <3>1, <1>2, <1>4
  <2>2. CASE j > Len(a)
    BY <2>2, Concatenated
  <2>3. j \in Nat /\ Len(a) \in Nat
    BY Concatenated
  <2> QED BY <2>1, <2>2, <2>3
<1> QED BY <1>1, <1>3, <1>4 DEF CreatesFirst

\* A step done: the rest connects no more, and proves unless this step did.
LEMMA AfterStep ==
    ASSUME NEW s \in Seq(StepNames), s # <<>>
    PROVE  /\ Tail(s) \in Seq(StepNames) /\ Head(s) \in StepNames
           /\ ConnectsAtMost(s, 1) => ConnectsAtMost(Tail(s), 0)
           /\ ConnectsAtMost(s, 0) => ConnectsAtMost(Tail(s), 0) /\ Head(s) # "Connect"
           /\ WillProve(s) /\ ~Proves(Head(s)) => WillProve(Tail(s))
           /\ WillRefuse(s) /\ Head(s) # "Refuse" => WillRefuse(Tail(s))
           /\ CreatesFirst(s) =>
                 /\ ~Proves(Head(s))
                 /\ Head(s) # "CreateSession" => CreatesFirst(Tail(s))
<1>1. /\ Tail(s) \in Seq(StepNames) /\ Len(s) \in Nat \ {0}
      /\ DOMAIN s = 1..Len(s) /\ DOMAIN Tail(s) = 1..(Len(s) - 1)
      /\ Head(s) = s[1] /\ s[1] \in StepNames
      /\ \A i \in DOMAIN Tail(s) : Tail(s)[i] = s[i + 1]
  BY HeadTailProperties, EmptySeq, ElementOfSeq
<1>2. \A i \in DOMAIN s : i # 1 => i - 1 \in DOMAIN Tail(s) /\ Tail(s)[i - 1] = s[i]
  BY <1>1
<1>3. ConnectsAtMost(s, 1) => ConnectsAtMost(Tail(s), 0)
  BY <1>1 DEF ConnectsAtMost
<1>4. ConnectsAtMost(s, 0) => ConnectsAtMost(Tail(s), 0) /\ Head(s) # "Connect"
  BY <1>1 DEF ConnectsAtMost
<1>5. WillProve(s) /\ ~Proves(Head(s)) => WillProve(Tail(s))
  BY <1>1, <1>2 DEF WillProve
<1>7. WillRefuse(s) /\ Head(s) # "Refuse" => WillRefuse(Tail(s))
  BY <1>1, <1>2 DEF WillRefuse
<1>6. ASSUME CreatesFirst(s)
      PROVE  ~Proves(Head(s)) /\ (Head(s) # "CreateSession" => CreatesFirst(Tail(s)))
  <2>1. PICK i \in DOMAIN s :
            s[i] = "CreateSession" /\ \A j \in DOMAIN s : Proves(s[j]) => i < j
    BY <1>6 DEF CreatesFirst
  <2>2. ~Proves(Head(s))
    BY <1>1, <2>1
  <2>3. ASSUME Head(s) # "CreateSession"
        PROVE  CreatesFirst(Tail(s))
    <3>1. i # 1
      BY <2>1, <2>3, <1>1
    <3>2. i - 1 \in DOMAIN Tail(s) /\ Tail(s)[i - 1] = "CreateSession"
      BY <3>1, <2>1, <1>2
    <3>3. \A j \in DOMAIN Tail(s) : Proves(Tail(s)[j]) => i - 1 < j
      BY <1>1, <2>1
    <3>4. WillProve(Tail(s))
      BY <1>5, <1>6, <2>2 DEF CreatesFirst
    <3> QED BY <3>2, <3>3, <3>4 DEF CreatesFirst
  <2> QED BY <2>2, <2>3
<1> QED BY <1>1, <1>3, <1>4, <1>5, <1>6, <1>7

\* The core of an opening: a session is created, and something proved in it.
LEMMA CreatesAndProves ==
    ASSUME NEW s \in Seq(StepNames), 1 \in DOMAIN s, s[1] = "CreateSession",
           NEW k \in DOMAIN s, Proves(s[k])
    PROVE  CreatesFirst(s)
<1>1. ~Proves(s[1]) /\ DOMAIN s = 1..Len(s) /\ Len(s) \in Nat
  BY LenProperties DEF Proves
<1>2. \A j \in DOMAIN s : Proves(s[j]) => 1 < j
  BY <1>1
<1> QED BY <1>2 DEF CreatesFirst, WillProve

\* The parts of an opening's steps.
ByID  == <<"CreateSession", "HostGetKey", "VerifySessionUserID">>
ByKey == <<"CreateSession", "AuthenticateChannel">>

LEMMA EmptyPart ==
    ASSUME NEW s, s = <<>>
    PROVE  s \in Seq(StepNames) /\ ConnectsAtMost(s, 0) /\ ~WillProve(s) /\ ~WillRefuse(s)
BY EmptySeq, LenProperties DEF ConnectsAtMost, WillProve, WillRefuse

LEMMA OneStep ==
    ASSUME NEW step \in StepNames, NEW s, s = <<step>>
    PROVE  /\ s \in Seq(StepNames) /\ ConnectsAtMost(s, 1) /\ 1 \in DOMAIN s /\ s[1] = step
           /\ step # "Connect" => ConnectsAtMost(s, 0)
           /\ WillProve(s) <=> Proves(step)
           /\ step = "Refuse" => WillRefuse(s)
<1>1. s \in Seq(StepNames) /\ Len(s) = 1 /\ s[1] = step
  OBVIOUS
<1>2. DOMAIN s = 1..1
  BY <1>1, LenProperties
<1> QED BY <1>1, <1>2 DEF ConnectsAtMost, WillProve, WillRefuse

LEMMA ByIDCreatesFirst ==
    ByID \in Seq(StepNames) /\ ConnectsAtMost(ByID, 0) /\ CreatesFirst(ByID)
<1>1. /\ ByID \in Seq(StepNames) /\ Len(ByID) = 3 /\ ByID[1] = "CreateSession"
      /\ ByID[2] = "HostGetKey" /\ ByID[3] = "VerifySessionUserID"
  BY DEF ByID, StepNames
<1>2. DOMAIN ByID = 1..3 /\ Proves(ByID[3])
  BY <1>1, LenProperties DEF Proves
<1> QED BY <1>1, <1>2, CreatesAndProves DEF ConnectsAtMost

LEMMA ByKeyCreatesFirst ==
    ByKey \in Seq(StepNames) /\ ConnectsAtMost(ByKey, 0) /\ CreatesFirst(ByKey)
<1>1. /\ ByKey \in Seq(StepNames) /\ Len(ByKey) = 2 /\ ByKey[1] = "CreateSession"
      /\ ByKey[2] = "AuthenticateChannel"
  BY DEF ByKey, StepNames
<1>2. DOMAIN ByKey = 1..2 /\ Proves(ByKey[2])
  BY <1>1, LenProperties DEF Proves
<1> QED BY <1>1, <1>2, CreatesAndProves DEF ConnectsAtMost

LEMMA AttestedProvesNothing ==
    Attested \in Seq(StepNames) /\ ConnectsAtMost(Attested, 0) /\ ~WillProve(Attested)
<1>1. /\ Attested \in Seq(StepNames) /\ Len(Attested) = 5
      /\ Attested[1] = "CheckObjectExists" /\ Attested[2] = "ReadAttestationKey"
      /\ Attested[3] = "StoreAttestationKey" /\ Attested[4] = "ReadObject_W_Attst"
      /\ Attested[5] = "VerifyAttestation"
  BY DEF Attested, StepNames
<1>2. DOMAIN Attested = 1..5
  BY <1>1, LenProperties
<1> QED BY <1>1, <1>2 DEF ConnectsAtMost, WillProve, Proves

\* What sss_session_auth_open does: it creates a session before it proves anything
\* in it, or refuses.
LEMMA StepsOfAuthOpen ==
    ASSUME NEW auth, NEW conn, NEW transport, NEW policy
    PROVE  LET s == AuthOpenSteps(auth, conn, transport, policy)
           IN  /\ s \in Seq(StepNames) /\ ConnectsAtMost(s, 0)
               /\ WillRefuse(s) \/ (CreatesFirst(s) /\ auth # "SCP03")
<1> DEFINE exists == Exists(transport)
           last == Policy(policy)
           s == AuthOpenSteps(auth, conn, transport, policy)
<1>1. exists = <<>> \/ exists = <<"CheckObjectExists">>
  BY DEF Exists
<1>2. last = <<>> \/ last = <<"ExchangeSessionData">>
  BY DEF Policy
<1>3. CASE auth = "ID" /\ conn = "Password"
  <2>1. s = exists \o ByID \o last
    BY <1>3 DEF AuthOpenSteps, ByID
  <2> HIDE DEF exists, last, s
  <2>2. /\ exists \in Seq(StepNames) /\ ~WillProve(exists) /\ ConnectsAtMost(exists, 0)
        /\ last \in Seq(StepNames) /\ ConnectsAtMost(last, 0)
    BY <1>1, <1>2, EmptyPart, OneStep DEF Proves, StepNames
  <2>3. /\ exists \o ByID \in Seq(StepNames) /\ ConnectsAtMost(exists \o ByID, 0)
        /\ CreatesFirst(exists \o ByID)
    BY <2>2, ByIDCreatesFirst, Concatenated, ConnectsInConcat, CreatesFirstAfter
  <2>4. s \in Seq(StepNames) /\ ConnectsAtMost(s, 0) /\ CreatesFirst(s)
    BY <2>1, <2>2, <2>3, Concatenated, ConnectsInConcat, CreatesFirstBefore
  <2> QED BY <1>3, <2>4 DEF s
<1>4. CASE auth = "AESKey" /\ conn = "Encrypted"
  <2>1. s = exists \o ByKey \o last
    BY <1>4 DEF AuthOpenSteps, ByKey
  <2> HIDE DEF exists, last, s
  <2>2. /\ exists \in Seq(StepNames) /\ ~WillProve(exists) /\ ConnectsAtMost(exists, 0)
        /\ last \in Seq(StepNames) /\ ConnectsAtMost(last, 0)
    BY <1>1, <1>2, EmptyPart, OneStep DEF Proves, StepNames
  <2>3. /\ exists \o ByKey \in Seq(StepNames) /\ ConnectsAtMost(exists \o ByKey, 0)
        /\ CreatesFirst(exists \o ByKey)
    BY <2>2, ByKeyCreatesFirst, Concatenated, ConnectsInConcat, CreatesFirstAfter
  <2>4. s \in Seq(StepNames) /\ ConnectsAtMost(s, 0) /\ CreatesFirst(s)
    BY <2>1, <2>2, <2>3, Concatenated, ConnectsInConcat, CreatesFirstBefore
  <2> QED BY <1>4, <2>4 DEF s
<1>5. CASE auth = "ECKey" /\ conn = "Encrypted"
  <2>1. s = Attested \o ByKey \o last
    BY <1>5 DEF AuthOpenSteps, ByKey
  <2> HIDE DEF last, s
  <2>2. last \in Seq(StepNames) /\ ConnectsAtMost(last, 0)
    BY <1>2, EmptyPart, OneStep DEF StepNames
  <2>3. /\ Attested \o ByKey \in Seq(StepNames) /\ ConnectsAtMost(Attested \o ByKey, 0)
        /\ CreatesFirst(Attested \o ByKey)
    BY AttestedProvesNothing, ByKeyCreatesFirst, Concatenated, ConnectsInConcat, CreatesFirstAfter
  <2>4. s \in Seq(StepNames) /\ ConnectsAtMost(s, 0) /\ CreatesFirst(s)
    BY <2>1, <2>2, <2>3, Concatenated, ConnectsInConcat, CreatesFirstBefore
  <2> QED BY <1>5, <2>4 DEF s
<1>6. CASE /\ ~(auth = "ID" /\ conn = "Password")
           /\ ~(auth \in {"AESKey", "ECKey"} /\ conn = "Encrypted")
  <2>1. s = <<"Refuse">>
    BY <1>6 DEF AuthOpenSteps, Refused
  <2> HIDE DEF s
  <2>2. s \in Seq(StepNames) /\ ConnectsAtMost(s, 0) /\ WillRefuse(s)
    BY <2>1, OneStep DEF StepNames
  <2> QED BY <2>2 DEF s
<1> QED BY <1>3, <1>4, <1>5, <1>6

\* Steps s of an opening: the link first, and they refuse it, or prove what is asked
\* for, or it is one that contradicts itself and is not stopped.
OpensWell(s, cell, auth, conn, app, skip) ==
    /\ s \in Seq(StepNames)
    /\ cell = "se" => s # <<>> /\ Head(s) = "Connect" /\ ConnectsAtMost(s, 1)
    /\ cell = "tun" => ConnectsAtMost(s, 0)
    /\ \/ WillRefuse(s)
       \/ ~Fits(auth, conn, app) /\ EarlierOk(cell, auth, skip)
       \/ /\ auth # "None" => WillProve(s)
          /\ Over(auth) = "session" => CreatesFirst(s)

\* What Steps gives for what a session can be asked for.
LEMMA StepsOfOpening ==
    ASSUME NEW cell \in {"se", "tun"}, NEW auth \in PlainAuths \cup TunnelAuths,
           NEW conn, NEW app \in BOOLEAN, NEW skip \in BOOLEAN, NEW transport, NEW policy
    PROVE  OpensWell(Steps(cell, auth, conn, app, skip, transport, policy), cell, auth, conn, app, skip)
<1> DEFINE first == LinkSteps(cell, auth)
           channel == ChannelSteps(auth, conn)
           then == SessionSteps(cell, auth, conn, app, skip, transport, policy)
           s == Steps(cell, auth, conn, app, skip, transport, policy)
<1>1. s = first \o channel \o then
  BY DEF Steps
<1>2. auth \in {"None", "SCP03", "ID", "AESKey", "ECKey"}
  BY ApiAssumption
<1>3. cell = "se" => first = <<"Connect">>
  BY DEF LinkSteps
<1>4. cell # "se" => first = <<"GetVersion">> \/ first = <<>>
  BY DEF LinkSteps
<1>5. /\ auth = "SCP03" /\ conn = "Encrypted" => channel = <<"AuthenticateChannel">>
      /\ ~(auth = "SCP03" /\ conn = "Encrypted") => channel = <<>>
  BY DEF ChannelSteps
<1>6. /\ then \in Seq(StepNames) /\ ConnectsAtMost(then, 0)
      /\ \/ WillRefuse(then)
         \/ ~Fits(auth, conn, app) /\ EarlierOk(cell, auth, skip)
         \/ CreatesFirst(then) /\ auth # "SCP03"
         \/ auth = "None"
         \/ auth = "SCP03" /\ conn = "Encrypted"
  <2>1. CASE AuthOpens(conn, app)
    <3>1. then = AuthOpenSteps(auth, conn, transport, policy)
      BY <2>1 DEF SessionSteps
    <3> HIDE DEF then
    <3> QED BY <3>1, StepsOfAuthOpen
  <2>2. CASE ~AuthOpens(conn, app) /\ (Fits(auth, conn, app) \/ EarlierOk(cell, auth, skip))
    <3>1. then = <<>>
      BY <2>2 DEF SessionSteps
    <3>2. Fits(auth, conn, app) => auth = "None" \/ (auth = "SCP03" /\ conn = "Encrypted")
      BY <1>2, <2>2 DEF Fits, AuthOpens
    <3> HIDE DEF then
    <3> QED BY <2>2, <3>1, <3>2, EmptyPart
  <2>3. CASE ~AuthOpens(conn, app) /\ ~Fits(auth, conn, app) /\ ~EarlierOk(cell, auth, skip)
    <3>1. then = <<"Refuse">>
      BY <2>3 DEF SessionSteps, Refused
    <3> HIDE DEF then
    <3> QED BY <3>1, OneStep DEF StepNames
  <2> QED BY <2>1, <2>2, <2>3
<1> HIDE DEF first, channel, then
<1>7. /\ first \in Seq(StepNames) /\ ~WillProve(first)
      /\ cell = "se" => ConnectsAtMost(first, 1)
      /\ cell = "tun" => ConnectsAtMost(first, 0)
  BY <1>3, <1>4, EmptyPart, OneStep DEF Proves, StepNames
<1>8. /\ channel \in Seq(StepNames) /\ ConnectsAtMost(channel, 0)
      /\ auth = "SCP03" /\ conn = "Encrypted" => WillProve(channel)
      /\ auth # "SCP03" => channel = <<>>
  BY <1>5, EmptyPart, OneStep DEF Proves, StepNames
<1>9. /\ first \o channel \in Seq(StepNames)
      /\ cell = "se" => ConnectsAtMost(first \o channel, 1)
      /\ cell = "tun" => ConnectsAtMost(first \o channel, 0)
      /\ auth = "SCP03" /\ conn = "Encrypted" => WillProve(first \o channel)
      /\ auth # "SCP03" => ~WillProve(first \o channel)
  <2>1. first \o <<>> = first
    BY <1>7, ConcatEmptySeq
  <2>2. first \o channel \in Seq(StepNames)
    BY <1>7, <1>8, Concatenated
  <2>3. auth = "SCP03" /\ conn = "Encrypted" => WillProve(first \o channel)
    BY <1>7, <1>8, WillProveInConcat
  <2>4. auth # "SCP03" => ~WillProve(first \o channel)
    BY <1>7, <1>8, <2>1
  <2>5. /\ cell = "se" => ConnectsAtMost(first \o channel, 1)
        /\ cell = "tun" => ConnectsAtMost(first \o channel, 0)
    BY <1>7, <1>8, ConnectsInConcat
  <2> QED BY <2>2, <2>3, <2>4, <2>5
<1>10. s \in Seq(StepNames)
  BY <1>1, <1>6, <1>9, Concatenated
<1>11. \/ WillRefuse(s)
       \/ ~Fits(auth, conn, app) /\ EarlierOk(cell, auth, skip)
       \/ /\ auth # "None" => WillProve(s)
          /\ Over(auth) = "session" => CreatesFirst(s)
  <2> HIDE DEF s
  <2>1. CASE WillRefuse(then)
    BY <1>1, <1>6, <1>9, <2>1, WillRefuseInConcat
  <2>2. CASE CreatesFirst(then) /\ auth # "SCP03"
    BY <1>1, <1>6, <1>9, <2>2, CreatesFirstAfter DEF CreatesFirst
  <2>3. CASE auth = "None"
    BY <2>3 DEF Over
  <2>4. CASE auth = "SCP03" /\ conn = "Encrypted"
    BY <1>1, <1>6, <1>9, <2>4, WillProveInConcat DEF Over
  <2> QED BY <1>6, <2>1, <2>2, <2>3, <2>4
<1>12. cell = "se" => s # <<>> /\ Head(s) = "Connect" /\ ConnectsAtMost(s, 1)
  <2>1. ASSUME cell = "se"
        PROVE  s # <<>> /\ Head(s) = "Connect" /\ ConnectsAtMost(s, 1)
    <3>1. 1 \in DOMAIN first /\ first[1] = "Connect"
      BY <1>3, <2>1, OneStep DEF StepNames
    <3>2. 1 \in DOMAIN (first \o channel) /\ (first \o channel)[1] = "Connect"
      BY <1>7, <1>8, <3>1, Concatenated
    <3>3. 1 \in DOMAIN s /\ s[1] = "Connect"
      BY <1>1, <1>6, <1>9, <3>2, Concatenated
    <3>4. ConnectsAtMost(s, 1)
      BY <1>1, <1>6, <1>9, <2>1, ConnectsInConcat
    <3> HIDE DEF s
    <3> QED BY <1>10, <3>3, <3>4
  <2> QED BY <2>1
<1>13. cell = "tun" => ConnectsAtMost(s, 0)
  BY <1>1, <1>6, <1>9, ConnectsInConcat
<1> HIDE DEF s
<1>14. OpensWell(s, cell, auth, conn, app, skip)
  BY <1>10, <1>11, <1>12, <1>13 DEF OpensWell
<1> QED BY <1>14 DEF s

-----------------------------------------------------------------------------
(* Every step keeps the invariant.                                         *)

LEMMA InitHolds == Init => IInv
<1> SUFFICES ASSUME Init PROVE IInv
  OBVIOUS
<1>1. Typed
  <2>1. Zeroed \in SessionType
    BY DEF Zeroed, SessionType, Auths
  <2>2. NotOpening \in OpeningType
    BY EmptySeq DEF NotOpening, OpeningType, Auths
  <2>3. sess = [cell \in Cells |-> Zeroed] /\ link = 0 /\ opening = NotOpening
    BY DEF Init
  <2>4. \A cell \in Cells : sess[cell].sub = NONE
    BY <2>3 DEF Zeroed
  <2> QED BY <2>1, <2>2, <2>3, <2>4 DEF Typed, Cells
<1>2. OpeningGoesOn /\ LinkCounted /\ SessionsReady
  BY DEF Init, OpeningGoesOn, Opens, LinkCounted, SessionsReady, Ready, Unasked, Zeroed,
         NotOpening, Cells, NONE
<1>3. HandlesHold /\ ServedByItsSession
  BY DEF Init, HandlesHold, HandleHolds, ServedByItsSession, NoHandle, NoCall, NONE
<1> QED BY <1>1, <1>2, <1>3 DEF IInv

\* Sessions and links stay as they are.
LEMMA QuietStep ==
    ASSUME IInv, Free, UNCHANGED <<sess, link, seSess, opening>>,
           HandlesHold', ServedByItsSession'
    PROVE  IInv'
<1>1. Typed' /\ LinkCounted' /\ SessionsReady'
  BY DEF IInv, Typed, LinkCounted, SessionsReady, Ready, Unasked
<1>2. OpeningGoesOn'
  BY DEF Free, OpeningGoesOn, Opens
<1> QED BY <1>1, <1>2 DEF IInv

LEMMA NoCallIsServed == ASSUME call' = NoCall PROVE ServedByItsSession'
BY DEF ServedByItsSession, NoCall, NONE

LEMMA ReachedIsSub ==
    ASSUME NEW f, NEW cell, Reached(f, cell) # NONE
    PROVE  cell # NONE /\ Reached(f, cell) = sess[cell].sub
BY DEF Reached, SessionSub

LEMMA HandleSteps == ASSUME IInv, Handles PROVE IInv'
<1>1. ASSUME NEW cell \in Cells, KeyStoreInit(cell)
      PROVE  IInv'
  <2>1. HandlesHold'
    BY <1>1, ReachedIsSub DEF IInv, HandlesHold, HandleHolds, KeyStoreInit
  <2> QED BY <1>1, <2>1, NoCallIsServed, QuietStep DEF KeyStoreInit
<1>2. ASSUME NEW cell \in Cells, NEW kind \in ContextKinds, ContextInit(kind, cell)
      PROVE  IInv'
  <2>1. HandlesHold'
    BY <1>2, ReachedIsSub DEF IInv, HandlesHold, HandleHolds, ContextInit
  <2> QED BY <1>2, <2>1, NoCallIsServed, QuietStep DEF ContextInit
<1>3. CASE KeyObjectInit
  <2>1. ks.cell # NONE /\ obj'.made = ks.made
    BY <1>3, ReachedIsSub DEF IInv, HandlesHold, HandleHolds, KeyObjectInit
  <2>2. HandlesHold'
    BY <1>3, <2>1 DEF IInv, HandlesHold, HandleHolds, KeyObjectInit
  <2> QED BY <1>3, <2>2, NoCallIsServed, QuietStep DEF KeyObjectInit
<1>4. CASE KeyStoreFree
  <2>1. HandlesHold'
    BY <1>4 DEF IInv, HandlesHold, HandleHolds, KeyStoreFree, NoHandle
  <2> QED BY <1>4, <2>1, NoCallIsServed, QuietStep DEF KeyStoreFree
<1>5. CASE KeyObjectFree
  <2>1. HandlesHold'
    BY <1>5 DEF IInv, HandlesHold, HandleHolds, KeyObjectFree
  <2> QED BY <1>5, <2>1, NoCallIsServed, QuietStep DEF KeyObjectFree
<1>6. CASE ContextFree
  <2>1. ctx' \in {ctx, NoHandle} /\ obj' \in {obj, NoHandle}
    BY <1>6 DEF ContextFree
  <2>2. UNCHANGED <<sess, link, seSess, opening, ks>> /\ Free /\ call' = NoCall
    BY <1>6 DEF ContextFree
  <2>3. HandlesHold'
    BY <2>1, <2>2 DEF IInv, HandlesHold, HandleHolds, NoHandle
  <2> QED BY <2>2, <2>3, NoCallIsServed, QuietStep
<1>7. CASE Reset
  <2>1. HandlesHold'
    BY <1>7 DEF Reset, HandlesHold, HandleHolds, NoHandle
  <2> QED BY <1>7, <2>1, NoCallIsServed, QuietStep DEF Reset
<1> QED BY <1>1, <1>2, <1>3, <1>4, <1>5, <1>6, <1>7 DEF Handles

\* A call on the handle h, through the cell it points to.
LEMMA ServedStep ==
    ASSUME IInv, NEW f, NEW cell \in Cells, NEW made,
           sess[cell].sub # NONE => sess[cell].sub = made,
           call' = CallOf(f, cell, made), UNCHANGED <<sess, seSess>>
    PROVE  ServedByItsSession'
<1>1. call'.reached # NONE => call'.reached = made
  BY ReachedIsSub DEF CallOf
<1>2. Ready(cell)
  <2>1. CASE cell = "host"
    <3>1. sess["host"].sub # "SE05X"
      BY ApiAssumption DEF IInv, Typed, NONE
    <3> QED BY <2>1, <3>1 DEF Ready
  <2>2. CASE cell \in {"se", "tun"}
    BY <2>2 DEF IInv, SessionsReady
  <2> QED BY <2>1, <2>2 DEF Cells
<1>3. call'.made = made /\ call'.ready
  BY <1>2 DEF CallOf
<1> QED BY <1>1, <1>3 DEF ServedByItsSession

LEMMA ServedNowhere ==
    ASSUME NEW f, NEW made, call' = CallOf(f, NONE, made) PROVE ServedByItsSession'
BY DEF CallOf, Reached, SessionSub, ServedByItsSession

\* A function looks at the session of the handle it is given.
LEMMA LooksAtItsHandle ==
    ASSUME NEW given \in DOMAIN CallsOn \ {"session"}, NEW f \in CallsOn[given]
    PROVE  f.via = given
<1> USE DEF CallsOn, Fn
<1>1. CASE given = "object"
  BY <1>1 DEF sss_key_object_allocate_handle, sss_key_object_get_handle,
       sss_key_object_set_user, sss_key_object_set_purpose, sss_key_object_set_access,
       sss_key_object_set_eccgfp_group, sss_key_object_get_user,
       sss_key_object_get_purpose, sss_key_object_get_access
<1>2. CASE given = "derive_key"
  BY <1>2 DEF sss_derive_key_go, sss_derive_key_one_go, sss_derive_key_sobj_one_go,
       sss_derive_key_dh
<1>3. CASE given = "key_store"
  BY <1>3 DEF sss_key_store_allocate, sss_key_store_save, sss_key_store_load,
       sss_key_store_set_key, sss_key_store_generate_key, sss_key_store_get_key,
       sss_key_store_open_key, sss_key_store_freeze_key, sss_key_store_erase_key
<1>4. CASE given = "asymmetric"
  BY <1>4 DEF sss_asymmetric_encrypt, sss_asymmetric_decrypt,
       sss_asymmetric_sign_digest, sss_asymmetric_verify_digest
<1>5. CASE given = "symmetric"
  BY <1>5 DEF sss_cipher_one_go, sss_cipher_one_go_v2, sss_cipher_init,
       sss_cipher_update, sss_cipher_finish, sss_cipher_crypt_ctr
<1>6. CASE given = "aead"
  BY <1>6 DEF sss_aead_one_go, sss_aead_init, sss_aead_update_aad, sss_aead_update,
       sss_aead_finish
<1>7. CASE given = "mac"
  BY <1>7 DEF sss_mac_one_go, sss_mac_init, sss_mac_update, sss_mac_finish
<1>8. CASE given = "digest"
  BY <1>8 DEF sss_digest_one_go, sss_digest_init, sss_digest_update, sss_digest_finish
<1>9. CASE given = "rng"
  BY <1>9 DEF sss_rng_get_random
<1>10. CASE given = "tunnel"
  BY <1>10 DEF sss_tunnel
<1>11. given \in {"object", "derive_key", "key_store", "asymmetric", "symmetric", "aead",
                  "mac", "digest", "rng", "tunnel"}
  OBVIOUS
<1> HIDE DEF CallsOn, Fn
<1> QED BY <1>1, <1>2, <1>3, <1>4, <1>5, <1>6, <1>7, <1>8, <1>9, <1>10, <1>11

\* Through whichever handle: the session is the one it was made in, or closed.
LEMMA HandleServed ==
    ASSUME IInv, NEW given, Handle(given) # NoHandle, NEW f,
           call' = CallOf(f, CellOf(given), Handle(given).made), UNCHANGED <<sess, seSess>>
    PROVE  ServedByItsSession'
<1> DEFINE cell == CellOf(given)
           made == Handle(given).made
<1>1. CASE cell = NONE
  BY <1>1, ServedNowhere
<1>2. CASE cell # NONE
  <2>1. cell \in Cells /\ sess[cell].sub \in {NONE, made}
    <3>1. CASE given = "key_store"
      BY <3>1, <1>2 DEF IInv, HandlesHold, HandleHolds, CellOf, Handle
    <3>2. CASE given = "object"
      BY <3>2, <1>2 DEF IInv, HandlesHold, HandleHolds, CellOf, Handle
    <3>3. CASE given \notin {"key_store", "object"}
      BY <3>3, <1>2 DEF IInv, HandlesHold, HandleHolds, CellOf, Handle
    <3> QED BY <3>1, <3>2, <3>3
  <2> QED BY <2>1, ServedStep
<1> QED BY <1>1, <1>2

LEMMA SessionCallStep == ASSUME IInv, NEW cell \in Cells, SessionCall(cell) PROVE IInv'
<1>1. PICK f \in CallsOn.session : call' = CallOf(f, cell, SessionSub(cell))
  BY DEF SessionCall
<1>2. cell # NONE
  BY DEF Cells, NONE
<1>3. ServedByItsSession'
  BY <1>1, <1>2, ServedStep DEF SessionCall, SessionSub
<1>4. HandlesHold'
  BY DEF SessionCall, IInv, HandlesHold, HandleHolds
<1> QED BY <1>3, <1>4, QuietStep DEF SessionCall

LEMMA CallStep ==
    ASSUME IInv, NEW given \in DOMAIN CallsOn \ {"session"}, Call(given) PROVE IInv'
<1>1. PICK f \in CallsOn[given] : call' = CallOf(f, CellOf(f.via), Handle(given).made)
  BY DEF Call
<1>2. ServedByItsSession'
  BY <1>1, LooksAtItsHandle, HandleServed DEF Call
<1>3. HandlesHold'
  BY DEF Call, IInv, HandlesHold, HandleHolds
<1> QED BY <1>2, <1>3, QuietStep DEF Call

LEMMA OneGoCallStep == ASSUME IInv, NEW o, OneGoCall(o) PROVE IInv'
<1> DEFINE f == OneGoFn[o.fn]
<1>1. /\ Free /\ UNCHANGED <<sess, link, seSess, opening, ks, obj, ctx>>
      /\ Handle(f.via).kind = f.via /\ CellOf(f.via) = "se"
      /\ Reached(f, "se") = "SE05X"
      /\ call' = CallOf(f, "se", Handle(f.via).made)
  BY DEF OneGoCall
<1> HIDE DEF f
<1>2. ServedByItsSession'
  <2>1. CASE Handle(f.via) # NoHandle
    <3>1. call' = CallOf(f, CellOf(f.via), Handle(f.via).made) /\ UNCHANGED <<sess, seSess>>
      BY <1>1
    <3> QED BY <2>1, <3>1, HandleServed
  <2>2. CASE Handle(f.via) = NoHandle
    <3>1. f.via = NONE
      BY <1>1, <2>2 DEF NoHandle
    <3>2. CellOf(f.via) = ctx.cell /\ Handle(f.via) = ctx
      BY <3>1 DEF CellOf, Handle, NONE
    <3> QED BY <1>1, <2>2, <3>2 DEF NoHandle, NONE
  <2> QED BY <2>1, <2>2
<1>3. HandlesHold'
  BY <1>1 DEF IInv, HandlesHold, HandleHolds
<1> QED BY <1>1, <1>2, <1>3, QuietStep

-----------------------------------------------------------------------------
(* Opening and closing sessions.                                           *)

LEMMA NoOpening == opening = NotOpening => ~opening.connected
BY DEF NotOpening

LEMMA SessionOpenStep ==
    ASSUME IInv, NEW cell \in {"se", "tun"}, NEW auth \in PlainAuths \cup TunnelAuths,
           NEW conn, NEW app \in BOOLEAN, NEW skip \in BOOLEAN,
           NEW transport \in BOOLEAN, NEW policy \in BOOLEAN,
           SessionOpen(cell, auth, conn, app, skip, transport, policy)
    PROVE  IInv'
<1> DEFINE steps == Steps(cell, auth, conn, app, skip, transport, policy)
           fits == Fits(auth, conn, app)
<1>1. /\ opening' = [cell |-> cell, auth |-> auth, fits |-> fits, skip |-> skip,
                     todo |-> steps, connected |-> FALSE, hasSession |-> FALSE, proved |-> FALSE]
      /\ opening = NotOpening /\ sess[cell].sub = NONE /\ cell \notin {ks.cell, ctx.cell}
      /\ UNCHANGED <<sess, link, seSess, ks, obj, ctx>> /\ call' = NoCall
  BY DEF SessionOpen, Free, NotOpening
<1>2. /\ cell = "tun" => SessionSub(ctx.cell) = "SE05X"
  BY DEF SessionOpen
<1>3. /\ steps \in Seq(StepNames)
      /\ cell = "se" => steps # <<>> /\ Head(steps) = "Connect" /\ ConnectsAtMost(steps, 1)
      /\ cell = "tun" => ConnectsAtMost(steps, 0)
      /\ \/ WillRefuse(steps)
         \/ ~fits /\ EarlierOk(cell, auth, skip)
         \/ /\ auth # "None" => WillProve(steps)
            /\ Over(auth) = "session" => CreatesFirst(steps)
  <2>1. OpensWell(steps, cell, auth, conn, app, skip)
    BY StepsOfOpening
  <2> HIDE DEF steps
  <2> QED BY <2>1 DEF OpensWell
<1>0. fits \in BOOLEAN
  BY DEF Fits
<1> HIDE DEF steps, fits
<1>4. Typed'
  <2>1. auth \in Auths
    BY ApiAssumption DEF Auths
  <2>2. opening' \in OpeningType
    BY <1>0, <1>1, <1>3, <2>1 DEF OpeningType
  <2> QED BY <1>1, <2>2 DEF IInv, Typed
\* The session that a tunnel leads through is that of the link.
<1>5. cell = "tun" => sess["se"].sub = "SE05X"
  <2>1. SUFFICES ASSUME cell = "tun" PROVE sess["se"].sub = "SE05X"
    OBVIOUS
  <2>2. ctx.cell \in Cells /\ sess[ctx.cell].sub = "SE05X"
    BY <1>2, <2>1 DEF SessionSub, IInv, HandlesHold, HandleHolds, NONE
  <2>3. ctx.cell # "tun"
    BY <1>1, <2>1
  <2>4. sess["host"].sub # "SE05X"
    BY ApiAssumption DEF IInv, Typed, NONE
  <2> QED BY <2>2, <2>3, <2>4 DEF Cells
<1>6. OpeningGoesOn'
  <2>1. ToBeProved'
    BY <1>1, <1>3 DEF ToBeProved, ReadyToCome, Unasked
  <2> QED BY <1>1, <1>3, <1>5, <2>1 DEF OpeningGoesOn, ConnectsFirst
<1>7. LinkCounted' /\ SessionsReady' /\ HandlesHold'
  BY <1>1, NoOpening DEF IInv, LinkCounted, SessionsReady, Ready, Unasked, HandlesHold, HandleHolds
<1> QED BY <1>1, <1>4, <1>6, <1>7, NoCallIsServed DEF IInv

\* What the SE comes to know takes no session from it that was proved.
LEMMA KnownStays ==
    ASSUME NEW o, NEW step, NEW cell, Known(cell, TRUE) \in seSess
    PROVE  Known(cell, TRUE) \in KnownAfter(o, step)
BY DEF KnownAfter, Known

LEMMA OpenStepStep == ASSUME IInv, OpenStep PROVE IInv'
<1> DEFINE step == Head(opening.todo)
<1>1. /\ Opens /\ opening.todo # <<>>
      /\ opening' = OpeningAfter(opening, step) /\ seSess' = KnownAfter(opening, step)
      /\ link' = IF step = "Connect" THEN link + 1 ELSE link
      /\ UNCHANGED <<sess, ks, obj, ctx, call>>
  BY DEF OpenStep, Opens
<1>0. step # "Refuse"
  BY DEF OpenStep
<1>2. opening \in OpeningType
  BY DEF IInv, Typed
<1>3. /\ opening'.cell = opening.cell /\ opening'.auth = opening.auth
      /\ opening'.fits = opening.fits /\ opening'.skip = opening.skip
      /\ opening'.todo = Tail(opening.todo)
      /\ opening'.connected = (opening.connected \/ step = "Connect")
      /\ opening'.hasSession = (opening.hasSession \/ step = "CreateSession")
      /\ opening'.proved = (opening.proved \/ Proves(step))
  BY <1>1, <1>2 DEF OpeningAfter, OpeningType, Proves
<1>4. /\ Tail(opening.todo) \in Seq(StepNames)
      /\ ConnectsAtMost(opening.todo, 1) => ConnectsAtMost(Tail(opening.todo), 0)
      /\ ConnectsAtMost(opening.todo, 0) =>
            ConnectsAtMost(Tail(opening.todo), 0) /\ step # "Connect"
      /\ WillProve(opening.todo) /\ ~Proves(step) => WillProve(Tail(opening.todo))
      /\ WillRefuse(opening.todo) => WillRefuse(Tail(opening.todo))
      /\ CreatesFirst(opening.todo) =>
            /\ ~Proves(step)
            /\ step # "CreateSession" => CreatesFirst(Tail(opening.todo))
            /\ WillProve(opening.todo)
  BY <1>0, <1>1, <1>2, AfterStep DEF OpeningType, CreatesFirst
<1>5. Typed'
  <2>1. opening' \in OpeningType
    BY <1>1, <1>2, <1>4 DEF OpeningAfter, OpeningType
  <2> QED BY <1>1, <2>1 DEF IInv, Typed
<1>6. ConnectsFirst' /\ LinkCounted'
  <2>1. CASE opening.cell = "se" /\ ~opening.connected
    <3>1. step = "Connect" /\ ConnectsAtMost(opening.todo, 1)
      BY <1>1, <2>1 DEF IInv, OpeningGoesOn, ConnectsFirst
    <3>2. opening'.connected = TRUE /\ ConnectsAtMost(opening'.todo, 0)
      BY <1>3, <1>4, <3>1
    <3> QED BY <1>1, <2>1, <3>1, <3>2 DEF IInv, Typed, ConnectsFirst, LinkCounted
  <2>2. CASE ~(opening.cell = "se" /\ ~opening.connected)
    <3>1. ConnectsAtMost(opening.todo, 0)
      BY <1>1, <2>2 DEF IInv, OpeningGoesOn, ConnectsFirst
    <3>2. step # "Connect" /\ ConnectsAtMost(opening'.todo, 0)
      BY <1>3, <1>4, <3>1
    <3>3. opening'.connected = opening.connected
      BY <1>2, <1>3, <3>2 DEF OpeningType
    <3> QED BY <1>1, <1>3, <2>2, <3>2, <3>3 DEF IInv, ConnectsFirst, LinkCounted
  <2> QED BY <2>1, <2>2
<1>7. ToBeProved'
  <2>0. WillRefuse(opening.todo) \/ Unasked(opening.cell, opening) \/ ReadyToCome
    BY <1>1 DEF IInv, OpeningGoesOn, ToBeProved
  <2>1. CASE WillRefuse(opening.todo)
    BY <1>3, <1>4, <2>1 DEF ToBeProved
  <2>2. CASE Unasked(opening.cell, opening)
    BY <1>3, <2>2 DEF ToBeProved, Unasked
  <2>3. CASE ReadyToCome
    <3>1. opening'.auth # "None" /\ ~opening'.proved => WillProve(opening'.todo)
      BY <1>3, <1>4, <2>3 DEF ReadyToCome
    <3>2. ASSUME Over(opening.auth) = "session", ~opening'.hasSession
          PROVE  ~opening'.proved /\ CreatesFirst(opening'.todo)
      BY <1>3, <1>4, <2>3, <3>2 DEF ReadyToCome
    <3>3. ASSUME Over(opening.auth) = "session", opening'.proved
          PROVE  Known(opening.cell, TRUE) \in seSess'
      <4>1. CASE opening.proved
        BY <1>1, <2>3, <3>3, <4>1, KnownStays DEF ReadyToCome
      <4>2. CASE ~opening.proved
        <5>1. Proves(step)
          BY <1>3, <3>3, <4>2
        <5>2. opening.hasSession
          BY <1>4, <2>3, <3>3, <5>1 DEF ReadyToCome
        <5> QED BY <1>1, <5>1, <5>2 DEF KnownAfter, Proves
      <4> QED BY <4>1, <4>2
    <3>4. ReadyToCome'
      BY <1>3, <3>1, <3>2, <3>3 DEF ReadyToCome
    <3> QED BY <3>4 DEF ToBeProved
  <2> QED BY <2>0, <2>1, <2>2, <2>3
<1>8. OpeningGoesOn'
  <2>1. opening.cell = "tun" => ~opening'.connected
    BY <1>1, <1>3, <1>4 DEF IInv, OpeningGoesOn, ConnectsFirst
  <2> QED BY <1>1, <1>3, <1>6, <1>7, <2>1 DEF IInv, OpeningGoesOn
<1>9. SessionsReady'
  BY <1>1, KnownStays DEF IInv, SessionsReady, Ready, Unasked, Known
<1>10. HandlesHold' /\ ServedByItsSession'
  BY <1>1 DEF IInv, HandlesHold, HandleHolds, ServedByItsSession
<1> QED BY <1>5, <1>6, <1>8, <1>9, <1>10 DEF IInv

LEMMA OpenDoneStep == ASSUME IInv, OpenDone PROVE IInv'
<1> DEFINE new == [sub |-> "SE05X", auth |-> opening.auth, fits |-> opening.fits,
                   skip |-> opening.skip, hasSession |-> opening.hasSession, proved |-> opening.proved]
<1>1. /\ Opens /\ opening.todo = <<>> /\ opening' = NotOpening
      /\ sess' = [sess EXCEPT ![opening.cell] = new]
      /\ UNCHANGED <<link, seSess, ks, obj, ctx, call>>
  BY DEF OpenDone, Opens
<1>2. /\ opening.cell \in {"se", "tun"} /\ opening.cell \notin {ks.cell, ctx.cell}
      /\ sess[opening.cell].sub = NONE
      /\ opening.cell = "tun" => sess["se"].sub = "SE05X" /\ ~opening.connected
      /\ ConnectsFirst /\ ToBeProved
  BY <1>1 DEF IInv, OpeningGoesOn
<1>3. ~WillProve(opening.todo) /\ ~CreatesFirst(opening.todo) /\ ~WillRefuse(opening.todo)
  BY <1>1, EmptyPart DEF CreatesFirst
<1>4. /\ sess'[opening.cell] = new
      /\ \A cell \in Cells : cell # opening.cell => sess'[cell] = sess[cell]
  BY <1>1, <1>2 DEF IInv, Typed, Cells
<1>5. Typed'
  <2>1. new \in SessionType
    BY DEF IInv, Typed, OpeningType, SessionType
  <2>2. NotOpening \in OpeningType
    BY EmptySeq DEF NotOpening, OpeningType, Auths
  <2> QED BY <1>1, <1>2, <1>4, <2>1, <2>2 DEF IInv, Typed, Cells
<1>6. OpeningGoesOn'
  BY <1>1 DEF OpeningGoesOn, Opens
<1>7. LinkCounted'
  <2>1. opening.cell = "se" => opening.connected
    BY <1>1, <1>2 DEF ConnectsFirst
  <2> QED BY <1>1, <1>2, <1>4, <2>1 DEF IInv, LinkCounted, NotOpening, Cells, NONE
<1>8. SessionsReady'
  <2>1. ASSUME NEW cell \in {"se", "tun"}
        PROVE  Ready(cell)'
    <3>1. CASE cell = opening.cell
      <4>1. \/ Unasked(opening.cell, opening)
            \/ /\ opening.auth # "None" => opening.proved
               /\ Over(opening.auth) = "session" => Known(opening.cell, TRUE) \in seSess
        BY <1>2, <1>3 DEF ToBeProved, ReadyToCome, Over
      <4>2. sess'[cell] = new /\ seSess' = seSess
        BY <1>1, <1>4, <3>1
      <4> QED BY <3>1, <4>1, <4>2 DEF Ready, Unasked, Known
    <3>2. CASE cell # opening.cell
      <4>1. sess'[cell] = sess[cell] /\ seSess' = seSess /\ Ready(cell)
        BY <1>1, <1>4, <3>2 DEF Cells, IInv, SessionsReady
      <4> QED BY <4>1 DEF Ready, Unasked
    <3> QED BY <3>1, <3>2
  <2>3. sess'["tun"].sub = "SE05X" => sess'["se"].sub = "SE05X"
    BY <1>2, <1>4 DEF IInv, SessionsReady, Cells, NONE
  <2> QED BY <2>1, <2>3 DEF SessionsReady
<1>9. HandlesHold'
  BY <1>1, <1>2, <1>4 DEF IInv, HandlesHold, HandleHolds
<1>10. ServedByItsSession'
  BY <1>1 DEF IInv, ServedByItsSession
<1> QED BY <1>5, <1>6, <1>7, <1>8, <1>9, <1>10 DEF IInv

LEMMA KnownNotOrphaned ==
    ASSUME NEW known, NEW cell, NEW closing, Known(cell, TRUE) \in known, cell # closing
    PROVE  Known(cell, TRUE) \in Orphaned(closing, known)
BY DEF Orphaned, Known

LEMMA OpenFailStep == ASSUME IInv, OpenFail PROVE IInv'
<1>1. /\ Opens /\ opening' = NotOpening /\ link' = SMClose(opening.connected)
      /\ UNCHANGED <<sess, ks, obj, ctx, call>>
  BY DEF OpenFail, Opens
<1>2. /\ opening.cell \in {"se", "tun"} /\ sess[opening.cell].sub = NONE
      /\ opening.cell = "tun" => sess["se"].sub = "SE05X" /\ ~opening.connected
  BY <1>1 DEF IInv, OpeningGoesOn
<1>3. Typed'
  <2>1. NotOpening \in OpeningType
    BY EmptySeq DEF NotOpening, OpeningType, Auths
  <2> QED BY <1>1, <2>1 DEF IInv, Typed, SMClose
<1>4. OpeningGoesOn'
  BY <1>1 DEF OpeningGoesOn, Opens
<1>5. LinkCounted'
  BY <1>1, <1>2 DEF IInv, Typed, LinkCounted, SMClose, NotOpening
<1>6. SessionsReady'
  <2>1. CASE opening.cell = "se"
    BY <1>1, <1>2, <2>1 DEF IInv, SessionsReady, Ready, Unasked, NONE
  <2>2. CASE opening.cell = "tun"
    <3>1. PICK known \in {seSess, KnownAfter(opening, Head(opening.todo))} :
              seSess' = Orphaned("tun", known)
      BY <1>2, <2>2 DEF OpenFail
    <3>2. Known("se", TRUE) \in seSess => Known("se", TRUE) \in seSess'
      BY <3>1, KnownStays, KnownNotOrphaned
    <3> QED BY <1>1, <1>2, <2>2, <3>2 DEF IInv, SessionsReady, Ready, Unasked, NONE, Known
  <2> QED BY <1>2, <2>1, <2>2
<1>7. HandlesHold' /\ ServedByItsSession'
  BY <1>1 DEF IInv, HandlesHold, HandleHolds, ServedByItsSession
<1> QED BY <1>3, <1>4, <1>5, <1>6, <1>7 DEF IInv

LEMMA SessionCloseStep == ASSUME IInv, SessionClose PROVE IInv'
<1>1. PICK cell \in {"se", "tun"} :
          /\ cell = "se" => sess["tun"].sub = NONE
          /\ link' = SMClose(cell = "se")
          /\ cell = "tun" => seSess' \in {Orphaned(cell, seSess), {s \in seSess : s.owner # cell}}
          /\ sess' = [sess EXCEPT ![cell] = Zeroed]
  BY DEF SessionClose, SessionAfterClose
<1>2. /\ opening = NotOpening /\ sess["se"].sub = "SE05X" /\ call' = NoCall
      /\ UNCHANGED <<opening, ks, obj, ctx>>
  BY DEF SessionClose, Free
<1>3. /\ sess'[cell] = Zeroed
      /\ \A other \in Cells : other # cell => sess'[other] = sess[other]
  BY <1>1 DEF IInv, Typed, Cells
<1>4. Typed'
  <2>1. Zeroed \in SessionType /\ Zeroed.sub = NONE
    BY DEF Zeroed, SessionType, Auths
  <2>2. link' \in Int
    BY <1>1 DEF IInv, Typed, SMClose
  <2>3. sess' \in [Cells -> SessionType]
    BY <1>1, <2>1 DEF IInv, Typed, Cells
  <2> QED BY <1>2, <1>3, <2>1, <2>2, <2>3 DEF IInv, Typed, Cells
<1>5. OpeningGoesOn'
  BY <1>2 DEF OpeningGoesOn, Opens
<1>6. LinkCounted'
  BY <1>1, <1>2, <1>3 DEF IInv, Typed, LinkCounted, SMClose, Zeroed, NONE, Cells
<1>7. SessionsReady'
  <2>1. CASE cell = "se"
    <3>1. sess'["se"].sub = NONE /\ sess'["tun"].sub = NONE
      <4>1. sess'["se"] = Zeroed
        BY <1>3, <2>1
      <4>2. sess'["tun"] = sess["tun"]
        BY <1>3, <2>1 DEF Cells
      <4> QED BY <1>1, <2>1, <4>1, <4>2 DEF Zeroed
    <3> QED BY <3>1 DEF SessionsReady, Ready, Unasked, NONE
  <2>2. CASE cell = "tun"
    <3>1. Known("se", TRUE) \in seSess => Known("se", TRUE) \in seSess'
      BY <1>1, <2>2, KnownNotOrphaned DEF Known
    <3> QED BY <1>3, <2>2, <3>1 DEF IInv, SessionsReady, Ready, Unasked, Zeroed, NONE, Cells, Known
  <2> QED BY <2>1, <2>2
<1>8. HandlesHold'
  BY <1>2, <1>3 DEF IInv, HandlesHold, HandleHolds, Zeroed
<1> QED BY <1>2, <1>4, <1>5, <1>6, <1>7, <1>8, NoCallIsServed DEF IInv

\* The host's session, opened or closed, is nobody's link.
LEMMA HostSessionStep == ASSUME IInv, HostSessionOpen \/ HostSessionClose PROVE IInv'
<1>1. PICK new \in SessionType :
          /\ sess' = [sess EXCEPT !["host"] = new]
          /\ \/ new.sub = NONE
             \/ new.sub = HostBackEnd /\ "host" \notin {ks.cell, ctx.cell}
  <2>1. CASE HostSessionOpen
    <3> DEFINE new == [sess["host"] EXCEPT !.sub = HostBackEnd]
    <3>1. new \in SessionType /\ new.sub = HostBackEnd
      BY DEF IInv, Typed, SessionType, Cells
    <3>2. sess' = [sess EXCEPT !["host"] = new] /\ "host" \notin {ks.cell, ctx.cell}
      BY <2>1 DEF HostSessionOpen
    <3> QED BY <3>1, <3>2
  <2>2. CASE HostSessionClose
    <3>1. Zeroed \in SessionType /\ Zeroed.sub = NONE
      BY DEF Zeroed, SessionType, Auths
    <3> QED BY <2>2, <3>1 DEF HostSessionClose, SessionAfterClose
  <2> QED BY <2>1, <2>2
<1>2. /\ opening = NotOpening /\ call' = NoCall
      /\ UNCHANGED <<link, seSess, opening, ks, obj, ctx>>
  BY DEF HostSessionOpen, HostSessionClose, Free
<1>3. /\ sess'["host"] = new /\ sess'["se"] = sess["se"] /\ sess'["tun"] = sess["tun"]
      /\ sess' \in [Cells -> SessionType]
  BY <1>1 DEF IInv, Typed, Cells
<1>4. Typed' /\ OpeningGoesOn' /\ LinkCounted' /\ SessionsReady'
  BY <1>1, <1>2, <1>3 DEF IInv, Typed, OpeningGoesOn, Opens, LinkCounted, SessionsReady, Ready, Unasked
<1>5. HandlesHold'
  BY <1>1, <1>2, <1>3 DEF IInv, HandlesHold, HandleHolds, Cells
<1> QED BY <1>2, <1>4, <1>5, NoCallIsServed DEF IInv

-----------------------------------------------------------------------------
(* The theorems.                                                           *)

LEMMA NextHolds == ASSUME IInv, [Next]_vars PROVE IInv'
<1>1. CASE Sessions
  <2>1. ASSUME NEW cell \in {"se", "tun"}, NEW auth \in PlainAuths \cup TunnelAuths,
               NEW conn \in Connections, NEW app \in BOOLEAN, NEW skip \in BOOLEAN,
               NEW transport \in BOOLEAN, NEW policy \in BOOLEAN,
               SessionOpen(cell, auth, conn, app, skip, transport, policy)
        PROVE  IInv'
    BY <2>1, SessionOpenStep
  <2>2. CASE OpenStep
    BY <2>2, OpenStepStep
  <2>3. CASE OpenDone
    BY <2>3, OpenDoneStep
  <2>4. CASE OpenFail
    BY <2>4, OpenFailStep
  <2>5. CASE SessionClose
    BY <2>5, SessionCloseStep
  <2>6. CASE HostSessionOpen \/ HostSessionClose
    BY <2>6, HostSessionStep
  <2> QED BY <1>1, <2>1, <2>2, <2>3, <2>4, <2>5, <2>6 DEF Sessions
<1>2. CASE Handles
  BY <1>2, HandleSteps
<1>3. ASSUME NEW cell \in Cells, SessionCall(cell)
      PROVE  IInv'
  BY <1>3, SessionCallStep
<1>4. ASSUME NEW given \in DOMAIN CallsOn \ {"session"}, Call(given)
      PROVE  IInv'
  BY <1>4, CallStep
<1>5. ASSUME NEW o \in Calls, OneGoCall(o)
      PROVE  IInv'
  BY <1>5, OneGoCallStep
<1>6. CASE UNCHANGED apiVars
  <2> USE <1>6 DEF apiVars
  <2>1. Typed' /\ LinkCounted'
    BY DEF IInv, Typed, LinkCounted
  <2>2. OpeningGoesOn'
    BY DEF IInv, OpeningGoesOn, Opens, ConnectsFirst, ToBeProved, ReadyToCome, Unasked
  <2>3. SessionsReady'
    BY DEF IInv, SessionsReady, Ready, Unasked
  <2>4. HandlesHold' /\ ServedByItsSession'
    BY DEF IInv, HandlesHold, HandleHolds, ServedByItsSession
  <2> QED BY <2>1, <2>2, <2>3, <2>4 DEF IInv
<1>7. CASE UNCHANGED vars
  BY <1>6, <1>7 DEF vars, apiVars
<1> QED BY <1>1, <1>2, <1>3, <1>4, <1>5, <1>6, <1>7 DEF Next

\* A call of any SSS function that reaches a back end reaches the one its handle
\* was made by, in a session authenticated as asked for, or it is refused; with
\* whatever handles have outlived their sessions (sss_* of fsl_sss_apis.c).  The
\* session itself may have been asked for with a connection type or an application
\* id that its authentication does not go with: it is refused then, save where
\* sss_se05x_session_open calls the step before a success (EarlierOk).
THEOREM HandlesReachTheirSession == Spec => []ServedByItsSession
<1>1. IInv => ServedByItsSession
  BY DEF IInv
<1> QED BY <1>1, InitHolds, NextHolds, PTL DEF Spec

LEMMA OneLink ==
    Cardinality({cell \in {"se"} : sess[cell].sub = "SE05X"})
      = IF sess["se"].sub = "SE05X" THEN 1 ELSE 0
<1> DEFINE open == {cell \in {"se"} : sess[cell].sub = "SE05X"}
<1>1. CASE sess["se"].sub = "SE05X"
  <2>1. open = {"se"}
    BY <1>1
  <2> QED BY <1>1, <2>1, FS_Singleton
<1>2. CASE sess["se"].sub # "SE05X"
  <2>1. open = {}
    BY <1>2
  <2> QED BY <1>2, <2>1, FS_EmptySet
<1> QED BY <1>1, <1>2

\* The link to the SE is open exactly while a session on it is, or is being opened:
\* no failing step of sss_se05x_session_open leaves one, no close forgets one.
THEOREM LinksAreReleased == Spec => []LinkReleased
<1>1. IInv => LinkReleased
  BY OneLink DEF IInv, LinkCounted, LinkReleased
<1> QED BY <1>1, InitHolds, NextHolds, PTL DEF Spec

-----------------------------------------------------------------------------
(* One-go operations: what each step finds of those before it.             *)

\* The locals of a call; a block and a status may be anything.
Shaped(l) ==
    l \in [faults : Nat, replaced : Nat, threw : BOOLEAN, calm : BOOLEAN, gaveUp : BOOLEAN,
           ver : Nat, block : {l.block}, ret : {l.ret}]

\* A digest of the right length, for an RSA key.
Digesting(o) ==
    o.fn \in {"sign_digest", "verify_digest"} /\ IsRSA(o) /\ se05x_check_input_len(o.n, o.alg)

\* A signature to be compared has been opened by the key as it was then.
SignatureOpened ==
    op.fn = "verify_digest" =>
        /\ ~PSS(op.alg)
        /\ loc.block = IF op.sig.ver = loc.ver THEN op.sig.block ELSE Unencoded(op.sig.block.size)

\* The SE hashes what is signed.
OfMessage(o) == o.fn \in {"sign", "verify"} /\ IsRSA(o)

\* What is signed is encoded, unless a PSS encoding was given up.
DigestEncoded ==
    loc.gaveUp \/ (loc.block = Block(op.alg, op.n, loc.block.size) /\ Proper(op.alg, op.n, loc.block.size))

Deriving(o) == o.fn \in {"derive_key_go", "derive_key_one_go", "derive_key_sobj_one_go", "derive_key_dh"}

\* As RightSecret has it.
SecretHeld(o, ver, secret) ==
    /\ secret.ver = ver
    /\ o.fn = "derive_key_dh" => secret.order = IF o.cipher = "MONT" THEN "little" ELSE "big"
    /\ o.fn # "derive_key_dh" =>
             o.alg[2] \in Range(secret.by) /\ (HkdfMode(o) = "ExtractExpand" => o.salt \in Range(secret.by))

Underway == at \notin {"idle", "done"}

\* A throughput answer ends a call, but for the first of two sizes read.
NoThrow == loc.threw => op.fn \in {"sign_digest", "verify_digest"} /\ op.alg = NO_HASH

AtStep ==
    \/ at \in {"idle", "done"}
    \/ at = "host_open" /\ Digesting(op) /\ PSS(op.alg) /\ op.fn = "sign_digest"
    \/ at = "read_size" /\ Digesting(op) /\ SignatureOpened
    \/ at = "read_size" /\ OfMessage(op) /\ op.alg[2] = "SHA512"
    \/ at = "read_size_again" /\ Digesting(op) /\ SignatureOpened /\ op.alg = NO_HASH
    \/ at = "rsa_decrypt" /\ Digesting(op) /\ op.fn = "sign_digest" /\ DigestEncoded
    \/ at = "rsa_encrypt" /\ Digesting(op) /\ op.fn = "verify_digest"
    \/ at = "command" /\ (FirstStep(op) = "command" \/ OfMessage(op))
    \/ /\ at = "random" /\ op.fn = "get_random"
       /\ Cardinality(out) \in Nat /\ Cardinality(out) < op.n /\ out = 1..Cardinality(out)
    \/ at = "hkdf" /\ Deriving(op) /\ op.fn # "derive_key_dh" /\ se05x_get_sha_algo(op.alg) # NA
    \/ at \in {"get_peer", "ecdh"} /\ op.fn = "derive_key_dh"
    \/ at = "set_key" /\ Deriving(op) /\ SecretHeld(op, loc.ver, loc.block)

OfCall == at # "idle" => op \in Calls /\ key \in [ver : Nat, size : RsaSizes] /\ Shaped(loc)

OneGoInv ==
    /\ OfCall
    /\ Underway => NoThrow
    /\ AtStep
    /\ ReturnIsRight /\ VerifyTellsTruth

-----------------------------------------------------------------------------
(* Answers, and what a step does to the locals.                            *)

LEMMA Statuses ==
    /\ Status(SM_OK) = "Success" /\ Status(SM_NOT_OK) = "Fail"
    /\ Status(SM_ERR_APDU_THROUGHPUT) = "ApduThroughputError"
BY DEF Status, SM_OK, SM_NOT_OK, SM_ERR_APDU_THROUGHPUT

LEMMA Answers ==
    ASSUME NEW accepts \in BOOLEAN, NEW sm \in Replies(accepts)
    PROVE  /\ sm \in {SM_OK, SM_NOT_OK, SM_ERR_APDU_THROUGHPUT}
           /\ sm = SM_OK => accepts
           /\ sm = Natural(accepts) /\ accepts => sm = SM_OK
BY DEF Replies, Natural, SM_OK, SM_NOT_OK, SM_ERR_APDU_THROUGHPUT

LEMMA AfterAnswer ==
    ASSUME Shaped(loc), NEW accepts \in BOOLEAN, NEW sm \in Replies(accepts)
    PROVE  LET l == After(sm, accepts)
           IN  /\ Shaped(l)
               /\ l.block = loc.block /\ l.ver = loc.ver /\ l.gaveUp = loc.gaveUp
               /\ l.threw => loc.threw \/ sm = SM_ERR_APDU_THROUGHPUT
               /\ l.calm => loc.calm /\ sm = Natural(accepts)
<1> DEFINE n == IF sm = Natural(accepts) THEN loc.faults ELSE loc.faults + 1
           t == loc.threw \/ sm = SM_ERR_APDU_THROUGHPUT
           c == loc.calm /\ sm = Natural(accepts)
           l == [loc EXCEPT !.faults = n, !.threw = t, !.calm = c]
<1>1. After(sm, accepts) = l
  BY DEF After
<1>2. n \in Nat /\ t \in BOOLEAN /\ c \in BOOLEAN
  BY DEF Shaped
<1> HIDE DEF n, t, c
<1>3. /\ Shaped(l) /\ l.block = loc.block /\ l.ver = loc.ver /\ l.gaveUp = loc.gaveUp
      /\ l.threw = t /\ l.calm = c
  BY <1>2 DEF Shaped
<1> QED BY <1>1, <1>3 DEF t, c

\* A fault of the host, or a key that is replaced.
LEMMA Disturbed ==
    ASSUME NEW l, Shaped(l), NEW n \in Nat, NEW m,
           \/ m = [l EXCEPT !.faults = n, !.calm = FALSE]
           \/ m = [l EXCEPT !.replaced = n, !.calm = FALSE]
    PROVE  /\ Shaped(m)
           /\ m.block = l.block /\ m.ver = l.ver /\ m.gaveUp = l.gaveUp /\ m.threw = l.threw /\ ~m.calm
BY DEF Shaped

LEMMA ReturnFacts ==
    ASSUME NEW l, Shaped(l), NEW status, Return(l, status)
    PROVE  /\ at' = "done" /\ Shaped(loc')
           /\ loc'.ret = status /\ loc'.block = l.block /\ loc'.ver = l.ver
           /\ loc'.threw = l.threw /\ loc'.calm = l.calm /\ loc'.gaveUp = l.gaveUp
BY DEF Shaped, Return

\* What a call that returns has to show.
LEMMA Returned ==
    ASSUME NEW l, Shaped(l), NEW status, Return(l, status),
           op' \in Calls, key' \in [ver : Nat, size : RsaSizes],
           status = "Success" /\ ~l.gaveUp => (RightSignature /\ RightResult /\ RightSecret /\ RightRandom)',
           l.threw => \/ status = "ApduThroughputError"
                      \/ op'.fn \in {"sign_digest", "verify_digest"} /\ op'.alg = NO_HASH,
           Verifying(op') => /\ status = "Success" => Good(op)'
                             /\ Good(op)' /\ Supported(op)' /\ l.calm => status = "Success"
    PROVE  OneGoInv'
<1>1. /\ at' = "done" /\ Shaped(loc')
      /\ loc'.ret = status /\ loc'.threw = l.threw /\ loc'.calm = l.calm /\ loc'.gaveUp = l.gaveUp
  BY ReturnFacts
<1>2. OfCall'
  BY <1>1 DEF OfCall
<1>3. ReturnIsRight'
  BY <1>1 DEF ReturnIsRight
<1>4. VerifyTellsTruth'
  BY <1>1 DEF VerifyTellsTruth, Verifying
<1> QED BY <1>1, <1>2, <1>3, <1>4 DEF OneGoInv, Underway, AtStep

-----------------------------------------------------------------------------
(* Steps that go on, faults and the SE's raw RSA.                          *)

LEMMA GoesOn ==
    ASSUME OneGoInv, Underway, UNCHANGED op, key' \in [ver : Nat, size : RsaSizes],
           at' \notin {"idle", "done"}, Shaped(loc'), NoThrow', AtStep'
    PROVE  OneGoInv'
BY DEF OneGoInv, Underway, OfCall, ReturnIsRight, VerifyTellsTruth

\* What is known when a step is taken.
LEMMA AtWork ==
    ASSUME OneGoInv, Underway
    PROVE  /\ op \in Calls /\ key \in [ver : Nat, size : RsaSizes] /\ Shaped(loc)
           /\ NoThrow /\ AtStep
BY DEF OneGoInv, Underway, OfCall

LEMMA ReplaceStep == ASSUME OneGoInv, Replace PROVE OneGoInv'
<1>1. Underway /\ UNCHANGED <<op, at, out>>
  BY DEF Replace, Underway
<1>2. op \in Calls /\ key \in [ver : Nat, size : RsaSizes] /\ Shaped(loc) /\ NoThrow /\ AtStep
  BY <1>1, AtWork
<1>3. key' \in [ver : Nat, size : RsaSizes]
  BY <1>2 DEF Replace
<1>4. /\ Shaped(loc') /\ loc'.ver = loc.ver /\ loc'.block = loc.block
      /\ loc'.threw = loc.threw /\ loc'.gaveUp = loc.gaveUp
  <2>1. loc' = [loc EXCEPT !.replaced = loc.replaced + 1, !.calm = FALSE]
    BY DEF Replace
  <2>2. loc.replaced + 1 \in Nat
    BY <1>2 DEF Shaped
  <2>3. Shaped(loc)
    BY <1>2
  <2> QED BY <2>1, <2>2, <2>3, Disturbed
<1>5. NoThrow'
  BY <1>1, <1>2, <1>4 DEF NoThrow
<1>6. AtStep'
  BY <1>1, <1>2, <1>4 DEF AtStep, SignatureOpened, DigestEncoded
<1> QED BY <1>1, <1>3, <1>4, <1>5, <1>6, GoesOn DEF Underway

LEMMA HostOpenStep == ASSUME OneGoInv, HostOpen PROVE OneGoInv'
<1>1. at = "host_open" /\ Underway /\ UNCHANGED <<key, op, out>>
  BY DEF HostOpen, Underway
<1>2. op \in Calls /\ key \in [ver : Nat, size : RsaSizes] /\ Shaped(loc) /\ NoThrow /\ AtStep
  BY <1>1, AtWork
<1>3. Digesting(op) /\ op.fn = "sign_digest"
  BY <1>1, <1>2 DEF AtStep
<1>4. CASE at' = "read_size" /\ UNCHANGED loc
  BY <1>1, <1>2, <1>3, <1>4, GoesOn DEF AtStep, SignatureOpened, NoThrow
<1>5. CASE Return([loc EXCEPT !.faults = @ + 1, !.calm = FALSE], "Fail")
  <2> DEFINE l == [loc EXCEPT !.faults = @ + 1, !.calm = FALSE]
  <2>1. Shaped(l) /\ l.threw = loc.threw
    <3>1. l = [loc EXCEPT !.faults = loc.faults + 1, !.calm = FALSE]
      OBVIOUS
    <3>2. loc.faults + 1 \in Nat
      BY <1>2 DEF Shaped
    <3> QED BY <1>2, <3>1, <3>2, Disturbed
  <2>2. ~Verifying(op)
    BY <1>3 DEF Verifying
  <2> HIDE DEF l
  <2> QED BY <1>1, <1>2, <1>5, <2>1, <2>2, Returned DEF NoThrow, Verifying, l
<1> QED BY <1>4, <1>5 DEF HostOpen

LEMMA RSADecryptStep == ASSUME OneGoInv, RSADecrypt PROVE OneGoInv'
<1>1. at = "rsa_decrypt" /\ Underway /\ UNCHANGED <<key, op>>
  BY DEF RSADecrypt, Underway
<1>2. op \in Calls /\ key \in [ver : Nat, size : RsaSizes] /\ Shaped(loc) /\ NoThrow /\ AtStep
  BY <1>1, AtWork
<1>3. Digesting(op) /\ op.fn = "sign_digest" /\ DigestEncoded
  BY <1>1, <1>2 DEF AtStep
<1> DEFINE accepts == loc.block.size = key.size
<1>4. PICK sm \in Replies(accepts) :
          /\ Return(After(sm, accepts), Status(sm))
          /\ out' = IF sm = SM_OK THEN [ver |-> key.ver, block |-> loc.block] ELSE Nothing
  BY DEF RSADecrypt
<1> DEFINE l == After(sm, accepts)
<1>5. /\ Shaped(l) /\ l.gaveUp = loc.gaveUp
      /\ l.threw => loc.threw \/ sm = SM_ERR_APDU_THROUGHPUT
  BY <1>2, AfterAnswer
<1>6. ~Verifying(op)
  BY <1>3 DEF Verifying
<1>7. ASSUME Status(sm) = "Success", ~l.gaveUp
      PROVE  (RightSignature /\ RightResult /\ RightSecret /\ RightRandom)'
  <2>1. out'.block = loc.block
    BY <1>4, <1>7, Answers, Statuses
  <2>2. RightSignature'
    BY <1>1, <1>3, <1>5, <1>7, <2>1 DEF RightSignature, DigestEncoded
  <2> QED BY <1>1, <1>3, <2>2 DEF RightResult, RightSecret, RightRandom
<1>8. l.threw => \/ Status(sm) = "ApduThroughputError"
                 \/ op'.fn \in {"sign_digest", "verify_digest"} /\ op'.alg = NO_HASH
  BY <1>1, <1>2, <1>5, Statuses DEF NoThrow
<1> HIDE DEF l
<1> QED BY <1>1, <1>2, <1>4, <1>5, <1>6, <1>7, <1>8, Returned DEF Verifying, l

-----------------------------------------------------------------------------
(* The encodings.                                                          *)

LEMMA HashLens ==
    ASSUME NEW h \in DOMAIN HashLen
    PROVE  \/ h = "SHA1" /\ HashLen[h] = 20
           \/ h = "SHA224" /\ HashLen[h] = 28
           \/ h = "SHA256" /\ HashLen[h] = 32
           \/ h = "SHA384" /\ HashLen[h] = 48
           \/ h = "SHA512" /\ HashLen[h] = 64
BY DEF HashLen

LEMMA SigningAlgorithms ==
    ASSUME NEW alg \in RsaSigning
    PROVE  \/ /\ alg[2] \in DOMAIN HashLen /\ alg # NO_HASH /\ alg # NO_PADDING
              /\ (PSS(alg) /\ ~V15(alg)) \/ (V15(alg) /\ ~PSS(alg))
           \/ alg \in {NO_HASH, NO_PADDING} /\ ~PSS(alg) /\ ~V15(alg)
BY DEF RsaSigning, RsaHashed, Hashed, NO_HASH, NO_PADDING, PSS, V15

LEMMA DigestLength ==
    ASSUME NEW alg \in RsaSigning, NEW n \in Nat
    PROVE  se05x_check_input_len(n, alg) <=> (alg \notin {NO_HASH, NO_PADDING} => n = HashLen[alg[2]])
<1>1. CASE alg \in {NO_HASH, NO_PADDING}
  BY <1>1 DEF se05x_check_input_len, NO_HASH, NO_PADDING
<1>2. CASE /\ alg \notin {NO_HASH, NO_PADDING} /\ alg[2] \in DOMAIN HashLen
           /\ alg[1] \in {"SHA", "ECDSA", "RSASSA_PKCS1_PSS_MGF1", "RSASSA_PKCS1_V1_5"}
  BY <1>2 DEF se05x_check_input_len
<1> QED BY <1>1, <1>2, SigningAlgorithms DEF PSS, V15

LEMMA ProperIsHashed ==
    ASSUME NEW alg \in RsaSigning, NEW n, NEW size, PSS(alg) \/ V15(alg), Proper(alg, n, size)
    PROVE  n = HashLen[alg[2]]
<1>1. CASE PSS(alg)
  BY <1>1, SigningAlgorithms DEF Proper
<1>2. CASE V15(alg)
  BY <1>2, SigningAlgorithms DEF Proper
<1> QED BY <1>1, <1>2

LEMMA EncodingV15 ==
    ASSUME NEW alg \in RsaSigning, NEW n \in Nat, NEW size \in SE05x_RSABitLength, V15(alg), n = HashLen[alg[2]]
    PROVE  /\ pkcs1_v15_encode(alg, n, size).sm = SM_OK <=> Proper(alg, n, size)
           /\ pkcs1_v15_encode(alg, n, size).sm = SM_OK =>
                 pkcs1_v15_encode(alg, n, size).block = Block(alg, n, size)
BY SigningAlgorithms, HashLens
   DEF pkcs1_v15_encode, Proper, V15Fits, OidLen, SM_OK, SM_NOT_OK, SE05x_RSABitLength

LEMMA EncodingNoHash ==
    ASSUME NEW n \in Nat, NEW size \in SE05x_RSABitLength
    PROVE  /\ pkcs1_v15_encode_no_hash(NO_HASH, n, size).sm = SM_OK <=> Proper(NO_HASH, n, size)
           /\ pkcs1_v15_encode_no_hash(NO_HASH, n, size).sm = SM_OK =>
                 pkcs1_v15_encode_no_hash(NO_HASH, n, size).block = Block(NO_HASH, n, size)
BY DEF pkcs1_v15_encode_no_hash, Proper, PSS, V15, NO_HASH, SM_OK, SM_NOT_OK, SE05x_RSABitLength

LEMMA EncodingNoPadding ==
    ASSUME NEW n \in Nat, NEW size \in SE05x_RSABitLength
    PROVE  /\ NoPadding(NO_PADDING, n, size).sm = SM_OK <=> Proper(NO_PADDING, n, size)
           /\ NoPadding(NO_PADDING, n, size).sm = SM_OK =>
                 NoPadding(NO_PADDING, n, size).block = Block(NO_PADDING, n, size)
BY DEF NoPadding, Proper, PSS, V15, NO_HASH, NO_PADDING, SM_OK, SM_NOT_OK, SE05x_RSABitLength

LEMMA EncodingPSS ==
    ASSUME NEW alg \in RsaSigning, NEW n \in Nat, NEW size \in SE05x_RSABitLength, NEW hostWorks \in BOOLEAN,
           PSS(alg), n = HashLen[alg[2]]
    PROVE  LET b == emsa_encode(alg, n, size, hostWorks).block
           IN  b = Unencoded(b.size) \/ (b = Block(alg, n, size) /\ Proper(alg, n, size))
BY SigningAlgorithms, HashLens DEF emsa_encode, Proper, Unencoded, SE05x_RSABitLength

\* What is encoded is proper, but for a PSS encoding that is given up; and only
\* what cannot be proper is refused.
LEMMA Encodings ==
    ASSUME NEW alg \in RsaSigning, NEW n \in Nat, NEW size \in SE05x_RSABitLength, NEW hostWorks \in BOOLEAN,
           se05x_check_input_len(n, alg)
    PROVE  LET e == Encode(alg, n, size, hostWorks)
           IN  /\ e.sm = SM_OK =>
                     e.block = Unencoded(e.block.size) \/ (e.block = Block(alg, n, size) /\ Proper(alg, n, size))
               /\ ~PSS(alg) => /\ e.sm = SM_OK <=> Proper(alg, n, size)
                               /\ e.sm = SM_OK => e.block = Block(alg, n, size)
<1>1. alg \notin {NO_HASH, NO_PADDING} => n = HashLen[alg[2]]
  BY DigestLength
<1>2. CASE PSS(alg)
  <2>1. Encode(alg, n, size, hostWorks) = emsa_encode(alg, n, size, hostWorks)
    <3>1. ~V15(alg) /\ alg # NO_HASH
      BY <1>2, SigningAlgorithms
    <3> QED BY <1>2, <3>1 DEF Encode
  <2> QED BY <1>1, <1>2, <2>1, EncodingPSS, SigningAlgorithms
<1>3. CASE V15(alg) /\ ~PSS(alg)
  <2>1. Encode(alg, n, size, hostWorks) = pkcs1_v15_encode(alg, n, size)
    <3>1. alg # NO_HASH
      BY <1>3, SigningAlgorithms
    <3> QED BY <1>3, <3>1 DEF Encode
  <2> QED BY <1>1, <1>3, <2>1, EncodingV15, SigningAlgorithms
<1>4. CASE alg = NO_HASH
  <2>1. Encode(alg, n, size, hostWorks) = pkcs1_v15_encode_no_hash(alg, n, size)
    BY <1>4 DEF Encode, PSS, V15, NO_HASH
  <2> QED BY <1>4, <2>1, EncodingNoHash, SigningAlgorithms
<1>5. CASE alg = NO_PADDING
  <2>1. Encode(alg, n, size, hostWorks) = NoPadding(alg, n, size)
    BY <1>5 DEF Encode, PSS, V15, NO_HASH, NO_PADDING
  <2> QED BY <1>5, <2>1, EncodingNoPadding, SigningAlgorithms
<1> QED BY <1>2, <1>3, <1>4, <1>5, SigningAlgorithms

-----------------------------------------------------------------------------
(* Steps that read the size of the key.                                    *)

\* A command that fails: its status is passed on.
LEMMA CommandFails ==
    ASSUME OneGoInv, Underway, UNCHANGED <<key, op>>,
           NEW accepts \in BOOLEAN, NEW sm \in Replies(accepts), sm # SM_OK,
           NEW l, Shaped(l), l.threw = After(sm, accepts).threw, l.calm = After(sm, accepts).calm,
           Return(l, Status(sm)),
           Verifying(op) /\ ~accepts => ~(Good(op)' /\ Supported(op)')
    PROVE  OneGoInv'
<1>1. op \in Calls /\ key \in [ver : Nat, size : RsaSizes] /\ Shaped(loc) /\ NoThrow
  BY AtWork
<1>2. Status(sm) # "Success"
  BY Answers, Statuses
<1>3. l.threw => \/ Status(sm) = "ApduThroughputError"
                 \/ op.fn \in {"sign_digest", "verify_digest"} /\ op.alg = NO_HASH
  BY <1>1, AfterAnswer, Statuses DEF NoThrow
<1>4. l.calm => ~accepts
  BY <1>1, AfterAnswer, Answers
<1>5. Verifying(op') => ~(Good(op)' /\ Supported(op)' /\ l.calm)
  BY <1>4 DEF Verifying
<1> QED BY <1>1, <1>2, <1>3, <1>5, Returned

LEMMA HashNeedsSize ==
    ASSUME NEW alg \in RsaHashed, alg[2] = "SHA512"
    PROVE  ~Proper(alg, HashLen[alg[2]], 64)
BY DEF RsaHashed, Hashed, HashLen, Proper, PSS, V15, OidLen

LEMMA ReadSizeForHashStep ==
    ASSUME OneGoInv, at = "read_size", OfMessage(op), op.alg[2] = "SHA512", UNCHANGED <<key, op, out>>,
           NEW sm \in Replies(TRUE), ReadSizeForHash(sm, After(sm, TRUE))
    PROVE  OneGoInv'
<1> DEFINE l == After(sm, TRUE)
<1>1. Underway /\ op \in Calls /\ key \in [ver : Nat, size : RsaSizes] /\ Shaped(loc) /\ NoThrow
  BY AtWork DEF Underway
<1>2. Shaped(l) /\ (l.threw => loc.threw \/ sm = SM_ERR_APDU_THROUGHPUT)
  BY <1>1, AfterAnswer
<1>3. CASE sm # SM_OK
  BY <1>1, <1>2, <1>3, CommandFails DEF ReadSizeForHash
<1>4. CASE sm = SM_OK
  <2>1. ~l.threw
    BY <1>1, <1>2, <1>4 DEF NoThrow, OfMessage, SM_OK, SM_ERR_APDU_THROUGHPUT
  <2>2. CASE key.size = 64
    <3>1. Return(l, "Fail")
      BY <1>4, <2>2 DEF ReadSizeForHash
    <3>2. Verifying(op') => ~Supported(op)'
      <4>1. SUFFICES ASSUME Verifying(op) PROVE ~Supported(op)'
        BY DEF Verifying
      <4>2. op.fn = "verify" /\ IsRSA(op)
        BY <4>1 DEF Verifying, OfMessage
      <4>3. op.alg \in RsaHashed
        BY <1>1, <4>2, CallsAssumption DEF AlgorithmFits
      <4>4. key'.size = 64 /\ Proper(op.alg, HashLen[op.alg[2]], key'.size) <=> Supported(op)'
        BY <2>2, <4>2 DEF Supported, IsRSA
      <4> QED BY <2>2, <4>3, <4>4, HashNeedsSize
    <3> HIDE DEF l
    <3> QED BY <1>1, <1>2, <2>1, <3>1, <3>2, Returned
  <2>3. CASE key.size # 64
    <3>1. at' = "command" /\ loc' = l
      BY <1>4, <2>3 DEF ReadSizeForHash
    <3>2. NoThrow'
      BY <2>1, <3>1 DEF NoThrow
    <3>3. AtStep'
      BY <3>1 DEF AtStep, OfMessage, IsRSA
    <3> HIDE DEF l
    <3> QED BY <1>1, <1>2, <3>1, <3>2, <3>3, GoesOn
  <2> QED BY <2>2, <2>3
<1> QED BY <1>3, <1>4

\* Another block is never taken for an encoded one.
LEMMA ComparedIsGood ==
    ASSUME NEW alg, NEW n, NEW size, NEW s, NEW other,
           Block(alg, n, size) = IF s.ver = loc.ver THEN s.block ELSE Unencoded(other)
    PROVE  s.ver = loc.ver /\ s.block = Block(alg, n, s.block.size) /\ s.block.size = size
BY DEF Block, Unencoded

LEMMA EncodeStep ==
    ASSUME OneGoInv, Underway, Digesting(op), SignatureOpened, UNCHANGED <<key, op, out>>,
           NEW l, Shaped(l), ~l.threw \/ op.alg = NO_HASH,
           l.block = loc.block, l.ver = loc.ver, NEW hostWorks \in BOOLEAN,
           LET e == Encode(op.alg, op.n, key.size, hostWorks)
               k == [l EXCEPT !.faults = IF hostWorks THEN @ ELSE @ + 1, !.calm = @ /\ hostWorks]
           IN  IF e.sm # SM_OK THEN Return(k, "Fail")
               ELSE IF op.fn = "verify_digest" THEN Return(k, IF Compared(e.block) THEN "Success" ELSE "Fail")
               ELSE /\ at' = "rsa_decrypt"
                    /\ loc' = [k EXCEPT !.block = e.block, !.gaveUp = e.block = Unencoded(e.block.size)]
    PROVE  OneGoInv'
<1> DEFINE e == Encode(op.alg, op.n, key.size, hostWorks)
           f == IF hostWorks THEN l.faults ELSE l.faults + 1
           c == l.calm /\ hostWorks
           k == [l EXCEPT !.faults = f, !.calm = c]
           g == e.block = Unencoded(e.block.size)
<1>1. /\ op \in Calls /\ key \in [ver : Nat, size : RsaSizes]
      /\ op.fn \in {"sign_digest", "verify_digest"} /\ IsRSA(op)
  BY AtWork DEF Digesting
<1>2. op.alg \in RsaSigning /\ op.n \in Nat /\ key.size \in SE05x_RSABitLength
  BY <1>1, CallsAssumption, OneGoAssumption DEF AlgorithmFits
<1>3. /\ e.sm = SM_OK =>
             \/ e.block = Unencoded(e.block.size)
             \/ e.block = Block(op.alg, op.n, key.size) /\ Proper(op.alg, op.n, key.size)
      /\ ~PSS(op.alg) => /\ e.sm = SM_OK <=> Proper(op.alg, op.n, key.size)
                         /\ e.sm = SM_OK => e.block = Block(op.alg, op.n, key.size)
  BY <1>2, Encodings DEF Digesting
<1>4. IF e.sm # SM_OK THEN Return(k, "Fail")
      ELSE IF op.fn = "verify_digest" THEN Return(k, IF Compared(e.block) THEN "Success" ELSE "Fail")
      ELSE at' = "rsa_decrypt" /\ loc' = [k EXCEPT !.block = e.block, !.gaveUp = g]
  OBVIOUS
<1>5. f \in Nat /\ c \in BOOLEAN /\ g \in BOOLEAN
  BY DEF Shaped
<1> HIDE DEF e, f, c, g
<1>6. Shaped(k) /\ k.block = loc.block /\ k.ver = loc.ver /\ k.threw = l.threw
  BY <1>5 DEF Shaped
<1>7. Verifying(op) => op.fn = "verify_digest" /\ ~PSS(op.alg)
  BY <1>1 DEF Verifying, SignatureOpened
<1> HIDE DEF k
<1>8. CASE e.sm # SM_OK
  <2>1. Return(k, "Fail")
    BY <1>4, <1>8
  <2>2. Verifying(op') => ~Supported(op)'
    BY <1>1, <1>3, <1>7, <1>8 DEF Verifying, Supported, IsRSA
  <2> QED BY <1>1, <1>6, <2>1, <2>2, Returned
<1>9. CASE e.sm = SM_OK /\ op.fn = "verify_digest"
  <2>1. Return(k, IF Compared(e.block) THEN "Success" ELSE "Fail")
    BY <1>4, <1>9
  <2>2. Verifying(op) /\ ~PSS(op.alg) /\ loc'.ver = loc.ver
    BY <1>6, <1>9, <2>1, ReturnFacts DEF Verifying, SignatureOpened
  <2>3. e.block = Block(op.alg, op.n, key.size) /\ Proper(op.alg, op.n, key.size)
    BY <1>3, <1>9, <2>2
  <2>4. ASSUME Compared(e.block) PROVE Good(op)'
    <3>1. Block(op.alg, op.n, key.size) =
             IF op.sig.ver = loc.ver THEN op.sig.block ELSE Unencoded(op.sig.block.size)
      BY <1>9, <2>3, <2>4 DEF Compared, SignatureOpened
    <3>2. op.sig.ver = loc.ver /\ op.sig.block = Block(op.alg, op.n, op.sig.block.size)
      BY <3>1, ComparedIsGood
    <3> QED BY <1>1, <1>9, <2>2, <3>2 DEF Good, IsRSA
  <2>5. Good(op)' /\ Supported(op)' => Compared(e.block)
    BY <1>1, <1>9, <2>2, <2>3 DEF Compared, SignatureOpened, Good, Supported, IsRSA
  <2>6. (RightSignature /\ RightResult /\ RightSecret /\ RightRandom)'
    BY <1>9 DEF RightSignature, RightResult, RightSecret, RightRandom
  <2> QED BY <1>1, <1>6, <2>1, <2>4, <2>5, <2>6, Returned
<1>10. CASE e.sm = SM_OK /\ op.fn # "verify_digest"
  <2>1. at' = "rsa_decrypt" /\ loc' = [k EXCEPT !.block = e.block, !.gaveUp = g]
    BY <1>4, <1>10
  <2>2. Shaped(loc') /\ loc'.block = e.block /\ loc'.gaveUp = g /\ loc'.threw = l.threw
    BY <1>5, <1>6, <2>1 DEF Shaped
  <2>3. NoThrow'
    BY <1>1, <2>2 DEF NoThrow
  <2>4. DigestEncoded'
    <3>1. CASE g
      BY <2>2, <3>1 DEF DigestEncoded
    <3>2. CASE e.block = Block(op.alg, op.n, key.size) /\ Proper(op.alg, op.n, key.size)
      <4>1. e.block.size = key.size
        BY <3>2 DEF Block
      <4> QED BY <2>2, <3>2, <4>1 DEF DigestEncoded
    <3> QED BY <1>3, <1>10, <3>1, <3>2 DEF g
  <2>5. AtStep'
    BY <1>1, <1>10, <2>1, <2>4 DEF AtStep, Digesting, IsRSA
  <2> QED BY <1>1, <2>1, <2>2, <2>3, <2>5, GoesOn
<1> QED BY <1>8, <1>9, <1>10

LEMMA ReadSizeForEncodingStep ==
    ASSUME OneGoInv, at \in {"read_size", "read_size_again"}, Digesting(op), SignatureOpened,
           UNCHANGED <<key, op, out>>, NEW sm \in Replies(TRUE), ReadSizeForEncoding(sm, After(sm, TRUE))
    PROVE  OneGoInv'
<1> DEFINE l == After(sm, TRUE)
<1>1. Underway /\ op \in Calls /\ key \in [ver : Nat, size : RsaSizes] /\ Shaped(loc) /\ NoThrow
  BY AtWork DEF Underway
<1>2. /\ Shaped(l) /\ l.block = loc.block /\ l.ver = loc.ver
      /\ l.threw => loc.threw \/ sm = SM_ERR_APDU_THROUGHPUT
      /\ l.calm => sm = SM_OK
  BY <1>1, AfterAnswer DEF Natural
<1>3. op.fn \in {"sign_digest", "verify_digest"}
  BY DEF Digesting
<1>4. CASE op.alg = NO_HASH /\ at = "read_size" /\ sm = SM_OK
  <2>1. at' = "read_size_again" /\ loc' = l
    BY <1>4 DEF ReadSizeForEncoding
  <2>2. NoThrow'
    BY <1>3, <1>4 DEF NoThrow
  <2>3. AtStep'
    BY <1>2, <1>4, <2>1 DEF AtStep, Digesting, IsRSA, SignatureOpened
  <2> HIDE DEF l
  <2> QED BY <1>1, <1>2, <2>1, <2>2, <2>3, GoesOn
<1>5. CASE op.alg = NO_HASH /\ at = "read_size" /\ sm # SM_OK
  <2>1. Return(l, "Fail")
    BY <1>5 DEF ReadSizeForEncoding
  <2> HIDE DEF l
  <2> QED BY <1>1, <1>2, <1>3, <1>5, <2>1, Returned
<1>6. CASE ~(op.alg = NO_HASH /\ at = "read_size") /\ sm # SM_OK
  <2>1. Return(l, Status(sm))
    BY <1>6 DEF ReadSizeForEncoding
  <2> QED BY <1>1, <1>2, <1>6, <2>1, CommandFails
<1>7. CASE ~(op.alg = NO_HASH /\ at = "read_size") /\ sm = SM_OK
  <2>1. ~l.threw \/ op.alg = NO_HASH
    BY <1>1, <1>2, <1>7 DEF NoThrow, SM_OK, SM_ERR_APDU_THROUGHPUT
  <2>2. PICK hostWorks \in BOOLEAN :
           LET e == Encode(op.alg, op.n, key.size, hostWorks)
               k == [l EXCEPT !.faults = IF hostWorks THEN @ ELSE @ + 1, !.calm = @ /\ hostWorks]
           IN  IF e.sm # SM_OK THEN Return(k, "Fail")
               ELSE IF op.fn = "verify_digest" THEN Return(k, IF Compared(e.block) THEN "Success" ELSE "Fail")
               ELSE /\ at' = "rsa_decrypt"
                    /\ loc' = [k EXCEPT !.block = e.block, !.gaveUp = e.block = Unencoded(e.block.size)]
    BY <1>7 DEF ReadSizeForEncoding
  <2> HIDE DEF l
  <2> QED BY <1>1, <1>2, <2>1, <2>2, EncodeStep
<1> QED BY <1>4, <1>5, <1>6, <1>7

LEMMA ReadSizeStep == ASSUME OneGoInv, ReadSize PROVE OneGoInv'
<1>1. Underway /\ at \in {"read_size", "read_size_again"} /\ UNCHANGED <<key, op, out>>
  BY DEF ReadSize, Underway
<1>2. \/ Digesting(op) /\ SignatureOpened
      \/ at = "read_size" /\ OfMessage(op) /\ op.alg[2] = "SHA512"
  BY <1>1, AtWork DEF AtStep
<1>3. PICK sm \in Replies(TRUE) :
          IF op.fn \in {"sign", "verify"}
          THEN ReadSizeForHash(sm, After(sm, TRUE))
          ELSE ReadSizeForEncoding(sm, After(sm, TRUE))
  BY DEF ReadSize
<1>4. CASE Digesting(op) /\ SignatureOpened
  BY <1>1, <1>3, <1>4, ReadSizeForEncodingStep DEF Digesting
<1>5. CASE at = "read_size" /\ OfMessage(op) /\ op.alg[2] = "SHA512"
  BY <1>1, <1>3, <1>5, ReadSizeForHashStep DEF OfMessage
<1> QED BY <1>2, <1>4, <1>5

-----------------------------------------------------------------------------
(* Opening a signature.                                                    *)

LEMMA OpenedIsGood ==
    ASSUME NEW o \in Calls, o.fn = "verify_digest", IsRSA(o), emsa_decode_and_compare(o.alg, Opened(o.sig))
    PROVE  o.sig.ver = key.ver /\ o.sig.block = Block(o.alg, o.n, o.sig.block.size)
<1>1. SignatureFits(o)
  BY CallsAssumption DEF Verifying
<1>2. /\ o.sig.block \in [form : RsaSigning, of : {"given", "other"}, n : Nat, size : Nat]
      /\ o.sig.block.of = "given" /\ o.sig.block.form = o.alg => o.sig.block.n = o.n
  BY <1>1 DEF SignatureFits
<1>3. o.sig.ver = key.ver
  BY DEF emsa_decode_and_compare, Opened, Unencoded
<1>4. o.sig.block.of = "given" /\ o.sig.block.form = o.alg
  BY <1>3 DEF emsa_decode_and_compare, Opened
<1> QED BY <1>2, <1>3, <1>4 DEF Block

LEMMA GoodIsOpened ==
    ASSUME NEW o, o.sig.ver = key.ver, o.sig.block = Block(o.alg, o.n, o.sig.block.size)
    PROVE  emsa_decode_and_compare(o.alg, Opened(o.sig))
BY DEF emsa_decode_and_compare, Opened, Block

LEMMA RSAEncryptStep == ASSUME OneGoInv, RSAEncrypt PROVE OneGoInv'
<1>1. at = "rsa_encrypt" /\ Underway /\ UNCHANGED <<key, op, out>>
  BY DEF RSAEncrypt, Underway
<1>2. op \in Calls /\ key \in [ver : Nat, size : RsaSizes] /\ Shaped(loc) /\ NoThrow /\ AtStep
  BY <1>1, AtWork
<1>3. Digesting(op) /\ op.fn = "verify_digest" /\ IsRSA(op) /\ Verifying(op)
  BY <1>1, <1>2 DEF AtStep, Digesting, Verifying
<1> DEFINE accepts == op.sig.block.size = key.size
           block == Opened(op.sig)
<1>4. PICK sm \in Replies(accepts) :
          LET l == [After(sm, accepts) EXCEPT !.ver = key.ver, !.block = block]
          IN  IF sm # SM_OK THEN Return(l, Status(sm))
              ELSE IF PSS(op.alg)
              THEN  \/ Return(l, IF emsa_decode_and_compare(op.alg, block) THEN "Success" ELSE "Fail")
                    \/ /\ l.faults < MaxFaults
                       /\ Return([l EXCEPT !.faults = @ + 1, !.calm = FALSE], "Fail")
              ELSE at' = "read_size" /\ loc' = l
  BY DEF RSAEncrypt
<1> DEFINE a == After(sm, accepts)
           l == [a EXCEPT !.ver = key.ver, !.block = block]
           m == [l EXCEPT !.faults = l.faults + 1, !.calm = FALSE]
<1>5. Shaped(a) /\ (a.threw => loc.threw \/ sm = SM_ERR_APDU_THROUGHPUT)
  BY <1>2, AfterAnswer
<1>6. /\ sm # SM_OK => Return(l, Status(sm))
      /\ sm = SM_OK /\ PSS(op.alg) =>
            \/ Return(l, IF emsa_decode_and_compare(op.alg, block) THEN "Success" ELSE "Fail")
            \/ Return(m, "Fail")
      /\ sm = SM_OK /\ ~PSS(op.alg) => at' = "read_size" /\ loc' = l
  BY <1>4
<1> HIDE DEF a, block
<1>7. Shaped(l) /\ l.ver = key.ver /\ l.block = block /\ l.threw = a.threw /\ l.calm = a.calm
  BY <1>2, <1>5 DEF Shaped
<1> HIDE DEF l
<1>8. Shaped(m) /\ m.threw = a.threw /\ ~m.calm
  <2>1. l.faults + 1 \in Nat
    BY <1>7 DEF Shaped
  <2> HIDE DEF m
  <2>2. m = [l EXCEPT !.faults = l.faults + 1, !.calm = FALSE]
    BY DEF m
  <2>3. Shaped(m) /\ m.threw = l.threw
    BY <1>7, <2>1, <2>2, Disturbed
  <2>4. ~m.calm
    BY <1>7, <2>1, <2>2 DEF Shaped
  <2> QED BY <1>7, <2>3, <2>4
<1> HIDE DEF m
<1>9. (RightSignature /\ RightResult /\ RightSecret /\ RightRandom)'
  BY <1>1, <1>3 DEF RightSignature, RightResult, RightSecret, RightRandom
<1>10. CASE sm # SM_OK
  <2>1. ~accepts => ~Supported(op)'
    BY <1>1, <1>3 DEF Supported, IsRSA
  <2>2. l.threw = After(sm, accepts).threw /\ l.calm = After(sm, accepts).calm
    BY <1>7 DEF a
  <2>3. Return(l, Status(sm))
    BY <1>6, <1>10
  <2> HIDE DEF accepts
  <2>4. accepts \in BOOLEAN
    BY DEF accepts
  <2> QED BY <1>1, <1>7, <1>10, <2>1, <2>2, <2>3, <2>4, CommandFails
<1>11. ASSUME sm = SM_OK
       PROVE  a.threw => op.fn \in {"sign_digest", "verify_digest"} /\ op.alg = NO_HASH
  BY <1>2, <1>5, <1>11 DEF NoThrow, SM_OK, SM_ERR_APDU_THROUGHPUT
<1>12. CASE sm = SM_OK /\ PSS(op.alg) /\ Return(m, "Fail")
  BY <1>1, <1>2, <1>8, <1>11, <1>12, Returned DEF Verifying
<1>13. CASE /\ sm = SM_OK /\ PSS(op.alg)
            /\ Return(l, IF emsa_decode_and_compare(op.alg, block) THEN "Success" ELSE "Fail")
  <2>1. loc'.ver = key.ver
    BY <1>7, <1>13, ReturnFacts
  <2>2. emsa_decode_and_compare(op.alg, block) => Good(op)'
    BY <1>1, <1>2, <1>3, <2>1, OpenedIsGood DEF Good, IsRSA, block
  <2>3. Good(op)' => emsa_decode_and_compare(op.alg, block)
    BY <1>1, <1>3, <2>1, GoodIsOpened DEF Good, IsRSA, block
  <2> QED BY <1>1, <1>2, <1>7, <1>9, <1>11, <1>13, <2>2, <2>3, Returned
<1>14. CASE sm = SM_OK /\ ~PSS(op.alg)
  <2>1. at' = "read_size" /\ loc' = l
    BY <1>6, <1>14
  <2>2. NoThrow'
    BY <1>1, <1>7, <1>11, <1>14, <2>1 DEF NoThrow
  <2>3. SignatureOpened'
    BY <1>1, <1>7, <1>14, <2>1 DEF SignatureOpened, Opened, block
  <2>4. AtStep'
    BY <1>1, <1>3, <2>1, <2>3 DEF AtStep, Digesting, IsRSA
  <2> QED BY <1>1, <1>2, <1>7, <2>1, <2>2, <2>4, GoesOn
<1> QED BY <1>6, <1>10, <1>12, <1>13, <1>14

-----------------------------------------------------------------------------
(* Calls of one command.                                                   *)

LEMMA FirstSteps ==
    ASSUME NEW o, o.fn \in Operations
    PROVE  /\ o.fn \in {"sign_digest", "verify_digest"} => FirstStep(o) = SignDigestStep(o)
           /\ o.fn \in {"sign", "verify"} => FirstStep(o) = SignStep(o)
           /\ o.fn \in {"encrypt", "decrypt"} => FirstStep(o) = EncryptStep(o)
           /\ o.fn \in {"cipher_one_go", "cipher_one_go_v2"} => FirstStep(o) = CipherStep(o)
           /\ o.fn \in {"mac_one_go", "mac_validate_one_go"} => FirstStep(o) = MacStep(o)
           /\ o.fn = "digest_one_go" => FirstStep(o) = DigestStep(o)
           /\ o.fn \in {"export_key", "import_key"} => FirstStep(o) = PortKeyStep(o)
           /\ o.fn = "get_random" => FirstStep(o) = RandomStep(o)
           /\ o.fn \in {"derive_key_go", "derive_key_one_go", "derive_key_sobj_one_go"} =>
                 FirstStep(o) = HkdfStep(o)
           /\ o.fn = "derive_key_dh" => FirstStep(o) = DhStep(o)
BY DEF FirstStep, Operations

LEMMA SignSteps ==
    ASSUME NEW o
    PROVE  SignStep(o) = IF IsRSA(o) THEN IF o.alg[2] = "SHA512" THEN "read_size" ELSE "command"
                         ELSE IF o.cipher = "ED" /\ o.alg = <<"SHA", "SHA512">> THEN "command" ELSE "refused"
<1>1. CASE IsRSA(o)
  BY <1>1 DEF SignStep, IsRSA
<1>2. CASE ~IsRSA(o) /\ o.cipher = "ED" /\ o.alg = <<"SHA", "SHA512">>
  BY <1>2 DEF SignStep
<1>3. CASE ~IsRSA(o) /\ ~(o.cipher = "ED" /\ o.alg = <<"SHA", "SHA512">>)
  BY <1>3 DEF SignStep
<1> QED BY <1>1, <1>2, <1>3

\* What the command of each kind of call may be.
LEMMA AtCommand ==
    ASSUME NEW o \in Calls, FirstStep(o) = "command" \/ OfMessage(o)
    PROVE  /\ o.fn \in {"sign_digest", "verify_digest"} => ~IsRSA(o) /\ o.cipher = "EC"
           /\ o.fn \in {"sign", "verify"} => IsRSA(o) \/ o.cipher = "ED"
           /\ o.fn \in {"cipher_one_go", "cipher_one_go_v2"} => CipherStep(o) = "command"
           /\ o.fn \in {"mac_one_go", "mac_validate_one_go"} => se05x_get_mac_algo(o.alg) # NA
           /\ ~Deriving(o) /\ o.fn # "get_random"
<1>1. o.fn \in Operations
  BY CallsAssumption
<1>2. CASE OfMessage(o)
  BY <1>2 DEF OfMessage, Deriving
<1>3. CASE FirstStep(o) = "command"
  BY <1>1, <1>3, FirstSteps, SignSteps
     DEF SignDigestStep, IsRSA, MacStep, RandomStep, HkdfStep, DhStep, Deriving
<1> QED BY <1>2, <1>3

LEMMA AskedAlgorithms ==
    ASSUME NEW o, o.fn \in Operations
    PROVE  /\ o.fn \in {"sign_digest", "verify_digest"} => Asked(o) = se05x_get_ec_sign_hash_mode(o.alg)
           /\ o.fn \in {"sign", "verify"} =>
                 Asked(o) = IF IsRSA(o) THEN se05x_get_rsa_sign_hash_mode(o.alg) ELSE <<"ED25519PURE_SHA_512">>
           /\ o.fn \in {"encrypt", "decrypt"} => Asked(o) = se05x_get_rsa_encrypt_mode(o.alg)
           /\ o.fn \in {"mac_one_go", "mac_validate_one_go"} => Asked(o) = se05x_get_mac_algo(o.alg)
BY DEF Asked, Operations

\* The host never sends a command to verify that the SE must refuse.
LEMMA VerifyingIsAsked ==
    ASSUME NEW o \in Calls, FirstStep(o) = "command" \/ OfMessage(o), Verifying(o)
    PROVE  Asked(o) # NA
<1>1. o.fn \in Operations /\ AlgorithmFits(o)
  BY CallsAssumption
<1>2. CASE o.fn = "verify_digest"
  BY <1>1, <1>2, AskedAlgorithms DEF se05x_get_ec_sign_hash_mode, NA
<1>3. CASE o.fn = "verify" /\ IsRSA(o)
  <2>1. (PSS(o.alg) /\ ~V15(o.alg)) \/ V15(o.alg)
    BY <1>1, <1>3 DEF AlgorithmFits, RsaHashed, Hashed, PSS, V15
  <2>2. CASE V15(o.alg)
    <3>1. se05x_get_rsa_sign_hash_mode(o.alg) = <<o.alg[2], "PKCS1">>
      BY <2>2, <2>1 DEF se05x_get_rsa_sign_hash_mode, PSS, V15
    <3> QED BY <1>1, <1>3, <3>1, AskedAlgorithms DEF NA
  <2>3. CASE PSS(o.alg) /\ ~V15(o.alg)
    <3>1. se05x_get_rsa_sign_hash_mode(o.alg) = <<o.alg[2], "PKCS1_PSS">>
      BY <2>3 DEF se05x_get_rsa_sign_hash_mode
    <3> QED BY <1>1, <1>3, <3>1, AskedAlgorithms DEF NA
  <2> QED BY <2>1, <2>2, <2>3
<1>4. CASE o.fn = "verify" /\ ~IsRSA(o)
  BY <1>1, <1>4, AskedAlgorithms DEF NA
<1>5. CASE o.fn \in {"mac_one_go", "mac_validate_one_go"}
  BY <1>1, <1>5, AskedAlgorithms, AtCommand
<1> QED BY <1>2, <1>3, <1>4, <1>5 DEF Verifying

\* The SE is asked for what the caller means, when there is such an algorithm.
LEMMA AskedIsMeant ==
    ASSUME NEW o \in Calls, Asked(o) # NA, o.fn \in {"encrypt", "decrypt", "sign"}
    PROVE  Asked(o) = Meant(o)
<1>1. o.fn \in Operations /\ AlgorithmFits(o)
  BY CallsAssumption
<1>2. CASE o.fn = "sign"
  BY <1>2 DEF Meant
<1>3. CASE o.fn \in {"encrypt", "decrypt"}
  <2>1. Asked(o) = se05x_get_rsa_encrypt_mode(o.alg)
    BY <1>1, <1>3, AskedAlgorithms
  <2>2. \/ o.alg = NO_PADDING \/ o.alg[1] = "RSAES_PKCS1_V1_5"
        \/ o.alg[1] = "RSAES_PKCS1_OAEP" /\ (o.alg[2] = "SHA1" => o.alg = <<"RSAES_PKCS1_OAEP", "SHA1">>)
    BY <1>1, <1>3 DEF AlgorithmFits, Hashed
  <2> DEFINE meant == CASE o.alg[1] = "RSAES_PKCS1_V1_5" -> <<"PKCS1">>
                        [] o.alg = <<"RSAES_PKCS1_OAEP", "SHA1">> -> <<"PKCS1_OAEP">>
                        [] o.alg = NO_PADDING -> <<"NO_PAD">>
                        [] OTHER -> <<"none">>
  <2>3. Meant(o) = meant
    BY <1>3 DEF Meant
  <2>4. CASE o.alg = NO_PADDING
    <3>1. o.alg[1] = "RSASSA_NO_PADDING"
      BY <2>4 DEF NO_PADDING
    <3>2. meant = <<"NO_PAD">>
      BY <2>4, <3>1 DEF NO_PADDING
    <3>3. se05x_get_rsa_encrypt_mode(o.alg) = <<"NO_PAD">>
      BY <2>4, <3>1 DEF se05x_get_rsa_encrypt_mode, NO_PADDING
    <3> QED BY <2>1, <2>3, <3>2, <3>3
  <2>5. CASE o.alg[1] = "RSAES_PKCS1_V1_5"
    <3>1. meant = <<"PKCS1">>
      BY <2>5 DEF NO_PADDING
    <3>2. se05x_get_rsa_encrypt_mode(o.alg) = <<"PKCS1">>
      BY <2>5 DEF se05x_get_rsa_encrypt_mode
    <3> QED BY <2>1, <2>3, <3>1, <3>2
  <2>6. CASE o.alg = <<"RSAES_PKCS1_OAEP", "SHA1">>
    <3>1. meant = <<"PKCS1_OAEP">>
      BY <2>6 DEF NO_PADDING
    <3>2. se05x_get_rsa_encrypt_mode(o.alg) = <<"PKCS1_OAEP">>
      BY <2>6 DEF se05x_get_rsa_encrypt_mode
    <3> QED BY <2>1, <2>3, <3>1, <3>2
  <2>7. CASE o.alg[1] = "RSAES_PKCS1_OAEP" /\ o.alg[2] # "SHA1"
    <3>1. se05x_get_rsa_encrypt_mode(o.alg) = NA
      BY <2>7 DEF se05x_get_rsa_encrypt_mode
    <3> QED BY <2>1, <3>1
  <2> QED BY <2>2, <2>4, <2>5, <2>6, <2>7
<1> QED BY <1>2, <1>3

LEMMA HoldsIsGood ==
    ASSUME NEW o \in Calls, Verifying(o), ~(o.fn = "verify_digest" /\ IsRSA(o))
    PROVE  Holds(o) <=> o.sig.ver = key.ver /\ o.sig.of = "given" /\ o.sig.order = "standard"
<1>1. /\ o.sig.order \in {"standard", "se"}
      /\ o.cipher # "ED" => o.sig.order = "standard"
  BY CallsAssumption DEF SignatureFits
<1> QED BY <1>1 DEF Holds, Swapped

\* Counter mode is refused for data that is not whole blocks.
LEMMA CounterIsWhole ==
    ASSUME NEW o, CipherStep(o) = "command", o.alg[2] \in {"CTR", "CTR_INT_IV"}
    PROVE  o.whole
<1>1. se05x_get_cipher_mode(o.alg) # NA
  BY DEF CipherStep
<1>2. o.alg[1] = "AES"
  <2> SUFFICES ASSUME o.alg[1] # "AES" PROVE se05x_get_cipher_mode(o.alg) = NA
    BY <1>1
  <2>1. o.alg # <<"AES", "CTR_INT_IV">>
    OBVIOUS
  <2>2. o.alg[2] \notin {"ECB", "CBC", "CBC_ISO9797_M1", "CBC_ISO9797_M2"}
    OBVIOUS
  <2> QED BY <2>1, <2>2 DEF se05x_get_cipher_mode
<1> QED BY <1>2 DEF CipherStep

LEMMA CommandStep == ASSUME OneGoInv, Command PROVE OneGoInv'
<1>1. at = "command" /\ Underway /\ UNCHANGED <<key, op>>
  BY DEF Command, Underway
<1>2. op \in Calls /\ key \in [ver : Nat, size : RsaSizes] /\ Shaped(loc) /\ NoThrow /\ AtStep
  BY <1>1, AtWork
<1>3. FirstStep(op) = "command" \/ OfMessage(op)
  BY <1>1, <1>2 DEF AtStep
<1>4. /\ op.fn \in {"sign_digest", "verify_digest"} => ~IsRSA(op)
      /\ op.fn \in {"cipher_one_go", "cipher_one_go_v2"} => CipherStep(op) = "command"
      /\ ~Deriving(op) /\ op.fn # "get_random"
  BY <1>2, <1>3, AtCommand
<1> DEFINE accepts == Asked(op) # NA
<1>5. PICK sm \in Replies(accepts) :
          /\ Return([After(sm, accepts) EXCEPT !.ver = key.ver], Verdict(op, sm))
          /\ out' = CASE sm # SM_OK \/ Verifying(op) -> Nothing
                      [] OTHER -> Computed(op)
  BY DEF Command
<1> DEFINE a == After(sm, accepts)
           l == [a EXCEPT !.ver = key.ver]
<1>6. Shaped(a) /\ (a.threw => loc.threw \/ sm = SM_ERR_APDU_THROUGHPUT)
  BY <1>2, AfterAnswer
<1>7. Shaped(l) /\ l.ver = key.ver /\ l.threw = a.threw /\ l.calm = a.calm
  <2> HIDE DEF a
  <2> QED BY <1>2, <1>6 DEF Shaped
<1>8. Return(l, Verdict(op, sm))
  BY <1>5
<1>9. Verifying(op) => accepts
  BY <1>2, <1>3, VerifyingIsAsked
<1>10. CASE sm # SM_OK
  <2>1. Verdict(op, sm) = Status(sm)
    BY <1>10 DEF Verdict
  <2>2. accepts \in BOOLEAN /\ l.threw = After(sm, accepts).threw /\ l.calm = After(sm, accepts).calm
    BY <1>7
  <2> HIDE DEF l, a, accepts
  <2> QED BY <1>1, <1>7, <1>8, <1>9, <1>10, <2>1, <2>2, CommandFails
<1>11. CASE sm = SM_OK
  <2>1. Verdict(op, sm) = IF Verifying(op) /\ ~Holds(op) THEN "Fail" ELSE "Success"
    BY <1>11, Statuses DEF Verdict
  <2>2. loc'.ver = key.ver
    <3> HIDE DEF l
    <3> QED BY <1>7, <1>8, ReturnFacts
  <2>3. Verifying(op) => (Good(op)' <=> Holds(op))
    BY <1>1, <1>2, <1>4, <2>2, HoldsIsGood DEF Good, IsRSA
  <2>4. a.threw => op.fn \in {"sign_digest", "verify_digest"} /\ op.alg = NO_HASH
    BY <1>2, <1>6, <1>11 DEF NoThrow, SM_OK, SM_ERR_APDU_THROUGHPUT
  <2>5. accepts
    BY <1>11, Answers
  <2>6. ~Verifying(op) => out' = Computed(op)
    BY <1>5, <1>11
  <2>7. RightSignature' /\ RightSecret' /\ RightRandom'
    BY <1>1, <1>4 DEF RightSignature, RightSecret, RightRandom, Deriving, IsRSA
  <2>8. RightResult'
    <3>1. op.fn \in {"encrypt", "decrypt", "sign"} => ~Verifying(op)
      BY DEF Verifying
    <3>2. Computed(op).by = Asked(op) /\ Computed(op).order = "standard"
      BY DEF Computed, Swapped
    <3>3. op.fn \in {"encrypt", "decrypt", "sign"} => Asked(op) = Meant(op)
      BY <1>2, <2>5, AskedIsMeant
    <3>4. op.fn \in {"encrypt", "decrypt", "sign"} => out'.by = Meant(op') /\ out'.order = "standard"
      BY <1>1, <2>6, <3>1, <3>2, <3>3
    <3>5. /\ op.fn \in {"cipher_one_go", "cipher_one_go_v2"} /\ op.alg[2] \in {"CTR", "CTR_INT_IV"}
          => op.whole
      BY <1>4, CounterIsWhole
    <3> QED BY <1>1, <3>4, <3>5 DEF RightResult
  <2>9. Verifying(op') = Verifying(op)
    BY <1>1
  <2> HIDE DEF l, a, accepts
  <2> QED BY <1>1, <1>2, <1>7, <1>8, <2>1, <2>3, <2>4, <2>7, <2>8, <2>9, Returned
<1> QED BY <1>10, <1>11

-----------------------------------------------------------------------------
(* Random data.                                                            *)

LEMMA GetRandomStep == ASSUME OneGoInv, GetRandom PROVE OneGoInv'
<1>1. at = "random" /\ Underway /\ UNCHANGED <<key, op>>
  BY DEF GetRandom, Underway
<1>2. op \in Calls /\ key \in [ver : Nat, size : RsaSizes] /\ Shaped(loc) /\ NoThrow /\ AtStep
  BY <1>1, AtWork
<1> DEFINE c == Cardinality(out)
<1>3. /\ op.fn = "get_random" /\ c \in Nat /\ c < op.n /\ out = 1..c /\ op.n \in Nat
  BY <1>1, <1>2, CallsAssumption DEF AtStep
<1>4. ~Verifying(op)
  BY <1>3 DEF Verifying
<1>5. PICK sm \in Replies(TRUE), given \in 1 .. Chunk :
          IF sm # SM_OK
          THEN Return(After(sm, TRUE), Status(sm)) /\ UNCHANGED out
          ELSE /\ out' = out \cup Filled(given)
               /\ IF given = Missing THEN Return(After(sm, TRUE), "Success")
                                     ELSE UNCHANGED at /\ loc' = After(sm, TRUE)
  BY DEF GetRandom
<1> DEFINE l == After(sm, TRUE)
<1>6. Shaped(l) /\ (l.threw => loc.threw \/ sm = SM_ERR_APDU_THROUGHPUT)
  BY <1>2, AfterAnswer
<1>7. CASE sm # SM_OK
  BY <1>1, <1>4, <1>5, <1>6, <1>7, CommandFails
<1>8. CASE sm = SM_OK
  <2>1. given \in Nat /\ given <= Missing /\ given > 0 /\ Missing = op.n - c
    BY <1>3, OneGoAssumption DEF Chunk, Missing
  <2>2. out' = 1..(c + given)
    <3>1. out' = (1..c) \cup ((c + 1)..(c + given))
      BY <1>3, <1>5, <1>8 DEF Filled
    <3> QED BY <1>3, <2>1, <3>1
  <2>3. Cardinality(out') = c + given
    BY <1>3, <2>1, <2>2, FS_Interval
  <2>4. ~l.threw
    BY <1>2, <1>3, <1>6, <1>8 DEF NoThrow, SM_OK, SM_ERR_APDU_THROUGHPUT
  <2> HIDE DEF c
  <2>5. CASE given = Missing
    <3>1. Return(l, "Success")
      BY <1>5, <1>8, <2>5
    <3>2. out' = 1..op.n
      BY <1>3, <2>1, <2>2, <2>5
    <3>3. (RightSignature /\ RightResult /\ RightSecret /\ RightRandom)'
      BY <1>1, <1>3, <3>2 DEF RightSignature, RightResult, RightSecret, RightRandom
    <3> HIDE DEF l
    <3> QED BY <1>1, <1>2, <1>4, <1>6, <2>4, <3>1, <3>3, Returned DEF Verifying
  <2>6. CASE given # Missing
    <3>1. at' = "random" /\ loc' = l
      BY <1>1, <1>5, <1>8, <2>6
    <3>2. NoThrow'
      BY <2>4, <3>1 DEF NoThrow
    <3>3. Cardinality(out') \in Nat /\ Cardinality(out') < op.n /\ out' = 1..Cardinality(out')
      BY <1>3, <2>1, <2>2, <2>3, <2>6
    <3>4. AtStep'
      BY <1>1, <1>3, <3>1, <3>3 DEF AtStep
    <3> HIDE DEF l
    <3> QED BY <1>1, <1>2, <1>6, <3>1, <3>2, <3>4, GoesOn
  <2> QED BY <2>5, <2>6
<1> QED BY <1>7, <1>8

-----------------------------------------------------------------------------
(* Key derivation.                                                         *)

LEMMA ShaAlgorithm ==
    ASSUME NEW alg, se05x_get_sha_algo(alg) # NA
    PROVE  se05x_get_sha_algo(alg) = <<alg[2]>>
<1>1. CASE alg[1] = "SHA" /\ alg[2] \in DOMAIN HashLen
  BY <1>1 DEF se05x_get_sha_algo
<1>2. CASE alg[1] = "HMAC" /\ alg[2] \in DOMAIN HashLen \ {"SHA224"}
  BY <1>2 DEF se05x_get_sha_algo
<1>3. CASE /\ ~(alg[1] = "SHA" /\ alg[2] \in DOMAIN HashLen)
           /\ ~(alg[1] = "HMAC" /\ alg[2] \in DOMAIN HashLen \ {"SHA224"})
  BY <1>3 DEF se05x_get_sha_algo
<1> QED BY <1>1, <1>2, <1>3

LEMMA InJoined ==
    ASSUME NEW S, NEW x \in S, NEW t \in Seq(S)
    PROVE  /\ x \in Range(<<x>> \o t)
           /\ \A i \in 1..Len(t) : t[i] \in Range(<<x>> \o t)
<1> DEFINE s == <<x>> \o t
<1>1. /\ Len(t) \in Nat /\ DOMAIN s = 1..(1 + Len(t))
      /\ \A i \in 1..(1 + Len(t)) : s[i] = IF i <= 1 THEN <<x>>[i] ELSE t[i - 1]
  <2>1. <<x>> \in Seq(S) /\ Len(<<x>>) = 1
    OBVIOUS
  <2> QED BY <2>1, ConcatProperties, LenProperties
<1> HIDE DEF s
<1>2. 1 \in DOMAIN s /\ s[1] = x
  BY <1>1
<1>3. ASSUME NEW i \in 1..Len(t)
      PROVE  i + 1 \in DOMAIN s /\ s[i + 1] = t[i]
  BY <1>1
<1> QED BY <1>2, <1>3 DEF Range, s

LEMMA SecretIsHeld ==
    ASSUME NEW o, Deriving(o), o.fn # "derive_key_dh" => se05x_get_sha_algo(o.alg) # NA
    PROVE  SecretHeld(o, key.ver, Secret(o))
<1>1. Secret(o).ver = key.ver /\ Secret(o).order = SecretOrder(o)
  BY DEF Secret
<1>2. o.fn = "derive_key_dh" => SecretOrder(o) = IF o.cipher = "MONT" THEN "little" ELSE "big"
  BY DEF SecretOrder, Turned
<1>3. ASSUME o.fn # "derive_key_dh"
      PROVE  /\ o.alg[2] \in Range(Secret(o).by)
             /\ HkdfMode(o) = "ExtractExpand" => o.salt \in Range(Secret(o).by)
  <2>1. Secret(o).by = <<o.alg[2]>> \o Salted(o)
    BY <1>3, ShaAlgorithm DEF Secret
  <2> DEFINE S == {o.alg[2], "ExpandOnly", "ExtractExpand", o.salt}
  <2>2. Salted(o) \in Seq(S)
    <3>1. "ExpandOnly" \in S /\ "ExtractExpand" \in S /\ o.salt \in S
      OBVIOUS
    <3> HIDE DEF S
    <3>2. <<"ExpandOnly">> \in Seq(S) /\ <<"ExtractExpand", o.salt>> \in Seq(S)
      BY <3>1
    <3> QED BY <3>2 DEF Salted
  <2>3. o.alg[2] \in Range(Secret(o).by) /\ \A i \in 1..Len(Salted(o)) : Salted(o)[i] \in Range(Secret(o).by)
    BY <2>1, <2>2, InJoined
  <2>4. HkdfMode(o) = "ExtractExpand" => 2 \in 1..Len(Salted(o)) /\ Salted(o)[2] = o.salt
    BY DEF Salted
  <2> QED BY <2>3, <2>4
<1> QED BY <1>1, <1>2, <1>3 DEF SecretHeld

LEMMA SecretReturned ==
    ASSUME Deriving(op'), op'.derived # "none" => SecretHeld(op', loc'.ver, out')
    PROVE  (RightSignature /\ RightResult /\ RightSecret /\ RightRandom)'
BY DEF Deriving, SecretHeld, RightSignature, RightResult, RightSecret, RightRandom

LEMMA DeriveStep ==
    ASSUME OneGoInv, Underway, UNCHANGED <<key, op>>, Deriving(op),
           op.fn # "derive_key_dh" => se05x_get_sha_algo(op.alg) # NA,
           NEW accepts \in BOOLEAN, DeriveOnSe(op, accepts)
    PROVE  OneGoInv'
<1>1. op \in Calls /\ key \in [ver : Nat, size : RsaSizes] /\ Shaped(loc) /\ NoThrow
  BY AtWork
<1>2. ~Verifying(op) /\ op.fn \notin {"sign_digest", "verify_digest"}
  BY DEF Verifying, Deriving
<1>3. PICK sm \in Replies(accepts) :
        LET l == [After(sm, accepts) EXCEPT !.ver = key.ver, !.block = Secret(op)]
        IN  /\ IF sm # SM_OK THEN Return(l, Status(sm))
               ELSE IF InObject(op) \/ op.derived = "none" THEN Return(l, "Success")
               ELSE at' = "set_key" /\ loc' = l
            /\ out' \in IF InObject(op) /\ accepts
                        THEN CASE sm = SM_OK -> {Secret(op)}
                               [] sm = SM_NOT_OK -> {Secret(op), Nothing}
                               [] OTHER -> {Nothing}
                        ELSE {Nothing}
  BY DEF DeriveOnSe
<1> DEFINE a == After(sm, accepts)
           s == Secret(op)
           l == [a EXCEPT !.ver = key.ver, !.block = s]
<1>4. Shaped(a) /\ (a.threw => loc.threw \/ sm = SM_ERR_APDU_THROUGHPUT)
  BY <1>1, AfterAnswer
<1>5. /\ IF sm # SM_OK THEN Return(l, Status(sm))
         ELSE IF InObject(op) \/ op.derived = "none" THEN Return(l, "Success")
         ELSE at' = "set_key" /\ loc' = l
      /\ out' \in IF InObject(op) /\ accepts
                  THEN CASE sm = SM_OK -> {s} [] sm = SM_NOT_OK -> {s, Nothing} [] OTHER -> {Nothing}
                  ELSE {Nothing}
  BY <1>3
<1>6. SecretHeld(op, key.ver, s)
  BY SecretIsHeld
<1> HIDE DEF a, s
<1>7. Shaped(l) /\ l.ver = key.ver /\ l.block = s /\ l.threw = a.threw /\ l.calm = a.calm
  BY <1>1, <1>4 DEF Shaped
<1> HIDE DEF l
<1>8. CASE sm # SM_OK
  <2>1. l.threw = After(sm, accepts).threw /\ l.calm = After(sm, accepts).calm
    BY <1>7 DEF a
  <2> QED BY <1>2, <1>5, <1>7, <1>8, <2>1, CommandFails
<1>9. CASE sm = SM_OK
  <2>1. accepts /\ ~l.threw
    BY <1>1, <1>2, <1>4, <1>7, <1>9, Answers DEF NoThrow, SM_OK, SM_ERR_APDU_THROUGHPUT
  <2>2. CASE InObject(op) \/ op.derived = "none"
    <3>1. Return(l, "Success")
      BY <1>5, <1>9, <2>2
    <3>2. loc'.ver = key.ver
      BY <1>7, <3>1, ReturnFacts
    <3>3. ASSUME InObject(op) PROVE out' = s
      <4>1. out' \in CASE sm = SM_OK -> {s} [] sm = SM_NOT_OK -> {s, Nothing} [] OTHER -> {Nothing}
        BY <1>5, <2>1, <3>3
      <4> QED BY <1>9, <4>1 DEF SM_OK, SM_NOT_OK
    <3>4. op'.derived # "none" => SecretHeld(op', loc'.ver, out')
      BY <1>6, <2>2, <3>2, <3>3
    <3>5. Deriving(op')
      BY DEF Deriving
    <3>6. (RightSignature /\ RightResult /\ RightSecret /\ RightRandom)'
      BY <3>4, <3>5, SecretReturned
    <3>7. ~Verifying(op')
      BY <1>2
    <3> QED BY <1>1, <1>7, <2>1, <3>1, <3>6, <3>7, Returned
  <2>3. CASE ~(InObject(op) \/ op.derived = "none")
    <3>1. at' = "set_key" /\ loc' = l
      BY <1>5, <1>9, <2>3
    <3>2. NoThrow'
      BY <2>1, <3>1 DEF NoThrow
    <3>3. Deriving(op') /\ SecretHeld(op', loc'.ver, loc'.block)
      BY <1>6, <1>7, <3>1
    <3>4. AtStep'
      BY <3>1, <3>3 DEF AtStep
    <3> QED BY <1>1, <1>7, <3>1, <3>2, <3>4, GoesOn
  <2> QED BY <2>2, <2>3
<1> QED BY <1>8, <1>9

LEMMA HKDFStep == ASSUME OneGoInv, HKDF PROVE OneGoInv'
<1>1. at = "hkdf" /\ Underway /\ UNCHANGED <<key, op>> /\ DeriveOnSe(op, TRUE)
  BY DEF HKDF, Underway
<1>2. Deriving(op) /\ se05x_get_sha_algo(op.alg) # NA
  BY <1>1, AtWork DEF AtStep
<1> QED BY <1>1, <1>2, DeriveStep

LEMMA ECDHStep == ASSUME OneGoInv, ECDH PROVE OneGoInv'
<1> DEFINE accepts == PointOrder(op) = "big"
<1>1. at = "ecdh" /\ Underway /\ UNCHANGED <<key, op>> /\ DeriveOnSe(op, accepts) /\ accepts \in BOOLEAN
  BY DEF ECDH, Underway
<1>2. op.fn = "derive_key_dh"
  BY <1>1, AtWork DEF AtStep
<1> HIDE DEF accepts
<1> QED BY <1>1, <1>2, DeriveStep DEF Deriving

LEMMA GetPeerKeyStep == ASSUME OneGoInv, GetPeerKey PROVE OneGoInv'
<1>1. at = "get_peer" /\ Underway /\ UNCHANGED <<key, op, out>>
  BY DEF GetPeerKey, Underway
<1>2. /\ op \in Calls /\ key \in [ver : Nat, size : RsaSizes] /\ Shaped(loc) /\ NoThrow
      /\ op.fn = "derive_key_dh"
  BY <1>1, AtWork DEF AtStep
<1>3. PICK sm \in Replies(TRUE) :
          IF sm = SM_OK THEN at' = "ecdh" /\ loc' = After(sm, TRUE) ELSE Return(After(sm, TRUE), Status(sm))
  BY DEF GetPeerKey
<1> DEFINE l == After(sm, TRUE)
<1>4. Shaped(l) /\ (l.threw => loc.threw \/ sm = SM_ERR_APDU_THROUGHPUT)
  BY <1>2, AfterAnswer
<1>5. CASE sm # SM_OK
  BY <1>1, <1>2, <1>3, <1>4, <1>5, CommandFails DEF Verifying
<1>6. CASE sm = SM_OK
  <2>1. at' = "ecdh" /\ loc' = l
    BY <1>3, <1>6
  <2>2. NoThrow'
    BY <1>2, <1>4, <1>6, <2>1 DEF NoThrow, SM_OK, SM_ERR_APDU_THROUGHPUT
  <2>3. AtStep'
    BY <1>1, <1>2, <2>1 DEF AtStep
  <2> HIDE DEF l
  <2> QED BY <1>1, <1>2, <1>4, <2>1, <2>2, <2>3, GoesOn
<1> QED BY <1>5, <1>6

LEMMA SetKeyStep == ASSUME OneGoInv, SetKey PROVE OneGoInv'
<1>1. at = "set_key" /\ Underway /\ UNCHANGED <<key, op>>
  BY DEF SetKey, Underway
<1>2. /\ op \in Calls /\ key \in [ver : Nat, size : RsaSizes] /\ Shaped(loc) /\ NoThrow
      /\ Deriving(op) /\ SecretHeld(op, loc.ver, loc.block)
  BY <1>1, AtWork DEF AtStep
<1>3. ~Verifying(op) /\ ~Verifying(op') /\ op'.fn \notin {"sign_digest", "verify_digest"} /\ Deriving(op')
  BY <1>1, <1>2 DEF Verifying, Deriving
<1>4. PICK sm \in Replies(TRUE) :
          /\ Return(After(sm, TRUE), Status(sm))
          /\ out' \in CASE sm = SM_OK -> {loc.block}
                        [] sm = SM_NOT_OK -> {loc.block, Nothing}
                        [] OTHER -> {Nothing}
  BY DEF SetKey
<1> DEFINE l == After(sm, TRUE)
<1>5. Shaped(l) /\ l.ver = loc.ver /\ (l.threw => loc.threw \/ sm = SM_ERR_APDU_THROUGHPUT)
  BY <1>2, AfterAnswer
<1>6. CASE sm # SM_OK
  BY <1>1, <1>3, <1>4, <1>5, <1>6, CommandFails
<1>7. CASE sm = SM_OK
  <2>1. Return(l, "Success") /\ out' = loc.block
    BY <1>4, <1>7, Statuses
  <2>2. ~l.threw
    BY <1>1, <1>2, <1>3, <1>5, <1>7 DEF NoThrow, SM_OK, SM_ERR_APDU_THROUGHPUT
  <2> HIDE DEF l
  <2>3. loc'.ver = loc.ver
    BY <1>5, <2>1, ReturnFacts
  <2>4. SecretHeld(op', loc'.ver, out')
    BY <1>1, <1>2, <2>1, <2>3
  <2>5. (RightSignature /\ RightResult /\ RightSecret /\ RightRandom)'
    BY <1>3, <2>4, SecretReturned
  <2> QED BY <1>1, <1>2, <1>3, <1>5, <2>1, <2>2, <2>5, Returned
<1> QED BY <1>6, <1>7

-----------------------------------------------------------------------------
(* A call begins.                                                          *)

\* A call to verify that the host refuses is one that it says it cannot do.
LEMMA RefusedIsUnsupported ==
    ASSUME NEW o \in Calls, Verifying(o), FirstStep(o) = "refused", op' = o, key' \in [ver : Nat, size : RsaSizes]
    PROVE  ~Supported(o)'
<1>1. o.fn \in Operations /\ AlgorithmFits(o)
  BY CallsAssumption
<1>2. CASE o.fn = "verify_digest" /\ IsRSA(o)
  <2>1. o.alg \in RsaSigning /\ o.n \in Nat /\ ~se05x_check_input_len(o.n, o.alg)
    BY <1>1, <1>2, CallsAssumption, FirstSteps DEF AlgorithmFits, SignDigestStep, IsRSA
  <2>2. o.n # HashLen[o.alg[2]] /\ (PSS(o.alg) \/ V15(o.alg))
    BY <2>1, DigestLength, SigningAlgorithms
  <2>3. ~Proper(o.alg, o.n, key'.size)
    BY <2>1, <2>2, ProperIsHashed
  <2>4. Supported(o)' => Proper(o.alg, o.n, key'.size)
    BY <1>2 DEF Supported, IsRSA
  <2> QED BY <2>3, <2>4
<1>3. CASE o.fn = "verify_digest" /\ ~IsRSA(o)
  <2>1. o.cipher # "EC" \/ ~se05x_check_input_len(o.n, o.alg)
    BY <1>1, <1>3, FirstSteps DEF SignDigestStep, IsRSA
  <2>2. o.alg[2] \in DOMAIN HashLen /\ o.alg[1] \in {"SHA", "ECDSA"} /\ o.alg \notin {NO_HASH, NO_PADDING}
    BY <1>1, <1>3 DEF AlgorithmFits, Hashed, NO_HASH, NO_PADDING
  <2>3. se05x_check_input_len(o.n, o.alg) = (o.n = HashLen[o.alg[2]])
    BY <2>2 DEF se05x_check_input_len
  <2>4. Supported(o)' <=> o.cipher = "EC" /\ o.n = HashLen[o.alg[2]]
    BY <1>3 DEF Supported, IsRSA
  <2> QED BY <2>1, <2>3, <2>4
<1>4. CASE o.fn = "verify"
  <2>1. ~IsRSA(o) /\ ~(o.cipher = "ED" /\ o.alg = <<"SHA", "SHA512">>)
    BY <1>1, <1>4, FirstSteps, SignSteps
  <2> QED BY <1>4, <2>1 DEF Supported, IsRSA
<1>5. CASE o.fn \in {"mac_one_go", "mac_validate_one_go"}
  <2>1. se05x_get_mac_algo(o.alg) = NA
    BY <1>1, <1>5, FirstSteps DEF MacStep, Verifying
  <2>2. o.alg = <<"HMAC", "SHA224">>
    <3>1. o.alg \in {<<"CMAC", "AES">>, <<"DES", "CMAC8">>} \cup Hashed({"HMAC"})
      BY <1>1, <1>5 DEF AlgorithmFits
    <3>2. CASE o.alg \in {<<"CMAC", "AES">>, <<"DES", "CMAC8">>}
      <4>1. o.alg[1] # "HMAC"
        BY <3>2
      <4>2. se05x_get_mac_algo(o.alg) = o.alg
        BY <3>2, <4>1 DEF se05x_get_mac_algo
      <4>3. <<"CMAC", "AES">> # NA /\ <<"DES", "CMAC8">> # NA
        BY DEF NA
      <4> QED BY <2>1, <3>2, <4>2, <4>3
    <3>3. CASE o.alg \in Hashed({"HMAC"}) /\ o.alg[2] # "SHA224"
      <4>1. o.alg[1] = "HMAC" /\ o.alg[2] \in DOMAIN HashLen \ {"SHA224"} /\ o.alg # NA
        BY <3>3 DEF Hashed, NA
      <4>2. o.alg \notin {<<"CMAC", "AES">>, <<"DES", "CMAC8">>}
        BY <4>1
      <4>3. se05x_get_mac_algo(o.alg) = o.alg
        BY <4>1, <4>2 DEF se05x_get_mac_algo
      <4> QED BY <2>1, <4>1, <4>3
    <3>4. CASE o.alg \in Hashed({"HMAC"}) /\ o.alg[2] = "SHA224"
      BY <3>4 DEF Hashed
    <3> QED BY <3>1, <3>2, <3>3, <3>4
  <2> QED BY <1>5, <2>2 DEF Supported
<1> QED BY <1>2, <1>3, <1>4, <1>5 DEF Verifying

LEMMA LocalsShaped == Shaped(Locals) /\ ~Locals.threw
BY DEF Shaped, Locals

LEMMA StartStep == ASSUME NEW o \in Calls, Start(o) PROVE OneGoInv'
<1>1. /\ o.fn \in Operations /\ op' = o /\ out' = IF o.fn = "get_random" THEN {} ELSE Nothing
      /\ o.fn \in {"sign_digest", "verify_digest", "get_random"} => o.n \in Nat
  BY CallsAssumption DEF Start
<1>2. key' \in [ver : Nat, size : RsaSizes]
  BY DEF Start
<1>3. CASE FirstStep(o) = "refused"
  <2>1. Return(Locals, "Fail")
    BY <1>3 DEF Start
  <2>2. Verifying(o) => ~Supported(o)'
    BY <1>1, <1>2, <1>3, RefusedIsUnsupported
  <2>3. Verifying(op') => ~Supported(op)'
    BY <1>1, <2>2 DEF Supported
  <2> QED BY <1>1, <1>2, <2>1, <2>3, LocalsShaped, Returned
<1>4. CASE FirstStep(o) = "invalid"
  <2>1. Return(Locals, "InvalidArgument")
    BY <1>4 DEF Start
  <2>2. ~Verifying(o)
    BY <1>1, <1>4, FirstSteps, SignSteps DEF Verifying, SignDigestStep, MacStep
  <2> QED BY <1>1, <1>2, <2>1, <2>2, LocalsShaped, Returned
<1>5. CASE FirstStep(o) = "filled"
  <2>1. Return(Locals, "Success")
    BY <1>5 DEF Start
  <2>2. o.fn = "get_random" /\ o.n = 0
    <3>1. o.fn \notin {"sign_digest", "verify_digest", "sign", "verify"}
      BY <1>1, <1>5, FirstSteps, SignSteps DEF SignDigestStep
    <3>2. o.fn \notin {"encrypt", "decrypt", "cipher_one_go", "cipher_one_go_v2", "mac_one_go",
                       "mac_validate_one_go", "digest_one_go", "export_key", "import_key"}
      BY <1>1, <1>5, FirstSteps DEF EncryptStep, CipherStep, MacStep, DigestStep, PortKeyStep
    <3>3. o.fn \notin {"derive_key_go", "derive_key_one_go", "derive_key_sobj_one_go", "derive_key_dh"}
      BY <1>1, <1>5, FirstSteps DEF HkdfStep, DhStep
    <3>4. o.fn = "get_random"
      BY <1>1, <3>1, <3>2, <3>3 DEF Operations
    <3> QED BY <1>1, <1>5, <3>4, FirstSteps DEF RandomStep
  <2>3. out' = {} /\ op'.n = 0 /\ op'.fn = "get_random"
    BY <1>1, <2>2
  <2>4. (RightSignature /\ RightResult /\ RightSecret /\ RightRandom)'
    BY <2>3 DEF RightSignature, RightResult, RightSecret, RightRandom
  <2>5. ~Verifying(op')
    BY <2>3 DEF Verifying
  <2> QED BY <1>1, <1>2, <2>1, <2>4, <2>5, LocalsShaped, Returned
<1>6. CASE FirstStep(o) \notin {"refused", "invalid", "filled"}
  <2>1. at' = FirstStep(o) /\ loc' = Locals
    BY <1>6 DEF Start
  <2>2. NoThrow' /\ Shaped(loc')
    BY <2>1, LocalsShaped DEF NoThrow
  <2>3. AtStep' /\ at' \notin {"idle", "done"}
    <3>1. CASE o.fn \in {"sign_digest", "verify_digest"}
      <4>1. /\ at' = SignDigestStep(o) /\ se05x_check_input_len(o.n, o.alg)
            /\ at' # "command" => Digesting(o)
        BY <1>1, <1>6, <2>1, <3>1, FirstSteps DEF SignDigestStep, Digesting, IsRSA
      <4>2. CASE at' = "command"
        BY <1>1, <2>1, <4>2 DEF AtStep
      <4>3. CASE at' # "command"
        <5>1. \/ at' = "rsa_encrypt" /\ o.fn = "verify_digest"
              \/ at' = "host_open" /\ PSS(o.alg) /\ o.fn = "sign_digest"
              \/ at' = "read_size" /\ o.fn = "sign_digest"
          BY <1>6, <2>1, <3>1, <4>1, <4>3 DEF SignDigestStep
        <5> QED BY <1>1, <4>1, <4>3, <5>1 DEF AtStep, Digesting, SignatureOpened, IsRSA
      <4> QED BY <4>2, <4>3
    <3>2. CASE o.fn \in {"sign", "verify"}
      <4>1. \/ at' = "command"
            \/ at' = "read_size" /\ OfMessage(o) /\ o.alg[2] = "SHA512"
        BY <1>1, <1>6, <2>1, <3>2, FirstSteps, SignSteps DEF OfMessage
      <4> QED BY <1>1, <2>1, <4>1 DEF AtStep, OfMessage, IsRSA
    <3>3. CASE o.fn \in {"encrypt", "decrypt", "cipher_one_go", "cipher_one_go_v2", "mac_one_go",
                         "mac_validate_one_go", "digest_one_go", "export_key", "import_key"}
      <4>1. at' = "command"
        BY <1>1, <1>6, <2>1, <3>3, FirstSteps DEF EncryptStep, CipherStep, MacStep, DigestStep, PortKeyStep
      <4> QED BY <1>1, <2>1, <4>1 DEF AtStep
    <3>4. CASE o.fn = "get_random"
      <4>1. at' = "random" /\ o.n # 0
        BY <1>1, <1>6, <2>1, <3>4, FirstSteps DEF RandomStep
      <4>2. out' = {} /\ Cardinality(out') = 0
        BY <1>1, <3>4, FS_EmptySet
      <4> QED BY <1>1, <3>4, <4>1, <4>2 DEF AtStep
    <3>5. CASE o.fn \in {"derive_key_go", "derive_key_one_go", "derive_key_sobj_one_go"}
      <4>1. at' = "hkdf" /\ se05x_get_sha_algo(o.alg) # NA
        BY <1>1, <1>6, <2>1, <3>5, FirstSteps DEF HkdfStep
      <4> QED BY <1>1, <3>5, <4>1 DEF AtStep, Deriving
    <3>6. CASE o.fn = "derive_key_dh"
      <4>1. at' = "get_peer"
        BY <1>1, <1>6, <2>1, <3>6, FirstSteps DEF DhStep
      <4> QED BY <1>1, <3>6, <4>1 DEF AtStep
    <3> QED BY <1>1, <3>1, <3>2, <3>3, <3>4, <3>5, <3>6 DEF Operations
  <2> QED BY <1>1, <1>2, <2>2, <2>3 DEF OneGoInv, OfCall, ReturnIsRight, VerifyTellsTruth
<1> QED BY <1>3, <1>4, <1>5, <1>6

-----------------------------------------------------------------------------
(* All steps.                                                              *)

LEMMA OneGoHolds ==
    ASSUME OneGoInv, \/ \E o \in Calls : Start(o)
                     \/ OneGoStep
                     \/ Forget
                     \/ UNCHANGED oneGoVars
    PROVE  OneGoInv'
<1>1. CASE \E o \in Calls : Start(o)
  BY <1>1, StartStep
<1>2. CASE OneGoStep
  BY <1>2, ReplaceStep, HostOpenStep, ReadSizeStep, RSADecryptStep, RSAEncryptStep, CommandStep,
     GetRandomStep, HKDFStep, GetPeerKeyStep, ECDHStep, SetKeyStep DEF OneGoStep
<1>3. CASE Forget
  BY <1>3 DEF Forget, OneGoInv, OfCall, Underway, AtStep, ReturnIsRight, VerifyTellsTruth
<1>4. CASE UNCHANGED oneGoVars
  BY <1>4 DEF oneGoVars, OneGoInv, OfCall, Underway, NoThrow, AtStep, SignatureOpened, DigestEncoded,
     ReturnIsRight, RightSignature, RightResult, RightSecret, RightRandom, VerifyTellsTruth, Good, Supported
<1> QED BY <1>1, <1>2, <1>3, <1>4

LEMMA OneGoInitHolds == Init => OneGoInv
BY DEF Init, OneGoInit, OneGoInv, OfCall, Underway, AtStep, ReturnIsRight, VerifyTellsTruth

LEMMA NextIsOneGo ==
    ASSUME [Next]_vars
    PROVE  \/ \E o \in Calls : Start(o)
           \/ OneGoStep
           \/ Forget
           \/ UNCHANGED oneGoVars
BY DEF Next, vars, OneGoCall

\* Every step of a one-go call finds what it relies on: an encoding made for
\* the digest, a signature opened by the key as it was then, a secret in the
\* byte order asked for, and as many random bytes as it has counted.
THEOREM EveryStepIsRight == Spec => []OneGoInv
<1>1. OneGoInv /\ [Next]_vars => OneGoInv'
  BY OneGoHolds, NextIsOneGo
<1> QED BY OneGoInitHolds, <1>1, PTL DEF Spec

\* A call that returns success has signed a proper encoding for the size the
\* key has when it signs, asked the SE for the algorithm the caller meant,
\* left the derived secret where it was wanted, and filled every random byte
\* (sss_se05x_asymmetric_sign_digest, _encrypt, _derive_key_*, _rng_get_random).
THEOREM ReturnsAreRight == Spec => []ReturnIsRight
<1>1. OneGoInv => ReturnIsRight
  BY DEF OneGoInv
<1> QED BY <1>1, EveryStepIsRight, PTL

\* A verification succeeds only for a signature that the key made, as the SE held
\* it when it opened the signature, over the digest given; and when nothing fails
\* and no key is replaced it does succeed for such a one
\* (sss_se05x_asymmetric_verify_digest, _verify, sss_se05x_mac_validate_one_go).
THEOREM VerifyingTellsTruth == Spec => []VerifyTellsTruth
<1>1. OneGoInv => VerifyTellsTruth
  BY DEF OneGoInv
<1> QED BY <1>1, EveryStepIsRight, PTL

=============================================================================
