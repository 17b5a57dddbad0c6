---------------------------- MODULE SmCom_proofs ----------------------------
(***************************************************************************)
(* Theorems about SmCom, for any number of threads and sessions: whoever   *)
(* exchanges finds the mutex, no exchange is refused, the count is exact.  *)
(***************************************************************************)
EXTENDS SmCom, FiniteSetTheorems, TLAPS

-----------------------------------------------------------------------------
(* The inductive invariant. *)

Early  == {"protocol", "init", "create", "count"}
Inside == {"lock", "exchange", "unlock"}
Late   == {"end", "deinit", "uncount", "destroy"}

Typed ==
    /\ pc \in [Threads -> {"idle"} \cup Early \cup Inside \cup Late]
    /\ on \in [Threads -> Sessions]
    /\ life \in [Sessions -> {"closed", "opening", "open", "closing"}]
    /\ EseLibStatus \in [Sessions -> {"CLOSE", "OPEN", "BUSY", "IDLE"}]
    /\ {gSmComNoSessions, gSmComlock} \subseteq Threads \cup {NoThread}
    /\ created \in BOOLEAN
    /\ g_no_of_session \in Nat /\ leaks \in Nat /\ opens \in 0..MaxOpens

\* What a thread does to a session fits the session's life.
Owned ==
    \A t \in Threads :
        /\ pc[t] \in Early => life[on[t]] = "opening"
        /\ pc[t] \in Inside => life[on[t]] \in {"opening", "open"}
        /\ pc[t] \in Late => life[on[t]] = "closing"

\* A session that is opened or closed is used by one thread.
Alone ==
    \A t, u \in Threads :
        pc[t] # "idle" /\ pc[u] # "idle" /\ on[t] = on[u] /\ life[on[t]] # "open" => t = u

LocksHeld ==
    \A t \in Threads :
        /\ gSmComNoSessions = t <=> pc[t] \in {"create", "count", "uncount", "destroy"}
        /\ gSmComlock = t <=> pc[t] \in {"exchange", "unlock"}

\* The sessions that g_no_of_session counts, at every moment.
UsedIn(s, stages) == \E t \in Threads : on[t] = s /\ pc[t] \in stages
InCount   ==
    {s \in Sessions : life[s] = "open" \/ UsedIn(s, Inside \cup {"end", "deinit", "uncount"})}
NotClosed == {s \in Sessions : life[s] # "closed"}

CountRight ==
    /\ IsFiniteSet(NotClosed) /\ InCount \subseteq NotClosed
    /\ g_no_of_session = Cardinality(InCount) + leaks
    /\ Cardinality(NotClosed) + leaks <= opens

CreatedRight ==
    /\ g_no_of_session > 0 => created
    /\ \A t \in Threads : pc[t] = "count" => created
    /\ created => g_no_of_session > 0 \/ \E t \in Threads : pc[t] \in {"count", "destroy"}

\* A context in use is busy only while the holder of the lock exchanges on it.
Usable ==
    \A s \in Sessions : life[s] \in {"opening", "open"} =>
        \/ EseLibStatus[s] \in {"OPEN", "IDLE"}
        \/ EseLibStatus[s] = "BUSY" /\ UsedIn(s, {"exchange"})

IInv == Typed /\ Owned /\ Alone /\ LocksHeld /\ CountRight /\ CreatedRight /\ Usable

-----------------------------------------------------------------------------
(* Counting. *)

LEMMA CountFacts ==
    ASSUME Typed, CountRight
    PROVE  /\ IsFiniteSet(InCount) /\ IsFiniteSet(NotClosed)
           /\ Cardinality(InCount) \in Nat /\ Cardinality(NotClosed) \in Nat
           /\ Cardinality(InCount) <= Cardinality(NotClosed)
           /\ InCount # {} => g_no_of_session > 0
           /\ g_no_of_session <= opens
           /\ NotClosed # InCount => g_no_of_session < opens
           /\ opens <= 255
<1>1. IsFiniteSet(NotClosed) /\ InCount \subseteq NotClosed
  BY DEF CountRight
<1>2. /\ IsFiniteSet(InCount) /\ Cardinality(InCount) <= Cardinality(NotClosed)
      /\ Cardinality(InCount) = Cardinality(NotClosed) => InCount = NotClosed
  BY <1>1, FS_Subset
<1>3. Cardinality(InCount) \in Nat /\ Cardinality(NotClosed) \in Nat
  BY <1>1, <1>2, FS_CardinalityType
<1>4. InCount # {} => Cardinality(InCount) # 0
  BY <1>2, FS_EmptySet
<1>5. MaxOpens \in 0..255
  BY SmComAssumption
<1> QED BY <1>1, <1>2, <1>3, <1>4, <1>5 DEF CountRight, Typed

\* The ways in which a step changes the two sets.
LEMMA CountKept ==
    ASSUME CountRight, InCount' = InCount, NotClosed' = NotClosed,
           UNCHANGED <<g_no_of_session, leaks, opens>>
    PROVE  CountRight'
BY DEF CountRight

LEMMA OneOpened ==
    ASSUME Typed, CountRight, NEW s, s \notin NotClosed,
           InCount' = InCount, NotClosed' = NotClosed \cup {s},
           UNCHANGED <<g_no_of_session, leaks>>, opens' = opens + 1
    PROVE  CountRight'
<1>1. IsFiniteSet(NotClosed') /\ Cardinality(NotClosed') = Cardinality(NotClosed) + 1
  BY FS_AddElement, CountFacts
<1> QED BY <1>1, CountFacts DEF CountRight, Typed

LEMMA OneClosed ==
    ASSUME Typed, CountRight, NEW s \in NotClosed, s \notin InCount,
           InCount' = InCount, NotClosed' = NotClosed \ {s},
           UNCHANGED <<g_no_of_session, leaks, opens>>
    PROVE  CountRight'
<1>1. IsFiniteSet(NotClosed') /\ Cardinality(NotClosed') = Cardinality(NotClosed) - 1
  BY FS_RemoveElement, CountFacts
<1> QED BY <1>1, CountFacts DEF CountRight, Typed

LEMMA OneCounted ==
    ASSUME Typed, CountRight, NEW s \in NotClosed, s \notin InCount,
           InCount' = InCount \cup {s}, NotClosed' = NotClosed,
           UNCHANGED <<leaks, opens>>, g_no_of_session' = (g_no_of_session + 1) % 256
    PROVE  CountRight' /\ g_no_of_session' \in Nat /\ g_no_of_session' > 0
<1>1. Cardinality(InCount') = Cardinality(InCount) + 1
  BY FS_AddElement, CountFacts
<1>2. g_no_of_session + 1 \in 1..255
  BY CountFacts DEF Typed
<1>3. g_no_of_session' = g_no_of_session + 1
  BY <1>2
<1> QED BY <1>1, <1>2, <1>3, CountFacts DEF CountRight, Typed

LEMMA OneUncounted ==
    ASSUME Typed, CountRight, NEW s \in InCount,
           InCount' = InCount \ {s}, NotClosed' = NotClosed,
           UNCHANGED <<leaks, opens>>, g_no_of_session' = OneLess(g_no_of_session)
    PROVE  CountRight' /\ g_no_of_session' \in Nat
<1>1. Cardinality(InCount') = Cardinality(InCount) - 1
  BY FS_RemoveElement, CountFacts
<1>2. g_no_of_session > 0 /\ g_no_of_session' = g_no_of_session - 1
  BY CountFacts DEF OneLess
<1> QED BY <1>1, <1>2, CountFacts DEF CountRight, Typed

LEMMA OneLeaked ==
    ASSUME Typed, CountRight, NEW s \in InCount,
           InCount' = InCount \ {s}, NotClosed' = NotClosed \ {s},
           UNCHANGED <<g_no_of_session, opens>>, leaks' = leaks + 1
    PROVE  CountRight'
<1>1. s \in NotClosed
  BY DEF CountRight
<1>2. Cardinality(InCount') = Cardinality(InCount) - 1
  BY FS_RemoveElement, CountFacts
<1>3. IsFiniteSet(NotClosed') /\ Cardinality(NotClosed') = Cardinality(NotClosed) - 1
  BY <1>1, FS_RemoveElement, CountFacts
<1> QED BY <1>2, <1>3, CountFacts DEF CountRight, Typed

\* While no session is counted no thread exchanges.
LEMMA NoneCounted ==
    ASSUME Typed, CountRight, g_no_of_session = 0
    PROVE  \A t \in Threads : pc[t] \notin Inside
<1>1. InCount = {}
  BY CountFacts
<1> QED BY <1>1 DEF InCount, UsedIn, Typed

LEMMA Busy ==
    ASSUME Typed, Usable, NEW s \in Sessions, life[s] \in {"opening", "open"}
    PROVE  EseLibStatus[s] # "CLOSE"
BY DEF Usable

-----------------------------------------------------------------------------
(* The steps. *)

LEMMA InitHolds == Init => IInv
<1> SUFFICES ASSUME Init PROVE IInv
  OBVIOUS
<1>1. InCount = {} /\ NotClosed = {}
  BY DEF Init, InCount, NotClosed, UsedIn, Inside
<1>2. CountRight
  BY <1>1, FS_EmptySet DEF Init, CountRight
<1>3. Typed /\ Owned /\ Alone /\ LocksHeld /\ CreatedRight /\ Usable
  <2>1. Typed
    <3>1. 0 \in 0..MaxOpens
      BY SmComAssumption
    <3>2. EseLibStatus \in [Sessions -> {"CLOSE", "OPEN", "BUSY", "IDLE"}]
         /\ opens \in 0..MaxOpens
      BY <3>1 DEF Init
    <3> QED BY <3>2 DEF Init, Typed
  <2>2. Owned /\ Alone /\ CreatedRight /\ Usable
    BY DEF Init, Owned, Alone, CreatedRight, Usable, Early, Inside, Late
  <2>3. LocksHeld
    BY SmComAssumption DEF Init, LocksHeld
  <2> QED BY <2>1, <2>2, <2>3
<1> QED BY <1>2, <1>3 DEF IInv

LEMMA OpensDevice ==
    ASSUME IInv, NEW t \in Threads, NEW s \in Sessions, OpenDevice(t, s)
    PROVE  IInv'
<1>0. pc' = [pc EXCEPT ![t] = pc'[t]] /\ on' = [on EXCEPT ![t] = s] /\ pc[t] = "idle"
  BY DEF OpenDevice, Goes, Begins, Users, Status, Becomes, IInv, Typed
<1>1. CountRight'
  <2>1. InCount' = InCount /\ NotClosed' = NotClosed \cup {s} /\ s \notin NotClosed
    BY <1>0 DEF OpenDevice, Goes, Begins, Users, Status, Becomes, smComVars, connVars, IInv,
         Typed, Owned, Alone, InCount, NotClosed, UsedIn, Early, Inside, Late
  <2> QED BY <2>1, OneOpened DEF OpenDevice, Goes, Begins, Users, Status, Becomes, smComVars,
       connVars, IInv
<1>2. Typed'
  BY <1>0, SmComAssumption DEF OpenDevice, Goes, Begins, Users, Status, Becomes, smComVars,
       connVars, IInv, Typed, Early, Inside, Late
<1>3. Owned'
  BY <1>0 DEF OpenDevice, Goes, Begins, Users, Status, Becomes, smComVars, connVars, IInv,
       Typed, Owned, Alone, Early, Inside, Late
<1>4. Alone'
  BY <1>0 DEF OpenDevice, Goes, Begins, Users, Status, Becomes, smComVars, connVars, IInv,
       Typed, Owned, Alone, Early, Inside, Late
<1>5. LocksHeld'
  BY <1>0, SmComAssumption DEF OpenDevice, Goes, Begins, Users, Status, Becomes, smComVars,
       connVars, IInv, Typed, Owned, Alone, LocksHeld, Early, Inside, Late
<1>6. CreatedRight'
  BY <1>0, <1>1, CountFacts DEF OpenDevice, Goes, Begins, Users, Status, Becomes, smComVars,
       connVars, IInv, Typed, LocksHeld, CreatedRight
<1>7. Usable'
  BY <1>0 DEF OpenDevice, Goes, Begins, Users, Status, Becomes, smComVars, connVars, IInv,
       Typed, Owned, Alone, LocksHeld, Usable, UsedIn, Early, Inside, Late
<1> QED BY <1>1, <1>2, <1>3, <1>4, <1>5, <1>6, <1>7 DEF IInv

LEMMA InitsProtocol ==
    ASSUME IInv, NEW t \in Threads, InitProtocol(t)
    PROVE  IInv'
<1>0. pc' = [pc EXCEPT ![t] = pc'[t]] /\ on' = on /\ pc[t] # "idle"
  BY DEF InitProtocol, Goes, connVars, IInv, Typed
<1>1. CountRight'
  <2>1. InCount' = InCount /\ NotClosed' = NotClosed
    BY <1>0 DEF InitProtocol, Goes, smComVars, connVars, IInv, Typed, Owned, Alone, InCount,
         NotClosed, UsedIn, Early, Inside, Late
  <2> QED BY <2>1, CountKept DEF InitProtocol, Goes, smComVars, connVars, IInv
<1>2. Typed'
  BY <1>0 DEF InitProtocol, Goes, smComVars, connVars, IInv, Typed, Early, Inside, Late
<1>3. Owned'
  BY <1>0 DEF InitProtocol, Goes, smComVars, connVars, IInv, Typed, Owned, Alone, Early,
       Inside, Late
<1>4. Alone'
  BY <1>0 DEF InitProtocol, Goes, smComVars, connVars, IInv, Typed, Owned, Alone, Early,
       Inside, Late
<1>5. LocksHeld'
  BY <1>0, SmComAssumption DEF InitProtocol, Goes, smComVars, connVars, IInv, Typed, Owned,
       Alone, LocksHeld, Early, Inside, Late
<1>6. CreatedRight'
  BY <1>0, <1>1, CountFacts DEF InitProtocol, Goes, smComVars, connVars, IInv, Typed,
       LocksHeld, CreatedRight
<1>7. Usable'
  BY <1>0 DEF InitProtocol, Goes, smComVars, connVars, IInv, Typed, Owned, Alone, LocksHeld,
       Usable, UsedIn, Early, Inside, Late
<1> QED BY <1>1, <1>2, <1>3, <1>4, <1>5, <1>6, <1>7 DEF IInv

LEMMA FailsToInit ==
    ASSUME IInv, NEW t \in Threads, InitFails(t)
    PROVE  IInv'
<1>0. pc' = [pc EXCEPT ![t] = pc'[t]] /\ on' = on /\ pc[t] # "idle"
  BY DEF InitFails, Goes, Status, Becomes, connVars, IInv, Typed
<1>1. CountRight'
  <2>1. /\ InCount' = InCount /\ NotClosed' = NotClosed \ {on[t]}
        /\ on[t] \in NotClosed \ InCount
    BY <1>0 DEF InitFails, Goes, Status, Becomes, smComVars, connVars, IInv, Typed, Owned,
         Alone, InCount, NotClosed, UsedIn, Early, Inside, Late
  <2> QED BY <2>1, OneClosed DEF InitFails, Goes, Status, Becomes, smComVars, connVars, IInv
<1>2. Typed'
  BY <1>0 DEF InitFails, Goes, Status, Becomes, smComVars, connVars, IInv, Typed, Early,
       Inside, Late
<1>3. Owned'
  BY <1>0 DEF InitFails, Goes, Status, Becomes, smComVars, connVars, IInv, Typed, Owned, Alone,
       Early, Inside, Late
<1>4. Alone'
  BY <1>0 DEF InitFails, Goes, Status, Becomes, smComVars, connVars, IInv, Typed, Owned, Alone,
       Early, Inside, Late
<1>5. LocksHeld'
  BY <1>0, SmComAssumption DEF InitFails, Goes, Status, Becomes, smComVars, connVars, IInv,
       Typed, Owned, Alone, LocksHeld, Early, Inside, Late
<1>6. CreatedRight'
  BY <1>0, <1>1, CountFacts DEF InitFails, Goes, Status, Becomes, smComVars, connVars, IInv,
       Typed, LocksHeld, CreatedRight
<1>7. Usable'
  BY <1>0 DEF InitFails, Goes, Status, Becomes, smComVars, connVars, IInv, Typed, Owned, Alone,
       LocksHeld, Usable, UsedIn, Early, Inside, Late
<1> QED BY <1>1, <1>2, <1>3, <1>4, <1>5, <1>6, <1>7 DEF IInv

LEMMA TakesForInit ==
    ASSUME IInv, NEW t \in Threads, InitTakesLock(t)
    PROVE  IInv'
<1>0. pc' = [pc EXCEPT ![t] = pc'[t]] /\ on' = on /\ pc[t] # "idle"
  BY DEF InitTakesLock, Goes, TakeNoSessions, connVars, IInv, Typed
<1>1. CountRight'
  <2>1. InCount' = InCount /\ NotClosed' = NotClosed
    BY <1>0 DEF InitTakesLock, Goes, TakeNoSessions, smComVars, connVars, IInv, Typed, Owned,
         Alone, InCount, NotClosed, UsedIn, Early, Inside, Late
  <2> QED BY <2>1, CountKept DEF InitTakesLock, Goes, TakeNoSessions, smComVars, connVars, IInv
<1>2. Typed'
  BY <1>0 DEF InitTakesLock, Goes, TakeNoSessions, smComVars, connVars, IInv, Typed, Early,
       Inside, Late
<1>3. Owned'
  BY <1>0 DEF InitTakesLock, Goes, TakeNoSessions, smComVars, connVars, IInv, Typed, Owned,
       Alone, Early, Inside, Late
<1>4. Alone'
  BY <1>0 DEF InitTakesLock, Goes, TakeNoSessions, smComVars, connVars, IInv, Typed, Owned,
       Alone, Early, Inside, Late
<1>5. LocksHeld'
  BY <1>0, SmComAssumption DEF InitTakesLock, Goes, TakeNoSessions, smComVars, connVars, IInv,
       Typed, Owned, Alone, LocksHeld, Early, Inside, Late
<1>6. CreatedRight'
  BY <1>0, <1>1, CountFacts DEF InitTakesLock, Goes, TakeNoSessions, smComVars, connVars, IInv,
       Typed, LocksHeld, CreatedRight
<1>7. Usable'
  BY <1>0 DEF InitTakesLock, Goes, TakeNoSessions, smComVars, connVars, IInv, Typed, Owned,
       Alone, LocksHeld, Usable, UsedIn, Early, Inside, Late
<1> QED BY <1>1, <1>2, <1>3, <1>4, <1>5, <1>6, <1>7 DEF IInv

LEMMA CreatesMutex ==
    ASSUME IInv, NEW t \in Threads, CreateMutex(t)
    PROVE  IInv'
<1>0. pc' = [pc EXCEPT ![t] = pc'[t]] /\ on' = on /\ pc[t] # "idle"
  BY DEF CreateMutex, Goes, connVars, IInv, Typed
<1>1. CountRight'
  <2>1. InCount' = InCount /\ NotClosed' = NotClosed
    BY <1>0 DEF CreateMutex, Goes, smComVars, connVars, IInv, Typed, Owned, Alone, InCount,
         NotClosed, UsedIn, Early, Inside, Late
  <2> QED BY <2>1, CountKept DEF CreateMutex, Goes, smComVars, connVars, IInv
<1>2. Typed'
  BY <1>0 DEF CreateMutex, Goes, smComVars, connVars, IInv, Typed, Early, Inside, Late
<1>3. Owned'
  BY <1>0 DEF CreateMutex, Goes, smComVars, connVars, IInv, Typed, Owned, Alone, Early, Inside,
       Late
<1>4. Alone'
  BY <1>0 DEF CreateMutex, Goes, smComVars, connVars, IInv, Typed, Owned, Alone, Early, Inside,
       Late
<1>5. LocksHeld'
  <2>1. g_no_of_session = 0 => \A u \in Threads : pc[u] \notin {"exchange", "unlock"}
    BY NoneCounted DEF IInv, Inside
  <2> QED BY <1>0, <2>1, SmComAssumption DEF CreateMutex, Goes, IInv, Typed, LocksHeld
<1>6. CreatedRight'
  <2>1. pc'[t] = "count" /\ created' = (created \/ g_no_of_session = 0) /\ UNCHANGED
       g_no_of_session
    BY <1>0 DEF CreateMutex, Goes, IInv, Typed
  <2>2. g_no_of_session \in Nat
    BY DEF IInv, Typed
  <2>3. g_no_of_session' > 0 => created'
    BY <2>1 DEF IInv, CreatedRight
  <2>4. \A u \in Threads : pc'[u] = "count" => created'
    <3>1. ASSUME NEW u \in Threads, pc'[u] = "count" PROVE created'
      <4>1. CASE u = t
        <5>1. g_no_of_session = 0 \/ g_no_of_session > 0
          BY <2>2
        <5>2. g_no_of_session > 0 => created
          BY DEF IInv, CreatedRight
        <5> QED BY <2>1, <5>1, <5>2
      <4>2. CASE u # t
        BY <1>0, <2>1, <3>1, <4>2 DEF IInv, Typed, CreatedRight
      <4> QED BY <4>1, <4>2
    <3> QED BY <3>1
  <2> QED BY <2>1, <2>3, <2>4 DEF CreatedRight
<1>7. Usable'
  BY <1>0 DEF CreateMutex, Goes, smComVars, connVars, IInv, Typed, Owned, Alone, LocksHeld,
       Usable, UsedIn, Early, Inside, Late
<1> QED BY <1>1, <1>2, <1>3, <1>4, <1>5, <1>6, <1>7 DEF IInv

LEMMA CountsSession ==
    ASSUME IInv, NEW t \in Threads, CountSession(t)
    PROVE  IInv'
<1>0. pc' = [pc EXCEPT ![t] = pc'[t]] /\ on' = on /\ pc[t] # "idle"
  BY DEF CountSession, Goes, GiveNoSessions, connVars, IInv, Typed
<1>1. CountRight' /\ g_no_of_session' \in Nat /\ g_no_of_session' > 0
  <2>1. /\ InCount' = InCount \cup {on[t]} /\ NotClosed' = NotClosed
        /\ on[t] \in NotClosed \ InCount
    BY <1>0 DEF CountSession, Goes, GiveNoSessions, smComVars, connVars, IInv, Typed, Owned,
         Alone, InCount, NotClosed, UsedIn, Early, Inside, Late
  <2> QED BY <2>1, OneCounted DEF CountSession, Goes, GiveNoSessions, smComVars, connVars, IInv
<1>2. Typed'
  BY <1>0, <1>1 DEF CountSession, Goes, GiveNoSessions, smComVars, connVars, IInv, Typed,
       Early, Inside, Late
<1>3. Owned'
  BY <1>0 DEF CountSession, Goes, GiveNoSessions, smComVars, connVars, IInv, Typed, Owned,
       Alone, Early, Inside, Late
<1>4. Alone'
  BY <1>0 DEF CountSession, Goes, GiveNoSessions, smComVars, connVars, IInv, Typed, Owned,
       Alone, Early, Inside, Late
<1>5. LocksHeld'
  BY <1>0, SmComAssumption DEF CountSession, Goes, GiveNoSessions, smComVars, connVars, IInv,
       Typed, Owned, Alone, LocksHeld, Early, Inside, Late
<1>6. CreatedRight'
  BY <1>0, <1>1, CountFacts DEF CountSession, Goes, GiveNoSessions, smComVars, connVars, IInv,
       Typed, LocksHeld, CreatedRight
<1>7. Usable'
  BY <1>0 DEF CountSession, Goes, GiveNoSessions, smComVars, connVars, IInv, Typed, Owned,
       Alone, LocksHeld, Usable, UsedIn, Early, Inside, Late
<1> QED BY <1>1, <1>2, <1>3, <1>4, <1>5, <1>6, <1>7 DEF IInv

LEMMA Calls ==
    ASSUME IInv, NEW t \in Threads, NEW s \in Sessions, Call(t, s)
    PROVE  IInv'
<1>0. pc' = [pc EXCEPT ![t] = pc'[t]] /\ on' = [on EXCEPT ![t] = s] /\ pc[t] = "idle"
  BY DEF Call, Goes, Begins, Users, IInv, Typed
<1>1. CountRight'
  <2>1. InCount' = InCount /\ NotClosed' = NotClosed
    BY <1>0 DEF Call, Goes, Begins, Users, smComVars, connVars, IInv, Typed, Owned, Alone,
         InCount, NotClosed, UsedIn, Early, Inside, Late
  <2> QED BY <2>1, CountKept DEF Call, Goes, Begins, Users, smComVars, connVars, IInv
<1>2. Typed'
  BY <1>0 DEF Call, Goes, Begins, Users, smComVars, connVars, IInv, Typed, Early, Inside, Late
<1>3. Owned'
  BY <1>0 DEF Call, Goes, Begins, Users, smComVars, connVars, IInv, Typed, Owned, Alone, Early,
       Inside, Late
<1>4. Alone'
  BY <1>0 DEF Call, Goes, Begins, Users, smComVars, connVars, IInv, Typed, Owned, Alone, Early,
       Inside, Late
<1>5. LocksHeld'
  BY <1>0, SmComAssumption DEF Call, Goes, Begins, Users, smComVars, connVars, IInv, Typed,
       Owned, Alone, LocksHeld, Early, Inside, Late
<1>6. CreatedRight'
  BY <1>0, <1>1, CountFacts DEF Call, Goes, Begins, Users, smComVars, connVars, IInv, Typed,
       LocksHeld, CreatedRight
<1>7. Usable'
  BY <1>0 DEF Call, Goes, Begins, Users, smComVars, connVars, IInv, Typed, Owned, Alone,
       LocksHeld, Usable, UsedIn, Early, Inside, Late
<1> QED BY <1>1, <1>2, <1>3, <1>4, <1>5, <1>6, <1>7 DEF IInv

LEMMA Exchanges ==
    ASSUME IInv, NEW t \in Threads, Exchange(t)
    PROVE  IInv'
<1>0. pc' = [pc EXCEPT ![t] = pc'[t]] /\ on' = on /\ pc[t] # "idle"
  BY DEF Exchange, Goes, LOCK_TXN, Status, connVars, IInv, Typed
<1>1. CountRight'
  <2>1. InCount' = InCount /\ NotClosed' = NotClosed
    BY <1>0 DEF Exchange, Goes, LOCK_TXN, Status, smComVars, connVars, IInv, Typed, Owned,
         Alone, InCount, NotClosed, UsedIn, Early, Inside, Late
  <2> QED BY <2>1, CountKept DEF Exchange, Goes, LOCK_TXN, Status, smComVars, connVars, IInv
<1>2. Typed'
  BY <1>0 DEF Exchange, Goes, LOCK_TXN, Status, smComVars, connVars, IInv, Typed, Early,
       Inside, Late
<1>3. Owned'
  BY <1>0 DEF Exchange, Goes, LOCK_TXN, Status, smComVars, connVars, IInv, Typed, Owned, Alone,
       Early, Inside, Late
<1>4. Alone'
  BY <1>0 DEF Exchange, Goes, LOCK_TXN, Status, smComVars, connVars, IInv, Typed, Owned, Alone,
       Early, Inside, Late
<1>5. LocksHeld'
  BY <1>0, SmComAssumption DEF Exchange, Goes, LOCK_TXN, Status, smComVars, connVars, IInv,
       Typed, Owned, Alone, LocksHeld, Early, Inside, Late
<1>6. CreatedRight'
  BY <1>0, <1>1, CountFacts DEF Exchange, Goes, LOCK_TXN, Status, smComVars, connVars, IInv,
       Typed, LocksHeld, CreatedRight
<1>7. Usable'
  BY <1>0 DEF Exchange, Goes, LOCK_TXN, Status, smComVars, connVars, IInv, Typed, Owned, Alone,
       LocksHeld, Usable, UsedIn, Early, Inside, Late
<1> QED BY <1>1, <1>2, <1>3, <1>4, <1>5, <1>6, <1>7 DEF IInv

LEMMA HasExchanged ==
    ASSUME IInv, NEW t \in Threads, Exchanged(t)
    PROVE  IInv'
<1>0. pc' = [pc EXCEPT ![t] = pc'[t]] /\ on' = on /\ pc[t] # "idle"
  BY DEF Exchanged, Goes, Status, connVars, IInv, Typed
<1>1. CountRight'
  <2>1. InCount' = InCount /\ NotClosed' = NotClosed
    BY <1>0 DEF Exchanged, Goes, Status, smComVars, connVars, IInv, Typed, Owned, Alone,
         InCount, NotClosed, UsedIn, Early, Inside, Late
  <2> QED BY <2>1, CountKept DEF Exchanged, Goes, Status, smComVars, connVars, IInv
<1>2. Typed'
  BY <1>0 DEF Exchanged, Goes, Status, smComVars, connVars, IInv, Typed, Early, Inside, Late
<1>3. Owned'
  BY <1>0 DEF Exchanged, Goes, Status, smComVars, connVars, IInv, Typed, Owned, Alone, Early,
       Inside, Late
<1>4. Alone'
  BY <1>0 DEF Exchanged, Goes, Status, smComVars, connVars, IInv, Typed, Owned, Alone, Early,
       Inside, Late
<1>5. LocksHeld'
  BY <1>0, SmComAssumption DEF Exchanged, Goes, Status, smComVars, connVars, IInv, Typed,
       Owned, Alone, LocksHeld, Early, Inside, Late
<1>6. CreatedRight'
  BY <1>0, <1>1, CountFacts DEF Exchanged, Goes, Status, smComVars, connVars, IInv, Typed,
       LocksHeld, CreatedRight
<1>7. Usable'
  <2>1. /\ life' = life
        /\ EseLibStatus' = [EseLibStatus EXCEPT ![on[t]] =
                              IF EseLibStatus[on[t]] = "CLOSE" THEN "CLOSE" ELSE "IDLE"]
        /\ pc[t] = "exchange" /\ pc'[t] = "unlock"
    BY <1>0 DEF Exchanged, Goes, Status, IInv, Typed
  <2>2. ASSUME NEW s \in Sessions, life[s] \in {"opening", "open"}
        PROVE  EseLibStatus'[s] \in {"OPEN", "IDLE"}
    <3>1. CASE s = on[t]
      <4>1. EseLibStatus[s] # "CLOSE"
        BY <2>2, Busy DEF IInv
      <4> QED BY <2>1, <3>1, <4>1 DEF IInv, Typed
    <3>2. CASE s # on[t]
      <4>1. ~UsedIn(s, {"exchange"})
        BY <2>1, <3>2 DEF IInv, LocksHeld, UsedIn
      <4> QED BY <2>1, <2>2, <3>2, <4>1 DEF IInv, Typed, Usable
    <3> QED BY <3>1, <3>2
  <2> QED BY <2>1, <2>2 DEF Usable
<1> QED BY <1>1, <1>2, <1>3, <1>4, <1>5, <1>6, <1>7 DEF IInv

LEMMA IsAnswered ==
    ASSUME IInv, NEW t \in Threads, Answered(t)
    PROVE  IInv'
<1>0. pc' = [pc EXCEPT ![t] = pc'[t]] /\ on' = on /\ pc[t] # "idle"
  BY DEF Answered, Goes, UNLOCK_TXN, connVars, IInv, Typed
<1>1. CountRight'
  <2>1. InCount' = InCount /\ NotClosed' = NotClosed
    BY <1>0 DEF Answered, Goes, UNLOCK_TXN, smComVars, connVars, IInv, Typed, Owned, Alone,
         InCount, NotClosed, UsedIn, Early, Inside, Late
  <2> QED BY <2>1, CountKept DEF Answered, Goes, UNLOCK_TXN, smComVars, connVars, IInv
<1>2. Typed'
  BY <1>0 DEF Answered, Goes, UNLOCK_TXN, smComVars, connVars, IInv, Typed, Early, Inside, Late
<1>3. Owned'
  BY <1>0 DEF Answered, Goes, UNLOCK_TXN, smComVars, connVars, IInv, Typed, Owned, Alone,
       Early, Inside, Late
<1>4. Alone'
  BY <1>0 DEF Answered, Goes, UNLOCK_TXN, smComVars, connVars, IInv, Typed, Owned, Alone,
       Early, Inside, Late
<1>5. LocksHeld'
  BY <1>0, SmComAssumption DEF Answered, Goes, UNLOCK_TXN, smComVars, connVars, IInv, Typed,
       Owned, Alone, LocksHeld, Early, Inside, Late
<1>6. CreatedRight'
  BY <1>0, <1>1, CountFacts DEF Answered, Goes, UNLOCK_TXN, smComVars, connVars, IInv, Typed,
       LocksHeld, CreatedRight
<1>7. Usable'
  BY <1>0 DEF Answered, Goes, UNLOCK_TXN, smComVars, connVars, IInv, Typed, Owned, Alone,
       LocksHeld, Usable, UsedIn, Early, Inside, Late
<1> QED BY <1>1, <1>2, <1>3, <1>4, <1>5, <1>6, <1>7 DEF IInv

LEMMA IsSelected ==
    ASSUME IInv, NEW t \in Threads, Selected(t)
    PROVE  IInv'
<1>0. pc' = [pc EXCEPT ![t] = pc'[t]] /\ on' = on /\ pc[t] # "idle"
  BY DEF Selected, Goes, UNLOCK_TXN, Becomes, connVars, IInv, Typed
<1>1. CountRight'
  <2>1. InCount' = InCount /\ NotClosed' = NotClosed
    BY <1>0 DEF Selected, Goes, UNLOCK_TXN, Becomes, smComVars, connVars, IInv, Typed, Owned,
         Alone, InCount, NotClosed, UsedIn, Early, Inside, Late
  <2> QED BY <2>1, CountKept DEF Selected, Goes, UNLOCK_TXN, Becomes, smComVars, connVars, IInv
<1>2. Typed'
  BY <1>0 DEF Selected, Goes, UNLOCK_TXN, Becomes, smComVars, connVars, IInv, Typed, Early,
       Inside, Late
<1>3. Owned'
  BY <1>0 DEF Selected, Goes, UNLOCK_TXN, Becomes, smComVars, connVars, IInv, Typed, Owned,
       Alone, Early, Inside, Late
<1>4. Alone'
  BY <1>0 DEF Selected, Goes, UNLOCK_TXN, Becomes, smComVars, connVars, IInv, Typed, Owned,
       Alone, Early, Inside, Late
<1>5. LocksHeld'
  BY <1>0, SmComAssumption DEF Selected, Goes, UNLOCK_TXN, Becomes, smComVars, connVars, IInv,
       Typed, Owned, Alone, LocksHeld, Early, Inside, Late
<1>6. CreatedRight'
  BY <1>0, <1>1, CountFacts DEF Selected, Goes, UNLOCK_TXN, Becomes, smComVars, connVars, IInv,
       Typed, LocksHeld, CreatedRight
<1>7. Usable'
  BY <1>0 DEF Selected, Goes, UNLOCK_TXN, Becomes, smComVars, connVars, IInv, Typed, Owned,
       Alone, LocksHeld, Usable, UsedIn, Early, Inside, Late
<1> QED BY <1>1, <1>2, <1>3, <1>4, <1>5, <1>6, <1>7 DEF IInv

LEMMA FailsToSelect ==
    ASSUME IInv, NEW t \in Threads, SelectFails(t)
    PROVE  IInv'
<1>0. pc' = [pc EXCEPT ![t] = pc'[t]] /\ on' = on /\ pc[t] # "idle"
  BY DEF SelectFails, Goes, UNLOCK_TXN, Status, Becomes, connVars, IInv, Typed
<1>1. CountRight'
  <2>1. InCount' = InCount \ {on[t]} /\ NotClosed' = NotClosed \ {on[t]} /\ on[t] \in InCount
    BY <1>0 DEF SelectFails, Goes, UNLOCK_TXN, Status, Becomes, smComVars, connVars, IInv,
         Typed, Owned, Alone, InCount, NotClosed, UsedIn, Early, Inside, Late
  <2> QED BY <2>1, OneLeaked DEF SelectFails, Goes, UNLOCK_TXN, Status, Becomes, smComVars,
       connVars, IInv
<1>2. Typed'
  BY <1>0 DEF SelectFails, Goes, UNLOCK_TXN, Status, Becomes, smComVars, connVars, IInv, Typed,
       Early, Inside, Late
<1>3. Owned'
  BY <1>0 DEF SelectFails, Goes, UNLOCK_TXN, Status, Becomes, smComVars, connVars, IInv, Typed,
       Owned, Alone, Early, Inside, Late
<1>4. Alone'
  BY <1>0 DEF SelectFails, Goes, UNLOCK_TXN, Status, Becomes, smComVars, connVars, IInv, Typed,
       Owned, Alone, Early, Inside, Late
<1>5. LocksHeld'
  BY <1>0, SmComAssumption DEF SelectFails, Goes, UNLOCK_TXN, Status, Becomes, smComVars,
       connVars, IInv, Typed, Owned, Alone, LocksHeld, Early, Inside, Late
<1>6. CreatedRight'
  BY <1>0, <1>1, CountFacts DEF SelectFails, Goes, UNLOCK_TXN, Status, Becomes, smComVars,
       connVars, IInv, Typed, LocksHeld, CreatedRight
<1>7. Usable'
  BY <1>0 DEF SelectFails, Goes, UNLOCK_TXN, Status, Becomes, smComVars, connVars, IInv, Typed,
       Owned, Alone, LocksHeld, Usable, UsedIn, Early, Inside, Late
<1> QED BY <1>1, <1>2, <1>3, <1>4, <1>5, <1>6, <1>7 DEF IInv

LEMMA ClosesSession ==
    ASSUME IInv, NEW t \in Threads, NEW s \in Sessions, CloseSession(t, s)
    PROVE  IInv'
<1>0. pc' = [pc EXCEPT ![t] = pc'[t]] /\ on' = [on EXCEPT ![t] = s] /\ pc[t] = "idle"
  BY DEF CloseSession, Goes, Begins, Users, Becomes, IInv, Typed
<1>1. CountRight'
  <2>1. InCount' = InCount /\ NotClosed' = NotClosed
    BY <1>0 DEF CloseSession, Goes, Begins, Users, Becomes, smComVars, connVars, IInv, Typed,
         Owned, Alone, InCount, NotClosed, UsedIn, Early, Inside, Late
  <2> QED BY <2>1, CountKept DEF CloseSession, Goes, Begins, Users, Becomes, smComVars,
       connVars, IInv
<1>2. Typed'
  BY <1>0 DEF CloseSession, Goes, Begins, Users, Becomes, smComVars, connVars, IInv, Typed,
       Early, Inside, Late
<1>3. Owned'
  BY <1>0 DEF CloseSession, Goes, Begins, Users, Becomes, smComVars, connVars, IInv, Typed,
       Owned, Alone, Early, Inside, Late
<1>4. Alone'
  BY <1>0 DEF CloseSession, Goes, Begins, Users, Becomes, smComVars, connVars, IInv, Typed,
       Owned, Alone, Early, Inside, Late
<1>5. LocksHeld'
  BY <1>0, SmComAssumption DEF CloseSession, Goes, Begins, Users, Becomes, smComVars, connVars,
       IInv, Typed, Owned, Alone, LocksHeld, Early, Inside, Late
<1>6. CreatedRight'
  BY <1>0, <1>1, CountFacts DEF CloseSession, Goes, Begins, Users, Becomes, smComVars,
       connVars, IInv, Typed, LocksHeld, CreatedRight
<1>7. Usable'
  BY <1>0 DEF CloseSession, Goes, Begins, Users, Becomes, smComVars, connVars, IInv, Typed,
       Owned, Alone, LocksHeld, Usable, UsedIn, Early, Inside, Late
<1> QED BY <1>1, <1>2, <1>3, <1>4, <1>5, <1>6, <1>7 DEF IInv

LEMMA ClosesDevice ==
    ASSUME IInv, NEW t \in Threads, CloseDevice(t)
    PROVE  IInv'
<1>0. pc' = [pc EXCEPT ![t] = pc'[t]] /\ on' = on /\ pc[t] # "idle"
  BY DEF CloseDevice, Goes, Status, connVars, IInv, Typed
<1>1. CountRight'
  <2>1. InCount' = InCount /\ NotClosed' = NotClosed
    BY <1>0 DEF CloseDevice, Goes, Status, smComVars, connVars, IInv, Typed, Owned, Alone,
         InCount, NotClosed, UsedIn, Early, Inside, Late
  <2> QED BY <2>1, CountKept DEF CloseDevice, Goes, Status, smComVars, connVars, IInv
<1>2. Typed'
  BY <1>0 DEF CloseDevice, Goes, Status, smComVars, connVars, IInv, Typed, Early, Inside, Late
<1>3. Owned'
  BY <1>0 DEF CloseDevice, Goes, Status, smComVars, connVars, IInv, Typed, Owned, Alone, Early,
       Inside, Late
<1>4. Alone'
  BY <1>0 DEF CloseDevice, Goes, Status, smComVars, connVars, IInv, Typed, Owned, Alone, Early,
       Inside, Late
<1>5. LocksHeld'
  BY <1>0, SmComAssumption DEF CloseDevice, Goes, Status, smComVars, connVars, IInv, Typed,
       Owned, Alone, LocksHeld, Early, Inside, Late
<1>6. CreatedRight'
  BY <1>0, <1>1, CountFacts DEF CloseDevice, Goes, Status, smComVars, connVars, IInv, Typed,
       LocksHeld, CreatedRight
<1>7. Usable'
  BY <1>0 DEF CloseDevice, Goes, Status, smComVars, connVars, IInv, Typed, Owned, Alone,
       LocksHeld, Usable, UsedIn, Early, Inside, Late
<1> QED BY <1>1, <1>2, <1>3, <1>4, <1>5, <1>6, <1>7 DEF IInv

LEMMA TakesForDeInit ==
    ASSUME IInv, NEW t \in Threads, DeInitTakesLock(t)
    PROVE  IInv'
<1>0. pc' = [pc EXCEPT ![t] = pc'[t]] /\ on' = on /\ pc[t] # "idle"
  BY DEF DeInitTakesLock, Goes, TakeNoSessions, connVars, IInv, Typed
<1>1. CountRight'
  <2>1. InCount' = InCount /\ NotClosed' = NotClosed
    BY <1>0 DEF DeInitTakesLock, Goes, TakeNoSessions, smComVars, connVars, IInv, Typed, Owned,
         Alone, InCount, NotClosed, UsedIn, Early, Inside, Late
  <2> QED BY <2>1, CountKept DEF DeInitTakesLock, Goes, TakeNoSessions, smComVars, connVars,
       IInv
<1>2. Typed'
  BY <1>0 DEF DeInitTakesLock, Goes, TakeNoSessions, smComVars, connVars, IInv, Typed, Early,
       Inside, Late
<1>3. Owned'
  BY <1>0 DEF DeInitTakesLock, Goes, TakeNoSessions, smComVars, connVars, IInv, Typed, Owned,
       Alone, Early, Inside, Late
<1>4. Alone'
  BY <1>0 DEF DeInitTakesLock, Goes, TakeNoSessions, smComVars, connVars, IInv, Typed, Owned,
       Alone, Early, Inside, Late
<1>5. LocksHeld'
  BY <1>0, SmComAssumption DEF DeInitTakesLock, Goes, TakeNoSessions, smComVars, connVars,
       IInv, Typed, Owned, Alone, LocksHeld, Early, Inside, Late
<1>6. CreatedRight'
  BY <1>0, <1>1, CountFacts DEF DeInitTakesLock, Goes, TakeNoSessions, smComVars, connVars,
       IInv, Typed, LocksHeld, CreatedRight
<1>7. Usable'
  BY <1>0 DEF DeInitTakesLock, Goes, TakeNoSessions, smComVars, connVars, IInv, Typed, Owned,
       Alone, LocksHeld, Usable, UsedIn, Early, Inside, Late
<1> QED BY <1>1, <1>2, <1>3, <1>4, <1>5, <1>6, <1>7 DEF IInv

LEMMA UncountsSession ==
    ASSUME IInv, NEW t \in Threads, UncountSession(t)
    PROVE  IInv'
<1>0. pc' = [pc EXCEPT ![t] = pc'[t]] /\ on' = on /\ pc[t] # "idle"
  BY DEF UncountSession, Goes, connVars, IInv, Typed
<1>1. CountRight' /\ g_no_of_session' \in Nat
  <2>1. InCount' = InCount \ {on[t]} /\ NotClosed' = NotClosed /\ on[t] \in InCount
    BY <1>0 DEF UncountSession, Goes, smComVars, connVars, IInv, Typed, Owned, Alone, InCount,
         NotClosed, UsedIn, Early, Inside, Late
  <2> QED BY <2>1, OneUncounted DEF UncountSession, Goes, smComVars, connVars, IInv
<1>2. Typed'
  BY <1>0, <1>1 DEF UncountSession, Goes, smComVars, connVars, IInv, Typed, Early, Inside, Late
<1>3. Owned'
  BY <1>0 DEF UncountSession, Goes, smComVars, connVars, IInv, Typed, Owned, Alone, Early,
       Inside, Late
<1>4. Alone'
  BY <1>0 DEF UncountSession, Goes, smComVars, connVars, IInv, Typed, Owned, Alone, Early,
       Inside, Late
<1>5. LocksHeld'
  BY <1>0, SmComAssumption DEF UncountSession, Goes, smComVars, connVars, IInv, Typed, Owned,
       Alone, LocksHeld, Early, Inside, Late
<1>6. CreatedRight'
  <2>1. /\ pc'[t] = "destroy" /\ UNCHANGED created
        /\ g_no_of_session' = OneLess(g_no_of_session)
    BY <1>0 DEF UncountSession, Goes, IInv, Typed
  <2>2. g_no_of_session \in Nat /\ (g_no_of_session' > 0 => g_no_of_session > 0)
    BY <2>1 DEF OneLess, IInv, Typed
  <2>3. \A u \in Threads : pc'[u] = "count" => pc[u] = "count"
    BY <1>0, <2>1 DEF IInv, Typed
  <2> QED BY <2>1, <2>2, <2>3 DEF IInv, CreatedRight
<1>7. Usable'
  BY <1>0 DEF UncountSession, Goes, smComVars, connVars, IInv, Typed, Owned, Alone, LocksHeld,
       Usable, UsedIn, Early, Inside, Late
<1> QED BY <1>1, <1>2, <1>3, <1>4, <1>5, <1>6, <1>7 DEF IInv

LEMMA DestroysMutex ==
    ASSUME IInv, NEW t \in Threads, DestroyMutex(t)
    PROVE  IInv'
<1>0. pc' = [pc EXCEPT ![t] = pc'[t]] /\ on' = on /\ pc[t] # "idle"
  BY DEF DestroyMutex, Goes, IsLast, GiveNoSessions, Becomes, connVars, IInv, Typed
<1>8. ~(IsLast /\ gSmComlock # NoThread)
  <2>1. IsLast => \A u \in Threads : pc[u] \notin {"exchange", "unlock"}
    BY NoneCounted DEF IInv, IsLast, Inside
  <2> QED BY <2>1 DEF IInv, Typed, LocksHeld
<1>1. CountRight'
  <2>1. /\ InCount' = InCount /\ NotClosed' = NotClosed \ {on[t]}
        /\ on[t] \in NotClosed \ InCount
    BY <1>0 DEF DestroyMutex, Goes, IsLast, GiveNoSessions, Becomes, smComVars, connVars, IInv,
         Typed, Owned, Alone, InCount, NotClosed, UsedIn, Early, Inside, Late
  <2> QED BY <2>1, OneClosed DEF DestroyMutex, Goes, IsLast, GiveNoSessions, Becomes,
       smComVars, connVars, IInv
<1>2. Typed'
  BY <1>0 DEF DestroyMutex, Goes, IsLast, GiveNoSessions, Becomes, smComVars, connVars, IInv,
       Typed, Early, Inside, Late
<1>3. Owned'
  BY <1>0 DEF DestroyMutex, Goes, IsLast, GiveNoSessions, Becomes, smComVars, connVars, IInv,
       Typed, Owned, Alone, Early, Inside, Late
<1>4. Alone'
  BY <1>0 DEF DestroyMutex, Goes, IsLast, GiveNoSessions, Becomes, smComVars, connVars, IInv,
       Typed, Owned, Alone, Early, Inside, Late
<1>5. LocksHeld'
  BY <1>0, <1>8, SmComAssumption DEF DestroyMutex, Goes, IsLast, GiveNoSessions, IInv, Typed,
       LocksHeld
<1>6. CreatedRight'
  <2>1. /\ created' = (created /\ ~IsLast)
        /\ UNCHANGED g_no_of_session /\ pc[t] = "destroy" /\ pc'[t] = "idle"
    BY <1>0, <1>8 DEF DestroyMutex, Goes, IInv, Typed
  <2>2. \A u \in Threads : pc'[u] \notin {"count", "destroy"}
    BY <1>0, <2>1 DEF IInv, Typed, LocksHeld
  <2>3. g_no_of_session \in Nat
    BY DEF IInv, Typed
  <2>4. g_no_of_session = 0 \/ g_no_of_session > 0
    BY <2>3
  <2>5. g_no_of_session > 0 => created
    BY DEF IInv, CreatedRight
  <2>6. g_no_of_session > 0 => ~(g_no_of_session = 0)
    BY <2>3
  <2> QED BY <2>1, <2>2, <2>4, <2>5, <2>6 DEF IsLast, CreatedRight
<1>7. Usable'
  BY <1>0 DEF DestroyMutex, Goes, IsLast, GiveNoSessions, Becomes, smComVars, connVars, IInv,
       Typed, Owned, Alone, LocksHeld, Usable, UsedIn, Early, Inside, Late
<1> QED BY <1>1, <1>2, <1>3, <1>4, <1>5, <1>6, <1>7 DEF IInv

-----------------------------------------------------------------------------
LEMMA StepHolds == IInv /\ [Next]_vars => IInv'
<1> SUFFICES ASSUME IInv, [Next]_vars PROVE IInv'
  OBVIOUS
<1>1. CASE UNCHANGED vars
  <2>1. UNCHANGED <<gSmComNoSessions, gSmComlock, created, g_no_of_session, EseLibStatus, life,
                    opens, leaks, pc, on>>
    BY <1>1 DEF vars, smComVars, connVars
  <2>2. InCount' = InCount /\ NotClosed' = NotClosed
    BY <2>1 DEF InCount, NotClosed, UsedIn
  <2>3. CountRight'
    BY <2>1, <2>2, CountKept DEF IInv
  <2>4. (Typed /\ Owned /\ Alone /\ LocksHeld /\ CreatedRight /\ Usable)'
    BY <2>1 DEF IInv, Typed, Owned, Alone, LocksHeld, CreatedRight, Usable, UsedIn
  <2> QED BY <2>3, <2>4 DEF IInv
<1>2. CASE Next
  <2>1. PICK t \in Threads :
          \/ \E s \in Sessions : OpenDevice(t, s) \/ Call(t, s) \/ CloseSession(t, s)
          \/ Continues(t)
    BY <1>2 DEF Next
  <2>2. CASE \E s \in Sessions : OpenDevice(t, s) \/ Call(t, s) \/ CloseSession(t, s)
    BY <2>2, OpensDevice, Calls, ClosesSession
  <2>3. CASE Continues(t)
    BY <2>3, InitsProtocol, FailsToInit, TakesForInit, CreatesMutex, CountsSession, Exchanges,
         HasExchanged,
       IsAnswered, IsSelected, FailsToSelect, ClosesDevice, TakesForDeInit, UncountsSession,
            DestroysMutex
       DEF Continues
  <2> QED BY <2>1, <2>2, <2>3
<1> QED BY <1>1, <1>2

LEMMA Invariance == Spec => []IInv
BY InitHolds, StepHolds, PTL DEF Spec

\* A thread that waits for gSmComlock, holds it or gives it back finds the mutex
\* created (smCom.c), whichever other threads open and close sessions meanwhile.
THEOREM MutexStaysAlive == Spec => []MutexAlive
<1>1. IInv => MutexAlive
  <2> SUFFICES ASSUME IInv, NEW t \in Threads, pc[t] \in Inside PROVE created
    BY DEF MutexAlive, Inside
  <2>1. on[t] \in InCount
    BY DEF IInv, Typed, InCount, UsedIn
  <2> QED BY <2>1, CountFacts DEF IInv, CreatedRight
<1> QED BY <1>1, Invariance, PTL

\* A thread whose turn it is to exchange finds its session's context open and idle:
\* phNxpEse_Transceive never refuses threads that share a session.
THEOREM NobodyIsRefused == Spec => []NeverRefused
<1>1. IInv => NeverRefused
  <2> SUFFICES ASSUME IInv, NEW t \in Threads, pc[t] = "lock", gSmComlock = NoThread
               PROVE  EseLibStatus[on[t]] \in {"OPEN", "IDLE"}
    BY DEF NeverRefused
  <2>1. life[on[t]] \in {"opening", "open"} /\ on[t] \in Sessions
    BY DEF IInv, Typed, Owned, Inside
  <2>2. ~UsedIn(on[t], {"exchange"})
    BY SmComAssumption DEF IInv, LocksHeld, UsedIn
  <2> QED BY <2>1, <2>2 DEF IInv, Usable
<1> QED BY <1>1, Invariance, PTL

\* Between the critical sections of smCom_Init and smCom_DeInit, the count is that of the
\* open sessions and of the SELECTs that failed, and the mutex exists when it is not 0.
THEOREM CountStaysExact == Spec => []CountIsExact
<1>1. IInv => CountIsExact
  <2> SUFFICES ASSUME IInv, gSmComNoSessions = NoThread
               PROVE  /\ g_no_of_session = Cardinality(Counted) + leaks
                      /\ created <=> g_no_of_session > 0
    BY DEF CountIsExact
  <2>1. \A t \in Threads : pc[t] \notin {"create", "count", "uncount", "destroy"}
    BY SmComAssumption DEF IInv, LocksHeld
  <2>2. Counted = InCount
    BY <2>1 DEF Counted, Users, InCount, UsedIn, Inside
  <2> QED BY <2>1, <2>2 DEF IInv, CountRight, CreatedRight
<1> QED BY <1>1, Invariance, PTL
=============================================================================
