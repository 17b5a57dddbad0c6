------------------------------- MODULE SmCom -------------------------------
(***************************************************************************)
(* Connections over smCom: the two locks and the count of sessions of      *)
(* smCom.c, and the life of a connection from SM_I2CConnect to SM_Close,   *)
(* used by threads that open sessions of their own and share open ones.    *)
(*                                                                         *)
(* gSmComlock serialises the exchanges; it is created by the first session *)
(* and destroyed by the last, under the lock gSmComNoSessions.  A thread   *)
(* opens or closes a session only while no other uses that session.        *)
(*                                                                         *)
(* Build: POSIX threads, T=1 over I2C, connections with a context of their *)
(* own.  What is exchanged is T1oI2C's matter.  The creation of a mutex    *)
(* does not fail: README.md says what the code would do.                   *)
(***************************************************************************)
EXTENDS Integers, FiniteSets

CONSTANTS
    Threads, NoThread, Sessions,
    MaxOpens      \* bound: how often a session is opened

ASSUME SmComAssumption == NoThread \notin Threads /\ MaxOpens \in 0..255

VARIABLES
    gSmComNoSessions,    \* the thread that holds it
    gSmComlock,          \* the thread that holds it
    created,             \* whether gSmComlock is
    g_no_of_session,
    EseLibStatus,        \* of each session's context: CLOSE, OPEN, BUSY or IDLE
    life,                \* what the owner of each session does with it
    pc, on,              \* where each thread is, and on which session
    opens, leaks         \* openings begun, and those that kept their count

smComVars == <<gSmComNoSessions, gSmComlock, created, g_no_of_session>>
connVars  == <<EseLibStatus, life, opens, leaks>>
vars      == <<smComVars, connVars, pc, on>>

-----------------------------------------------------------------------------

Goes(t, from, to) == pc[t] = from /\ pc' = [pc EXCEPT ![t] = to]
Begins(t, s, stage) == Goes(t, "idle", stage) /\ on' = [on EXCEPT ![t] = s]
Users(s) == {t \in Threads : pc[t] # "idle" /\ on[t] = s}
Becomes(s, l) == life' = [life EXCEPT ![s] = l]
Status(s, st) == EseLibStatus' = [EseLibStatus EXCEPT ![s] = st]

\* A thread waits for a lock, or goes on when it is free. Mutant: each opening makes
\* a lock of its own, as the FreeRTOS build does.
TakeNoSessions_New(t) == gSmComNoSessions' = t
TakeNoSessions(t) == gSmComNoSessions = NoThread /\ gSmComNoSessions' = t
GiveNoSessions(t) == gSmComNoSessions' = IF gSmComNoSessions = t THEN NoThread ELSE gSmComNoSessions
LOCK_TXN(t) == gSmComlock = NoThread /\ gSmComlock' = t
UNLOCK_TXN(t) == gSmComlock' = IF gSmComlock = t THEN NoThread ELSE gSmComlock

-----------------------------------------------------------------------------
(* SM_I2CConnect and SM_Connect.                                              *)

\* smComT1oI2C_Init. An opening that gets no device leaves nothing behind.
OpenDevice(t, s) ==
    /\ life[s] = "closed" /\ Users(s) = {} /\ opens < MaxOpens
    /\ opens' = opens + 1
    /\ Begins(t, s, "protocol")
    /\ Status(s, "OPEN") /\ Becomes(s, "opening")
    /\ UNCHANGED <<smComVars, leaks>>

\* phNxpEse_init, outside every lock. When it fails the device is closed.
InitProtocol(t) ==
    /\ Goes(t, "protocol", "init")
    /\ UNCHANGED <<smComVars, connVars, on>>
InitFails(t) ==
    /\ Goes(t, "protocol", "idle")
    /\ Status(on[t], "CLOSE") /\ Becomes(on[t], "closed")
    /\ UNCHANGED <<smComVars, opens, leaks, on>>

\* smCom_Init: the first session creates the mutex; g_no_of_session is a uint8_t.
InitTakesLock(t) ==
    /\ Goes(t, "init", "create")
    /\ TakeNoSessions(t)
    /\ UNCHANGED <<gSmComlock, created, g_no_of_session, connVars, on>>
CreateMutex(t) ==
    /\ Goes(t, "create", "count")
    /\ created' = (created \/ g_no_of_session = 0)
    /\ gSmComlock' = IF g_no_of_session = 0 THEN NoThread ELSE gSmComlock
    /\ UNCHANGED <<gSmComNoSessions, g_no_of_session, connVars, on>>
CountSession(t) ==
    /\ Goes(t, "count", "lock")
    /\ g_no_of_session' = (g_no_of_session + 1) % 256
    /\ GiveNoSessions(t)
    /\ UNCHANGED <<gSmComlock, created, connVars, on>>

-----------------------------------------------------------------------------
(* smCom_TransceiveRaw: SELECT while the session is opened, commands after.   *)

Call(t, s) ==
    /\ life[s] = "open"
    /\ Begins(t, s, "lock")
    /\ UNCHANGED <<smComVars, connVars>>

\* phNxpEse_Transceive refuses a context that is closed or busy.
Exchange(t) ==
    /\ LOCK_TXN(t)
    /\ \/ /\ EseLibStatus[on[t]] \in {"OPEN", "IDLE"}
          /\ Goes(t, "lock", "exchange")
          /\ Status(on[t], "BUSY")
       \/ /\ EseLibStatus[on[t]] \notin {"OPEN", "IDLE"}
          /\ Goes(t, "lock", "unlock")
          /\ UNCHANGED EseLibStatus
    /\ UNCHANGED <<gSmComNoSessions, created, g_no_of_session, life, opens, leaks, on>>

\* Done or failed, the context is idle. Mutant: it stays busy.
Exchanged_StaysBusy(t) ==
    /\ Goes(t, "exchange", "unlock")
    /\ UNCHANGED <<smComVars, connVars, on>>
Exchanged(t) ==
    /\ Goes(t, "exchange", "unlock")
    /\ Status(on[t], IF EseLibStatus[on[t]] = "CLOSE" THEN "CLOSE" ELSE "IDLE")
    /\ UNCHANGED <<smComVars, life, opens, leaks, on>>

Answered(t) ==
    /\ life[on[t]] = "open"
    /\ Goes(t, "unlock", "idle")
    /\ UNLOCK_TXN(t)
    /\ UNCHANGED <<gSmComNoSessions, created, g_no_of_session, connVars, on>>

\* The applet is selected and sss_se05x_session_open succeeds, or goes on to fail,
\* after which it calls SM_Close.
Selected(t) ==
    /\ life[on[t]] = "opening"
    /\ UNLOCK_TXN(t)
    /\ \/ Goes(t, "unlock", "idle") /\ Becomes(on[t], "open")
       \/ Goes(t, "unlock", "end") /\ Becomes(on[t], "closing")
    /\ UNCHANGED <<gSmComNoSessions, created, g_no_of_session, EseLibStatus, opens, leaks, on>>

\* SELECT fails: SM_I2CConnect closes the device and leaves the count as it is.
SelectFails(t) ==
    /\ life[on[t]] = "opening"
    /\ Goes(t, "unlock", "idle")
    /\ UNLOCK_TXN(t)
    /\ Status(on[t], "CLOSE") /\ Becomes(on[t], "closed")
    /\ leaks' = leaks + 1
    /\ UNCHANGED <<gSmComNoSessions, created, g_no_of_session, opens, on>>

-----------------------------------------------------------------------------
(* SM_Close.                                                                  *)

CloseSession(t, s) ==
    /\ life[s] = "open" /\ Users(s) = {}
    /\ Begins(t, s, "end")
    /\ Becomes(s, "closing")
    /\ UNCHANGED <<smComVars, EseLibStatus, opens, leaks>>

\* smComT1oI2C_Close: phNxpEse_EndOfApdu, whatever comes of it, and phNxpEse_close.
CloseDevice(t) ==
    /\ Goes(t, "end", "deinit")
    /\ Status(on[t], "CLOSE")
    /\ UNCHANGED <<smComVars, life, opens, leaks, on>>

\* smCom_DeInit.
DeInitTakesLock(t) ==
    /\ Goes(t, "deinit", "uncount")
    /\ TakeNoSessions(t)
    /\ UNCHANGED <<gSmComlock, created, g_no_of_session, connVars, on>>

OneLess(n) == IF n > 0 THEN n - 1 ELSE 0
UncountSession(t) ==
    /\ Goes(t, "uncount", "destroy")
    /\ g_no_of_session' = OneLess(g_no_of_session)
    /\ UNCHANGED <<gSmComNoSessions, gSmComlock, created, connVars, on>>

\* pthread_mutex_destroy fails on a mutex in use; then gSmComNoSessions is kept.
\* Mutant: the mutex is destroyed by whoever closes.
IsLast_Always == TRUE
IsLast == g_no_of_session = 0
DestroyMutex(t) ==
    LET busy == IsLast /\ gSmComlock # NoThread
    IN  /\ Goes(t, "destroy", "idle")
        /\ created' = (created /\ (busy \/ ~IsLast))
        /\ IF busy THEN UNCHANGED gSmComNoSessions ELSE GiveNoSessions(t)
        /\ Becomes(on[t], "closed")
        /\ UNCHANGED <<gSmComlock, g_no_of_session, EseLibStatus, opens, leaks, on>>

-----------------------------------------------------------------------------
Continues(t) ==
    \/ InitProtocol(t) \/ InitFails(t) \/ InitTakesLock(t) \/ CreateMutex(t)
    \/ CountSession(t) \/ Exchange(t) \/ Exchanged(t) \/ Answered(t) \/ Selected(t) \/ SelectFails(t)
    \/ CloseDevice(t) \/ DeInitTakesLock(t) \/ UncountSession(t) \/ DestroyMutex(t)

Next == \E t \in Threads :
    \/ \E s \in Sessions : OpenDevice(t, s) \/ Call(t, s) \/ CloseSession(t, s)
    \/ Continues(t)

Init ==
    /\ gSmComNoSessions = NoThread /\ gSmComlock = NoThread /\ created = FALSE
    /\ g_no_of_session = 0
    /\ EseLibStatus = [s \in Sessions |-> "CLOSE"] /\ life = [s \in Sessions |-> "closed"]
    /\ pc = [t \in Threads |-> "idle"] /\ on \in [Threads -> Sessions]
    /\ opens = 0 /\ leaks = 0

Spec == Init /\ [][Next]_vars

\* A thread inside smCom that can go on does.
FairSpec == Spec /\ \A t \in Threads : WF_vars(Continues(t))

-----------------------------------------------------------------------------

\* Whoever locks, holds or releases gSmComlock finds the mutex created, however other
\* threads open and close their sessions meanwhile.
MutexAlive ==
    \A t \in Threads : pc[t] \in {"lock", "exchange", "unlock"} => created

\* Threads that share a session never find its context busy or closed: the lock lets
\* one at a time through, and each leaves the context idle.
NeverRefused ==
    \A t \in Threads : pc[t] = "lock" /\ gSmComlock = NoThread =>
        EseLibStatus[on[t]] \in {"OPEN", "IDLE"}

\* While nobody is between the locks of smCom_Init or smCom_DeInit, the count is the
\* number of sessions that were counted, with one more for each SELECT that failed,
\* and the mutex exists when it is not 0.
Counted == {s \in Sessions :
    \/ life[s] = "open"
    \/ \E t \in Users(s) : pc[t] \in {"lock", "exchange", "unlock", "end", "deinit"}}
CountIsExact ==
    gSmComNoSessions = NoThread =>
        /\ g_no_of_session = Cardinality(Counted) + leaks
        /\ created <=> g_no_of_session > 0

\* Each lock is given back: nobody keeps one when an exchange or an opening fails.
LocksGivenBack ==
    /\ \A t \in Threads : gSmComNoSessions = t ~> gSmComNoSessions # t
    /\ \A t \in Threads : gSmComlock = t ~> gSmComlock # t
=============================================================================
