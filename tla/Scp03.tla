------------------------------- MODULE Scp03 -------------------------------
(***************************************************************************)
(* A session whose commands are wrapped by SCP03: sss_se05x_TXn, which     *)
(* encrypts and MACs a command (se05x_Transform_scp), sends it over the    *)
(* link and unwraps the answer (se05x_DeCrypt), called by several threads. *)
(* Host and SE each keep a command counter, from which the ICVs are made,  *)
(* and a MAC chaining value; only the next command compares them.  The     *)
(* link is ApduTransport: a call may fail, or succeed with no byte, and    *)
(* the SE may all the same have executed the command, or do so later.      *)
(*                                                                         *)
(* Abstractions.  A MAC is a token no other input produces: the number of  *)
(* the command it was computed over, 0 for EXTERNAL AUTHENTICATE.  Data    *)
(* decrypts with the ICV it was encrypted with and with no other.  The     *)
(* counters do not wrap.                                                   *)
(*                                                                         *)
(* The SE is external: it keeps to what the host expects of it when all    *)
(* goes well (nxScp03_Com.c:240, 310), which commands it counts included.  *)
(***************************************************************************)
EXTENDS ApduTransport

CONSTANTS
    Threads, NoThread,
    Channels,      \* the channels to choose from, of ChannelTypes
    Lens(_),       \* the lengths of plain command data, by type of the channel
    ThreadSafe,    \* SSS_USE_SCP03_THREAD_SAFETY
    MaxOpens       \* bound: authentications

\* pdynScp03Ctx->authType, and whether the session's own authType is SCP03: the
\* platform channel of older and of newer applets, and two kinds of applet session.
ChannelTypes == {<<"SCP03", TRUE>>, <<"AESKey", TRUE>>, <<"AESKey", FALSE>>, <<"ECKey", FALSE>>}

ASSUME Scp03Assumption ==
    /\ Channels \subseteq ChannelTypes
    /\ \A ch \in ChannelTypes : Lens(ch) \subseteq Nat
    /\ NoThread \notin Threads
    /\ ThreadSafe \in BOOLEAN
    /\ NumCmds \in Nat /\ MaxOpens \in Nat
    /\ \A c \in 1..NumCmds : Answer(c) = <<c>>    \* bytes are told apart by their command

VARIABLES
    channel,             \* chosen when the session is opened
    open, opens,         \* the host has an authenticated session; how many it had
    cCounter, MCV,       \* pdynScp03Ctx
    scp03_lock,          \* the thread that holds it
    pc, tx,              \* where each thread is in sss_se05x_TXn, and its command
    result,              \* what its last call in this session returned
    macs,                \* how many commands were MACed
    flight,              \* the command on the link, until the SE receives it
    reply,               \* the answer of the SE to the last command it executed
    trouble,             \* what went wrong on the link in this session
    uncounted,           \* how many answers the host's own crypto failed to process in it
    seOpen, seCounter, seMCV

hostVars == <<channel, open, opens, cCounter, MCV, scp03_lock, pc, tx, result, macs,
              uncounted>>
linkVars == <<apduVars, flight, reply, trouble>>
seVars   == <<seOpen, seCounter, seMCV>>
vars     == <<hostVars, linkVars, seVars>>

-----------------------------------------------------------------------------
AuthType == channel[1]
Platform == channel[2]

NoCommand == [id |-> 0, len |-> 0, icv |-> 0, prev |-> 0]

\* ok: the status is 9000. data: there is data, encrypted with icv. mac: the
\* chaining value the R-MAC was computed with.
NoAnswer == [id |-> 0, ok |-> FALSE, data |-> FALSE, icv |-> 0, mac |-> 0]

\* What sss_se05x_TXn returned: SM_OK or not, the command whose answer it is made
\* from, and whether the caller's buffer holds plain data.
NoResult == [ok |-> FALSE, id |-> 0, plain |-> TRUE]

Nobody == \A t \in Threads : pc[t] = "idle"

-----------------------------------------------------------------------------
(* Opening and closing: sss_se05x_session_open, never called while somebody   *)
(* uses the session (fsl_sss_api.h:823). It reopens the link.                 *)

SeOpens == seOpen' = TRUE /\ seCounter' = 1 /\ seMCV' = 0

\* nxScp03_AuthenticateChannel and nxECKey_AuthenticateChannel: both sides start
\* with the counter at 1 and the chaining value they have just computed.
OpenSession ==
    /\ ~open /\ Nobody /\ opens < MaxOpens
    /\ open' = TRUE /\ opens' = opens + 1
    /\ channel' \in Channels
    /\ cCounter' = 1 /\ MCV' = 0
    /\ SeOpens
    /\ trouble' = "none" /\ uncounted' = 0 /\ flight' = NoCommand
    /\ result' = [t \in Threads |-> NoResult]
    /\ UNCHANGED <<scp03_lock, pc, tx, macs, apduVars, reply>>

\* When the answer to EXTERNAL AUTHENTICATE is lost the SE has a channel that the
\* host has not.
OpenFails ==
    /\ ~open /\ Nobody /\ opens < MaxOpens
    /\ opens' = opens + 1
    /\ SeOpens \/ UNCHANGED seVars
    /\ flight' = NoCommand
    /\ UNCHANGED <<channel, open, cCounter, MCV, scp03_lock, pc, tx, result, macs, uncounted,
                   apduVars, reply, trouble>>

CloseSession ==
    /\ open /\ Nobody
    /\ open' = FALSE
    /\ UNCHANGED <<channel, opens, cCounter, MCV, scp03_lock, pc, tx, result, macs, uncounted,
                   linkVars, seVars>>

-----------------------------------------------------------------------------
(* sss_se05x_TXn up to the sending.                                           *)

\* There is a lock for the platform channel only; elsewhere the application lets
\* one thread at a time use the session. Mutant: the lock is not taken.
Locks == ThreadSafe /\ Platform
TakeLock_Never(t) == UNCHANGED scp03_lock
TakeLock(t) ==
    \/ Locks /\ scp03_lock = NoThread /\ scp03_lock' = t
    \/ ~Locks /\ Nobody /\ UNCHANGED scp03_lock
GiveLock(t) == scp03_lock' = IF Locks THEN NoThread ELSE scp03_lock

Goes(t, from, to) == pc[t] = from /\ pc' = [pc EXCEPT ![t] = to]

Call(t) ==
    /\ open
    /\ Goes(t, "idle", "encrypt")
    /\ TakeLock(t)
    /\ \E len \in Lens(channel) : tx' = [tx EXCEPT ![t] = [NoCommand EXCEPT !.len = len]]
    /\ result' = [result EXCEPT ![t] = NoResult]
    /\ UNCHANGED <<channel, open, opens, cCounter, MCV, macs, uncounted, linkVars, seVars>>

\* nxSCP03_Encrypt_CommandAPDU: the ICV is the counter, encrypted; without data
\* there is nothing to encrypt.
Encrypt(t) ==
    /\ Goes(t, "encrypt", "mac")
    /\ tx' = [tx EXCEPT ![t].icv = IF tx[t].len > 0 THEN cCounter ELSE 0]
    /\ UNCHANGED <<channel, open, opens, cCounter, MCV, scp03_lock, result, macs, uncounted,
                   linkVars, seVars>>

\* The wrapped command does not fit or the host's crypto fails: nothing is sent and
\* TXn returns. Mutant: the lock is kept.
TransformFails_KeepsLock(t) ==
    /\ Goes(t, "mac", "idle")
    /\ UNCHANGED <<channel, open, opens, cCounter, MCV, scp03_lock, tx, result, macs, uncounted,
                   linkVars, seVars>>
TransformFails(t) ==
    /\ Goes(t, "mac", "idle")
    /\ GiveLock(t)
    /\ UNCHANGED <<channel, open, opens, cCounter, MCV, tx, result, macs, uncounted, linkVars,
                   seVars>>

\* nxpSCP03_CalculateMac_CommandAPDU, which stores the new chaining value at once.
Mac(t) ==
    /\ macs < NumCmds
    /\ Goes(t, "mac", "send")
    /\ macs' = macs + 1
    /\ tx' = [tx EXCEPT ![t].id = macs + 1, ![t].prev = MCV]
    /\ MCV' = macs + 1
    /\ UNCHANGED <<channel, open, opens, cCounter, scp03_lock, result, uncounted, linkVars, seVars>>

-----------------------------------------------------------------------------
(* The link and the SE.                                                       *)

\* smCom_TransceiveRaw: gSmComlock lets one command at a time through.
Send(t) ==
    /\ Goes(t, "send", "wait")
    /\ Issue
    /\ flight' = tx[t]
    /\ UNCHANGED <<channel, open, opens, cCounter, MCV, scp03_lock, tx, result, macs, uncounted,
                   reply, trouble, seVars>>

\* The SE counts every command, but on the older platform channel only those with
\* data; answers to those without are encrypted with the ICV of the last counted.
Counts(len) == AuthType # "SCP03" \/ len > 0
IcvOf(counter, len) == IF Counts(len) THEN counter ELSE counter - 1
Readable == flight.len > 0 => flight.icv = seCounter

SeAccepts ==
    /\ seOpen /\ flight.prev = seMCV
    /\ seMCV' = flight.id
    /\ seCounter' = IF Counts(flight.len) THEN seCounter + 1 ELSE seCounter
    /\ UNCHANGED seOpen
    /\ \E ok, data \in BOOLEAN :
         /\ ok => Readable
         /\ reply' = [id |-> flight.id, ok |-> ok, data |-> data,
                      icv |-> IcvOf(seCounter, flight.len), mac |-> flight.id]

\* A wrong MAC ends the SE's session.
SeRefuses ==
    /\ ~(seOpen /\ flight.prev = seMCV)
    /\ seOpen' = FALSE
    /\ reply' = [NoAnswer EXCEPT !.id = flight.id]
    /\ UNCHANGED <<seCounter, seMCV>>

SeReceives ==
    /\ flight # NoCommand
    /\ Execute
    /\ SeAccepts \/ SeRefuses
    /\ flight' = NoCommand
    /\ UNCHANGED <<hostVars, trouble>>

LinkSucceeds ==
    /\ Succeed
    /\ trouble' = IF outcome' = Bytes(<< >>) THEN "empty" ELSE trouble
    /\ UNCHANGED <<hostVars, flight, reply, seVars>>

LinkFails ==
    /\ Fail
    /\ trouble' = IF trouble = "empty" THEN "empty" ELSE "failed"
    /\ UNCHANGED <<hostVars, flight, reply, seVars>>

-----------------------------------------------------------------------------
(* se05x_DeCrypt and the end of sss_se05x_TXn.                                *)

\* nxpSCP03_Inc_CommandCounter.
IncIf(counts) == cCounter' = IF counts THEN cCounter + 1 ELSE cCounter
\* After a 9000. Mutant: on the older platform channel only.
CountsOnSuccess_Older(len) == AuthType = "SCP03" /\ len > 0
CountsOnSuccess(len) == Counts(len)

\* When the answer is an error. Mutant: never.
CountsOnError_Never(len) == FALSE
CountsOnError(len) == AuthType # "SCP03" \/ len # 8

\* nxpSCP03_RestoreSw_RAPDU finds the padding of what it decrypted.
Plain(t) == reply.data => reply.icv = IcvOf(cCounter, tx[t].len)

DecryptAnswer(t) ==
    LET len == tx[t].len
    IN  \/ \* an error status
           /\ ~reply.ok
           /\ IncIf(CountsOnError(len))
           /\ UNCHANGED <<result, uncounted>>
        \/ \* the host's crypto fails, in the R-MAC, the ICV or the deciphering: SCP_FAIL,
           \* before the command is counted
           /\ reply.ok
           /\ uncounted' = IF Counts(len) THEN uncounted + 1 ELSE uncounted
           /\ UNCHANGED <<cCounter, result>>
        \/ \* RESPONSE MAC DID NOT VERIFY
           /\ reply.ok /\ reply.mac # MCV
           /\ UNCHANGED <<cCounter, result, uncounted>>
        \/ \* where the command counts, padding that cannot be removed is no error
           /\ reply.ok /\ reply.mac = MCV
           /\ IncIf(CountsOnSuccess(len))
           /\ result' = [result EXCEPT ![t] =
                [ok |-> Plain(t) \/ Counts(len), id |-> reply.id, plain |-> Plain(t)]]
           /\ UNCHANGED uncounted

\* No answer. Over the platform channel a failure leaves the caller's zeroed buffer
\* with its length: a status other than 9000. Elsewhere the length is 0, as after a
\* success with no byte, and nothing is counted.
DecryptNothing(t) ==
    /\ IncIf(outcome = Failed /\ Platform /\ CountsOnError(tx[t].len))
    /\ UNCHANGED <<result, uncounted>>

DeCrypt(t) ==
    /\ outcome # NotYet
    /\ Goes(t, "wait", "idle")
    /\ IF outcome \in {Failed, Bytes(<< >>)} THEN DecryptNothing(t) ELSE DecryptAnswer(t)
    /\ EndCall
    /\ GiveLock(t)
    /\ UNCHANGED <<channel, open, opens, MCV, tx, macs, flight, reply, trouble, seVars>>

-----------------------------------------------------------------------------
ThreadStep(t) ==
    Call(t) \/ Encrypt(t) \/ TransformFails(t) \/ Mac(t) \/ Send(t) \/ DeCrypt(t)

Next ==
    \/ OpenSession \/ OpenFails \/ CloseSession
    \/ \E t \in Threads : ThreadStep(t)
    \/ SeReceives \/ LinkSucceeds \/ LinkFails

Init ==
    /\ ApduInit
    /\ channel \in Channels
    /\ open = FALSE /\ opens = 0 /\ cCounter = 1 /\ MCV = 0
    /\ scp03_lock = NoThread
    /\ pc = [t \in Threads |-> "idle"]
    /\ tx = [t \in Threads |-> NoCommand]
    /\ result = [t \in Threads |-> NoResult]
    /\ macs = 0 /\ flight = NoCommand /\ reply = NoAnswer /\ trouble = "none"
    /\ uncounted = 0
    /\ seOpen = FALSE /\ seCounter = 1 /\ seMCV = 0

Spec == Init /\ [][Next]_vars

\* A thread in TXn is scheduled again, and smCom_TransceiveRaw returns (CallsReturn
\* of T1Link): it fails if nothing better happens.
Fairness ==
    /\ \A t \in Threads : WF_vars(ThreadStep(t) /\ pc[t] # "idle")
    /\ WF_vars(LinkFails)
FairSpec == Spec /\ Fairness

-----------------------------------------------------------------------------

\* Over the platform channel a call that fails on the link is made good by counting
\* it all the same (fsl_sss_se05x_apis.c:7827); over a plain link it is not.
Sound == trouble = "none" \/ (trouble = "failed" /\ Platform)

\* If the SE's session is alive and has seen every command of the host's, the host is
\* behind by the answers that its own crypto could not process, and by nothing else:
\* TXn counts a command whose answer is lost, late or an error as the SE does, whichever
\* thread sends it.
InStep ==
    open /\ Nobody /\ seOpen /\ MCV = seMCV /\ Sound => cCounter + uncounted = seCounter

\* A session in which the link never failed is alive and in step on both sides
\* between calls, with all that threads and failing transformations may do.
Kept ==
    open /\ Nobody /\ trouble = "none" => seOpen /\ MCV = seMCV

\* A call that reports success hands over plain data of the answer to its own command,
\* after link failures too. Once an answer went uncounted the host no longer makes the
\* SE's ICVs, and then it does report what it could not decipher as a success.
OwnPlainAnswer ==
    Sound /\ uncounted = 0 =>
        \A t \in Threads : result[t].ok => result[t].id = tx[t].id /\ result[t].plain

\* scp03_lock is always given back, by failing transformations too.
LockReleased == \A t \in Threads : (scp03_lock = t) ~> (scp03_lock = NoThread)
=============================================================================
