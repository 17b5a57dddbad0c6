---------------------------- MODULE Scp03_proofs ----------------------------
(***************************************************************************)
(* Theorems about Scp03, for any number of threads, commands and channels, *)
(* and whatever the link does within ApduTransport: host and SE count      *)
(* alike, an undisturbed session stays alive, and an answer is plain and   *)
(* that of its own command.                                                *)
(***************************************************************************)
EXTENDS Scp03, Integers, SequenceTheorems, TLAPS

-----------------------------------------------------------------------------
(* The inductive invariant. *)

Commands == [id : Nat, len : Nat, icv : Nat, prev : Nat]
Answers  == [id : Nat, ok : BOOLEAN, data : BOOLEAN, icv : Int, mac : Nat]
Results  == [ok : BOOLEAN, id : Nat, plain : BOOLEAN]
Stages   == {"idle", "encrypt", "mac", "send", "wait"}

Typed ==
    /\ channel \in Channels /\ open \in BOOLEAN
    /\ {cCounter, uncounted, MCV, macs, seCounter, seMCV, issued} \subseteq Nat
    /\ pc \in [Threads -> Stages] /\ tx \in [Threads -> Commands]
    /\ result \in [Threads -> Results]
    /\ flight \in Commands /\ reply \in Answers
    /\ trouble \in {"none", "failed", "empty"} /\ seOpen \in BOOLEAN
    /\ executed \in Seq(Nat) /\ pending \in BOOLEAN

\* One thread at a time is in sss_se05x_TXn, while the session is open.
OneInside ==
    /\ \A t, u \in Threads : pc[t] # "idle" /\ pc[u] # "idle" => t = u
    /\ \A t \in Threads : pc[t] # "idle" => open
    /\ \A t \in Threads : scp03_lock = t <=> Locks /\ pc[t] # "idle"

Before == \A t \in Threads : pc[t] \in {"idle", "encrypt", "mac"}

\* The numbers of commands, on their way from the thread to the SE.
Numbered ==
    /\ MCV <= macs /\ seMCV <= issued
    /\ Before => macs = issued /\ (open /\ flight # NoCommand => flight.id = MCV)
    /\ \A t \in Threads :
         /\ pc[t] = "send" => /\ macs = issued + 1 /\ tx[t].id = macs /\ MCV = macs
                              /\ flight # NoCommand => flight.id = tx[t].prev
         /\ pc[t] = "wait" => /\ macs = issued /\ tx[t].id = macs /\ MCV = macs
                              /\ flight \in {tx[t], NoCommand} /\ tx[t] # NoCommand
    /\ flight # NoCommand => flight.id = issued

\* The call on the link, and what its outcome says of the command.
Carried ==
    /\ \A t \in Threads : pc[t] = "wait" => pending
    /\ pending => \E t \in Threads : pc[t] = "wait"
    /\ ~pending => outcome = NotYet
    /\ \A i \in DOMAIN executed : executed[i] <= issued /\ (flight # NoCommand => executed[i] <
         issued)
    /\ outcome = Failed => trouble # "none"
    /\ outcome = Bytes(<< >>) => trouble = "empty"
    /\ outcome \notin {NotYet, Failed, Bytes(<< >>)} => flight = NoCommand

\* Lengths of commands the two sides count alike, also after an error.
Alike(len) == Counts(len) <=> CountsOnError(len)
AllAlike == \A ch \in Channels : \A len \in Lens(ch) : ch[1] = "SCP03" => len > 0 /\ len # 8
LengthsAlike ==
    /\ \A t \in Threads : pc[t] # "idle" => Alike(tx[t].len)
    /\ open /\ flight # NoCommand => Alike(flight.len)

\* What the host counts, and would count if its crypto never failed on an answer.
Reckoned == cCounter + uncounted

\* The SE that has seen all up to `chain` counts as the host does; one that has a late
\* command before it will do so when it has executed that.
AlikeAt(chain) ==
    /\ seOpen /\ seMCV = chain => Reckoned = seCounter
    /\ seOpen /\ flight # NoCommand /\ flight.prev = seMCV =>
         Reckoned = IF Counts(flight.len) THEN seCounter + 1 ELSE seCounter

\* The host counts a command when its call returns, the SE when it executes it.
AlikeInside(t) ==
    /\ seOpen /\ flight # NoCommand /\ flight.prev = seMCV => Reckoned = seCounter
    /\ seOpen /\ seMCV = MCV =>
         seCounter = IF Counts(tx[t].len) THEN Reckoned + 1 ELSE Reckoned

CountedAlike ==
    Sound =>
      /\ open /\ Before => AlikeAt(MCV)
      /\ \A t \in Threads : /\ pc[t] = "send" => AlikeAt(tx[t].prev)
                            /\ pc[t] = "wait" => AlikeInside(t)

\* The answer there is while a call waits for its own.
ReplyRight ==
    \A t \in Threads : pc[t] = "wait" /\ flight = NoCommand =>
        /\ reply.id = tx[t].id
        /\ reply.ok => reply.mac = tx[t].id /\ (Sound => reply.icv = IcvOf(Reckoned, tx[t].len))

ResultsRight ==
    Sound /\ uncounted = 0 =>
      \A t \in Threads : result[t].ok => result[t].id = tx[t].id /\ result[t].plain
ResultsStay == \A t \in Threads : result[t].ok => pc[t] = "idle"

\* A session without trouble goes on: the SE has seen all but what is on its way.
GoesOn ==
    trouble = "none" =>
      /\ open /\ Before => seOpen /\ seMCV = MCV /\ flight = NoCommand
      /\ \A t \in Threads :
           /\ pc[t] = "send" => seOpen /\ seMCV = tx[t].prev /\ flight = NoCommand
           /\ pc[t] = "wait" =>
                seOpen /\ (IF flight = NoCommand THEN seMCV = MCV
                                                ELSE flight = tx[t] /\ seMCV = tx[t].prev)

Basis    == Typed /\ OneInside /\ Numbered /\ Carried
Counting == LengthsAlike /\ CountedAlike /\ ReplyRight /\ ResultsRight /\ ResultsStay

-----------------------------------------------------------------------------
(* The steps. *)

\* The three kinds of outcome differ, and so do the bytes of two of the third kind.
LEMMA Outcomes ==
    /\ NotYet # Failed
    /\ \A a : Bytes(a) # NotYet /\ Bytes(a) # Failed
    /\ \A a, b : Bytes(a) = Bytes(b) => a = b
BY DEF NotYet, Failed, Bytes

LEMMA Nothing ==
    /\ NoCommand \in Commands /\ NoCommand.id = 0 /\ NoCommand.len = 0
    /\ NoAnswer \in Answers /\ NoResult \in Results /\ ~NoResult.ok
BY DEF NoCommand, NoAnswer, NoResult, Commands, Answers, Results

LEMMA InitHolds == Init => Basis /\ Counting /\ GoesOn
<1> SUFFICES ASSUME Init PROVE Basis /\ Counting /\ GoesOn
  OBVIOUS
<1>0. \A u \in Threads : pc[u] = "idle" /\ tx[u] = NoCommand /\ result[u] = NoResult
  BY DEF Init
<1>1. Typed
  <2>1. /\ pc \in [Threads -> Stages] /\ tx \in [Threads -> Commands]
        /\ result \in [Threads -> Results] /\ flight \in Commands /\ reply \in Answers
    BY Nothing DEF Init, Stages
  <2>2. executed \in Seq(Nat) /\ {issued, cCounter, uncounted, MCV, macs, seCounter,
       seMCV} \subseteq Nat
    BY DEF Init, ApduInit
  <2>3. channel \in Channels /\ {open, seOpen, pending} \subseteq BOOLEAN /\ trouble = "none"
    BY DEF Init, ApduInit
  <2> QED BY <2>1, <2>2, <2>3 DEF Typed
<1>2. OneInside
  BY Scp03Assumption DEF Init, OneInside
<1>3. Numbered
  BY <1>0 DEF Init, ApduInit, Numbered
<1>4. Carried
  BY <1>0, Outcomes DEF Init, ApduInit, Carried
<1>5. GoesOn
  BY <1>0 DEF Init, GoesOn
<1>6. LengthsAlike /\ CountedAlike /\ ReplyRight /\ ResultsRight /\ ResultsStay
  BY <1>0, Nothing DEF Init, LengthsAlike, CountedAlike, ReplyRight, ResultsRight, ResultsStay
<1> QED BY <1>1, <1>2, <1>3, <1>4, <1>5, <1>6 DEF Basis, Counting

\* Both sides start anew.
LEMMA OpensSession ==
    ASSUME Basis, OpenSession
    PROVE  Basis' /\ (AllAlike /\ Counting => Counting') /\ (GoesOn => GoesOn')
<1>1. /\ Nobody /\ channel' \in Channels /\ flight' = NoCommand /\ trouble' = "none"
      /\ cCounter' = 1 /\ uncounted' = 0 /\ MCV' = 0 /\ seOpen' = TRUE /\ seCounter' = 1 /\ seMCV' = 0
      /\ open' = TRUE /\ result' = [t \in Threads |-> NoResult]
      /\ UNCHANGED <<scp03_lock, pc, tx, macs, issued, pending, executed, outcome, reply>>
  BY DEF OpenSession, SeOpens, apduVars
<1>2. \A t \in Threads : pc[t] = "idle" /\ scp03_lock # t
  BY <1>1 DEF Nobody, Basis, OneInside
<1>3. Typed'
  BY <1>1, Nothing DEF Basis, Typed
<1>4. OneInside'
  BY <1>1, <1>2 DEF OneInside
<1>5. Numbered'
  <2>1. macs = issued /\ macs \in Nat
    BY <1>2 DEF Basis, Typed, Numbered, Before
  <2> QED BY <1>1, <1>2, <2>1 DEF Numbered, Before
<1>6. Carried'
  <2>1. ~pending /\ outcome = NotYet
    BY <1>2 DEF Basis, Carried
  <2> QED BY <1>1, <1>2, <2>1, Outcomes DEF Basis, Carried
<1>7. Counting'
  BY <1>1, <1>2, Nothing DEF Counting, LengthsAlike, CountedAlike, AlikeAt, Reckoned, ReplyRight,
       ResultsRight, ResultsStay
<1>8. GoesOn'
  BY <1>1, <1>2 DEF GoesOn
<1> QED BY <1>3, <1>4, <1>5, <1>6, <1>7, <1>8 DEF Basis

\* The SE may have started anew; the host has no session.
LEMMA FailsToOpen ==
    ASSUME Basis, OpenFails
    PROVE  Basis' /\ (AllAlike /\ Counting => Counting') /\ (GoesOn => GoesOn')
<1>1. /\ Nobody /\ ~open /\ flight' = NoCommand
      /\ UNCHANGED <<channel, open, uncounted, cCounter, MCV, scp03_lock, pc, tx, result, macs,
                     issued, pending, executed, outcome, reply, trouble>>
  BY DEF OpenFails, apduVars
<1>2. \A t \in Threads : pc[t] = "idle" /\ scp03_lock # t
  BY <1>1 DEF Nobody, Basis, OneInside
<1>3. seOpen' \in BOOLEAN /\ seCounter' \in Nat /\ seMCV' \in Nat /\ (seMCV' = 0 \/ seMCV' = seMCV)
  <2>1. {seCounter, seMCV} \subseteq Nat /\ seOpen \in BOOLEAN
    BY DEF Basis, Typed
  <2>2. CASE SeOpens
    BY <2>2 DEF SeOpens
  <2>3. CASE UNCHANGED seVars
    BY <2>1, <2>3 DEF seVars
  <2> QED BY <2>2, <2>3 DEF OpenFails
<1>4. Typed'
  BY <1>1, <1>3, Nothing DEF Basis, Typed
<1>5. OneInside'
  BY <1>1, <1>2 DEF OneInside
<1>6. Numbered'
  <2>1. issued \in Nat
    BY DEF Basis, Typed
  <2>2. MCV <= macs /\ seMCV' <= issued /\ macs = issued
    BY <1>2, <1>3, <2>1 DEF Basis, Numbered, Before
  <2> QED BY <1>1, <1>2, <2>2 DEF Numbered, Before
<1>7. Carried'
  BY <1>1 DEF Basis, Carried
<1>8. ASSUME Counting PROVE Counting'
  BY <1>1, <1>2, <1>8 DEF Counting, LengthsAlike, CountedAlike, ReplyRight, ResultsRight,
       ResultsStay, Sound, Platform
<1>9. GoesOn'
  BY <1>1, <1>2 DEF GoesOn
<1> QED BY <1>4, <1>5, <1>6, <1>7, <1>8, <1>9 DEF Basis

\* The session is over; the SE does not know.
LEMMA ClosesSession ==
    ASSUME Basis, CloseSession
    PROVE  Basis' /\ (AllAlike /\ Counting => Counting') /\ (GoesOn => GoesOn')
<1>1. /\ Nobody /\ open' = FALSE
      /\ UNCHANGED <<channel, uncounted, cCounter, MCV, scp03_lock, pc, tx, result, macs,
                     issued, pending, executed, outcome, flight, reply, trouble, seOpen,
                          seCounter, seMCV>>
  BY DEF CloseSession, linkVars, apduVars, seVars
<1>2. \A t \in Threads : pc[t] = "idle" /\ scp03_lock # t
  BY <1>1 DEF Nobody, Basis, OneInside
<1>3. Typed' /\ OneInside' /\ Carried'
  BY <1>1, <1>2 DEF Basis, Typed, OneInside, Carried
<1>4. Numbered'
  BY <1>1, <1>2 DEF Basis, Numbered, Before
<1>5. ASSUME Counting PROVE Counting'
  BY <1>1, <1>2, <1>5 DEF Counting, LengthsAlike, CountedAlike, ReplyRight, ResultsRight,
       ResultsStay, Sound, Platform
<1>6. GoesOn'
  BY <1>1, <1>2 DEF GoesOn
<1> QED BY <1>3, <1>4, <1>5, <1>6 DEF Basis

\* While a thread is in sss_se05x_TXn every other is outside.
LEMMA OthersIdle ==
    ASSUME Basis, NEW t \in Threads, pc[t] # "idle"
    PROVE  open /\ \A u \in Threads \ {t} : pc[u] = "idle"
BY DEF Basis, OneInside

\* A thread enters when nobody is inside.
LEMMA Calls ==
    ASSUME Basis, NEW t \in Threads, Call(t)
    PROVE  Basis' /\ (AllAlike /\ Counting => Counting') /\ (GoesOn => GoesOn')
<1>1. PICK len \in Lens(channel) :
        /\ tx' = [tx EXCEPT ![t] = [NoCommand EXCEPT !.len = len]]
        /\ result' = [result EXCEPT ![t] = NoResult]
  BY DEF Call
<1>2. /\ open /\ pc[t] = "idle" /\ pc' = [pc EXCEPT ![t] = "encrypt"] /\ TakeLock(t)
      /\ UNCHANGED <<channel, open, uncounted, cCounter, MCV, macs, issued, pending, executed,
                     outcome, flight, reply, trouble, seOpen, seCounter, seMCV>>
  BY DEF Call, Goes, linkVars, apduVars, seVars
<1>3. [NoCommand EXCEPT !.len = len] \in Commands /\ [NoCommand EXCEPT !.len = len].len = len
  <2>1. len \in Nat
    BY <1>1, Scp03Assumption DEF Basis, Typed
  <2> QED BY <2>1 DEF NoCommand, Commands
<1>4. \A u \in Threads : pc[u] = "idle"
  BY <1>2, Scp03Assumption DEF TakeLock, Nobody, Basis, OneInside
<1>5. pc'[t] = "encrypt" /\ \A u \in Threads \ {t} : pc'[u] = "idle"
  BY <1>2, <1>4 DEF Basis, Typed
<1>6. /\ tx'[t].len = len /\ ~result'[t].ok
      /\ \A u \in Threads \ {t} : tx'[u] = tx[u] /\ result'[u] = result[u]
  BY <1>1, <1>3, Nothing DEF Basis, Typed
<1>7. Typed'
  <2>1. pc' \in [Threads -> Stages]
    BY <1>2 DEF Basis, Typed, Stages
  <2>2. tx' \in [Threads -> Commands] /\ result' \in [Threads -> Results]
    BY <1>1, <1>3, Nothing DEF Basis, Typed
  <2> QED BY <1>2, <2>1, <2>2 DEF Basis, Typed
<1>8. OneInside'
  BY <1>2, <1>4, <1>5, Scp03Assumption DEF TakeLock, Locks, Platform, Basis, OneInside
<1>9. Numbered'
  BY <1>2, <1>4, <1>5 DEF Basis, Numbered, Before
<1>10. Carried'
  BY <1>2, <1>4, <1>5 DEF Basis, Carried
<1>11. ASSUME AllAlike, Counting PROVE Counting'
  <2>1. LengthsAlike'
    <3>1. \A u \in Threads : pc'[u] # "idle" => u = t
      BY <1>5
    <3>2. AuthType # "SCP03" \/ (len > 0 /\ len # 8)
      BY <1>1, <1>11 DEF AllAlike, AuthType, Basis, Typed
    <3>3. Alike(tx[t].len)'
      BY <1>2, <1>6, <3>2 DEF Alike, Counts, CountsOnError, AuthType
    <3>4. open /\ flight # NoCommand => Alike(flight.len)'
      BY <1>2, <1>11 DEF Counting, LengthsAlike, Alike, Counts, CountsOnError, AuthType
    <3> QED BY <1>2, <3>1, <3>3, <3>4 DEF LengthsAlike
  <2>2. CountedAlike'
    BY <1>2, <1>4, <1>5, <1>11 DEF Counting, CountedAlike, Before, AlikeAt, Reckoned, Sound,
         Platform, Counts, AuthType
  <2>3. ReplyRight' /\ ResultsStay'
    BY <1>4, <1>5, <1>6, <1>11 DEF Counting, ReplyRight, ResultsStay
  <2>4. ResultsRight'
    BY <1>2, <1>6, <1>11 DEF Counting, ResultsRight, Sound, Platform
  <2> QED BY <2>1, <2>2, <2>3, <2>4 DEF Counting
<1>12. ASSUME GoesOn PROVE GoesOn'
  BY <1>2, <1>4, <1>5, <1>12 DEF GoesOn, Before
<1> QED BY <1>7, <1>8, <1>9, <1>10, <1>11, <1>12 DEF Basis

\* The ICV is computed; nobody else sees it.
LEMMA Encrypts ==
    ASSUME Basis, NEW t \in Threads, Encrypt(t)
    PROVE  Basis' /\ (AllAlike /\ Counting => Counting') /\ (GoesOn => GoesOn')
<1>1. /\ pc[t] = "encrypt" /\ pc' = [pc EXCEPT ![t] = "mac"]
      /\ tx' = [tx EXCEPT ![t].icv = IF tx[t].len > 0 THEN cCounter ELSE 0]
      /\ UNCHANGED <<channel, open, uncounted, cCounter, MCV, scp03_lock, result, macs, issued,
                     pending, executed, outcome, flight, reply, trouble, seOpen, seCounter,
                          seMCV>>
  BY DEF Encrypt, Goes, linkVars, apduVars, seVars
<1>2. pc'[t] = "mac" /\ \A u \in Threads \ {t} : pc[u] = "idle" /\ pc'[u] = "idle"
  BY <1>1, OthersIdle DEF Basis, Typed
<1>3. /\ tx' \in [Threads -> Commands] /\ tx'[t].len = tx[t].len /\ tx'[t].id = tx[t].id
      /\ \A u \in Threads \ {t} : tx'[u] = tx[u]
  <2>1. tx[t] \in Commands /\ (IF tx[t].len > 0 THEN cCounter ELSE 0) \in Nat
    BY DEF Basis, Typed
  <2>2. ASSUME NEW icv \in Nat
        PROVE  /\ [tx[t] EXCEPT !.icv = icv] \in Commands
               /\ [tx[t] EXCEPT !.icv = icv].len = tx[t].len
               /\ [tx[t] EXCEPT !.icv = icv].id = tx[t].id
    BY <2>1 DEF Commands
  <2> QED BY <1>1, <2>1, <2>2 DEF Basis, Typed
<1>4. Typed' /\ OneInside'
  BY <1>1, <1>2, <1>3 DEF Basis, Typed, Stages, OneInside, Locks, Platform
<1>5. Numbered' /\ Carried'
  BY <1>1, <1>2 DEF Basis, Numbered, Before, Carried
<1>6. ASSUME Counting PROVE Counting'
  <2>1. LengthsAlike'
    BY <1>1, <1>2, <1>3, <1>6 DEF Counting, LengthsAlike, Alike, Counts, CountsOnError, AuthType
  <2>2. CountedAlike' /\ ReplyRight' /\ ResultsStay'
    BY <1>1, <1>2, <1>6 DEF Counting, CountedAlike, Before, AlikeAt, Reckoned, Sound, Platform,
         Counts, AuthType, ReplyRight, ResultsStay
  <2>3. ResultsRight'
    BY <1>1, <1>3, <1>6 DEF Counting, ResultsRight, Sound, Platform
  <2> QED BY <2>1, <2>2, <2>3 DEF Counting
<1>7. ASSUME GoesOn PROVE GoesOn'
  BY <1>1, <1>2, <1>7 DEF GoesOn, Before
<1> QED BY <1>4, <1>5, <1>6, <1>7 DEF Basis

\* Nothing is sent, and the thread leaves.
LEMMA FailsToTransform ==
    ASSUME Basis, NEW t \in Threads, TransformFails(t)
    PROVE  Basis' /\ (AllAlike /\ Counting => Counting') /\ (GoesOn => GoesOn')
<1>1. /\ pc[t] = "mac" /\ pc' = [pc EXCEPT ![t] = "idle"] /\ GiveLock(t)
      /\ UNCHANGED <<channel, open, uncounted, cCounter, MCV, tx, result, macs, issued, pending,
                     executed, outcome, flight, reply, trouble, seOpen, seCounter, seMCV>>
  BY DEF TransformFails, Goes, linkVars, apduVars, seVars
<1>2. pc'[t] = "idle" /\ \A u \in Threads \ {t} : pc[u] = "idle" /\ pc'[u] = "idle"
  BY <1>1, OthersIdle DEF Basis, Typed
<1>3. Typed'
  BY <1>1, <1>2 DEF Basis, Typed, Stages
<1>4. OneInside'
  BY <1>1, <1>2, Scp03Assumption DEF GiveLock, Basis, OneInside, Locks, Platform
<1>5. Numbered' /\ Carried'
  BY <1>1, <1>2 DEF Basis, Numbered, Before, Carried
<1>6. ASSUME Counting PROVE Counting'
  BY <1>1, <1>2, <1>6 DEF Counting, LengthsAlike, Alike, Counts, CountsOnError, AuthType,
       CountedAlike, Before, AlikeAt, Reckoned, Sound, Platform, ReplyRight, ResultsStay,
            ResultsRight
<1>7. ASSUME GoesOn PROVE GoesOn'
  BY <1>1, <1>2, <1>7 DEF GoesOn, Before
<1> QED BY <1>3, <1>4, <1>5, <1>6, <1>7 DEF Basis

\* The command gets its number and is chained to the last.
LEMMA Macs ==
    ASSUME Basis, NEW t \in Threads, Mac(t)
    PROVE  Basis' /\ (AllAlike /\ Counting => Counting') /\ (GoesOn => GoesOn')
<1>1. /\ pc[t] = "mac" /\ pc' = [pc EXCEPT ![t] = "send"]
      /\ macs' = macs + 1 /\ MCV' = macs + 1
      /\ tx' = [tx EXCEPT ![t].id = macs + 1, ![t].prev = MCV]
      /\ UNCHANGED <<channel, open, uncounted, cCounter, scp03_lock, result, issued, pending,
                     executed, outcome, flight, reply, trouble, seOpen, seCounter, seMCV>>
  BY DEF Mac, Goes, linkVars, apduVars, seVars
<1>2. /\ pc'[t] = "send" /\ open
      /\ \A u \in Threads \ {t} : pc[u] = "idle" /\ pc'[u] = "idle"
  BY <1>1, OthersIdle DEF Basis, Typed
<1>3. /\ tx' \in [Threads -> Commands]
      /\ tx'[t].len = tx[t].len /\ tx'[t].id = macs + 1 /\ tx'[t].prev = MCV
      /\ \A u \in Threads \ {t} : tx'[u] = tx[u]
  <2>1. tx[t] \in Commands /\ macs + 1 \in Nat /\ MCV \in Nat
    BY DEF Basis, Typed
  <2>2. tx' = [tx EXCEPT ![t] = [tx[t] EXCEPT !.id = macs + 1, !.prev = MCV]]
    BY <1>1 DEF Basis, Typed, Commands
  <2>3. /\ [tx[t] EXCEPT !.id = macs + 1, !.prev = MCV] \in Commands
        /\ [tx[t] EXCEPT !.id = macs + 1, !.prev = MCV].len = tx[t].len
        /\ [tx[t] EXCEPT !.id = macs + 1, !.prev = MCV].id = macs + 1
        /\ [tx[t] EXCEPT !.id = macs + 1, !.prev = MCV].prev = MCV
    BY <2>1 DEF Commands
  <2> QED BY <2>2, <2>3 DEF Basis, Typed
<1>4. Before /\ macs = issued /\ MCV <= macs /\ (flight # NoCommand => flight.id = MCV)
  <2>1. Before
    BY <1>1, <1>2 DEF Before
  <2> QED BY <1>2, <2>1 DEF Basis, Numbered
<1>5. Typed' /\ OneInside'
  BY <1>1, <1>2, <1>3 DEF Basis, Typed, Stages, OneInside, Locks, Platform
<1>6. Numbered'
  BY <1>1, <1>2, <1>3, <1>4 DEF Basis, Typed, Numbered, Before
<1>7. Carried'
  BY <1>1, <1>2 DEF Basis, Carried
<1>8. ASSUME Counting PROVE Counting'
  <2>1. LengthsAlike'
    BY <1>1, <1>2, <1>3, <1>8 DEF Counting, LengthsAlike, Alike, Counts, CountsOnError, AuthType
  <2>2. CountedAlike'
    <3>1. Sound => AlikeAt(MCV)
      BY <1>2, <1>4, <1>8 DEF Counting, CountedAlike
    <3>2. Sound' => AlikeAt(tx[t].prev)'
      BY <1>1, <1>3, <3>1 DEF AlikeAt, Reckoned, Sound, Platform, Counts, AuthType
    <3> QED BY <1>2, <3>2 DEF CountedAlike, Before
  <2>3. ReplyRight' /\ ResultsStay'
    BY <1>1, <1>2, <1>8 DEF Counting, ReplyRight, ResultsStay
  <2>4. ResultsRight'
    BY <1>1, <1>3, <1>8 DEF Counting, ResultsStay, ResultsRight, Sound, Platform
  <2> QED BY <2>1, <2>2, <2>3, <2>4 DEF Counting
<1>9. ASSUME GoesOn PROVE GoesOn'
  BY <1>1, <1>2, <1>3, <1>4, <1>9 DEF GoesOn, Before
<1> QED BY <1>5, <1>6, <1>7, <1>8, <1>9 DEF Basis

\* The command takes the place of one that is late.
LEMMA Sends ==
    ASSUME Basis, NEW t \in Threads, Send(t)
    PROVE  Basis' /\ (AllAlike /\ Counting => Counting') /\ (GoesOn => GoesOn')
<1>1. /\ pc[t] = "send" /\ pc' = [pc EXCEPT ![t] = "wait"]
      /\ ~pending /\ pending' = TRUE /\ issued' = issued + 1 /\ flight' = tx[t]
      /\ UNCHANGED <<channel, open, uncounted, cCounter, MCV, scp03_lock, tx, result, macs,
                     executed, outcome, reply, trouble, seOpen, seCounter, seMCV>>
  BY DEF Send, Issue, Goes, seVars
<1>2. /\ pc'[t] = "wait" /\ open
      /\ \A u \in Threads \ {t} : pc[u] = "idle" /\ pc'[u] = "idle"
  BY <1>1, OthersIdle DEF Basis, Typed
<1>3. tx[t].id = macs /\ MCV = macs /\ macs = issued + 1 /\ seMCV <= issued
  BY <1>1 DEF Basis, Numbered
<1>4. {issued, macs, seMCV, MCV} \subseteq Nat /\ tx[t] # NoCommand
  BY <1>3, Nothing DEF Basis, Typed
<1>5. Typed'
  <2>1. flight' \in Commands /\ issued' \in Nat /\ pending' \in BOOLEAN
    BY <1>1 DEF Basis, Typed
  <2> QED BY <1>1, <1>2, <2>1 DEF Basis, Typed, Stages
<1>6. OneInside'
  BY <1>1, <1>2 DEF Basis, OneInside, Locks, Platform
<1>7. Numbered'
  <2>1. /\ MCV' <= macs' /\ seMCV' <= issued' /\ ~Before'
        /\ flight' # NoCommand => flight'.id = issued'
    BY <1>1, <1>2, <1>3, <1>4 DEF Before
  <2> QED BY <1>1, <1>2, <1>3, <1>4, <2>1 DEF Numbered
<1>8. Carried'
  <2>1. outcome = NotYet /\ \A i \in DOMAIN executed : executed[i] <= issued
    BY <1>1 DEF Basis, Carried
  <2>2. \A i \in DOMAIN executed : executed[i] \in Nat
    BY ElementOfSeq, LenProperties DEF Basis, Typed
  <2>3. \A i \in DOMAIN executed' : executed'[i] < issued' /\ executed'[i] <= issued'
    BY <1>1, <1>4, <2>1, <2>2
  <2> QED BY <1>1, <1>2, <2>1, <2>3, Outcomes DEF Carried
<1>9. ASSUME Counting PROVE Counting'
  <2>1. LengthsAlike'
    BY <1>1, <1>2, <1>9 DEF Counting, LengthsAlike, Alike, Counts, CountsOnError, AuthType
  <2>2. CountedAlike'
    <3>1. Sound => AlikeAt(tx[t].prev)
      BY <1>1, <1>9 DEF Counting, CountedAlike
    <3>2. seMCV # MCV
      BY <1>3, <1>4
    <3>3. Sound' => AlikeInside(t)'
      BY <1>1, <3>1, <3>2 DEF AlikeAt, AlikeInside, Reckoned, Sound, Platform
    <3> QED BY <1>2, <3>3 DEF CountedAlike, Before
  <2>3. ReplyRight'
    BY <1>1, <1>2, <1>4 DEF ReplyRight
  <2>4. ResultsStay' /\ ResultsRight'
    BY <1>1, <1>2, <1>9 DEF Counting, ResultsStay, ResultsRight, Sound, Platform
  <2> QED BY <2>1, <2>2, <2>3, <2>4 DEF Counting
<1>10. ASSUME GoesOn PROVE GoesOn'
  BY <1>1, <1>2, <1>4, <1>10 DEF GoesOn, Before
<1> QED BY <1>5, <1>6, <1>7, <1>8, <1>9, <1>10 DEF Basis

\* The SE executes the command on the link, which may be late.
LEMMA Receives ==
    ASSUME Basis, SeReceives
    PROVE  Basis' /\ (AllAlike /\ Counting => Counting') /\ (GoesOn => GoesOn')
<1>1. /\ flight # NoCommand /\ flight' = NoCommand
      /\ executed' = Append(executed, issued)
      /\ UNCHANGED <<channel, open, uncounted, cCounter, MCV, scp03_lock, pc, tx, result, macs,
                     issued, pending, outcome, trouble>>
  BY DEF SeReceives, Execute, hostVars
<1>2. \/ /\ seOpen /\ seOpen' = seOpen /\ flight.prev = seMCV /\ seMCV' = flight.id
         /\ seCounter' = IF Counts(flight.len) THEN seCounter + 1 ELSE seCounter
         /\ \E ok, data \in BOOLEAN :
              reply' = [id |-> flight.id, ok |-> ok, data |-> data,
                        icv |-> IcvOf(seCounter, flight.len), mac |-> flight.id]
      \/ /\ ~(seOpen /\ flight.prev = seMCV)
         /\ seOpen' = FALSE /\ UNCHANGED <<seCounter, seMCV>>
         /\ reply' = [NoAnswer EXCEPT !.id = flight.id]
  BY DEF SeReceives, SeAccepts, SeRefuses
<1>3. flight \in Commands /\ flight.id = issued /\ {issued, seMCV, seCounter} \subseteq Nat
  BY <1>1 DEF Basis, Typed, Numbered
<1>4. /\ reply' \in Answers /\ reply'.id = flight.id
      /\ reply'.ok => /\ seOpen /\ flight.prev = seMCV
                      /\ reply'.mac = flight.id /\ reply'.icv = IcvOf(seCounter, flight.len)
  <2>1. IcvOf(seCounter, flight.len) \in Int /\ flight.id \in Nat
    BY <1>3 DEF IcvOf, Commands
  <2>2. ASSUME NEW ok \in BOOLEAN, NEW data \in BOOLEAN, NEW icv \in Int, NEW id \in Nat,
               reply' = [id |-> id, ok |-> ok, data |-> data, icv |-> icv, mac |-> id]
        PROVE  reply' \in Answers /\ reply'.id = id /\ reply'.mac = id /\ reply'.icv = icv
    BY <2>2 DEF Answers
  <2>3. ASSUME reply' = [NoAnswer EXCEPT !.id = flight.id]
        PROVE  reply' \in Answers /\ reply'.id = flight.id /\ ~reply'.ok
    <3>1. reply' = [id |-> flight.id, ok |-> FALSE, data |-> FALSE, icv |-> 0, mac |-> 0]
      BY <2>3 DEF NoAnswer
    <3> QED BY <2>1, <3>1 DEF Answers
  <2> QED BY <1>2, <2>1, <2>2, <2>3
<1>5. \A t \in Threads : pc[t] = "wait" => flight = tx[t] /\ tx[t].id = MCV
  BY <1>1 DEF Basis, Numbered
<1>6. Typed'
  <2>1. executed' \in Seq(Nat)
    BY <1>1, <1>3, AppendProperties DEF Basis, Typed
  <2>2. flight.id \in Nat /\ seCounter + 1 \in Nat
    BY <1>3 DEF Commands
  <2>3. seMCV' \in Nat /\ seCounter' \in Nat
    BY <1>2, <1>3, <2>2
  <2>4. seOpen' \in BOOLEAN
    BY <1>2 DEF Basis, Typed
  <2> QED BY <1>1, <1>4, <2>1, <2>3, <2>4, Nothing DEF Basis, Typed
<1>7. OneInside'
  BY <1>1 DEF Basis, OneInside, Locks, Platform
<1>8. Numbered'
  <2>1. seMCV' <= issued
    BY <1>2, <1>3 DEF Basis, Numbered
  <2>2. \A t \in Threads : pc[t] = "wait" => tx[t] # NoCommand
    BY DEF Basis, Numbered
  <2> QED BY <1>1, <2>1, <2>2 DEF Basis, Numbered, Before
<1>9. Carried'
  <2>1. \A i \in DOMAIN executed' : executed'[i] <= issued
    <3>1. executed \in Seq(Nat) /\ \A i \in DOMAIN executed : executed[i] <= issued
      BY DEF Basis, Typed, Carried
    <3> QED BY <1>1, <1>3, <3>1, AppendProperties, LenProperties
  <2> QED BY <1>1, <2>1 DEF Basis, Carried
<1>10. ASSUME Counting PROVE Counting'
  <2>1. LengthsAlike' /\ ResultsStay' /\ ResultsRight'
    BY <1>1, <1>10 DEF Counting, LengthsAlike, Alike, Counts, CountsOnError, AuthType,
         ResultsStay, ResultsRight, Sound, Platform
  <2>2. CountedAlike'
    <3>1. ASSUME NEW chain, AlikeAt(chain), seOpen'
          PROVE  seMCV' = chain => Reckoned = seCounter'
      BY <1>1, <1>2, <3>1 DEF AlikeAt
    <3>2. \A chain : AlikeAt(chain) => (seOpen' /\ seMCV' = chain => Reckoned' = seCounter')
      BY <1>1, <3>1 DEF Reckoned
    <3>3. Sound' = Sound /\ Before' = Before
      BY <1>1 DEF Sound, Platform, Before
    <3>4. open /\ Before /\ Sound => AlikeAt(MCV)'
      BY <1>1, <1>10, <3>2 DEF Counting, CountedAlike, AlikeAt, Reckoned
    <3>5. ASSUME NEW t \in Threads, pc[t] = "send", Sound PROVE AlikeAt(tx[t].prev)'
      BY <1>1, <1>10, <3>2, <3>5 DEF Counting, CountedAlike, AlikeAt, Reckoned
    <3>6. ASSUME NEW t \in Threads, pc[t] = "wait", Sound PROVE AlikeInside(t)'
      <4>1. AlikeInside(t)
        BY <1>10, <3>6 DEF Counting, CountedAlike
      <4> QED BY <1>1, <1>2, <1>5, <3>6, <4>1 DEF AlikeInside, Reckoned, Counts, AuthType
    <3> QED BY <1>1, <3>3, <3>4, <3>5, <3>6 DEF CountedAlike
  <2>3. ReplyRight'
    <3> SUFFICES ASSUME NEW t \in Threads, pc[t] = "wait"
                 PROVE  /\ reply'.id = tx[t].id
                        /\ reply'.ok => /\ reply'.mac = tx[t].id
                                        /\ Sound => reply'.icv = IcvOf(Reckoned, tx[t].len)
      BY <1>1 DEF ReplyRight, Sound, Platform, IcvOf, Reckoned, Counts, AuthType
    <3>1. Sound => AlikeInside(t)
      BY <1>10 DEF Counting, CountedAlike
    <3> QED BY <1>1, <1>4, <1>5, <3>1 DEF AlikeInside
  <2> QED BY <2>1, <2>2, <2>3 DEF Counting
<1>11. ASSUME GoesOn PROVE GoesOn'
  <2> SUFFICES ASSUME trouble = "none" PROVE GoesOn'
    BY <1>1 DEF GoesOn
  <2>1. ~(open /\ Before) /\ \A t \in Threads : pc[t] # "send"
    BY <1>1, <1>11 DEF GoesOn
  <2>2. ASSUME NEW t \in Threads, pc[t] = "wait" PROVE seOpen' /\ seMCV' = MCV
    BY <1>1, <1>2, <1>5, <1>11, <2>2 DEF GoesOn
  <2> QED BY <1>1, <2>1, <2>2 DEF GoesOn, Before
<1> QED BY <1>6, <1>7, <1>8, <1>9, <1>10, <1>11 DEF Basis

\* The call on the link has an answer, which may be empty.
LEMMA Succeeds ==
    ASSUME Basis, LinkSucceeds
    PROVE  Basis' /\ (AllAlike /\ Counting => Counting') /\ (GoesOn => GoesOn')
<1>1. /\ pending /\ outcome = NotYet
      /\ trouble' = IF outcome' = Bytes(<< >>) THEN "empty" ELSE trouble
      /\ UNCHANGED <<channel, open, uncounted, cCounter, MCV, scp03_lock, pc, tx, result, macs,
                     issued, pending, executed, flight, reply, seOpen, seCounter, seMCV>>
  BY DEF LinkSucceeds, Succeed, hostVars, seVars
<1>2. PICK ans : /\ outcome' = Bytes(ans)
                 /\ ans # << >> => \E i \in DOMAIN executed : executed[i] = issued
  BY DEF LinkSucceeds, Succeed
<1>3. Typed' /\ OneInside' /\ Numbered'
  BY <1>1 DEF Basis, Typed, OneInside, Numbered, Before, Locks, Platform
<1>4. Carried'
  <2>1. outcome' # Failed /\ (outcome' = Bytes(<< >>) => trouble' = "empty")
    BY <1>1, <1>2, Outcomes
  <2>2. flight # NoCommand => outcome' = Bytes(<< >>)
    <3>1. issued \in Nat
      BY DEF Basis, Typed
    <3>2. flight # NoCommand => \A i \in DOMAIN executed : executed[i] < issued
      BY DEF Basis, Carried
    <3> QED BY <1>2, <3>1, <3>2
  <2>3. /\ \A t \in Threads : pc'[t] = "wait" => pending'
        /\ pending' => \E t \in Threads : pc'[t] = "wait"
        /\ \A i \in DOMAIN executed' :
             executed'[i] <= issued' /\ (flight' # NoCommand => executed'[i] < issued')
    BY <1>1 DEF Basis, Carried
  <2> QED BY <1>1, <2>1, <2>2, <2>3 DEF Carried
<1>5. Sound' => Sound
  BY <1>1 DEF Sound, Platform
<1>6. ASSUME Counting PROVE Counting'
  BY <1>1, <1>5, <1>6 DEF Counting, LengthsAlike, Alike, Counts, CountsOnError, AuthType,
       CountedAlike, Before, AlikeAt, AlikeInside, Reckoned, ReplyRight, IcvOf, Reckoned,
            ResultsStay, ResultsRight
<1>7. ASSUME GoesOn PROVE GoesOn'
  BY <1>1, <1>7 DEF GoesOn, Before
<1> QED BY <1>3, <1>4, <1>6, <1>7 DEF Basis

\* The call on the link fails.
LEMMA Fails ==
    ASSUME Basis, LinkFails
    PROVE  Basis' /\ (AllAlike /\ Counting => Counting') /\ (GoesOn => GoesOn')
<1>1. /\ pending /\ outcome' = Failed
      /\ trouble' = IF trouble = "empty" THEN "empty" ELSE "failed"
      /\ UNCHANGED <<channel, open, uncounted, cCounter, MCV, scp03_lock, pc, tx, result, macs,
                     issued, pending, executed, flight, reply, seOpen, seCounter, seMCV>>
  BY DEF LinkFails, Fail, hostVars, seVars
<1>2. Typed' /\ OneInside' /\ Numbered'
  BY <1>1 DEF Basis, Typed, OneInside, Numbered, Before, Locks, Platform
<1>3. Carried'
  BY <1>1, Outcomes DEF Basis, Carried
<1>4. Sound' => Sound
  BY <1>1 DEF Sound, Platform, Basis, Typed
<1>5. ASSUME Counting PROVE Counting'
  BY <1>1, <1>4, <1>5 DEF Counting, LengthsAlike, Alike, Counts, CountsOnError, AuthType,
       CountedAlike, Before, AlikeAt, AlikeInside, Reckoned, ReplyRight, IcvOf, Reckoned,
            ResultsStay, ResultsRight
<1>6. ASSUME GoesOn PROVE GoesOn'
  BY <1>1 DEF GoesOn
<1> QED BY <1>2, <1>3, <1>5, <1>6 DEF Basis

\* The call returns, and the host counts the command or not.
LEMMA Decrypts ==
    ASSUME Basis, NEW t \in Threads, DeCrypt(t)
    PROVE  Basis' /\ (AllAlike /\ Counting => Counting') /\ (GoesOn => GoesOn')
<1>1. /\ pc[t] = "wait" /\ pc' = [pc EXCEPT ![t] = "idle"] /\ GiveLock(t)
      /\ outcome # NotYet /\ outcome' = NotYet /\ pending' = FALSE
      /\ IF outcome \in {Failed, Bytes(<< >>)} THEN DecryptNothing(t) ELSE DecryptAnswer(t)
      /\ UNCHANGED <<channel, open, MCV, tx, macs, issued, executed, flight, reply, trouble,
                     seOpen, seCounter, seMCV>>
  BY DEF DeCrypt, EndCall, Goes, seVars
<1>2. /\ pc'[t] = "idle" /\ open
      /\ \A u \in Threads \ {t} : pc[u] = "idle" /\ pc'[u] = "idle"
  BY <1>1, OthersIdle DEF Basis, Typed
<1>3. /\ MCV = macs /\ macs = issued /\ tx[t].id = macs /\ flight \in {tx[t], NoCommand}
      /\ flight # NoCommand => flight.id = issued
  BY <1>1 DEF Basis, Numbered
<1>4. outcome \notin {Failed, Bytes(<< >>)} => flight = NoCommand
  BY <1>1 DEF Basis, Carried
<1>5. /\ cCounter' = cCounter \/ cCounter' = cCounter + 1
      /\ uncounted' = uncounted \/ uncounted' = uncounted + 1
  BY <1>1 DEF DecryptNothing, DecryptAnswer, IncIf
<1>6. \/ result' = result
      \/ /\ outcome \notin {Failed, Bytes(<< >>)} /\ reply.ok /\ uncounted' = uncounted
         /\ result' = [result EXCEPT ![t] =
              [ok |-> Plain(t) \/ Counts(tx[t].len), id |-> reply.id, plain |-> Plain(t)]]
  BY <1>1 DEF DecryptNothing, DecryptAnswer
<1>7. Typed'
  <2>1. cCounter' \in Nat /\ uncounted' \in Nat
    BY <1>5 DEF Basis, Typed
  <2>2. result' \in [Threads -> Results]
    <3>1. reply.id \in Nat /\ Plain(t) \in BOOLEAN /\ (Plain(t) \/ Counts(tx[t].len)) \in BOOLEAN
      BY DEF Basis, Typed, Answers, Plain
    <3>2. [ok |-> Plain(t) \/ Counts(tx[t].len), id |-> reply.id, plain |-> Plain(t)] \in Results
      BY <3>1, Zenon DEF Results
    <3> QED BY <1>6, <3>2 DEF Basis, Typed
  <2> QED BY <1>1, <2>1, <2>2 DEF Basis, Typed, Stages
<1>8. OneInside'
  BY <1>1, <1>2, Scp03Assumption DEF GiveLock, Basis, OneInside, Locks, Platform
<1>9. Numbered'
  BY <1>1, <1>2, <1>3 DEF Basis, Numbered, Before
<1>10. Carried'
  BY <1>1, <1>2, Outcomes DEF Basis, Carried
<1>11. ASSUME Counting PROVE Counting'
  <2>1. LengthsAlike' /\ ReplyRight'
    BY <1>1, <1>2, <1>11 DEF Counting, LengthsAlike, Alike, Counts, CountsOnError, AuthType,
         ReplyRight
  <2>2. Sound' = Sound
    BY <1>1 DEF Sound, Platform
  <2>3. Sound =>
          IF Counts(tx[t].len)
            THEN \/ cCounter' = cCounter + 1 /\ uncounted' = uncounted
                 \/ cCounter' = cCounter /\ uncounted' = uncounted + 1
            ELSE cCounter' = cCounter /\ uncounted' = uncounted
    <3> SUFFICES ASSUME Sound
                 PROVE  IF Counts(tx[t].len)
                          THEN \/ cCounter' = cCounter + 1 /\ uncounted' = uncounted
                               \/ cCounter' = cCounter /\ uncounted' = uncounted + 1
                          ELSE cCounter' = cCounter /\ uncounted' = uncounted
      OBVIOUS
    <3>1. Counts(tx[t].len) <=> CountsOnError(tx[t].len)
      BY <1>1, <1>11 DEF Counting, LengthsAlike, Alike
    <3>2. CASE outcome \in {Failed, Bytes(<< >>)}
      <4>1. outcome = Failed /\ Platform
        BY <3>2 DEF Basis, Carried, Sound
      <4> QED BY <1>1, <3>1, <3>2, <4>1 DEF DecryptNothing, IncIf
    <3>3. CASE outcome \notin {Failed, Bytes(<< >>)}
      <4>1. reply.ok => reply.mac = MCV
        BY <1>1, <1>3, <1>4, <1>11, <3>3 DEF Counting, ReplyRight
      <4> QED BY <1>1, <3>1, <3>3, <4>1 DEF DecryptAnswer, IncIf, CountsOnSuccess
    <3> QED BY <3>2, <3>3
  <2>4. CountedAlike'
    <3>1. ASSUME Sound PROVE AlikeAt(MCV)'
      <4>1. AlikeInside(t)
        BY <1>1, <1>11, <3>1 DEF Counting, CountedAlike
      <4>2. cCounter \in Nat /\ uncounted \in Nat /\ seCounter \in Nat
        BY DEF Basis, Typed
      <4>3. Reckoned' = IF Counts(tx[t].len) THEN Reckoned + 1 ELSE Reckoned
        BY <2>3, <3>1, <4>2 DEF Reckoned
      <4>4. Reckoned \in Nat
        BY <4>2 DEF Reckoned
      <4> QED BY <1>1, <1>3, <3>1, <4>1, <4>2, <4>3, <4>4 DEF AlikeAt, AlikeInside, Counts,
           AuthType
    <3> QED BY <1>1, <1>2, <2>2, <3>1 DEF CountedAlike
  <2>5. ResultsStay'
    BY <1>2, <1>6, <1>11 DEF Counting, ResultsStay, Basis, Typed
  <2>6. ResultsRight'
    <3>1. ASSUME Sound, uncounted = 0, outcome \notin {Failed, Bytes(<< >>)}, reply.ok
          PROVE  reply.id = tx[t].id /\ Plain(t)
      <4>1. Reckoned = cCounter
        BY <3>1 DEF Reckoned, Basis, Typed
      <4> QED BY <1>1, <1>4, <1>11, <3>1, <4>1 DEF Counting, ReplyRight, Plain
    <3>2. uncounted' = 0 => uncounted = 0
      BY <1>5 DEF Basis, Typed
    <3> QED BY <1>1, <1>6, <1>11, <2>2, <3>1, <3>2 DEF Counting, ResultsRight, Basis, Typed
  <2> QED BY <2>1, <2>4, <2>5, <2>6 DEF Counting
<1>12. ASSUME GoesOn PROVE GoesOn'
  <2> SUFFICES ASSUME trouble = "none" PROVE seOpen /\ seMCV = MCV /\ flight = NoCommand
    BY <1>1, <1>2 DEF GoesOn
  <2>1. flight = NoCommand
    BY <1>1, <1>4 DEF Basis, Carried
  <2> QED BY <1>1, <1>12, <2>1 DEF GoesOn
<1> QED BY <1>7, <1>8, <1>9, <1>10, <1>11, <1>12 DEF Basis

LEMMA StepHolds ==
    ASSUME Basis, [Next]_vars
    PROVE  Basis' /\ (AllAlike /\ Counting => Counting') /\ (GoesOn => GoesOn')
<1>1. CASE UNCHANGED vars
  <2>1. UNCHANGED <<channel, open, uncounted, cCounter, MCV, scp03_lock, pc, tx, result, macs,
                    issued, pending, executed, outcome, flight, reply, trouble, seOpen,
                         seCounter, seMCV>>
    BY <1>1 DEF vars, hostVars, linkVars, apduVars, seVars
  <2>2. Basis'
    BY <2>1 DEF Basis, Typed, OneInside, Numbered, Carried, Before, Locks, Platform
  <2>3. Counting => Counting'
    BY <2>1 DEF Counting, LengthsAlike, Alike, Counts, CountsOnError, AuthType, CountedAlike,
         Before, AlikeAt, AlikeInside, Reckoned, Sound, Platform, ReplyRight, IcvOf, Reckoned,
              ResultsStay, ResultsRight
  <2>4. GoesOn => GoesOn'
    BY <2>1 DEF GoesOn, Before
  <2> QED BY <2>2, <2>3, <2>4
<1>2. CASE OpenSession \/ OpenFails \/ CloseSession
  BY <1>2, OpensSession, FailsToOpen, ClosesSession
<1>3. ASSUME NEW t \in Threads, ThreadStep(t)
      PROVE  Basis' /\ (AllAlike /\ Counting => Counting') /\ (GoesOn => GoesOn')
  BY <1>3, Calls, Encrypts, FailsToTransform, Macs, Sends, Decrypts DEF ThreadStep
<1>4. CASE SeReceives \/ LinkSucceeds \/ LinkFails
  BY <1>4, Receives, Succeeds, Fails
<1> QED BY <1>1, <1>2, <1>3, <1>4 DEF Next

-----------------------------------------------------------------------------

\* A session in which the link never failed is alive between the calls of
\* sss_se05x_TXn, and the SE has seen every command that the host has MACed.
THEOREM UndisturbedIsKept == Spec => []Kept
<1>1. Init => Basis /\ GoesOn
  BY InitHolds
<1>2. Basis /\ GoesOn /\ [Next]_vars => (Basis /\ GoesOn)'
  BY StepHolds
<1>3. Basis /\ GoesOn => Kept
  BY DEF GoesOn, Kept, Before, Nobody
<1> QED BY <1>1, <1>2, <1>3, PTL DEF Spec

LEMMA CountingHolds == ASSUME AllAlike PROVE Spec => [](Basis /\ Counting)
<1>1. Init => Basis /\ Counting
  BY InitHolds
<1>2. Basis /\ Counting /\ [Next]_vars => (Basis /\ Counting)'
  BY StepHolds
<1> QED BY <1>1, <1>2, PTL DEF Spec

\* Where host and SE count every length of data alike, after an error too
\* (se05x_DeCrypt), an SE that has seen every command counts as the host does, but for
\* the answers that the host's crypto could not process
\* (nxpSCP03_Decrypt_ResponseAPDU returns before it counts).
THEOREM StaysInStep == ASSUME AllAlike PROVE Spec => []InStep
<1>1. Basis /\ Counting => InStep
  BY DEF Counting, CountedAlike, AlikeAt, Reckoned, InStep, Before, Nobody
<1> QED BY <1>1, CountingHolds, PTL

\* On the same condition, and as long as no such answer went uncounted, what
\* sss_se05x_TXn returns with success is plain data of the answer to its own command.
THEOREM AnswersAreOwn == ASSUME AllAlike PROVE Spec => []OwnPlainAnswer
<1>1. Basis /\ Counting => OwnPlainAnswer
  BY DEF Counting, ResultsRight, OwnPlainAnswer
<1> QED BY <1>1, CountingHolds, PTL

\* The channel uses the link as ApduTransport allows: one command at a time, executed at
\* most once and in the order in which sss_se05x_TXn sent them.
THEOREM KeepsToTheLink == Spec => ApduSpec
<1>1. Init => ApduInit
  BY DEF Init
<1>2. ASSUME [Next]_vars PROVE [ApduNext]_apduVars
  <2>1. CASE UNCHANGED vars
    BY <2>1 DEF vars, linkVars
  <2>2. CASE OpenSession \/ OpenFails \/ CloseSession
    BY <2>2 DEF OpenSession, OpenFails, CloseSession, linkVars
  <2>3. ASSUME NEW t \in Threads, ThreadStep(t) PROVE [ApduNext]_apduVars
    BY <2>3 DEF ThreadStep, Call, Encrypt, TransformFails, Mac, Send, DeCrypt, linkVars, ApduNext
  <2>4. CASE SeReceives \/ LinkSucceeds \/ LinkFails
    BY <2>4 DEF SeReceives, LinkSucceeds, LinkFails, ApduNext
  <2> QED BY <1>2, <2>1, <2>2, <2>3, <2>4 DEF Next
<1> QED BY <1>1, <1>2, PTL DEF Spec, ApduSpec

-----------------------------------------------------------------------------
(* What ApduTransport guarantees, for every number of commands and whatever their  *)
(* answers are.  T1Link implements it while no frame is damaged                    *)
(* (LinkImplementsTransport), and the channel does (KeepsToTheLink), so these hold *)
(* of both.                                                                        *)

\* Why no command is executed twice: those executed are numbered upwards, and none
\* is beyond the last one issued.
AInv ==
    /\ issued \in Nat
    /\ executed \in Seq(Nat)
    /\ \A i \in DOMAIN executed : executed[i] <= issued
    /\ InOrderOnce
    /\ BytesOfExecuted
    /\ ~pending => outcome = NotYet

LEMMA AInit == ApduInit => AInv
BY DEF ApduInit, AInv, InOrderOnce, BytesOfExecuted

\* A new command comes after every one executed, and its outcome is still open.
LEMMA IssueStep ==
    ASSUME AInv, Issue
    PROVE  AInv'
BY DEF AInv, Issue, InOrderOnce, BytesOfExecuted

\* The command executed is later than all those executed before.
LEMMA ExecuteStep ==
    ASSUME AInv, Execute
    PROVE  AInv'
<1>1. /\ issued \in Nat /\ executed \in Seq(Nat)
      /\ executed' = Append(executed, issued)
      /\ issued' = issued /\ pending' = pending /\ outcome' = outcome
  BY DEF AInv, Execute
<1>2. /\ executed' \in Seq(Nat)
      /\ DOMAIN executed' = 1..Len(executed) + 1
      /\ DOMAIN executed = 1..Len(executed) /\ Len(executed) \in Nat
      /\ \A i \in 1..Len(executed) : executed'[i] = executed[i]
      /\ executed'[Len(executed) + 1] = issued
  BY <1>1, AppendProperties
<1>3. \A i \in DOMAIN executed : executed[i] \in Nat /\ executed[i] < issued
  BY <1>1 DEF Execute
<1>4. \A i \in DOMAIN executed' : executed'[i] <= issued'
  BY <1>1, <1>2, <1>3
<1>5. InOrderOnce'
  BY <1>1, <1>2, <1>3 DEF AInv, InOrderOnce
<1>6. BytesOfExecuted'
  <2>1. \E i \in DOMAIN executed' : executed'[i] = issued'
    BY <1>1, <1>2
  <2> QED
    BY <2>1, Zenon DEF BytesOfExecuted
<1>7. ~pending' => outcome' = NotYet'
  BY <1>1, Zenon DEF AInv, NotYet
<1> QED
  BY <1>1, <1>2, <1>4, <1>5, <1>6, <1>7 DEF AInv

\* A call succeeds with bytes only when its command has been executed.
LEMMA SucceedStep ==
    ASSUME AInv, Succeed
    PROVE  AInv'
<1>1. /\ UNCHANGED <<issued, executed>> /\ pending'
  BY DEF Succeed
<1>2. PICK ans \in Prefixes(Answer(issued)) :
        /\ ans # << >> => \E i \in DOMAIN executed : executed[i] = issued
        /\ outcome' = Bytes(ans)
  BY DEF Succeed
<1>3. BytesOfExecuted'
  BY <1>1, <1>2 DEF BytesOfExecuted, Bytes
<1> QED
  BY <1>1, <1>3 DEF AInv, InOrderOnce

LEMMA FailStep ==
    ASSUME AInv, Fail
    PROVE  AInv'
BY DEF AInv, Fail, InOrderOnce, BytesOfExecuted

LEMMA EndCallStep ==
    ASSUME AInv, EndCall
    PROVE  AInv'
BY DEF AInv, EndCall, InOrderOnce, BytesOfExecuted

LEMMA AStutter ==
    ASSUME AInv, UNCHANGED apduVars
    PROVE  AInv'
BY DEF AInv, apduVars, InOrderOnce, BytesOfExecuted

\* A command is executed at most once, and commands in the order they were issued.
THEOREM ExecutedInOrderOnce == ApduSpec => []InOrderOnce
<1>1. ApduInit => AInv
  BY AInit
<1>2. AInv /\ [ApduNext]_apduVars => AInv'
  BY IssueStep, ExecuteStep, SucceedStep, FailStep, EndCallStep, AStutter DEF ApduNext
<1>3. AInv => InOrderOnce
  BY DEF AInv
<1> QED
  BY <1>1, <1>2, <1>3, PTL DEF ApduSpec

\* Bytes are delivered only for a command that the SE has executed.
THEOREM BytesComeFromExecution == ApduSpec => []BytesOfExecuted
<1>1. ApduInit => AInv
  BY AInit
<1>2. AInv /\ [ApduNext]_apduVars => AInv'
  BY IssueStep, ExecuteStep, SucceedStep, FailStep, EndCallStep, AStutter DEF ApduNext
<1>3. AInv => BytesOfExecuted
  BY DEF AInv
<1> QED
  BY <1>1, <1>2, <1>3, PTL DEF ApduSpec

\* Over SCP03, too, the SE executes a command at most once and in the order in which
\* sss_se05x_TXn sent them, whatever the threads do.
THEOREM ChannelExecutesInOrder == Spec => []InOrderOnce
BY KeepsToTheLink, ExecutedInOrderOnce, PTL
=============================================================================
