------------------------------- MODULE T1Link -------------------------------
(***************************************************************************)
(* T1oI2C composed with a secure element and an I2C bus that corrupts,     *)
(* loses and delays frames.  The SE is not part of the repository: it is   *)
(* modelled from how phNxpEseProto7816_3.c uses it (the cases and comments *)
(* of DecodeFrame, phNxpEse_waitForWTX) and the T=1 rules those follow.    *)
(*                                                                         *)
(* Each direction of the bus holds one frame: the SE's receive buffer,     *)
(* which it empties when it looks at the frame, and its transmit buffer,   *)
(* which the host's read empties and which a frame from the host drops:    *)
(* the block protocol is half-duplex.                                      *)
(***************************************************************************)
EXTENDS T1oI2C, FiniteSets

CONSTANTS
    Faults,        \* the kinds of fault that happen, of FaultKinds
    MaxFaults,     \* how many of them in a behaviour
    MaxOpens,      \* calls of Open in a behaviour
    MaxWtx,        \* WTX requests the SE makes for one command
    MaxRsp,        \* largest number of I-frames in a response
    RepeatsRAck,   \* whether the SE repeats an R-ACK when asked for a block it has
                   \* not: the answers it may choose from
    Answer(_)      \* the bytes that answer a command, a sequence of units

\* A frame corrupted, or lost; a write that fails; an answer that comes too late;
\* the host process killed; the SE reset by its supply, or gone silent for good.
FaultKinds == {"corrupt", "lose", "write", "late", "crash", "power", "mute"}

ASSUME FaultsAssumption ==
    Faults \subseteq FaultKinds /\ MaxFaults \in Nat /\ RepeatsRAck \subseteq BOOLEAN

None == [kind |-> "none"]
Bad  == [kind |-> "bad"]      \* a frame whose CRC is wrong

VARIABLES
    toSE, toHost,        \* the two buffers of the bus
    seExp, seSeq,        \* N(S) the SE expects, N(S) of its last I-frame
    seLast,              \* the last block the SE sent
    seUnacked,           \* its last I-frame, until a later one from the host
    seIn,                \* fragments received of an incomplete command
    seOut,               \* what of the current answer is still to be sent
    seBusy,              \* executing, with a WTX request outstanding
    executed,            \* the commands executed so far, in order
    mute,                \* the SE no longer answers
    connected, calls, opens, faults, wtxs

seVars  == <<seExp, seSeq, seLast, seUnacked, seIn, seOut, seBusy, executed, wtxs, mute>>
bus     == <<toSE, toHost>>
bounds  == <<connected, calls, opens, faults>>
linkVars == <<vars, seVars, bus, bounds>>

-----------------------------------------------------------------------------
(* The secure element. *)

I(seq, more, inf) == [kind |-> "I", seq |-> seq, more |-> more, inf |-> inf]
R(seq, err)       == [kind |-> "R", seq |-> seq, err |-> err]
S(type, inf)      == [kind |-> "S", type |-> type, inf |-> inf]

\* The SE answers: its answer replaces one the host has not read.
Reply(f) == toHost' = f /\ seLast' = f

SendI(seq, rest) ==
    LET frame == I(seq, Len(rest) > 1, <<Head(rest)>>)
    IN /\ Reply(frame)
       /\ seSeq' = seq /\ seUnacked' = frame /\ seOut' = Tail(rest)

\* The first block of the answer to a command, or a request for more time.
BeginAnswer(ans) ==
    \/ /\ SendI(Flip(seSeq), ans)
       /\ seBusy' = FALSE /\ UNCHANGED wtxs
    \/ /\ wtxs < MaxWtx
       /\ Reply(S("WTX_REQ", << >>))
       /\ seOut' = ans /\ seBusy' = TRUE /\ wtxs' = wtxs + 1
       /\ seUnacked' = None /\ UNCHANGED seSeq

SeIframe(f) ==
    \/ /\ f.seq = seExp /\ ~seBusy
       /\ seExp' = Flip(seExp)
       /\ \/ /\ f.more
             /\ seIn' = Append(seIn, f)
             /\ Reply(R(Flip(seExp), "NO_ERROR"))
             /\ seOut' = << >> /\ seUnacked' = None
             /\ UNCHANGED <<seSeq, seBusy, executed, wtxs>>
          \/ /\ ~f.more
             /\ seIn' = << >>
             /\ executed' = Append(executed, Append(seIn, f))
             /\ BeginAnswer(Answer(f.cmd))
    \/ /\ f.seq # seExp \/ seBusy
       /\ Reply(R(seExp, "OTHER_ERROR"))
       /\ UNCHANGED <<seExp, seSeq, seUnacked, seIn, seOut, seBusy, executed, wtxs>>

\* An R-frame names the block wanted: the last I-frame, or the one after it, or
\* the request for time still pending. When there is no such block the SE asks in
\* turn for the one it is missing (the case of lines 828-835 of the code).
SeRframe(f) ==
    LET again == seUnacked # None /\ f.seq = seSeq
        next  == seUnacked # None /\ f.seq # seSeq /\ f.err = "NO_ERROR" /\ seOut # << >>
    IN /\ \/ /\ seBusy
             /\ Reply(S("WTX_REQ", << >>))
             /\ UNCHANGED <<seSeq, seUnacked, seOut>>
          \/ /\ ~seBusy /\ again
             /\ Reply(seUnacked)
             /\ UNCHANGED <<seSeq, seUnacked, seOut>>
          \/ /\ ~seBusy /\ next
             /\ SendI(f.seq, seOut)
          \/ /\ ~seBusy /\ ~again /\ ~next
             /\ \E repeats \in RepeatsRAck :
                  Reply(IF repeats /\ seLast.kind = "R" THEN seLast
                                                       ELSE R(seExp, "OTHER_ERROR"))
             /\ UNCHANGED <<seSeq, seUnacked, seOut>>
       /\ UNCHANGED <<seExp, seIn, seBusy, executed, wtxs>>

\* The SE forgets its sequence numbers and what it was doing.
SeReset == /\ seExp' = 0 /\ seSeq' = 1 /\ seIn' = << >> /\ seOut' = << >>
           /\ seUnacked' = None /\ seBusy' = FALSE

AnswerTo == [RESYNCH_REQ |-> "RESYNCH_RSP", INTF_RESET_REQ |-> "INTF_RESET_RSP",
             PROP_END_APDU_REQ |-> "PROP_END_APDU_RSP", ATR_REQ |-> "ATR_RES",
             CHIP_RESET_REQ |-> "CHIP_RESET_RES", DEEP_PWR_DOWN_REQ |-> "DEEP_PWR_DOWN_RES"]
\* The answer to reset, told from the answer to every command.
Atr == << <<NoCmd, 1>> >>

\* A command has an answer of at least a status word; a block carries one unit of it.
ASSUME AnswersAssumption ==
    /\ << >> \in Infs /\ Atr \in Infs
    /\ \A cmd \in Cmds : Answer(cmd) # << >> /\ Answer(cmd) \in Seq({u \in Units : <<u>> \in Infs})

SeSframe(f) ==
    \/ /\ f.type = "WTX_RSP" /\ seBusy
       /\ BeginAnswer(seOut)
       /\ UNCHANGED <<seExp, seIn, executed>>
    \/ /\ f.type = "WTX_RSP" /\ ~seBusy
       /\ Reply(R(seExp, "OTHER_ERROR"))
       /\ UNCHANGED <<seExp, seSeq, seUnacked, seIn, seOut, seBusy, executed, wtxs>>
    \/ /\ f.type \in {"RESYNCH_REQ", "INTF_RESET_REQ", "CHIP_RESET_REQ"}
       /\ ~seBusy \/ f.type # "RESYNCH_REQ"
       /\ Reply(S(AnswerTo[f.type], IF f.type = "INTF_RESET_REQ" THEN Atr ELSE << >>))
       /\ SeReset
       /\ UNCHANGED <<executed, wtxs>>
    \/ /\ f.type = "RESYNCH_REQ" /\ seBusy
       /\ Reply(S("WTX_REQ", << >>))
       /\ UNCHANGED <<seExp, seSeq, seUnacked, seIn, seOut, seBusy, executed, wtxs>>
    \/ /\ f.type \in {"PROP_END_APDU_REQ", "ATR_REQ", "DEEP_PWR_DOWN_REQ"}
       /\ Reply(S(AnswerTo[f.type], IF f.type = "ATR_REQ" THEN Atr ELSE << >>))
       /\ UNCHANGED <<seExp, seSeq, seUnacked, seIn, seOut, seBusy, executed, wtxs>>

SeStep ==
    /\ toSE # None /\ toSE' = None
    /\ \/ toSE.kind = "I" /\ ~mute /\ SeIframe(toSE)
       \/ toSE.kind = "R" /\ ~mute /\ SeRframe(toSE)
       \/ toSE.kind = "S" /\ ~mute /\ SeSframe(toSE)
       \/ /\ toSE = Bad /\ ~mute
          /\ Reply(R(seExp, "PARITY_ERROR"))
          /\ UNCHANGED <<seExp, seSeq, seUnacked, seIn, seOut, seBusy, executed, wtxs>>
       \/ mute /\ UNCHANGED <<seVars, toHost>>
    /\ UNCHANGED <<vars, bounds, mute>>

-----------------------------------------------------------------------------
(* The bus: what goes wrong on it, each time at the cost of one fault. *)

Fault(kind) == kind \in Faults /\ faults < MaxFaults /\ faults' = faults + 1

BusFault ==
    /\ \/ /\ Fault("corrupt")
          /\ \/ toSE \notin {None, Bad} /\ toSE' = Bad /\ UNCHANGED toHost
             \/ toHost \notin {None, Bad} /\ toHost' = Bad /\ UNCHANGED toSE
       \/ /\ Fault("lose")
          /\ \/ toSE # None /\ toSE' = None /\ UNCHANGED toHost
             \/ toHost # None /\ toHost' = None /\ UNCHANGED toSE
    /\ UNCHANGED <<vars, seVars, connected, calls, opens>>

\* The SE loses its supply for a moment, and all its volatile state.
SePowerLoss ==
    /\ Fault("power")
    /\ SeReset /\ seLast' = None
    /\ toSE' = None /\ toHost' = None
    /\ UNCHANGED <<vars, executed, wtxs, mute, connected, calls, opens>>

SeGoesMute ==
    /\ Fault("mute")
    /\ ~mute /\ mute' = TRUE
    /\ UNCHANGED <<vars, bus, seExp, seSeq, seLast, seUnacked, seIn, seOut, seBusy,
                   executed, wtxs, connected, calls, opens>>

-----------------------------------------------------------------------------
(* The host's steps, with what they do to the bus. *)

Put(f) ==
    /\ toSE = None /\ toSE' = f
    /\ toHost' = None

\* Writing succeeds when the SE takes the frame. phNxpEse_WriteFrame fails when
\* the SE keeps its address NACKed or the bus is at fault.
LinkSend ==
    \/ SendOk /\ Put(TxFrame) /\ UNCHANGED faults
    \/ SendFails /\ ~EmptyIframe /\ Fault("write") /\ UNCHANGED bus
    \/ SendFails /\ EmptyIframe /\ UNCHANGED <<bus, faults>>

\* The host polls until there is a frame, or too long: silence is a fault when
\* the SE still has the frame to look at, and certain when nothing is on its way.
LinkReceive ==
    /\ \/ /\ toHost # None /\ toHost' = None
          /\ \/ toHost.kind = "I" /\ RecvIframe(toHost.seq, toHost.more, toHost.inf)
             \/ toHost.kind = "R" /\ RecvRframe(toHost.seq, toHost.err)
             \/ toHost.kind = "S" /\ RecvSframe(toHost.type, toHost.inf)
             \/ toHost = Bad /\ BadCrc
          /\ UNCHANGED faults
       \/ /\ toHost = None /\ ReadFails
          /\ IF toSE = None THEN UNCHANGED faults ELSE Fault("late")
          /\ UNCHANGED toHost
    /\ UNCHANGED toSE

\* The raw reads of phNxpEse_waitForWTX do not poll: they may come too early.
LinkWait ==
    \/ /\ WtxSend(TRUE) /\ UNCHANGED faults
       /\ Put([kind |-> "S", type |-> IF pc = "wtxSync" THEN "RESYNCH_REQ" ELSE "WTX_RSP"])
    \/ WtxSend(FALSE) /\ toSE # None /\ UNCHANGED <<bus, faults>>
    \/ WtxSend(FALSE) /\ toSE = None /\ Fault("write") /\ UNCHANGED bus
    \/ /\ toHost # None /\ toHost' = None
       /\ WtxRead(toHost = S("WTX_REQ", << >>))
       /\ UNCHANGED <<toSE, faults>>
    \/ /\ toHost = None /\ WtxReadFails /\ UNCHANGED bus
       /\ IF toSE = None THEN UNCHANGED faults ELSE Fault("late")
    \/ ClearThenRSync /\ toHost' = None /\ UNCHANGED <<toSE, faults>>

\* An Open that succeeds begins a session. The application gives it up after a
\* Transceive without an answer ("hard reset to proceed", phNxpEseProto7816_Transceive).
LinkReturn ==
    /\ Return
    /\ connected' = CASE op = "OpenAtr" -> status
                      [] op = "Transceive" -> status /\ rspData # << >>
                      [] OTHER -> FALSE
    /\ UNCHANGED <<bus, calls, opens, faults>>

\* smCom sends commands only after an Open that succeeded, and until Close.
\* Commands are numbered: calls holds the length of each.
LinkCall ==
    \/ /\ ~connected /\ opens < MaxOpens /\ Open
       /\ opens' = opens + 1 /\ UNCHANGED <<connected, calls>>
    \/ /\ connected
       /\ \E len \in CmdLens :
            /\ Len(calls) + 1 \in Cmds
            /\ Transceive(Len(calls) + 1, len)
            /\ calls' = Append(calls, len)
       /\ UNCHANGED <<connected, opens>>
    \/ connected /\ Close /\ UNCHANGED <<connected, calls, opens>>

HostStep ==
    /\ \/ (LinkSend \/ LinkReceive \/ LinkWait) /\ UNCHANGED <<connected, calls, opens>>
       \/ OpenThenAtr /\ UNCHANGED <<bus, bounds>>
       \/ LinkReturn
    /\ UNCHANGED seVars

\* The host process dies and is started again; the SE and the bus go on.
HostCrash ==
    /\ Fault("crash") /\ Restart
    /\ connected' = FALSE
    /\ UNCHANGED <<seVars, bus, calls, opens>>

LinkInit ==
    /\ Init
    /\ toSE = None /\ toHost = None
    /\ seExp = 0 /\ seSeq = 1 /\ seLast = None /\ seUnacked = None /\ seIn = << >> /\ seOut = << >>
    /\ seBusy = FALSE /\ executed = << >> /\ wtxs = 0 /\ mute = FALSE
    /\ connected = FALSE /\ calls = << >> /\ opens = 0 /\ faults = 0

LinkNext ==
    \/ HostStep \/ SeStep
    \/ LinkCall /\ UNCHANGED <<seVars, bus, faults>>
    \/ BusFault \/ SePowerLoss \/ SeGoesMute \/ HostCrash

LinkSpec == LinkInit /\ [][LinkNext]_linkVars

\* The host's loop runs on and the SE answers; faults are bounded by MaxFaults.
FairLinkSpec == LinkSpec /\ WF_linkVars(HostStep) /\ WF_linkVars(SeStep)

-----------------------------------------------------------------------------

\* What the SE executes is one command of the host, whole, its fragments in order
\* and none twice, however often the host sent them (DecodeFrame's R-frame cases).
ExecutedWhole ==
    \A i \in DOMAIN executed :
        LET frags == executed[i]
        IN /\ frags[1].offset = 0
           /\ frags[Len(frags)].offset + frags[Len(frags)].len = calls[frags[1].cmd]
           /\ \A k \in 2..Len(frags) :
                /\ frags[k].cmd = frags[1].cmd
                /\ frags[k].offset = frags[k-1].offset + frags[k-1].len

\* An I-frame is sent only for the command of the running Transceive, and never
\* reaches beyond that command's buffer (SetNextIframeContxt checks neither).
SendsOnlyOwnCommand ==
    (pc = "send" /\ nextTransceiveState = "SEND_IFRAME") =>
        LET f == NextTx.Iframe
        IN /\ op = "Transceive" /\ f.p_data = Len(calls)
           /\ f.dataOffset + f.sendDataLen <= calls[Len(calls)]

\* What a Transceive that returns TRUE has saved is the beginning of the answer
\* to its own command: nothing of an earlier command, nothing twice, no gap.
OwnAnswerPrefix ==
    (op = "Transceive" /\ pc = "done" /\ status) =>
        LET answer == Answer(Len(calls))
        IN /\ Len(rspData) <= Len(answer)
           /\ rspData = SubSeq(answer, 1, Len(rspData))

\* An answer cut short never passes for success while recovery is within its
\* limit; what may be reported instead of it is no byte at all (an interface reset).
NotCutShort ==
    (op = "Transceive" /\ pc = "done" /\ status /\ recoveryCounter <= FRAME_RETRY_COUNT)
        => rspData = << >> \/ Len(rspData) = Len(Answer(Len(calls)))

\* The frames lost, corrupted or late in a behaviour are made good: a Transceive
\* ends, and when it does it has the complete answer.
Repaired ==
    (op = "Transceive" /\ pc = "done") => status /\ rspData = Answer(Len(calls))

\* Every call of the protocol layer returns, whatever becomes of the SE.
CallsReturn == (pc # "idle") ~> (pc = "idle")

\* The link implements ApduTransport: a command is executed when the SE has its
\* last fragment, and a call is about to return when TransceiveProcess is done.
Transport == INSTANCE ApduTransport WITH
    NumCmds  <- Cardinality(Cmds),
    issued   <- Len(calls),
    pending  <- op = "Transceive",
    executed <- [i \in DOMAIN executed |-> executed[i][1].cmd],
    outcome  <- IF op # "Transceive" \/ pc # "done" THEN [is |-> "not yet"]
                ELSE IF status THEN [is |-> "bytes", bytes |-> rspData]
                ELSE [is |-> "failed"]

\* Every command is executed at most once and in order, and a success carries
\* bytes of its own answer only: ApduTransport, step by step.
ImplementsTransport == Transport!ApduSpec
=============================================================================
