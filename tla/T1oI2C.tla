------------------------------- MODULE T1oI2C -------------------------------
(***************************************************************************)
(* The host half of the T=1 over I2C data link: phNxpEseProto7816_3.c in   *)
(* its UM11225 build, with phNxpEse_waitForWTX that its Open calls.        *)
(*                                                                         *)
(* The secure element (SE) and the bus are the environment: after every    *)
(* frame sent, any frame at all, a frame with a bad CRC, or silence may    *)
(* come back.  T1Link composes this module with an SE and a lossy bus.     *)
(*                                                                         *)
(* Abstractions.  Lengths count units of payload; an INF field is a        *)
(* sequence of units.  The caller's buffers are named by what the code     *)
(* can confuse: a command by an identifier (its p_data), the response      *)
(* buffer by whether the call that owns it is still running.               *)
(***************************************************************************)
EXTENDS Naturals, Sequences

CONSTANTS
    FRAME_RETRY_COUNT,    \* PH_PROTO_7816_FRAME_RETRY_COUNT, 10 in the code
    TIMEOUT_RETRY_COUNT,  \* PH_PROTO_7816_TIMEOUT_RETRY_COUNT, 1
    RNACK_LIMIT,          \* rnack_retry_limit, MAX_RNACK_RETRY_LIMIT, 2
    WTX_LIMIT,            \* wtx_counter_limit, PH_PROTO_WTX_DEFAULT_COUNT, 500
    PREV_TXN_WAIT,        \* T1OI2C_WAIT_FOR_PREV_TXN, 40
    IFSC,                 \* maxDataLen, IFSC_SIZE_SEND, 254
    UINT8_RANGE,          \* 256: recoveryCounter is a uint8_t
    ULONG_RANGE,          \* wtx_counter is an unsigned long
    UINT_MAX,             \* dataOffset is an unsigned int
    RSP_CAP,              \* pRsp->len, the room in the caller's buffer
    Cmds, NoCmd,          \* command buffers, and NULL
    CmdLens,              \* lengths a command may have
    Units, Infs           \* units of payload, INF fields a received frame may carry

ASSUME CountersAssumption ==
    /\ FRAME_RETRY_COUNT \in Nat /\ TIMEOUT_RETRY_COUNT \in Nat
    /\ RNACK_LIMIT \in Nat /\ PREV_TXN_WAIT \in Nat
    /\ UINT8_RANGE \in Nat /\ FRAME_RETRY_COUNT + 1 < UINT8_RANGE
    /\ WTX_LIMIT \in Nat \ {0} /\ ULONG_RANGE \in Nat /\ WTX_LIMIT < ULONG_RANGE

ASSUME DataAssumption ==
    /\ IFSC \in Nat \ {0} /\ UINT_MAX \in Nat /\ IFSC <= UINT_MAX
    /\ RSP_CAP \in Nat /\ CmdLens \subseteq Nat \ {0}
    /\ NoCmd \notin Cmds
    /\ Infs \subseteq Seq(Units)

VARIABLES
    LastTx, NextTx,        \* phNxpEseLastTx_Cntx, phNxpEseNextTx_Cntx
    lastRcvdSeqNo,         \* lastRcvdIframeInfo.seqNo
    pRsp,                  \* phNxpEseRx_Cntx.pRsp: "NULL", "live" or "stale"
    rspData,               \* what was saved in it; Len is responseBytesRcvd
    nextTransceiveState, CurrentState,
    recoveryCounter, timeoutCounter, rnack_retry_counter, wtx_counter,
    lastSentNonErrorframeType,
    status,                \* the status of TransceiveProcess
    pc, op, loopcnt        \* where the running call is

counters == <<recoveryCounter, timeoutCounter, rnack_retry_counter, wtx_counter>>
response == <<pRsp, rspData>>
control  == <<CurrentState, op, loopcnt>>
vars == <<LastTx, NextTx, lastRcvdSeqNo, response, nextTransceiveState,
          counters, lastSentNonErrorframeType, status, pc, control>>

-----------------------------------------------------------------------------
Bit == {0, 1}
Flip(b) == 1 - b

FrameTypes == {"INVALID", "UNKNOWN", "IFRAME", "RFRAME", "SFRAME"}
ErrorTypes == {"NO_ERROR", "PARITY_ERROR", "OTHER_ERROR", "SOF_MISSED_ERROR"}
SReqs == {"RESYNCH_REQ", "INTF_RESET_REQ", "PROP_END_APDU_REQ", "ATR_REQ",
          "CHIP_RESET_REQ", "DEEP_PWR_DOWN_REQ", "WTX_RSP"}
\* The S-frames DecodeFrame knows; "OTHER" stands for its default branch.
SRsps == {"RESYNCH_RSP", "IFSC_RES", "ABORT_RES", "WTX_REQ", "INTF_RESET_RSP",
          "PROP_END_APDU_RSP", "ATR_RES", "CHIP_RESET_RES", "DEEP_PWR_DOWN_RES",
          "OTHER"}

\* The S-frame each sending state of TransceiveProcess puts on the wire.
SFrameOf ==
    [SEND_S_RSYNC |-> "RESYNCH_REQ", SEND_S_INTF_RST |-> "INTF_RESET_REQ",
     SEND_S_EOS |-> "PROP_END_APDU_REQ", SEND_S_ATR |-> "ATR_REQ",
     SEND_S_CHIP_RST |-> "CHIP_RESET_REQ", SEND_DEEP_PWR_DOWN |-> "DEEP_PWR_DOWN_REQ",
     SEND_S_WTX_RSP |-> "WTX_RSP"]
SendStates == {"SEND_IFRAME", "SEND_R_ACK", "SEND_R_NACK"} \cup DOMAIN SFrameOf

\* iFrameInfo_t, and the I, R and S information of one Tx context.
IframeInfo == [p_data : Cmds \cup {NoCmd}, isChained : BOOLEAN, seqNo : Bit,
               dataOffset : 0..UINT_MAX, totalDataLen : Nat, sendDataLen : Nat]
TxCntx == [FrameType : FrameTypes, Iframe : IframeInfo,
           errCode : ErrorTypes, sFrameType : SReqs]

Ops == {"none", "Transceive", "Open", "OpenAtr", "Resume", "Close", "IntfReset",
        "ChipReset", "GetAtr", "DeepPwrDown"}

\* The Tx contexts after phNxpEseProto7816_ResetProtoParams.
ResetCntx ==
    [FrameType |-> "INVALID", errCode |-> "NO_ERROR", sFrameType |-> "RESYNCH_REQ",
     Iframe |-> [p_data |-> NoCmd, isChained |-> FALSE, seqNo |-> 1,
                 dataOffset |-> 0, totalDataLen |-> 0, sendDataLen |-> 0]]

\* The Tx context for an R-frame with this error code, and for an S-frame.
\* Mutant: the frame type is not set.
RCntx(err)  == [NextTx EXCEPT !.FrameType = "RFRAME", !.errCode = err]
SCntx_StaleFrameType(type) == [NextTx EXCEPT !.sFrameType = type]
SCntx(type) == [NextTx EXCEPT !.FrameType = "SFRAME", !.sFrameType = type]

-----------------------------------------------------------------------------
(* Saving received data, and the error recovery of DecodeFrame. *)

\* phNxpEseProro7816_SaveRxframeData. A "stale" pRsp points at a structure of a
\* call that has returned: what its len reads is undefined, so either may happen.
\* Mutants: the room in the buffer is not checked; saved at its start.
SaveRxframeData_NoCheck(inf) == pRsp # "NULL" /\ rspData' = rspData \o inf
SaveRxframeData_AtStart(inf) == pRsp # "NULL" /\ Len(inf) <= RSP_CAP /\ rspData' = inf
SaveRxframeData(inf) ==
    /\ pRsp # "NULL" /\ Len(rspData) + Len(inf) <= RSP_CAP
    /\ rspData' = rspData \o inf
SaveFails(inf) ==
    /\ pRsp # "live" \/ Len(rspData) + Len(inf) > RSP_CAP
    /\ UNCHANGED rspData

\* One more error: while fewer than FRAME_RETRY_COUNT were counted, send `cntx`
\* from state `ns`; else phNxpEseProto7816_RecoverySteps: reset the interface
\* once, then give up.
ErrorRecovery(cntx, ns) ==
    /\ recoveryCounter' = (recoveryCounter + 1) % UINT8_RANGE
    /\ \/ /\ recoveryCounter < FRAME_RETRY_COUNT
          /\ NextTx' = cntx /\ nextTransceiveState' = ns
       \/ /\ recoveryCounter = FRAME_RETRY_COUNT
          /\ NextTx' = SCntx("INTF_RESET_REQ")
          /\ nextTransceiveState' = "SEND_S_INTF_RST"
       \/ /\ recoveryCounter > FRAME_RETRY_COUNT
          /\ nextTransceiveState' = "IDLE_STATE"
          /\ UNCHANGED NextTx

\* The loop of TransceiveProcess goes on unless the state is IDLE_STATE.
Loop == pc' = IF nextTransceiveState' = "IDLE_STATE" THEN "done" ELSE "send"

\* ProcessResponse got a frame whose CRC is right.
FrameOk ==
    /\ pc = "recv"
    /\ timeoutCounter' = 0 /\ rnack_retry_counter' = 0
    /\ UNCHANGED <<lastSentNonErrorframeType, control>>

-----------------------------------------------------------------------------
(* DecodeFrame, by kind of frame. *)

\* An I-frame is new unless it has the number of the last one received.
IsNew(seq) == seq # lastRcvdSeqNo

\* A new I-frame is saved, and acknowledged when more follow; another is an error
\* to be answered with an R-NACK.
RecvIframe(seq, more, inf) ==
    /\ FrameOk
    /\ wtx_counter' = 0
    /\ UNCHANGED <<LastTx, pRsp>>
    /\ \/ /\ IsNew(seq)
          /\ recoveryCounter' = 0 /\ lastRcvdSeqNo' = seq
          /\ NextTx' = IF more THEN RCntx("NO_ERROR") ELSE NextTx
          /\ \/ /\ SaveRxframeData(inf) /\ status' = TRUE
                /\ nextTransceiveState' = IF more THEN "SEND_R_ACK" ELSE "IDLE_STATE"
             \/ /\ SaveFails(inf) /\ status' = FALSE
                /\ nextTransceiveState' = "IDLE_STATE"
       \/ /\ ~IsNew(seq)
          /\ ErrorRecovery(RCntx("OTHER_ERROR"), "SEND_R_NACK")
          /\ status' = TRUE
          /\ UNCHANGED <<lastRcvdSeqNo, rspData>>
    /\ Loop

\* phNxpEseProto7816_SetNextIframeContxt: the next fragment of the command, with
\* this number, this far on, and when more follow with this much left. When
\* dataOffset would overflow only the header of the context has been changed.
NextFragment(seqNo, step, left) ==
    LET last == LastTx.Iframe
        more == last.totalDataLen > IFSC
        fragment == [p_data |-> last.p_data, isChained |-> more, seqNo |-> seqNo,
                     dataOffset |-> last.dataOffset + step,
                     totalDataLen |-> IF more THEN left ELSE NextTx.Iframe.totalDataLen,
                     sendDataLen |-> IF more THEN IFSC ELSE last.totalDataLen]
    IN NextTx' = [NextTx EXCEPT
         !.FrameType = "IFRAME",
         !.Iframe = IF UINT_MAX - last.dataOffset < IFSC
                    THEN [NextTx.Iframe EXCEPT !.seqNo = seqNo]
                    ELSE fragment]

\* Mutants: the number, the offset, the length left is not updated.
SetNext_SameNo     == NextFragment(LastTx.Iframe.seqNo, IFSC, LastTx.Iframe.totalDataLen - IFSC)
SetNext_SameOffset == NextFragment(Flip(LastTx.Iframe.seqNo), 0, LastTx.Iframe.totalDataLen - IFSC)
SetNext_SameLeft   == NextFragment(Flip(LastTx.Iframe.seqNo), IFSC, LastTx.Iframe.totalDataLen)
SetNextIframeContxt ==
    NextFragment(Flip(LastTx.Iframe.seqNo), IFSC, LastTx.Iframe.totalDataLen - IFSC)

\* An R-frame without error asks for the next fragment when its N(R) is not the
\* number of the last I-frame; otherwise the state, and so the frame, stays.
RecvRAck(seq) ==
    /\ FrameOk
    /\ wtx_counter' = 0 /\ recoveryCounter' = 0 /\ status' = TRUE
    /\ \/ /\ seq # LastTx.Iframe.seqNo
          /\ SetNextIframeContxt /\ nextTransceiveState' = "SEND_IFRAME"
       \/ /\ seq = LastTx.Iframe.seqNo
          /\ UNCHANGED <<NextTx, nextTransceiveState>>
    /\ UNCHANGED <<LastTx, lastRcvdSeqNo, response>>
    /\ Loop

\* An R-frame with one error bit: what is sent again depends on the last frame
\* sent and, after an R-frame, on the last one that was not an R-NACK.
RecvRNack(seq) ==
    LET again == [LastTx EXCEPT !.FrameType = "IFRAME"]
        mine  == seq = LastTx.Iframe.seqNo
    IN /\ FrameOk
       /\ wtx_counter' = 0 /\ status' = TRUE
       /\ \/ /\ LastTx.FrameType = "IFRAME"
             /\ ErrorRecovery(again, "SEND_IFRAME")
          \/ /\ LastTx.FrameType = "RFRAME"
             /\ \/ /\ mine /\ lastSentNonErrorframeType = "IFRAME"
                   /\ ErrorRecovery(again, "SEND_IFRAME")
                \/ /\ ~mine /\ lastSentNonErrorframeType = "RFRAME"
                   /\ ErrorRecovery(RCntx("NO_ERROR"), "SEND_R_ACK")
                \/ /\ IF mine THEN lastSentNonErrorframeType # "IFRAME"
                              ELSE lastSentNonErrorframeType # "RFRAME"
                   /\ ErrorRecovery(RCntx("OTHER_ERROR"), "SEND_R_NACK")
          \/ /\ LastTx.FrameType = "SFRAME"
             /\ ErrorRecovery(LastTx, nextTransceiveState)
       /\ UNCHANGED <<LastTx, lastRcvdSeqNo, response>>
       /\ Loop

\* An R-frame with both error bits: the last frame again, whatever it was.
RecvRSofMissed ==
    /\ FrameOk
    /\ wtx_counter' = 0 /\ status' = TRUE
    /\ ErrorRecovery(LastTx, nextTransceiveState)
    /\ UNCHANGED <<LastTx, lastRcvdSeqNo, response>>
    /\ Loop

RecvRframe(seq, err) ==
    \/ err = "NO_ERROR" /\ RecvRAck(seq)
    \/ err \in {"PARITY_ERROR", "OTHER_ERROR"} /\ RecvRNack(seq)
    \/ err = "SOF_MISSED_ERROR" /\ RecvRSofMissed

\* WTX_REQ: grant the extension, up to wtx_counter_limit times in a row, and
\* then reset the interface. In answer to an S-frame that is not a WTX_RSP it is
\* an error and that S-frame is sent again.
RecvWtxReq ==
    LET count == (wtx_counter + 1) % ULONG_RANGE
    IN /\ FrameOk
       /\ status' = TRUE
       /\ \/ /\ LastTx.FrameType = "SFRAME" /\ LastTx.sFrameType # "WTX_RSP"
             /\ wtx_counter' = count
             /\ ErrorRecovery(LastTx, nextTransceiveState)
          \/ /\ LastTx.FrameType # "SFRAME" \/ LastTx.sFrameType = "WTX_RSP"
             /\ \/ /\ count = WTX_LIMIT
                   /\ wtx_counter' = 0
                   /\ NextTx' = SCntx("INTF_RESET_REQ")
                   /\ nextTransceiveState' = "SEND_S_INTF_RST"
                \/ /\ count # WTX_LIMIT
                   /\ wtx_counter' = count
                   /\ NextTx' = SCntx("WTX_RSP")
                   /\ nextTransceiveState' = "SEND_S_WTX_RSP"
             /\ UNCHANGED recoveryCounter
       /\ UNCHANGED <<LastTx, lastRcvdSeqNo, response>>
       /\ Loop

\* The answers that only end the exchange, and ATR_RES, which also is saved.
RecvSRsp(type, inf) ==
    /\ FrameOk
    /\ wtx_counter' = 0
    /\ nextTransceiveState' = "IDLE_STATE"
    /\ \/ /\ type = "ATR_RES" /\ SaveFails(inf)
          /\ status' = FALSE /\ UNCHANGED NextTx
       \/ /\ IF type = "ATR_RES" THEN SaveRxframeData(inf) ELSE UNCHANGED rspData
          /\ status' = TRUE
          /\ NextTx' = [NextTx EXCEPT !.FrameType = "UNKNOWN"]
    /\ UNCHANGED <<LastTx, lastRcvdSeqNo, pRsp, recoveryCounter>>
    /\ Loop

\* INTF_RESET_RSP: its INF is saved; then, unless recovery had already reached
\* its limit, the whole protocol instance starts over, the saved bytes included.
RecvIntfResetRsp(inf) ==
    /\ pc = "recv"
    /\ timeoutCounter' = 0 /\ rnack_retry_counter' = 0 /\ wtx_counter' = 0
    /\ nextTransceiveState' = "IDLE_STATE" /\ Loop
    /\ \/ /\ SaveFails(inf) /\ status' = FALSE
          /\ UNCHANGED <<LastTx, NextTx, lastRcvdSeqNo, pRsp, recoveryCounter,
                         lastSentNonErrorframeType, CurrentState>>
       \/ /\ SaveRxframeData(inf) /\ recoveryCounter > FRAME_RETRY_COUNT
          /\ status' = FALSE
          /\ UNCHANGED <<LastTx, NextTx, lastRcvdSeqNo, pRsp, recoveryCounter,
                         lastSentNonErrorframeType, CurrentState>>
       \/ /\ pRsp # "NULL" /\ Len(rspData) + Len(inf) <= RSP_CAP
          /\ recoveryCounter <= FRAME_RETRY_COUNT
          /\ status' = TRUE
          /\ LastTx' = ResetCntx
          /\ NextTx' = [ResetCntx EXCEPT !.FrameType = "UNKNOWN"]
          /\ lastRcvdSeqNo' = 1 /\ pRsp' = "NULL" /\ rspData' = << >>
          /\ recoveryCounter' = 0 /\ lastSentNonErrorframeType' = "UNKNOWN"
          /\ CurrentState' = "IDLE"
    /\ UNCHANGED <<op, loopcnt>>

\* An S-frame of no known type changes nothing: the last frame goes out again.
RecvUnknownSframe ==
    /\ FrameOk
    /\ wtx_counter' = 0 /\ status' = TRUE
    /\ UNCHANGED <<LastTx, NextTx, lastRcvdSeqNo, response, nextTransceiveState,
                   recoveryCounter>>
    /\ Loop

RecvSframe(type, inf) ==
    \/ type = "WTX_REQ" /\ RecvWtxReq
    \/ type = "INTF_RESET_RSP" /\ RecvIntfResetRsp(inf)
    \/ type = "OTHER" /\ RecvUnknownSframe
    \/ type \in SRsps \ {"WTX_REQ", "INTF_RESET_RSP", "OTHER"} /\ RecvSRsp(type, inf)

-----------------------------------------------------------------------------
(* The rest of ProcessResponse: no frame, or one with a bad CRC. *)

\* Ask for the last block again, at most rnack_retry_limit times in a row.
AskAgain(err) ==
    \/ /\ rnack_retry_counter < RNACK_LIMIT
       /\ rnack_retry_counter' = rnack_retry_counter + 1
       /\ NextTx' = RCntx(err) /\ nextTransceiveState' = "SEND_R_NACK"
    \/ /\ rnack_retry_counter >= RNACK_LIMIT
       /\ rnack_retry_counter' = 0
       /\ nextTransceiveState' = "IDLE_STATE"
       /\ UNCHANGED NextTx

BadCrc ==
    /\ pc = "recv"
    /\ AskAgain("PARITY_ERROR")
    /\ timeoutCounter' = 0
    /\ status' = (rnack_retry_counter < RNACK_LIMIT)
    /\ Loop
    /\ UNCHANGED <<LastTx, lastRcvdSeqNo, response, recoveryCounter, wtx_counter,
                   lastSentNonErrorframeType, control>>

\* Send the last frame again, at most TIMEOUT_RETRY_COUNT times in a row.
\* Mutant: without counting.
SendAgain_Uncounted ==
    /\ NextTx' = LastTx /\ UNCHANGED <<nextTransceiveState, timeoutCounter>>
SendAgain ==
    \/ /\ timeoutCounter < TIMEOUT_RETRY_COUNT
       /\ timeoutCounter' = timeoutCounter + 1
       /\ NextTx' = LastTx /\ UNCHANGED nextTransceiveState
    \/ /\ timeoutCounter >= TIMEOUT_RETRY_COUNT
       /\ timeoutCounter' = 0
       /\ nextTransceiveState' = "IDLE_STATE" /\ UNCHANGED NextTx

\* GetRawFrame failed: R-NACK after a WTX_RSP or an I-frame (rule 7.1), and the
\* last frame again, TIMEOUT_RETRY_COUNT times, after anything else.
ReadFails ==
    /\ pc = "recv"
    /\ status' = FALSE
    /\ \/ /\ LastTx.FrameType = "SFRAME" /\ LastTx.sFrameType = "WTX_RSP"
          /\ AskAgain("OTHER_ERROR")
          /\ timeoutCounter' = IF rnack_retry_counter < RNACK_LIMIT THEN timeoutCounter ELSE 0
       \/ /\ LastTx.FrameType = "IFRAME"
          /\ AskAgain("PARITY_ERROR")
          /\ timeoutCounter' = IF rnack_retry_counter < RNACK_LIMIT THEN timeoutCounter ELSE 0
       \/ /\ LastTx.FrameType # "IFRAME"
          /\ LastTx.FrameType # "SFRAME" \/ LastTx.sFrameType # "WTX_RSP"
          /\ SendAgain /\ UNCHANGED rnack_retry_counter
    /\ Loop
    /\ UNCHANGED <<LastTx, lastRcvdSeqNo, response, recoveryCounter, wtx_counter,
                   lastSentNonErrorframeType, control>>

-----------------------------------------------------------------------------
(* The sending half of TransceiveProcess. *)

\* SendIframe refuses an empty fragment before it touches anything.
EmptyIframe == nextTransceiveState = "SEND_IFRAME" /\ NextTx.Iframe.sendDataLen = 0

\* SendIframe, sendRframe and SendSFrame note the kind of what they send, unless
\* it is an R-NACK, even when the write then fails.
\* Mutant: an R-NACK is noted as well.
NoteSent_RNackToo ==
    lastSentNonErrorframeType' =
        CASE nextTransceiveState = "SEND_IFRAME" -> "IFRAME"
          [] nextTransceiveState \in {"SEND_R_ACK", "SEND_R_NACK"} -> "RFRAME"
          [] OTHER -> "SFRAME"
NoteSent ==
    lastSentNonErrorframeType' =
        CASE nextTransceiveState = "SEND_IFRAME" -> "IFRAME"
          [] nextTransceiveState = "SEND_R_ACK"  -> "RFRAME"
          [] nextTransceiveState = "SEND_R_NACK" -> lastSentNonErrorframeType
          [] OTHER -> "SFRAME"

\* The frame those three functions put on the bus.
TxFrame ==
    CASE nextTransceiveState = "SEND_IFRAME" ->
           [kind |-> "I", seq |-> NextTx.Iframe.seqNo, more |-> NextTx.Iframe.isChained,
            cmd |-> NextTx.Iframe.p_data, offset |-> NextTx.Iframe.dataOffset,
            len |-> NextTx.Iframe.sendDataLen]
      [] nextTransceiveState = "SEND_R_ACK" ->
           [kind |-> "R", seq |-> Flip(lastRcvdSeqNo), err |-> "NO_ERROR"]
      [] nextTransceiveState = "SEND_R_NACK" ->
           [kind |-> "R", seq |-> Flip(lastRcvdSeqNo), err |-> NextTx.errCode]
      [] OTHER -> [kind |-> "S", type |-> SFrameOf[nextTransceiveState]]

\* The write succeeds. Mutant: what was sent is not remembered.
SendOk_NotCopied ==
    /\ pc = "send" /\ ~EmptyIframe /\ NoteSent
    /\ status' = TRUE /\ pc' = "recv"
    /\ UNCHANGED <<LastTx, NextTx, lastRcvdSeqNo, response, nextTransceiveState, counters, control>>
SendOk ==
    /\ pc = "send" /\ ~EmptyIframe
    /\ NoteSent
    /\ LastTx' = NextTx
    /\ status' = TRUE /\ pc' = "recv"
    /\ UNCHANGED <<NextTx, lastRcvdSeqNo, response, nextTransceiveState, counters, control>>

SendFails ==
    /\ pc = "send"
    /\ IF EmptyIframe THEN UNCHANGED lastSentNonErrorframeType ELSE NoteSent
    /\ status' = FALSE /\ pc' = "done"
    /\ nextTransceiveState' = "IDLE_STATE"
    /\ UNCHANGED <<LastTx, NextTx, lastRcvdSeqNo, response, counters, control>>

-----------------------------------------------------------------------------
(* The calls of the protocol layer: what each does before TransceiveProcess. *)

Begin(name, state) ==
    /\ pc = "idle" /\ CurrentState = "IDLE"
    /\ op' = name /\ CurrentState' = state /\ loopcnt' = 0
    /\ status' = FALSE

\* phNxpEseProto7816_ResetProtoParams, but for the Tx contexts and pRsp.
ResetProtoParams ==
    /\ lastRcvdSeqNo' = 1 /\ rspData' = << >>
    /\ recoveryCounter' = 0 /\ timeoutCounter' = 0
    /\ rnack_retry_counter' = 0 /\ wtx_counter' = 0
    /\ lastSentNonErrorframeType' = "UNKNOWN"

\* The caller's buffer, empty. Mutant: responseBytesRcvd is not reset.
FreshResponse_NotEmptied == pRsp' = "live" /\ UNCHANGED rspData
FreshResponse == pRsp' = "live" /\ rspData' = << >>

SendS(type, state) ==
    /\ NextTx' = SCntx(type) /\ nextTransceiveState' = state /\ pc' = "send"

\* Transceive, with SetFirstIframeContxt: a command of `len` units.
Transceive(cmd, len) ==
    LET more == len > IFSC
    IN /\ Begin("Transceive", "TRANSCEIVE")
       /\ FreshResponse
       /\ NextTx' = [NextTx EXCEPT
            !.FrameType = "IFRAME",
            !.Iframe = [p_data |-> cmd, isChained |-> more,
                        seqNo |-> Flip(LastTx.Iframe.seqNo), dataOffset |-> 0,
                        totalDataLen |-> IF more THEN len - IFSC ELSE len,
                        sendDataLen |-> IF more THEN IFSC ELSE len]]
       /\ nextTransceiveState' = "SEND_IFRAME" /\ pc' = "send"
       /\ UNCHANGED <<LastTx, lastRcvdSeqNo, counters, lastSentNonErrorframeType>>

\* Open: everything is reset, then either the SE's previous work is waited for
\* (initParam.interfaceReset) or the sequence numbers are resynchronised at once.
Open ==
    /\ Begin("Open", "IDLE")
    /\ ResetProtoParams /\ pRsp' = "live"
    /\ LastTx' = ResetCntx /\ NextTx' = ResetCntx
    /\ nextTransceiveState' = "IDLE_STATE" /\ pc' = "wtxSync"

Resume ==
    /\ Begin("Resume", "TRANSCEIVE")
    /\ ResetProtoParams /\ pRsp' = "live"
    /\ LastTx' = ResetCntx
    /\ NextTx' = [ResetCntx EXCEPT !.FrameType = "SFRAME", !.sFrameType = "RESYNCH_REQ"]
    /\ nextTransceiveState' = "SEND_S_RSYNC" /\ pc' = "send"

\* Close no longer wants an answer: pRsp is NULL from here on. Mutant: it is not.
Close_KeepsRsp ==
    /\ Begin("Close", "DEINIT")
    /\ recoveryCounter' = 0 /\ wtx_counter' = 0
    /\ SendS("PROP_END_APDU_REQ", "SEND_S_EOS")
    /\ UNCHANGED <<LastTx, lastRcvdSeqNo, response, timeoutCounter,
                   rnack_retry_counter, lastSentNonErrorframeType>>
Close ==
    /\ Begin("Close", "DEINIT")
    /\ pRsp' = "NULL" /\ recoveryCounter' = 0 /\ wtx_counter' = 0
    /\ SendS("PROP_END_APDU_REQ", "SEND_S_EOS")
    /\ UNCHANGED <<LastTx, lastRcvdSeqNo, rspData, timeoutCounter,
                   rnack_retry_counter, lastSentNonErrorframeType>>

IntfReset ==
    /\ Begin("IntfReset", "TRANSCEIVE")
    /\ FreshResponse
    /\ SendS("INTF_RESET_REQ", "SEND_S_INTF_RST")
    /\ UNCHANGED <<LastTx, lastRcvdSeqNo, counters, lastSentNonErrorframeType>>

\* phNxpEse_chipReset: the host's instance is reset before the SE is asked to.
ChipReset ==
    /\ Begin("ChipReset", "TRANSCEIVE")
    /\ ResetProtoParams /\ pRsp' = "NULL"
    /\ LastTx' = ResetCntx
    /\ NextTx' = [ResetCntx EXCEPT !.FrameType = "SFRAME", !.sFrameType = "CHIP_RESET_REQ"]
    /\ nextTransceiveState' = "SEND_S_CHIP_RST" /\ pc' = "send"

\* GetAtr as smComT1oI2C_AnswerToReset calls it, with a response that has no
\* buffer (p_data is NULL), which SaveRxframeData refuses like a NULL pRsp.
GetAtr ==
    /\ Begin("GetAtr", "TRANSCEIVE")
    /\ pRsp' = "NULL" /\ rspData' = << >>
    /\ SendS("ATR_REQ", "SEND_S_ATR")
    /\ UNCHANGED <<LastTx, lastRcvdSeqNo, counters, lastSentNonErrorframeType>>

\* Deep_Pwr_Down leaves pRsp as the previous call left it.
DeepPwrDown ==
    /\ Begin("DeepPwrDown", "TRANSCEIVE")
    /\ SendS("DEEP_PWR_DOWN_REQ", "SEND_DEEP_PWR_DOWN")
    /\ UNCHANGED <<LastTx, lastRcvdSeqNo, response, counters, lastSentNonErrorframeType>>

\* The end of TransceiveProcess is the end of the call, except in Open, where a
\* successful RSync is followed by GetAtr. The caller's buffer is then its own.
OpenThenAtr ==
    /\ pc = "done" /\ op = "Open" /\ status
    /\ op' = "OpenAtr" /\ CurrentState' = "TRANSCEIVE"
    /\ FreshResponse /\ status' = FALSE
    /\ SendS("ATR_REQ", "SEND_S_ATR")
    /\ UNCHANGED <<LastTx, lastRcvdSeqNo, counters, lastSentNonErrorframeType, loopcnt>>

Return ==
    /\ pc = "done" /\ ~(op = "Open" /\ status)
    /\ pc' = "idle" /\ op' = "none" /\ CurrentState' = "IDLE"
    /\ pRsp' = IF pRsp = "live" THEN "stale" ELSE pRsp
    /\ status' = FALSE
    /\ UNCHANGED <<LastTx, NextTx, lastRcvdSeqNo, rspData, nextTransceiveState,
                   counters, lastSentNonErrorframeType, loopcnt>>

-----------------------------------------------------------------------------
(* phNxpEse_waitForWTX: raw reads and writes, outside the Tx contexts.  *)
(* loopcnt is 0 until its loop is entered, then 1 + the code's loopcnt. *)

WtxVars == <<LastTx, NextTx, lastRcvdSeqNo, response, nextTransceiveState, counters,
             status, CurrentState, op>>

WtxSend(ok) ==
    /\ lastSentNonErrorframeType' = "SFRAME"
    /\ \/ pc = "wtxSync" /\ pc' = (IF ok THEN "wtxRead" ELSE "clear") /\ UNCHANGED loopcnt
       \/ /\ pc = "wtxRsp"
          /\ loopcnt' = IF ok THEN loopcnt + 1 ELSE loopcnt
          /\ pc' = IF ok /\ loopcnt < PREV_TXN_WAIT THEN "wtxRead" ELSE "clear"
    /\ UNCHANGED WtxVars

\* Only a WTX request is answered; anything else that can be read ends the wait.
WtxRead(isWtxReq) ==
    /\ pc = "wtxRead"
    /\ pc' = IF isWtxReq THEN "wtxRsp" ELSE "clear"
    /\ UNCHANGED <<WtxVars, lastSentNonErrorframeType, loopcnt>>

WtxReadFails ==
    /\ pc = "wtxRead"
    /\ loopcnt' = IF loopcnt = 0 THEN 0 ELSE loopcnt + 1
    /\ pc' = IF loopcnt = 0 \/ loopcnt >= PREV_TXN_WAIT THEN "clear" ELSE "wtxRead"
    /\ UNCHANGED <<WtxVars, lastSentNonErrorframeType>>

\* phNxpEse_clearReadBuffer, then RSync.
ClearThenRSync ==
    /\ pc = "clear"
    /\ CurrentState' = "TRANSCEIVE" /\ loopcnt' = 0
    /\ SendS("RESYNCH_REQ", "SEND_S_RSYNC")
    /\ UNCHANGED <<LastTx, lastRcvdSeqNo, response, counters, lastSentNonErrorframeType,
                   status, op>>

-----------------------------------------------------------------------------
\* The values of ResetProtoParams. C starts most of them at 0, but the first call
\* on a connection is Open or Resume, which sets every one before it is read.
Init ==
    /\ LastTx = ResetCntx /\ NextTx = ResetCntx /\ lastRcvdSeqNo = 1
    /\ pRsp = "NULL" /\ rspData = << >>
    /\ nextTransceiveState = "IDLE_STATE" /\ CurrentState = "IDLE"
    /\ recoveryCounter = 0 /\ timeoutCounter = 0 /\ rnack_retry_counter = 0 /\ wtx_counter = 0
    /\ lastSentNonErrorframeType = "UNKNOWN"
    /\ status = FALSE /\ pc = "idle" /\ op = "none" /\ loopcnt = 0

Call ==
    \/ \E cmd \in Cmds, len \in CmdLens : Transceive(cmd, len)
    \/ Open \/ Resume \/ Close \/ IntfReset \/ ChipReset \/ GetAtr \/ DeepPwrDown

Receive ==
    \/ \E seq \in Bit, more \in BOOLEAN, inf \in Infs : RecvIframe(seq, more, inf)
    \/ \E seq \in Bit, err \in ErrorTypes : RecvRframe(seq, err)
    \/ \E type \in SRsps, inf \in Infs : RecvSframe(type, inf)
    \/ BadCrc
    \/ ReadFails

WaitForWTX ==
    \/ \E ok \in BOOLEAN : WtxSend(ok)
    \/ \E isWtxReq \in BOOLEAN : WtxRead(isWtxReq)
    \/ WtxReadFails
    \/ ClearThenRSync

\* The process dies and is started again.
Restart ==
    /\ pc # "idle"
    /\ ResetProtoParams /\ pRsp' = "NULL"
    /\ LastTx' = ResetCntx /\ NextTx' = ResetCntx
    /\ nextTransceiveState' = "IDLE_STATE" /\ CurrentState' = "IDLE"
    /\ status' = FALSE /\ pc' = "idle" /\ op' = "none" /\ loopcnt' = 0

Next == Call \/ SendOk \/ SendFails \/ Receive \/ WaitForWTX \/ OpenThenAtr \/ Return
        \/ Restart

Spec == Init /\ [][Next]_vars

-----------------------------------------------------------------------------
TypeOK ==
    /\ LastTx \in TxCntx /\ NextTx \in TxCntx
    /\ lastRcvdSeqNo \in Bit
    /\ pRsp \in {"NULL", "live", "stale"}
    /\ rspData \in Seq(Units) /\ Len(rspData) <= RSP_CAP
    /\ nextTransceiveState \in SendStates \cup {"IDLE_STATE"}
    /\ CurrentState \in {"IDLE", "TRANSCEIVE", "DEINIT"}
    /\ recoveryCounter \in 0..UINT8_RANGE - 1
    /\ timeoutCounter \in 0..TIMEOUT_RETRY_COUNT
    /\ rnack_retry_counter \in 0..RNACK_LIMIT
    /\ wtx_counter \in 0..ULONG_RANGE - 1
    /\ lastSentNonErrorframeType \in FrameTypes
    /\ status \in BOOLEAN
    /\ pc \in {"idle", "wtxSync", "wtxRead", "wtxRsp", "clear", "send", "recv", "done"}
    /\ op \in Ops
    /\ loopcnt \in 0..PREV_TXN_WAIT + 1

\* While an answer is awaited the next context is still the last: every frame
\* that is repeated without being set up again (the branches of DecodeFrame that
\* leave NextTx_Cntx alone) is the frame that was sent.
AwaitsForLast == pc = "recv" => LastTx = NextTx

\* The state that chooses the frame to send and the context that describes it are
\* set by different lines of DecodeFrame and ProcessResponse, and agree whenever
\* TransceiveProcess sends or waits for the answer.
Matches(state, cntx) ==
    \/ state = "SEND_IFRAME" /\ cntx.FrameType = "IFRAME"
    \/ state \in {"SEND_R_ACK", "SEND_R_NACK"} /\ cntx.FrameType = "RFRAME"
    \/ /\ state \in DOMAIN SFrameOf
       /\ cntx.FrameType = "SFRAME" /\ cntx.sFrameType = SFrameOf[state]
FrameMatchesContext == pc \in {"send", "recv"} => Matches(nextTransceiveState, NextTx)

\* A request to repeat a block is never encoded as an acknowledgement of it (the
\* default branch of sendRframe), nor an acknowledgement as such a request.
Coded(state, cntx) ==
    /\ state = "SEND_R_NACK" => cntx.errCode # "NO_ERROR"
    /\ state = "SEND_R_ACK" => cntx.errCode = "NO_ERROR"
NackCarriesError == pc \in {"send", "recv"} => Coded(nextTransceiveState, NextTx)

\* An I-frame that goes out is the last one again, with nothing in it changed, or
\* carries the other number: the SE can tell a repetition from a new fragment.
Renumbered(state, cntx) ==
    state = "SEND_IFRAME" => \/ cntx.Iframe = LastTx.Iframe
                             \/ cntx.Iframe.seqNo = Flip(LastTx.Iframe.seqNo)
RepeatOrRenumber == pc = "send" => Renumbered(nextTransceiveState, NextTx)

\* No call works with the buffer of one that has returned, Deep_Pwr_Down apart,
\* which alone starts an exchange without saying where its answer goes.
NoReturnedBuffer == (pc # "idle" /\ op # "DeepPwrDown") => pRsp # "stale"
=============================================================================
