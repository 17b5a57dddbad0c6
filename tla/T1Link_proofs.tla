---------------------------- MODULE T1Link_proofs ----------------------------
(***************************************************************************)
(* The T=1 protocol: first its instance alone (T1oI2C), for every value of *)
(* the limits, whatever frames the SE sends and in whatever order the      *)
(* calls are made; then the same on the link (T1Link); then what becomes   *)
(* of commands and answers when nothing is damaged on the way; and last    *)
(* that frames lost are made good.                                         *)
(*                                                                         *)
(* The inductive invariant of the instance, IInv, says besides the types   *)
(* that whenever TransceiveProcess is about to send or awaits an answer    *)
(* its state and its next context make a frame that may be sent            *)
(* (Sendable), and that while it awaits an answer that context is also the *)
(* last one (AwaitsForLast): without it nothing would be known of the      *)
(* context the error branches of DecodeFrame send again.                   *)
(***************************************************************************)
EXTENDS T1Link, SequenceTheorems, FiniteSetTheorems, TLAPS

\* phNxpEse_waitForWTX leaves its loop when loopcnt reaches its limit.
WaitBounded == pc \in {"wtxSync", "wtxRead", "wtxRsp"} => loopcnt <= PREV_TXN_WAIT

\* A context set up for an R-frame is well typed and keeps its I-frame.
LEMMA RCntxFacts ==
    ASSUME NextTx \in TxCntx, NEW err \in ErrorTypes
    PROVE  /\ RCntx(err) \in TxCntx
           /\ RCntx(err).FrameType = "RFRAME" /\ RCntx(err).errCode = err
           /\ RCntx(err).Iframe = NextTx.Iframe
BY DEF RCntx, TxCntx, FrameTypes

\* A context set up for an S-frame is well typed and keeps its I-frame.
LEMMA SCntxFacts ==
    ASSUME NextTx \in TxCntx, NEW type \in SReqs
    PROVE  /\ SCntx(type) \in TxCntx
           /\ SCntx(type).FrameType = "SFRAME" /\ SCntx(type).sFrameType = type
           /\ SCntx(type).Iframe = NextTx.Iframe
BY DEF SCntx, TxCntx, FrameTypes

\* The context phNxpEseProto7816_ResetProtoParams leaves is well typed.
LEMMA ResetFacts ==
    /\ ResetCntx \in TxCntx
    /\ [ResetCntx EXCEPT !.FrameType = "UNKNOWN"] \in TxCntx
<1>1. 0 \in 0..UINT_MAX /\ 0 \in Nat /\ 1 \in Bit
  BY DataAssumption DEF Bit
<1>2. ResetCntx.Iframe \in IframeInfo
  BY <1>1, Zenon DEF ResetCntx, IframeInfo
<1> QED
  BY <1>2, Zenon DEF ResetCntx, TxCntx, FrameTypes, ErrorTypes, SReqs

\* SetNextIframeContxt makes a well-typed I-frame context with the other number.
LEMMA NextFragmentFacts ==
    ASSUME NextTx \in TxCntx, LastTx \in TxCntx, SetNextIframeContxt
    PROVE  /\ NextTx' \in TxCntx
           /\ NextTx'.FrameType = "IFRAME"
           /\ NextTx'.Iframe.seqNo = Flip(LastTx.Iframe.seqNo)
<1> DEFINE last == LastTx.Iframe
           more == last.totalDataLen > IFSC
           seqNo == Flip(last.seqNo)
           kept == [NextTx.Iframe EXCEPT !.seqNo = seqNo]
           fragment == [p_data |-> last.p_data, isChained |-> more, seqNo |-> seqNo,
                        dataOffset |-> last.dataOffset + IFSC,
                        totalDataLen |-> IF more THEN last.totalDataLen - IFSC
                                                 ELSE NextTx.Iframe.totalDataLen,
                        sendDataLen |-> IF more THEN IFSC ELSE last.totalDataLen]
           info == IF UINT_MAX - last.dataOffset < IFSC THEN kept ELSE fragment
<1>1. last \in IframeInfo /\ NextTx.Iframe \in IframeInfo
  BY DEF TxCntx
<1>2. seqNo \in Bit
  BY <1>1 DEF IframeInfo, Bit, Flip
<1>3. kept \in IframeInfo /\ kept.seqNo = seqNo
  BY <1>1, <1>2 DEF IframeInfo
<1>4. ASSUME ~(UINT_MAX - last.dataOffset < IFSC)
      PROVE  fragment \in IframeInfo
  <2>1. /\ last.p_data \in Cmds \cup {NoCmd}
        /\ last.dataOffset + IFSC \in 0..UINT_MAX
        /\ (IF more THEN IFSC ELSE last.totalDataLen) \in Nat
        /\ (IF more THEN last.totalDataLen - IFSC ELSE NextTx.Iframe.totalDataLen) \in Nat
    BY <1>1, <1>4, DataAssumption DEF IframeInfo
  <2>2. more \in BOOLEAN
    OBVIOUS
  <2> QED
    BY <1>2, <2>1, <2>2, Zenon DEF IframeInfo
<1>5. info \in IframeInfo /\ info.seqNo = seqNo
  BY <1>3, <1>4, Zenon
<1>6. NextTx' = [NextTx EXCEPT !.FrameType = "IFRAME", !.Iframe = info]
  BY Zenon DEF SetNextIframeContxt, NextFragment
<1> QED
  <2> HIDE DEF info, seqNo
  <2>1. [NextTx EXCEPT !.FrameType = "IFRAME", !.Iframe = info] \in TxCntx
    BY <1>5 DEF TxCntx, FrameTypes
  <2> QED
    BY <1>5, <1>6, <2>1 DEF TxCntx, info, seqNo

\* What SaveRxframeData leaves in the response buffer fits into it.
LEMMA SaveFacts ==
    ASSUME rspData \in Seq(Units), Len(rspData) <= RSP_CAP, NEW inf \in Infs,
           rspData' = rspData \/ SaveRxframeData(inf)
    PROVE  rspData' \in Seq(Units) /\ Len(rspData') <= RSP_CAP
<1>1. inf \in Seq(Units)
  BY DataAssumption
<1>2. rspData \o inf \in Seq(Units) /\ Len(rspData \o inf) = Len(rspData) + Len(inf)
  BY <1>1, ConcatProperties
<1> QED
  BY <1>2 DEF SaveRxframeData

\* A counter of width r stays below r.
LEMMA ModFacts == \A c \in Nat, r \in Nat \ {0} : (c + 1) % r \in 0..r - 1
OBVIOUS

\* A context that may be sent from a state.
Sendable(state, cntx) ==
    /\ state \in SendStates /\ cntx \in TxCntx
    /\ Matches(state, cntx) /\ Coded(state, cntx) /\ Renumbered(state, cntx)

\* The inductive invariant.
IInv ==
    /\ TypeOK
    /\ pc \in {"send", "recv"} => Sendable(nextTransceiveState, NextTx)
    /\ AwaitsForLast
    /\ WaitBounded
    /\ NoReturnedBuffer

\* A context set up for an R-ACK may be sent as one.
LEMMA RAckSendable ==
    ASSUME NextTx \in TxCntx
    PROVE  Sendable("SEND_R_ACK", RCntx("NO_ERROR"))
BY RCntxFacts DEF Sendable, SendStates, Matches, Coded, Renumbered, ErrorTypes

\* A context set up for an R-NACK may be sent as one.
LEMMA RNackSendable ==
    ASSUME NextTx \in TxCntx, NEW err \in ErrorTypes \ {"NO_ERROR"}
    PROVE  Sendable("SEND_R_NACK", RCntx(err))
BY RCntxFacts DEF Sendable, SendStates, Matches, Coded, Renumbered

\* A context set up for an S-frame may be sent from the state that names it.
LEMMA SFrameSendable ==
    ASSUME NextTx \in TxCntx, NEW state \in DOMAIN SFrameOf, NEW type \in SReqs,
           SFrameOf[state] = type
    PROVE  Sendable(state, SCntx(type))
<1>1. state \notin {"SEND_R_ACK", "SEND_R_NACK", "SEND_IFRAME"}
  BY DEF SFrameOf
<1> QED
  BY <1>1, SCntxFacts DEF Sendable, SendStates, Matches, Coded, Renumbered

\* After an error, what is sent next is sendable when what is sent again would be.
LEMMA ErrorRecoveryFacts ==
    ASSUME TypeOK, NEW cntx, NEW state, ErrorRecovery(cntx, state), Sendable(state, cntx)
    PROVE  /\ recoveryCounter' \in 0..UINT8_RANGE - 1
           /\ \/ nextTransceiveState' = "IDLE_STATE" /\ NextTx' \in TxCntx
              \/ Sendable(nextTransceiveState', NextTx')
<1>1. recoveryCounter' \in 0..UINT8_RANGE - 1
  BY ModFacts, CountersAssumption DEF ErrorRecovery, TypeOK
<1>2. Sendable("SEND_S_INTF_RST", SCntx("INTF_RESET_REQ"))
  BY SFrameSendable DEF SFrameOf, SReqs, TypeOK
<1> QED
  BY <1>1, <1>2, Zenon DEF ErrorRecovery, TypeOK

\* What TransceiveProcess's loop makes of a response: enough for IInv'.
LEMMA Looped ==
    ASSUME IInv, pc = "recv", Loop, TypeOK',
           UNCHANGED <<LastTx, pRsp, op>>,
           nextTransceiveState' = "IDLE_STATE" \/ Sendable(nextTransceiveState', NextTx')
    PROVE  IInv'
<1>1. pc' \in {"send", "done"}
  BY DEF Loop
<1>2. pc' = "send" => Sendable(nextTransceiveState, NextTx)'
  BY DEF Loop, Sendable, Matches, Coded, Renumbered, SendStates, SFrameOf
<1>3. NoReturnedBuffer'
  BY DEF IInv, NoReturnedBuffer
<1> QED
  BY <1>1, <1>2, <1>3 DEF IInv, AwaitsForLast, WaitBounded

\* The loop of TransceiveProcess goes on or ends.
LEMMA LoopType ==
    ASSUME Loop
    PROVE  pc' \in {"send", "done"}
BY DEF Loop

\* An I-frame, new or not.
LEMMA RecvIframeStep ==
    ASSUME IInv, NEW seq \in Bit, NEW more \in BOOLEAN, NEW inf \in Infs,
           RecvIframe(seq, more, inf)
    PROVE  IInv'
<1>1. /\ TypeOK /\ pc = "recv" /\ Loop /\ pc' \in {"send", "done"}
      /\ timeoutCounter' = 0 /\ rnack_retry_counter' = 0 /\ wtx_counter' = 0
      /\ UNCHANGED <<LastTx, pRsp, lastSentNonErrorframeType, control>>
  BY LoopType DEF RecvIframe, FrameOk, IInv
<1>2. CASE IsNew(seq)
  <2>1. /\ recoveryCounter' = 0 /\ lastRcvdSeqNo' = seq
        /\ NextTx' = IF more THEN RCntx("NO_ERROR") ELSE NextTx
        /\ nextTransceiveState' \in {"SEND_R_ACK", "IDLE_STATE"}
        /\ nextTransceiveState' = "SEND_R_ACK" => more
        /\ status' \in BOOLEAN
        /\ rspData' = rspData \/ SaveRxframeData(inf)
    BY <1>2 DEF RecvIframe, SaveFails
  <2>2. rspData' \in Seq(Units) /\ Len(rspData') <= RSP_CAP
    BY <1>1, <2>1, SaveFacts DEF TypeOK
  <2>3. NextTx' \in TxCntx
    BY <1>1, <2>1, RCntxFacts DEF TypeOK, ErrorTypes
  <2>4. TypeOK'
    BY <1>1, <2>1, <2>2, <2>3, CountersAssumption DEF TypeOK, control, SendStates
  <2>5. nextTransceiveState' = "SEND_R_ACK" => Sendable(nextTransceiveState', NextTx')
    BY <1>1, <2>1, RAckSendable DEF TypeOK
  <2> QED
    BY <1>1, <2>1, <2>4, <2>5, Looped DEF control
<1>3. CASE ~IsNew(seq)
  <2>1. /\ ErrorRecovery(RCntx("OTHER_ERROR"), "SEND_R_NACK")
        /\ status' = TRUE /\ UNCHANGED <<lastRcvdSeqNo, rspData>>
    BY <1>3 DEF RecvIframe
  <2>2. Sendable("SEND_R_NACK", RCntx("OTHER_ERROR"))
    BY <1>1, RNackSendable DEF TypeOK, ErrorTypes
  <2>3. /\ recoveryCounter' \in 0..UINT8_RANGE - 1
        /\ \/ nextTransceiveState' = "IDLE_STATE" /\ NextTx' \in TxCntx
           \/ Sendable(nextTransceiveState', NextTx')
    BY <1>1, <2>1, <2>2, ErrorRecoveryFacts
  <2>4. TypeOK'
    BY <1>1, <2>1, <2>3, CountersAssumption DEF TypeOK, control, Sendable
  <2> QED
    BY <1>1, <2>3, <2>4, Looped DEF control
<1> QED
  BY <1>2, <1>3

\* The last I-frame may be sent again, whatever kind of frame was sent since.
LEMMA AgainSendable ==
    ASSUME LastTx \in TxCntx
    PROVE  Sendable("SEND_IFRAME", [LastTx EXCEPT !.FrameType = "IFRAME"])
<1>1. [LastTx EXCEPT !.FrameType = "IFRAME"] \in TxCntx
  BY DEF TxCntx, FrameTypes
<1>2. [LastTx EXCEPT !.FrameType = "IFRAME"].Iframe = LastTx.Iframe
  BY DEF TxCntx
<1>3. [LastTx EXCEPT !.FrameType = "IFRAME"].FrameType = "IFRAME"
  BY DEF TxCntx
<1> QED
  BY <1>1, <1>2, <1>3, Zenon DEF Sendable, SendStates, Matches, Coded, Renumbered

\* While an answer is awaited the last context may be sent again.
LEMMA LastSendable ==
    ASSUME IInv, pc = "recv"
    PROVE  Sendable(nextTransceiveState, LastTx)
BY Zenon DEF IInv, AwaitsForLast

\* Every branch of DecodeFrame that counts an error and goes on from a context
\* that may be sent.
LEMMA RecoveringStep ==
    ASSUME IInv, FrameOk, Loop, NEW cntx, NEW state,
           ErrorRecovery(cntx, state), Sendable(state, cntx),
           status' = TRUE, wtx_counter' \in 0..ULONG_RANGE - 1,
           UNCHANGED <<LastTx, lastRcvdSeqNo, response>>
    PROVE  IInv'
<1>1. /\ TypeOK /\ pc = "recv" /\ pc' \in {"send", "done"}
      /\ timeoutCounter' = 0 /\ rnack_retry_counter' = 0
      /\ UNCHANGED <<lastSentNonErrorframeType, CurrentState, op, loopcnt, pRsp, rspData>>
  BY LoopType DEF FrameOk, IInv, control, response
<1>2. /\ recoveryCounter' \in 0..UINT8_RANGE - 1
      /\ \/ nextTransceiveState' = "IDLE_STATE" /\ NextTx' \in TxCntx
         \/ Sendable(nextTransceiveState', NextTx')
  BY <1>1, ErrorRecoveryFacts
<1>3. TypeOK'
  BY <1>1, <1>2, CountersAssumption DEF TypeOK, Sendable
<1> QED
  BY <1>1, <1>2, <1>3, Looped

\* An R-ACK: the next fragment, or what was sent last.
LEMMA RecvRAckStep ==
    ASSUME IInv, NEW seq \in Bit, RecvRAck(seq)
    PROVE  IInv'
<1>1. /\ TypeOK /\ pc = "recv" /\ Loop /\ pc' \in {"send", "done"}
      /\ timeoutCounter' = 0 /\ rnack_retry_counter' = 0 /\ wtx_counter' = 0
      /\ recoveryCounter' = 0 /\ status' = TRUE
      /\ UNCHANGED <<LastTx, lastRcvdSeqNo, pRsp, rspData, lastSentNonErrorframeType,
                     CurrentState, op, loopcnt>>
  BY LoopType DEF RecvRAck, FrameOk, IInv, control, response
<1>2. Sendable(nextTransceiveState', NextTx')
  <2>1. CASE SetNextIframeContxt /\ nextTransceiveState' = "SEND_IFRAME"
    <3>1. /\ NextTx' \in TxCntx /\ NextTx'.FrameType = "IFRAME"
          /\ NextTx'.Iframe.seqNo = Flip(LastTx.Iframe.seqNo)
      BY <1>1, <2>1, NextFragmentFacts DEF TypeOK
    <3> QED
      BY <2>1, <3>1, Zenon DEF Sendable, SendStates, Matches, Coded, Renumbered
  <2>2. CASE UNCHANGED <<NextTx, nextTransceiveState>>
    BY <1>1, <2>2 DEF IInv
  <2> QED
    BY <2>1, <2>2 DEF RecvRAck
<1>3. TypeOK'
  BY <1>1, <1>2, CountersAssumption DEF TypeOK, Sendable
<1> QED
  BY <1>1, <1>2, <1>3, Looped

\* An R-NACK, in each of the cases of lines 804-867.
LEMMA RecvRNackStep ==
    ASSUME IInv, NEW seq \in Bit, RecvRNack(seq)
    PROVE  IInv'
<1> DEFINE again == [LastTx EXCEPT !.FrameType = "IFRAME"]
<1>1. /\ FrameOk /\ Loop /\ status' = TRUE
      /\ wtx_counter' \in 0..ULONG_RANGE - 1
      /\ UNCHANGED <<LastTx, lastRcvdSeqNo, response>>
  BY CountersAssumption DEF RecvRNack
<1>2. pc = "recv" /\ LastTx \in TxCntx /\ NextTx \in TxCntx
  BY DEF RecvRNack, FrameOk, IInv, TypeOK
<1>3. /\ Sendable("SEND_IFRAME", again)
      /\ Sendable("SEND_R_ACK", RCntx("NO_ERROR"))
      /\ Sendable("SEND_R_NACK", RCntx("OTHER_ERROR"))
      /\ Sendable(nextTransceiveState, LastTx)
  BY <1>2, AgainSendable, RAckSendable, RNackSendable, LastSendable DEF ErrorTypes
<1>4. \/ ErrorRecovery(again, "SEND_IFRAME")
      \/ ErrorRecovery(RCntx("NO_ERROR"), "SEND_R_ACK")
      \/ ErrorRecovery(RCntx("OTHER_ERROR"), "SEND_R_NACK")
      \/ ErrorRecovery(LastTx, nextTransceiveState)
  BY Zenon DEF RecvRNack
<1> QED
  BY <1>1, <1>3, <1>4, RecoveringStep

\* An R-frame with both error bits.
LEMMA RecvRSofMissedStep ==
    ASSUME IInv, RecvRSofMissed
    PROVE  IInv'
<1>1. pc = "recv" /\ wtx_counter' \in 0..ULONG_RANGE - 1
  BY CountersAssumption DEF RecvRSofMissed, FrameOk
<1> QED
  BY <1>1, LastSendable, RecoveringStep DEF RecvRSofMissed

\* A request for time: refused, granted, or one too many.
LEMMA RecvWtxReqStep ==
    ASSUME IInv, RecvWtxReq
    PROVE  IInv'
<1>1. /\ TypeOK /\ FrameOk /\ pc = "recv" /\ Loop /\ pc' \in {"send", "done"}
      /\ timeoutCounter' = 0 /\ rnack_retry_counter' = 0 /\ status' = TRUE
      /\ wtx_counter' \in 0..ULONG_RANGE - 1
      /\ UNCHANGED <<LastTx, lastRcvdSeqNo, response>>
      /\ UNCHANGED <<lastSentNonErrorframeType, CurrentState, op, loopcnt, pRsp, rspData>>
  <2>1. (wtx_counter + 1) % ULONG_RANGE \in 0..ULONG_RANGE - 1
    BY ModFacts, CountersAssumption DEF IInv, TypeOK
  <2>2. wtx_counter' = 0 \/ wtx_counter' = (wtx_counter + 1) % ULONG_RANGE
    BY DEF RecvWtxReq
  <2> QED
    BY <2>1, <2>2, LoopType, CountersAssumption DEF RecvWtxReq, FrameOk, IInv, control, response
<1>2. CASE ErrorRecovery(LastTx, nextTransceiveState)
  BY <1>1, <1>2, LastSendable, RecoveringStep
<1>3. CASE /\ NextTx' = SCntx("INTF_RESET_REQ") /\ nextTransceiveState' = "SEND_S_INTF_RST"
           /\ UNCHANGED recoveryCounter
  <2>1. Sendable(nextTransceiveState', NextTx')
    BY <1>1, <1>3, SFrameSendable DEF SFrameOf, SReqs, TypeOK
  <2>2. TypeOK'
    BY <1>1, <1>3, <2>1, CountersAssumption DEF TypeOK, Sendable
  <2> QED
    BY <1>1, <2>1, <2>2, Looped
<1>4. CASE /\ NextTx' = SCntx("WTX_RSP") /\ nextTransceiveState' = "SEND_S_WTX_RSP"
           /\ UNCHANGED recoveryCounter
  <2>1. Sendable(nextTransceiveState', NextTx')
    BY <1>1, <1>4, SFrameSendable DEF SFrameOf, SReqs, TypeOK
  <2>2. TypeOK'
    BY <1>1, <1>4, <2>1, CountersAssumption DEF TypeOK, Sendable
  <2> QED
    BY <1>1, <2>1, <2>2, Looped
<1> QED
  BY <1>2, <1>3, <1>4 DEF RecvWtxReq

\* The S-frames that end the exchange.
LEMMA RecvSRspStep ==
    ASSUME IInv, NEW type \in SRsps, NEW inf \in Infs, RecvSRsp(type, inf)
    PROVE  IInv'
<1>1. /\ TypeOK /\ pc = "recv" /\ Loop /\ pc' \in {"send", "done"}
      /\ timeoutCounter' = 0 /\ rnack_retry_counter' = 0 /\ wtx_counter' = 0
      /\ nextTransceiveState' = "IDLE_STATE"
      /\ status' \in BOOLEAN
      /\ UNCHANGED <<LastTx, lastRcvdSeqNo, pRsp, recoveryCounter,
                     lastSentNonErrorframeType, CurrentState, op, loopcnt>>
  BY LoopType DEF RecvSRsp, FrameOk, IInv, control
<1>2. rspData' \in Seq(Units) /\ Len(rspData') <= RSP_CAP
  <2>1. rspData' = rspData \/ SaveRxframeData(inf)
    BY DEF RecvSRsp, SaveFails
  <2> QED
    BY <1>1, <2>1, SaveFacts DEF TypeOK
<1>3. NextTx' \in TxCntx
  <2>1. NextTx' \in {NextTx, [NextTx EXCEPT !.FrameType = "UNKNOWN"]}
    BY DEF RecvSRsp
  <2> QED
    BY <1>1, <2>1 DEF TypeOK, TxCntx, FrameTypes
<1>4. TypeOK'
  BY <1>1, <1>2, <1>3, CountersAssumption DEF TypeOK
<1> QED
  BY <1>1, <1>4, Looped

\* The answer to an interface reset, which resets the instance.
LEMMA RecvIntfResetRspStep ==
    ASSUME IInv, NEW inf \in Infs, RecvIntfResetRsp(inf)
    PROVE  IInv'
<1>1. /\ TypeOK /\ pc = "recv" /\ pc' = "done" /\ pc' \in {"send", "done"}
      /\ timeoutCounter' = 0 /\ rnack_retry_counter' = 0 /\ wtx_counter' = 0
      /\ nextTransceiveState' = "IDLE_STATE"
      /\ op' = op /\ loopcnt' = loopcnt
  BY DEF RecvIntfResetRsp, Loop, IInv
<1>2. CASE /\ status' = FALSE /\ (rspData' = rspData \/ SaveRxframeData(inf))
           /\ UNCHANGED <<LastTx, NextTx, lastRcvdSeqNo, pRsp, recoveryCounter,
                          lastSentNonErrorframeType, CurrentState>>
  <2>1. rspData' \in Seq(Units) /\ Len(rspData') <= RSP_CAP
    BY <1>1, <1>2, SaveFacts DEF TypeOK
  <2>2. /\ status' = FALSE
        /\ UNCHANGED <<LastTx, NextTx, lastRcvdSeqNo, pRsp, recoveryCounter,
                       lastSentNonErrorframeType, CurrentState>>
    BY <1>2
  <2>3. status' \in BOOLEAN
    BY <2>2, Zenon
  <2>4. TypeOK'
    BY <1>1, <2>1, <2>2, <2>3, CountersAssumption DEF TypeOK
  <2> QED
    BY <1>1, <2>2, <2>4 DEF IInv, AwaitsForLast, WaitBounded, NoReturnedBuffer
<1>3. CASE /\ status' = TRUE
           /\ LastTx' = ResetCntx
           /\ NextTx' = [ResetCntx EXCEPT !.FrameType = "UNKNOWN"]
           /\ lastRcvdSeqNo' = 1 /\ pRsp' = "NULL" /\ rspData' = << >>
           /\ recoveryCounter' = 0 /\ lastSentNonErrorframeType' = "UNKNOWN"
           /\ CurrentState' = "IDLE"
  <2>1. LastTx' \in TxCntx /\ NextTx' \in TxCntx
    BY <1>3, ResetFacts, Zenon
  <2>2. status' \in BOOLEAN
    BY <1>3, Zenon
  <2>3. /\ lastRcvdSeqNo' = 1 /\ pRsp' = "NULL" /\ rspData' = << >>
        /\ recoveryCounter' = 0 /\ lastSentNonErrorframeType' = "UNKNOWN"
        /\ CurrentState' = "IDLE"
    BY <1>3
  <2>4. TypeOK'
    BY <1>1, <2>1, <2>2, <2>3, CountersAssumption, DataAssumption DEF TypeOK, Bit, FrameTypes
  <2> QED
    BY <1>1, <2>3, <2>4 DEF IInv, AwaitsForLast, WaitBounded, NoReturnedBuffer
<1> QED
  BY <1>2, <1>3 DEF RecvIntfResetRsp, SaveFails

\* An S-frame of no known type.
LEMMA RecvUnknownSframeStep ==
    ASSUME IInv, RecvUnknownSframe
    PROVE  IInv'
<1>1. /\ TypeOK /\ pc = "recv" /\ Loop /\ pc' \in {"send", "done"}
      /\ timeoutCounter' = 0 /\ rnack_retry_counter' = 0 /\ wtx_counter' = 0
      /\ status' = TRUE
      /\ UNCHANGED <<LastTx, NextTx, lastRcvdSeqNo, pRsp, rspData, nextTransceiveState,
                     recoveryCounter, lastSentNonErrorframeType, CurrentState, op, loopcnt>>
  BY LoopType DEF RecvUnknownSframe, FrameOk, IInv, control, response
<1>2. TypeOK'
  BY <1>1, CountersAssumption DEF TypeOK
<1>3. Sendable(nextTransceiveState', NextTx')
  BY <1>1 DEF IInv
<1> QED
  BY <1>1, <1>2, <1>3, Looped

\* When an R-NACK asks for the last block again, it carries an error.
LEMMA AskAgainFacts ==
    ASSUME TypeOK, NEW err \in ErrorTypes \ {"NO_ERROR"}, AskAgain(err)
    PROVE  /\ rnack_retry_counter' \in 0..RNACK_LIMIT
           /\ \/ nextTransceiveState' = "IDLE_STATE" /\ NextTx' \in TxCntx
              \/ Sendable(nextTransceiveState', NextTx')
<1>1. rnack_retry_counter' \in 0..RNACK_LIMIT
  BY CountersAssumption DEF TypeOK, AskAgain
<1>2. Sendable("SEND_R_NACK", RCntx(err))
  BY RNackSendable DEF TypeOK
<1> QED
  BY <1>1, <1>2, Zenon DEF TypeOK, AskAgain

\* Every branch of ProcessResponse that has no good frame to decode.
LEMMA NoFrameStep ==
    ASSUME IInv, pc = "recv", Loop, status' \in BOOLEAN,
           timeoutCounter' \in 0..TIMEOUT_RETRY_COUNT,
           rnack_retry_counter' \in 0..RNACK_LIMIT,
           \/ nextTransceiveState' = "IDLE_STATE" /\ NextTx' \in TxCntx
           \/ Sendable(nextTransceiveState', NextTx'),
           UNCHANGED <<LastTx, lastRcvdSeqNo, response, recoveryCounter, wtx_counter,
                       lastSentNonErrorframeType, control>>
    PROVE  IInv'
<1>1. /\ TypeOK /\ pc' \in {"send", "done"}
      /\ UNCHANGED <<pRsp, rspData, CurrentState, op, loopcnt>>
  BY LoopType DEF IInv, response, control
<1>2. TypeOK'
  BY <1>1 DEF TypeOK, Sendable
<1> QED
  BY <1>1, <1>2, Looped

\* A frame with a wrong CRC.
LEMMA BadCrcStep ==
    ASSUME IInv, BadCrc
    PROVE  IInv'
<1>1. /\ rnack_retry_counter' \in 0..RNACK_LIMIT
      /\ \/ nextTransceiveState' = "IDLE_STATE" /\ NextTx' \in TxCntx
         \/ Sendable(nextTransceiveState', NextTx')
  BY AskAgainFacts DEF BadCrc, IInv, ErrorTypes
<1>2. status' \in BOOLEAN
  BY SMT DEF BadCrc, IInv, TypeOK
<1>3. timeoutCounter' \in 0..TIMEOUT_RETRY_COUNT
  BY CountersAssumption DEF BadCrc
<1> QED
  BY <1>1, <1>2, <1>3, NoFrameStep DEF BadCrc

\* No frame at all.
LEMMA ReadFailsStep ==
    ASSUME IInv, ReadFails
    PROVE  IInv'
<1>1. /\ TypeOK /\ pc = "recv" /\ Loop /\ status' = FALSE
      /\ UNCHANGED <<LastTx, lastRcvdSeqNo, response, recoveryCounter, wtx_counter,
                     lastSentNonErrorframeType, control>>
  BY DEF ReadFails, IInv
<1>2. CASE /\ AskAgain("OTHER_ERROR") \/ AskAgain("PARITY_ERROR")
           /\ timeoutCounter' = IF rnack_retry_counter < RNACK_LIMIT THEN timeoutCounter ELSE 0
  <2>1. /\ rnack_retry_counter' \in 0..RNACK_LIMIT
        /\ \/ nextTransceiveState' = "IDLE_STATE" /\ NextTx' \in TxCntx
           \/ Sendable(nextTransceiveState', NextTx')
    BY <1>1, <1>2, AskAgainFacts DEF ErrorTypes
  <2>2. timeoutCounter' \in 0..TIMEOUT_RETRY_COUNT
    BY <1>1, <1>2, CountersAssumption DEF TypeOK
  <2> QED
    BY <1>1, <2>1, <2>2, NoFrameStep
<1>3. CASE SendAgain /\ UNCHANGED rnack_retry_counter
  <2>1. timeoutCounter' \in 0..TIMEOUT_RETRY_COUNT /\ rnack_retry_counter' \in 0..RNACK_LIMIT
    BY <1>1, <1>3, CountersAssumption DEF TypeOK, SendAgain
  <2>2. \/ nextTransceiveState' = "IDLE_STATE" /\ NextTx' \in TxCntx
        \/ Sendable(nextTransceiveState', NextTx')
    BY <1>1, <1>3, LastSendable, Zenon DEF TypeOK, SendAgain
  <2> QED
    BY <1>1, <2>1, <2>2, NoFrameStep
<1> QED
  BY <1>2, <1>3, Zenon DEF ReadFails

-----------------------------------------------------------------------------
(* The sending half of TransceiveProcess. *)

\* What the sending functions note is a kind of frame.
LEMMA NoteSentFacts ==
    ASSUME TypeOK, NoteSent
    PROVE  lastSentNonErrorframeType' \in FrameTypes
BY DEF TypeOK, NoteSent, FrameTypes

\* The frame is written.
LEMMA SendOkStep ==
    ASSUME IInv, SendOk
    PROVE  IInv'
<1>1. /\ TypeOK /\ pc = "send" /\ pc' = "recv" /\ status' = TRUE
      /\ LastTx' = NextTx
      /\ UNCHANGED <<NextTx, lastRcvdSeqNo, pRsp, rspData, nextTransceiveState,
                     recoveryCounter, timeoutCounter, rnack_retry_counter, wtx_counter,
                     CurrentState, op, loopcnt>>
      /\ Sendable(nextTransceiveState, NextTx)
  BY DEF SendOk, IInv, response, counters, control
<1>2. lastSentNonErrorframeType' \in FrameTypes
  BY <1>1, NoteSentFacts DEF SendOk
<1>3. TypeOK'
  BY <1>1, <1>2 DEF TypeOK
<1>4. Sendable(nextTransceiveState, NextTx)'
  BY <1>1, Zenon DEF Sendable, Matches, Coded, Renumbered
<1> QED
  BY <1>1, <1>3, <1>4 DEF IInv, AwaitsForLast, WaitBounded, NoReturnedBuffer

\* The frame cannot be written.
LEMMA SendFailsStep ==
    ASSUME IInv, SendFails
    PROVE  IInv'
<1>1. /\ TypeOK /\ pc = "send" /\ pc' = "done"
      /\ nextTransceiveState' = "IDLE_STATE"
      /\ UNCHANGED <<LastTx, NextTx, lastRcvdSeqNo, pRsp, rspData,
                     recoveryCounter, timeoutCounter, rnack_retry_counter, wtx_counter,
                     CurrentState, op, loopcnt>>
  BY DEF SendFails, IInv, response, counters, control
<1>2. status' \in BOOLEAN
  BY Zenon DEF SendFails
<1>3. lastSentNonErrorframeType' \in FrameTypes
  BY <1>1, NoteSentFacts DEF SendFails, TypeOK
<1>4. TypeOK'
  BY <1>1, <1>2, <1>3 DEF TypeOK
<1> QED
  BY <1>1, <1>4 DEF IInv, AwaitsForLast, WaitBounded, NoReturnedBuffer

-----------------------------------------------------------------------------
(* The calls. *)

\* A context set up for an S-frame, with the state that sends it.
LEMMA SFrameReady ==
    ASSUME NextTx' \in TxCntx, NextTx'.FrameType = "SFRAME",
           nextTransceiveState' \in DOMAIN SFrameOf,
           NextTx'.sFrameType = SFrameOf[nextTransceiveState']
    PROVE  Sendable(nextTransceiveState, NextTx)'
<1>1. nextTransceiveState' \notin {"SEND_R_ACK", "SEND_R_NACK", "SEND_IFRAME"}
  BY DEF SFrameOf
<1> QED
  BY <1>1, Zenon DEF Sendable, SendStates, Matches, Coded, Renumbered

\* A call that sends an S-frame sets up a context that may be sent.
LEMMA SendSFacts ==
    ASSUME TypeOK, NEW state \in DOMAIN SFrameOf, NEW type \in SReqs,
           SFrameOf[state] = type, SendS(type, state)
    PROVE  /\ NextTx' \in TxCntx /\ nextTransceiveState' \in SendStates /\ pc' = "send"
           /\ Sendable(nextTransceiveState, NextTx)'
<1>1. NextTx' = SCntx(type) /\ nextTransceiveState' = state /\ pc' = "send"
  BY DEF SendS
<1>2. NextTx' \in TxCntx /\ NextTx'.FrameType = "SFRAME" /\ NextTx'.sFrameType = type
  BY <1>1, SCntxFacts DEF TypeOK
<1> QED
  BY <1>1, <1>2, SFrameReady DEF SendStates

\* A call that begins to send, or to wait, with its own response buffer.
LEMMA CallStep ==
    ASSUME IInv, TypeOK', pc' \in {"send", "wtxSync"},
           pc' = "send" => Sendable(nextTransceiveState, NextTx)',
           pc' = "wtxSync" => loopcnt' = 0,
           op' = "DeepPwrDown" \/ pRsp' # "stale"
    PROVE  IInv'
BY CountersAssumption DEF IInv, AwaitsForLast, WaitBounded, NoReturnedBuffer

\* A call of Transceive.
LEMMA TransceiveStep ==
    ASSUME IInv, NEW cmd \in Cmds, NEW len \in CmdLens, Transceive(cmd, len)
    PROVE  IInv'
<1> DEFINE more == len > IFSC
           info == [p_data |-> cmd, isChained |-> more,
                    seqNo |-> Flip(LastTx.Iframe.seqNo), dataOffset |-> 0,
                    totalDataLen |-> IF more THEN len - IFSC ELSE len,
                    sendDataLen |-> IF more THEN IFSC ELSE len]
<1>1. /\ TypeOK /\ pc' = "send" /\ op' = "Transceive" /\ CurrentState' = "TRANSCEIVE"
      /\ loopcnt' = 0 /\ pRsp' = "live" /\ rspData' = << >>
      /\ nextTransceiveState' = "SEND_IFRAME"
      /\ UNCHANGED <<LastTx, lastRcvdSeqNo, recoveryCounter, timeoutCounter,
                     rnack_retry_counter, wtx_counter, lastSentNonErrorframeType>>
  BY DEF Transceive, Begin, FreshResponse, IInv, counters
<1>2. status' \in BOOLEAN
  BY Zenon DEF Transceive, Begin
<1>3. NextTx' = [NextTx EXCEPT !.FrameType = "IFRAME", !.Iframe = info]
  BY Zenon DEF Transceive
<1>4. LastTx.Iframe.seqNo \in Bit
  BY <1>1 DEF TypeOK, TxCntx, IframeInfo
<1>5. info \in IframeInfo
  <2>1. /\ 0 \in 0..UINT_MAX /\ Flip(LastTx.Iframe.seqNo) \in Bit
        /\ (IF more THEN IFSC ELSE len) \in Nat
        /\ (IF more THEN len - IFSC ELSE len) \in Nat
    BY <1>4, DataAssumption DEF Bit, Flip
  <2>2. more \in BOOLEAN
    OBVIOUS
  <2> QED
    BY <2>1, <2>2, Zenon DEF IframeInfo
<1>6. /\ NextTx' \in TxCntx /\ NextTx'.FrameType = "IFRAME"
      /\ NextTx'.Iframe.seqNo = Flip(LastTx.Iframe.seqNo)
  <2>1. info.seqNo = Flip(LastTx.Iframe.seqNo)
    OBVIOUS
  <2> HIDE DEF info
  <2> QED
    BY <1>1, <1>3, <1>5, <2>1 DEF TypeOK, TxCntx, FrameTypes
<1>7. TypeOK'
  <2>1. rspData' \in Seq(Units) /\ Len(rspData') <= RSP_CAP /\ loopcnt' \in 0..PREV_TXN_WAIT + 1
    BY <1>1, DataAssumption, CountersAssumption
  <2> QED
    BY <1>1, <1>2, <1>6, <2>1 DEF TypeOK, SendStates, Ops
<1>8. Sendable(nextTransceiveState, NextTx)'
  <2>1. LastTx' = LastTx
    BY <1>1
  <2> QED
    BY <1>1, <1>6, <2>1, Zenon DEF Sendable, SendStates, Matches, Coded, Renumbered
<1> QED
  BY <1>1, <1>7, <1>8, CallStep

\* A call of Open.
LEMMA OpenStep ==
    ASSUME IInv, Open
    PROVE  IInv'
<1>1. /\ pc' = "wtxSync" /\ op' = "Open" /\ CurrentState' = "IDLE" /\ loopcnt' = 0
      /\ pRsp' = "live" /\ rspData' = << >> /\ lastRcvdSeqNo' = 1
      /\ recoveryCounter' = 0 /\ timeoutCounter' = 0 /\ rnack_retry_counter' = 0
      /\ wtx_counter' = 0 /\ lastSentNonErrorframeType' = "UNKNOWN"
      /\ nextTransceiveState' = "IDLE_STATE"
  BY DEF Open, Begin, ResetProtoParams
<1>2. status' \in BOOLEAN
  BY Zenon DEF Open, Begin
<1>3. LastTx' \in TxCntx /\ NextTx' \in TxCntx
  BY ResetFacts, Zenon DEF Open
<1>4. TypeOK'
  BY <1>1, <1>2, <1>3, CountersAssumption, DataAssumption DEF TypeOK, Bit, FrameTypes, Ops
<1> QED
  BY <1>1, <1>4, CallStep

\* Resume and phNxpEse_chipReset: an S-frame from a context that is as new.
LEMMA ResetSendsStep ==
    ASSUME IInv, NEW state \in DOMAIN SFrameOf, NEW type \in SReqs,
           SFrameOf[state] = type,
           ResetProtoParams, LastTx' = ResetCntx,
           NextTx' = [ResetCntx EXCEPT !.FrameType = "SFRAME", !.sFrameType = type],
           nextTransceiveState' = state, pc' = "send", loopcnt' = 0,
           CurrentState' = "TRANSCEIVE", op' \in Ops, status' = FALSE,
           pRsp' \in {"NULL", "live"}
    PROVE  IInv'
<1>1. /\ rspData' = << >> /\ lastRcvdSeqNo' = 1
      /\ recoveryCounter' = 0 /\ timeoutCounter' = 0 /\ rnack_retry_counter' = 0
      /\ wtx_counter' = 0 /\ lastSentNonErrorframeType' = "UNKNOWN"
  BY DEF ResetProtoParams
<1>2. status' \in BOOLEAN
  BY Zenon
<1>3. /\ LastTx' \in TxCntx /\ NextTx' \in TxCntx
      /\ NextTx'.FrameType = "SFRAME" /\ NextTx'.sFrameType = type
  BY ResetFacts DEF TxCntx, FrameTypes
<1>4. TypeOK'
  BY <1>1, <1>2, <1>3, CountersAssumption, DataAssumption
     DEF TypeOK, Bit, FrameTypes, SendStates
<1>5. Sendable(nextTransceiveState, NextTx)'
  BY <1>3, SFrameReady
<1> QED
  BY <1>4, <1>5, CallStep

\* A call of Resume.
LEMMA ResumeStep ==
    ASSUME IInv, Resume
    PROVE  IInv'
<1>1. "SEND_S_RSYNC" \in DOMAIN SFrameOf /\ SFrameOf["SEND_S_RSYNC"] = "RESYNCH_REQ"
  BY DEF SFrameOf
<1>2. "RESYNCH_REQ" \in SReqs /\ "Resume" \in Ops
  BY DEF SReqs, Ops
<1> QED
  BY <1>1, <1>2, ResetSendsStep DEF Resume, Begin

\* A call of phNxpEse_chipReset.
LEMMA ChipResetStep ==
    ASSUME IInv, ChipReset
    PROVE  IInv'
<1>1. "SEND_S_CHIP_RST" \in DOMAIN SFrameOf /\ SFrameOf["SEND_S_CHIP_RST"] = "CHIP_RESET_REQ"
  BY DEF SFrameOf
<1>2. "CHIP_RESET_REQ" \in SReqs /\ "ChipReset" \in Ops
  BY DEF SReqs, Ops
<1> QED
  BY <1>1, <1>2, ResetSendsStep DEF ChipReset, Begin

\* A call that sends one S-frame and otherwise only chooses its response buffer
\* and resets counters.
LEMMA SCallStep ==
    ASSUME IInv, NEW state \in DOMAIN SFrameOf, NEW type \in SReqs,
           SFrameOf[state] = type, SendS(type, state),
           UNCHANGED <<LastTx, lastRcvdSeqNo, timeoutCounter, rnack_retry_counter,
                       lastSentNonErrorframeType>>,
           recoveryCounter' \in {0, recoveryCounter}, wtx_counter' \in {0, wtx_counter},
           rspData' \in {rspData, << >>}, pRsp' \in {"NULL", "live", pRsp},
           CurrentState' \in {"TRANSCEIVE", "DEINIT"}, status' \in BOOLEAN, op' \in Ops,
           op' = "DeepPwrDown" \/ pRsp' # "stale", loopcnt' \in {0, loopcnt}
    PROVE  IInv'
<1>1. /\ NextTx' \in TxCntx /\ nextTransceiveState' \in SendStates /\ pc' = "send"
      /\ Sendable(nextTransceiveState, NextTx)'
  BY SendSFacts DEF IInv
<1>2. rspData' \in Seq(Units) /\ Len(rspData') <= RSP_CAP
  <2>1. rspData' = rspData \/ rspData' = << >>
    OBVIOUS
  <2>2. rspData \in Seq(Units) /\ Len(rspData) <= RSP_CAP
    BY DEF IInv, TypeOK
  <2>3. << >> \in Seq(Units) /\ Len(<< >>) <= RSP_CAP
    BY DataAssumption
  <2> QED
    BY <2>1, <2>2, <2>3, Zenon
<1>3. /\ recoveryCounter' \in 0..UINT8_RANGE - 1 /\ wtx_counter' \in 0..ULONG_RANGE - 1
      /\ pRsp' \in {"NULL", "live", "stale"} /\ loopcnt' \in 0..PREV_TXN_WAIT + 1
  BY CountersAssumption DEF IInv, TypeOK
<1>4. /\ LastTx' \in TxCntx /\ lastRcvdSeqNo' \in Bit
      /\ timeoutCounter' \in 0..TIMEOUT_RETRY_COUNT
      /\ rnack_retry_counter' \in 0..RNACK_LIMIT
      /\ lastSentNonErrorframeType' \in FrameTypes
      /\ CurrentState' \in {"IDLE", "TRANSCEIVE", "DEINIT"}
  BY DEF IInv, TypeOK
<1>5. TypeOK'
  BY <1>1, <1>2, <1>3, <1>4, Zenon DEF TypeOK
<1> QED
  BY <1>1, <1>5, CallStep

\* A call of Close.
LEMMA CloseStep ==
    ASSUME IInv, Close
    PROVE  IInv'
<1>1. "SEND_S_EOS" \in DOMAIN SFrameOf /\ SFrameOf["SEND_S_EOS"] = "PROP_END_APDU_REQ"
  BY DEF SFrameOf
<1>2. "PROP_END_APDU_REQ" \in SReqs /\ "Close" \in Ops
  BY DEF SReqs, Ops
<1>3. status' \in BOOLEAN
  BY Zenon DEF Close, Begin
<1> QED
  BY <1>1, <1>2, <1>3, SCallStep DEF Close, Begin

\* A call of IntfReset.
LEMMA IntfResetStep ==
    ASSUME IInv, IntfReset
    PROVE  IInv'
<1>1. "SEND_S_INTF_RST" \in DOMAIN SFrameOf /\ SFrameOf["SEND_S_INTF_RST"] = "INTF_RESET_REQ"
  BY DEF SFrameOf
<1>2. "INTF_RESET_REQ" \in SReqs /\ "IntfReset" \in Ops
  BY DEF SReqs, Ops
<1>3. status' \in BOOLEAN
  BY Zenon DEF IntfReset, Begin
<1> QED
  BY <1>1, <1>2, <1>3, SCallStep DEF IntfReset, Begin, FreshResponse, counters

\* A call of GetAtr.
LEMMA GetAtrStep ==
    ASSUME IInv, GetAtr
    PROVE  IInv'
<1>1. "SEND_S_ATR" \in DOMAIN SFrameOf /\ SFrameOf["SEND_S_ATR"] = "ATR_REQ"
  BY DEF SFrameOf
<1>2. "ATR_REQ" \in SReqs /\ "GetAtr" \in Ops
  BY DEF SReqs, Ops
<1>3. status' \in BOOLEAN
  BY Zenon DEF GetAtr, Begin
<1> QED
  BY <1>1, <1>2, <1>3, SCallStep DEF GetAtr, Begin, counters

\* A call of Deep_Pwr_Down.
LEMMA DeepPwrDownStep ==
    ASSUME IInv, DeepPwrDown
    PROVE  IInv'
<1>1. /\ "SEND_DEEP_PWR_DOWN" \in DOMAIN SFrameOf
      /\ SFrameOf["SEND_DEEP_PWR_DOWN"] = "DEEP_PWR_DOWN_REQ"
  BY DEF SFrameOf
<1>2. "DEEP_PWR_DOWN_REQ" \in SReqs /\ "DeepPwrDown" \in Ops
  BY DEF SReqs, Ops
<1>3. status' \in BOOLEAN
  BY Zenon DEF DeepPwrDown, Begin
<1> QED
  BY <1>1, <1>2, <1>3, SCallStep DEF DeepPwrDown, Begin, response, counters

\* Open goes on to ask for the ATR.
LEMMA OpenThenAtrStep ==
    ASSUME IInv, OpenThenAtr
    PROVE  IInv'
<1>1. "SEND_S_ATR" \in DOMAIN SFrameOf /\ SFrameOf["SEND_S_ATR"] = "ATR_REQ"
  BY DEF SFrameOf
<1>2. "ATR_REQ" \in SReqs /\ "OpenAtr" \in Ops
  BY DEF SReqs, Ops
<1>3. status' \in BOOLEAN
  BY Zenon DEF OpenThenAtr
<1> QED
  BY <1>1, <1>2, <1>3, SCallStep DEF OpenThenAtr, FreshResponse, counters

\* A call returns.
LEMMA ReturnStep ==
    ASSUME IInv, Return
    PROVE  IInv'
<1>1. /\ TypeOK /\ pc' = "idle" /\ op' = "none" /\ CurrentState' = "IDLE"
      /\ pRsp' = (IF pRsp = "live" THEN "stale" ELSE pRsp)
      /\ UNCHANGED <<LastTx, NextTx, lastRcvdSeqNo, rspData, nextTransceiveState,
                     recoveryCounter, timeoutCounter, rnack_retry_counter, wtx_counter,
                     lastSentNonErrorframeType, loopcnt>>
  BY DEF Return, IInv, counters
<1>2. status' \in BOOLEAN
  BY Zenon DEF Return
<1>3. TypeOK'
  BY <1>1, <1>2 DEF TypeOK, Ops
<1> QED
  BY <1>1, <1>3 DEF IInv, AwaitsForLast, WaitBounded, NoReturnedBuffer

-----------------------------------------------------------------------------
(* phNxpEse_waitForWTX. *)

\* A step of the wait, which touches no Tx context.
LEMMA WaitStep ==
    ASSUME IInv, UNCHANGED WtxVars, pc # "idle",
           pc' \in {"wtxRead", "wtxRsp", "clear"},
           loopcnt' \in 0..PREV_TXN_WAIT + 1,
           pc' # "clear" => loopcnt' <= PREV_TXN_WAIT,
           lastSentNonErrorframeType' \in FrameTypes
    PROVE  IInv'
<1>1. /\ TypeOK
      /\ UNCHANGED <<LastTx, NextTx, lastRcvdSeqNo, pRsp, rspData, nextTransceiveState,
                     recoveryCounter, timeoutCounter, rnack_retry_counter, wtx_counter,
                     status, CurrentState, op>>
  BY DEF IInv, WtxVars, response, counters
<1>2. TypeOK'
  BY <1>1 DEF TypeOK
<1>3. NoReturnedBuffer'
  BY <1>1 DEF IInv, NoReturnedBuffer
<1> QED
  BY <1>2, <1>3 DEF IInv, AwaitsForLast, WaitBounded

\* The wait sends its RSync or grants more time.
LEMMA WtxSendStep ==
    ASSUME IInv, NEW ok \in BOOLEAN, WtxSend(ok)
    PROVE  IInv'
<1>1. pc \in {"wtxSync", "wtxRsp"} /\ loopcnt \in 0..PREV_TXN_WAIT
  BY CountersAssumption DEF WtxSend, IInv, TypeOK, WaitBounded
<1>2. CASE pc' = (IF ok THEN "wtxRead" ELSE "clear") /\ UNCHANGED loopcnt
  BY <1>1, <1>2, WaitStep, CountersAssumption DEF WtxSend, FrameTypes
<1>3. CASE /\ loopcnt' = IF ok THEN loopcnt + 1 ELSE loopcnt
           /\ pc' = IF ok /\ loopcnt < PREV_TXN_WAIT THEN "wtxRead" ELSE "clear"
  <2>1. /\ pc' \in {"wtxRead", "clear"} /\ loopcnt' \in 0..PREV_TXN_WAIT + 1
        /\ pc' # "clear" => loopcnt' <= PREV_TXN_WAIT
    BY <1>1, <1>3, CountersAssumption
  <2> QED
    BY <1>1, <2>1, WaitStep DEF WtxSend, FrameTypes
<1> QED
  BY <1>2, <1>3 DEF WtxSend

\* The wait reads something.
LEMMA WtxReadStep ==
    ASSUME IInv, NEW isWtxReq \in BOOLEAN, WtxRead(isWtxReq)
    PROVE  IInv'
<1>1. /\ pc = "wtxRead" /\ loopcnt \in 0..PREV_TXN_WAIT /\ loopcnt' = loopcnt
      /\ pc' \in {"wtxRsp", "clear"} /\ lastSentNonErrorframeType' \in FrameTypes
  BY CountersAssumption DEF WtxRead, IInv, TypeOK, WaitBounded
<1> QED
  BY <1>1, WaitStep, CountersAssumption DEF WtxRead

\* The wait reads nothing.
LEMMA WtxReadFailsStep ==
    ASSUME IInv, WtxReadFails
    PROVE  IInv'
<1>1. /\ pc = "wtxRead" /\ loopcnt \in 0..PREV_TXN_WAIT
      /\ pc' \in {"wtxRead", "clear"} /\ lastSentNonErrorframeType' \in FrameTypes
  BY CountersAssumption DEF WtxReadFails, IInv, TypeOK, WaitBounded
<1>2. /\ loopcnt' \in 0..PREV_TXN_WAIT + 1
      /\ pc' # "clear" => loopcnt' <= PREV_TXN_WAIT
  BY <1>1, CountersAssumption DEF WtxReadFails
<1> QED
  BY <1>1, <1>2, WaitStep DEF WtxReadFails

\* The wait is over and RSync begins.
LEMMA ClearThenRSyncStep ==
    ASSUME IInv, ClearThenRSync
    PROVE  IInv'
<1>1. "SEND_S_RSYNC" \in DOMAIN SFrameOf /\ SFrameOf["SEND_S_RSYNC"] = "RESYNCH_REQ"
  BY DEF SFrameOf
<1>2. "RESYNCH_REQ" \in SReqs
  BY DEF SReqs
<1>3. op' \in Ops /\ status' \in BOOLEAN /\ (op' = "DeepPwrDown" \/ pRsp' # "stale")
  BY DEF ClearThenRSync, IInv, TypeOK, NoReturnedBuffer, response
<1> QED
  BY <1>1, <1>2, <1>3, SCallStep DEF ClearThenRSync, response, counters

\* The process is started again.
LEMMA RestartStep ==
    ASSUME Restart
    PROVE  IInv'
<1>1. /\ pc' = "idle" /\ op' = "none" /\ CurrentState' = "IDLE" /\ loopcnt' = 0
      /\ pRsp' = "NULL" /\ rspData' = << >> /\ lastRcvdSeqNo' = 1
      /\ recoveryCounter' = 0 /\ timeoutCounter' = 0 /\ rnack_retry_counter' = 0
      /\ wtx_counter' = 0 /\ lastSentNonErrorframeType' = "UNKNOWN"
      /\ nextTransceiveState' = "IDLE_STATE"
  BY DEF Restart, ResetProtoParams
<1>2. status' \in BOOLEAN
  BY Zenon DEF Restart
<1>3. LastTx' \in TxCntx /\ NextTx' \in TxCntx
  BY ResetFacts, Zenon DEF Restart
<1>4. TypeOK'
  BY <1>1, <1>2, <1>3, CountersAssumption, DataAssumption DEF TypeOK, Bit, FrameTypes, Ops
<1> QED
  BY <1>1, <1>4 DEF IInv, AwaitsForLast, WaitBounded, NoReturnedBuffer

-----------------------------------------------------------------------------
\* The static storage the process starts with satisfies the invariant.
LEMMA InitIInv ==
    ASSUME Init
    PROVE  IInv
<1>1. LastTx \in TxCntx /\ NextTx \in TxCntx
  BY ResetFacts, Zenon DEF Init
<1>2. status \in BOOLEAN
  BY Zenon DEF Init
<1>3. TypeOK
  BY <1>1, <1>2, CountersAssumption, DataAssumption DEF Init, TypeOK, Bit, FrameTypes, Ops
<1> QED
  BY <1>3 DEF Init, IInv, AwaitsForLast, WaitBounded, NoReturnedBuffer

\* Every call preserves it.
LEMMA CallsStep ==
    ASSUME IInv, Call
    PROVE  IInv'
BY TransceiveStep, OpenStep, ResumeStep, CloseStep, IntfResetStep, ChipResetStep,
   GetAtrStep, DeepPwrDownStep, Zenon DEF Call

\* So does every answer, and its absence.
LEMMA ReceiveStep ==
    ASSUME IInv, Receive
    PROVE  IInv'
<1>1. ASSUME NEW seq \in Bit, NEW err \in ErrorTypes, RecvRframe(seq, err)
      PROVE  IInv'
  BY <1>1, RecvRAckStep, RecvRNackStep, RecvRSofMissedStep, Zenon DEF RecvRframe
<1>2. ASSUME NEW type \in SRsps, NEW inf \in Infs, RecvSframe(type, inf)
      PROVE  IInv'
  BY <1>2, RecvWtxReqStep, RecvIntfResetRspStep, RecvUnknownSframeStep, RecvSRspStep, Zenon
     DEF RecvSframe
<1> QED
  BY <1>1, <1>2, RecvIframeStep, BadCrcStep, ReadFailsStep, Zenon DEF Receive

\* So does the wait in Open.
LEMMA WaitForWTXStep ==
    ASSUME IInv, WaitForWTX
    PROVE  IInv'
BY WtxSendStep, WtxReadStep, WtxReadFailsStep, ClearThenRSyncStep, Zenon DEF WaitForWTX

\* So does a step of something else.
LEMMA StutterStep ==
    ASSUME IInv, UNCHANGED vars
    PROVE  IInv'
<1>1. UNCHANGED <<LastTx, NextTx, lastRcvdSeqNo, pRsp, rspData, nextTransceiveState,
                  recoveryCounter, timeoutCounter, rnack_retry_counter, wtx_counter,
                  lastSentNonErrorframeType, status, pc, CurrentState, op, loopcnt>>
  BY DEF vars, response, counters, control
<1>2. TypeOK'
  BY <1>1 DEF IInv, TypeOK
<1>3. pc' \in {"send", "recv"} => Sendable(nextTransceiveState, NextTx)'
  BY <1>1, Zenon DEF IInv, Sendable, Matches, Coded, Renumbered
<1>4. AwaitsForLast' /\ WaitBounded' /\ NoReturnedBuffer'
  BY <1>1 DEF IInv, AwaitsForLast, WaitBounded, NoReturnedBuffer
<1> QED
  BY <1>2, <1>3, <1>4 DEF IInv

\* The invariant is inductive.
LEMMA NextIInv ==
    ASSUME IInv, [Next]_vars
    PROVE  IInv'
BY CallsStep, SendOkStep, SendFailsStep, ReceiveStep, WaitForWTXStep, OpenThenAtrStep,
   ReturnStep, RestartStep, StutterStep, Zenon DEF Next

\* The invariant holds of every behaviour of the specification.
THEOREM Invariance == Spec => []IInv
<1>1. Init => IInv
  BY InitIInv
<1>2. IInv /\ [Next]_vars => IInv'
  BY NextIInv
<1> QED
  BY <1>1, <1>2, PTL DEF Spec

\* The state and the counters of the protocol instance stay in their types.
THEOREM TypeCorrect == Spec => []TypeOK
<1>1. IInv => TypeOK
  BY DEF IInv
<1> QED
  BY <1>1, Invariance, PTL

\* Whatever the SE sends, the next context is the last one while an answer is awaited.
THEOREM RepeatsTheLast == Spec => []AwaitsForLast
<1>1. IInv => AwaitsForLast
  BY DEF IInv
<1> QED
  BY <1>1, Invariance, PTL

\* The state that picks the frame and the context that describes it always agree.
THEOREM FramesMatch == Spec => []FrameMatchesContext
<1>1. IInv => FrameMatchesContext
  BY Zenon DEF IInv, Sendable, FrameMatchesContext
<1> QED
  BY <1>1, Invariance, PTL

\* No R-NACK goes out encoded as an R-ACK, and no R-ACK as an R-NACK.
THEOREM NacksAreNacks == Spec => []NackCarriesError
<1>1. IInv => NackCarriesError
  BY Zenon DEF IInv, Sendable, NackCarriesError
<1> QED
  BY <1>1, Invariance, PTL

\* An I-frame that goes out repeats the last one or has the other number.
THEOREM Renumbers == Spec => []RepeatOrRenumber
<1>1. IInv => RepeatOrRenumber
  BY Zenon DEF IInv, Sendable, RepeatOrRenumber
<1> QED
  BY <1>1, Invariance, PTL

\* No call but Deep_Pwr_Down works with the buffer of a call that has returned.
THEOREM BuffersAreLive == Spec => []NoReturnedBuffer
<1>1. IInv => NoReturnedBuffer
  BY DEF IInv
<1> QED
  BY <1>1, Invariance, PTL

-----------------------------------------------------------------------------
(***************************************************************************)
(* The link.  The host's half of T1Link is the protocol of T1oI2C, so that *)
(* what is proved of it holds on the link; and the host sends no I-frame   *)
(* but those of the running command, however many frames are lost,         *)
(* corrupted or late, and however often host and SE start again.           *)
(*                                                                         *)
(* An I-frame is sent for want of another only when an R-ACK arrives       *)
(* (SetNextIframeContxt).  So the invariant says where R-ACKs are: the     *)
(* last block the SE sent is none unless it acknowledges a fragment of the *)
(* running command that has a next one, or nobody will read it.            *)
(***************************************************************************)

-----------------------------------------------------------------------------
(* The inductive invariant.                                                *)

SeIframes   == [kind : {"I"}, seq : Bit, more : BOOLEAN, inf : Infs]
Rframes     == [kind : {"R"}, seq : Bit, err : ErrorTypes]
SeSframes   == [kind : {"S"}, type : SRsps, inf : Infs]
SeFrames    == SeIframes \cup Rframes \cup SeSframes
HostIframes == [kind : {"I"}, seq : Bit, more : BOOLEAN, cmd : Cmds, offset : Nat, len : Nat]
HostSframes == [kind : {"S"}, type : SReqs]
HostFrames  == HostIframes \cup Rframes \cup HostSframes

\* The units a block of the SE can carry.
Carried == {u \in Units : <<u>> \in Infs}

SeTyped ==
    /\ seLast \in SeFrames \cup {None}
    /\ seUnacked \in SeIframes \cup {None}
    /\ seOut \in Seq(Carried) /\ (seBusy => seOut # << >>)
    /\ seExp \in Bit /\ seSeq \in Bit

\* One frame at a time is under way, and what the host may read is what the SE sent last.
HalfDuplex ==
    /\ toSE \in HostFrames \cup {None, Bad}
    /\ toHost \in {None, Bad, seLast}
    /\ toSE = None \/ toHost = None

Acknowledges(f) == f.kind = "R" /\ f.err = "NO_ERROR"

InLoop == pc \in {"send", "recv"}

WaitsInOpen == pc \in {"wtxSync", "wtxRead", "wtxRsp", "clear"} => op = "Open"

\* The I-frame in the next context is a fragment of the running command, inside it
\* and, when it is not the last, with the rest of it counted right; the fragment
\* before the SE is this one; and an R-ACK asks for this one, or for the next if
\* there is a next.
OnCommand ==
    op = "Transceive" /\ InLoop =>
      LET f   == NextTx.Iframe
          len == calls[Len(calls)]
      IN  /\ calls # << >> /\ f.p_data = Len(calls) /\ f.p_data \in Cmds
          /\ f.dataOffset + f.sendDataLen <= len
          /\ f.isChained => f.sendDataLen = IFSC /\ f.dataOffset + IFSC + f.totalDataLen = len
          /\ toSE.kind = "I" => toSE.seq = f.seqNo /\ toSE.more = f.isChained
          /\ Acknowledges(seLast) => f.isChained \/ seLast.seq = f.seqNo

\* The states of an exchange that has asked the SE for a block before.
Repeats(state) == state \in {"SEND_R_ACK", "SEND_R_NACK", "SEND_S_WTX_RSP"}

\* An exchange without a command has no I-frame to send and none to repeat, and
\* once the SE has answered or is asked again, its last block is no R-ACK of a command given up.
OffCommand ==
    op # "Transceive" /\ InLoop =>
      /\ nextTransceiveState # "SEND_IFRAME"
      /\ pc = "recv" \/ Repeats(nextTransceiveState) =>
           lastSentNonErrorframeType # "IFRAME" /\ toSE.kind # "I"
      /\ Repeats(nextTransceiveState) => ~Acknowledges(seLast)
      /\ pc = "recv" /\ (toHost # None \/ toSE.kind = "R") => ~Acknowledges(seLast)

\* Between the commands of a session nothing is under way, no R-ACK least of all.
AtRest ==
    \/ connected /\ pc = "idle"
    \/ pc = "done" /\ status /\ op \in {"OpenAtr", "Transceive"}
    => toSE = None /\ ~Acknowledges(seLast)

LinkRight ==
    /\ SeTyped /\ HalfDuplex
    /\ calls \in Seq(CmdLens)
    /\ WaitsInOpen /\ OnCommand /\ OffCommand /\ AtRest

LInv == IInv /\ LinkRight

-----------------------------------------------------------------------------
(* Frames.                                                                 *)

\* The kind of a frame says which frame it is.
LEMMA Kinds ==
    /\ None.kind = "none" /\ Bad.kind = "bad"
    /\ \A f \in SeFrames \cup HostFrames : f.kind \in {"I", "R", "S"} /\ f # None /\ f # Bad
    /\ \A f \in SeFrames :
         /\ f.kind = "I" => f \in SeIframes
         /\ f.kind = "R" => f \in Rframes
         /\ f.kind = "S" => f \in SeSframes
    /\ \A f \in HostFrames :
         /\ f.kind = "I" => f \in HostIframes
         /\ f.kind = "R" => f \in Rframes
         /\ f.kind = "S" => f \in HostSframes
<1>1. \A f \in SeIframes \cup HostIframes : f.kind = "I"
  BY DEF SeIframes, HostIframes
<1>2. \A f \in Rframes : f.kind = "R"
  BY DEF Rframes
<1>3. \A f \in SeSframes \cup HostSframes : f.kind = "S"
  BY DEF SeSframes, HostSframes
<1>4. None.kind = "none" /\ Bad.kind = "bad"
  BY DEF None, Bad
<1> QED
  BY <1>1, <1>2, <1>3, <1>4 DEF SeFrames, HostFrames

LEMMA FlipBit == \A b \in Bit : Flip(b) \in Bit /\ Flip(b) # b /\ Flip(Flip(b)) = b
BY DEF Bit, Flip

\* The blocks of the SE are well formed, and only R(_, "NO_ERROR") is an R-ACK.
LEMMA RIs ==
    ASSUME NEW seq \in Bit, NEW err \in ErrorTypes
    PROVE  /\ R(seq, err) \in SeFrames
           /\ R(seq, err).seq = seq
           /\ Acknowledges(R(seq, err)) <=> err = "NO_ERROR"
BY DEF R, SeFrames, Rframes, Acknowledges

LEMMA SIs ==
    ASSUME NEW type \in SRsps, NEW inf \in Infs
    PROVE  S(type, inf) \in SeFrames /\ ~Acknowledges(S(type, inf))
BY DEF S, SeFrames, SeSframes, Acknowledges

LEMMA NoAckIsNone == ~Acknowledges(None) /\ \A f \in SeIframes : ~Acknowledges(f)
BY DEF None, Acknowledges, SeIframes

-----------------------------------------------------------------------------
(* The SE: what it answers to a frame.                                     *)

\* The SE stays well formed and puts its last block on the bus, which is an R-ACK
\* only of the frame it got, or the one it sent before, again.
Answered(f) ==
    /\ SeTyped' /\ toHost' = seLast'
    /\ Acknowledges(seLast') =>
         \/ f.kind = "I" /\ f.more /\ seLast'.seq = Flip(f.seq)
         \/ f.kind = "R" /\ seLast' = seLast

LEMMA SendIFacts ==
    ASSUME NEW seq \in Bit, NEW rest \in Seq(Carried), rest # << >>, SendI(seq, rest)
    PROVE  /\ toHost' = seLast' /\ seLast' \in SeIframes /\ seUnacked' \in SeIframes
           /\ seSeq' \in Bit /\ seOut' \in Seq(Carried)
<1>1. Head(rest) \in Carried /\ Tail(rest) \in Seq(Carried)
  BY HeadTailProperties
<1>2. <<Head(rest)>> \in Infs
  BY <1>1 DEF Carried
<1>3. I(seq, Len(rest) > 1, <<Head(rest)>>) \in SeIframes
  BY <1>2 DEF I, SeIframes
<1> QED
  BY <1>1, <1>3 DEF SendI, Reply

\* The first block of an answer, or the request for time.
LEMMA BeginAnswerFacts ==
    ASSUME SeTyped, NEW ans \in Seq(Carried), ans # << >>, BeginAnswer(ans)
    PROVE  /\ toHost' = seLast' /\ seLast' \in SeFrames /\ ~Acknowledges(seLast')
           /\ seUnacked' \in SeIframes \cup {None} /\ seSeq' \in Bit
           /\ seOut' \in Seq(Carried) /\ (seBusy' => seOut' # << >>)
<1>1. CASE SendI(Flip(seSeq), ans) /\ seBusy' = FALSE
  <2>1. Flip(seSeq) \in Bit
    BY FlipBit DEF SeTyped
  <2> QED
    BY <1>1, <2>1, SendIFacts, NoAckIsNone DEF SeFrames
<1>2. CASE /\ Reply(S("WTX_REQ", << >>))
           /\ seOut' = ans /\ seBusy' = TRUE
           /\ seUnacked' = None /\ UNCHANGED seSeq
  <2>1. S("WTX_REQ", << >>) \in SeFrames /\ ~Acknowledges(S("WTX_REQ", << >>))
    BY SIs, AnswersAssumption DEF SRsps
  <2> QED
    BY <1>2, <2>1 DEF Reply, SeTyped
<1> QED
  BY <1>1, <1>2 DEF BeginAnswer

LEMMA SeIframeFacts ==
    ASSUME SeTyped, NEW f \in HostIframes, SeIframe(f)
    PROVE  Answered(f)
<1>1. f.kind = "I" /\ f.seq \in Bit /\ f.more \in BOOLEAN /\ f.cmd \in Cmds
  BY DEF HostIframes
<1>2. CASE f.seq = seExp /\ seExp' = Flip(seExp) /\ f.more
           /\ Reply(R(Flip(seExp), "NO_ERROR"))
           /\ seOut' = << >> /\ seUnacked' = None /\ UNCHANGED <<seSeq, seBusy>> /\ ~seBusy
  <2>1. Flip(seExp) \in Bit
    BY FlipBit DEF SeTyped
  <2>2. R(Flip(seExp), "NO_ERROR") \in SeFrames /\ R(Flip(seExp), "NO_ERROR").seq = Flip(seExp)
    BY <2>1, RIs DEF ErrorTypes
  <2> QED
    BY <1>1, <1>2, <2>1, <2>2 DEF Answered, SeTyped, Reply
<1>3. CASE seExp' = Flip(seExp) /\ BeginAnswer(Answer(f.cmd))
  <2>1. Flip(seExp) \in Bit
    BY FlipBit DEF SeTyped
  <2>2. Answer(f.cmd) # << >> /\ Answer(f.cmd) \in Seq(Carried)
    BY <1>1, AnswersAssumption, Zenon DEF Carried
  <2> QED
    BY <1>3, <2>1, <2>2, BeginAnswerFacts DEF Answered, SeTyped
<1>4. CASE Reply(R(seExp, "OTHER_ERROR"))
           /\ UNCHANGED <<seExp, seSeq, seUnacked, seIn, seOut, seBusy, executed, wtxs>>
  <2>1. R(seExp, "OTHER_ERROR") \in SeFrames /\ ~Acknowledges(R(seExp, "OTHER_ERROR"))
    BY RIs DEF SeTyped, ErrorTypes
  <2> QED
    BY <1>4, <2>1 DEF Answered, SeTyped, Reply
<1> QED
  BY <1>2, <1>3, <1>4 DEF SeIframe

LEMMA SeRframeFacts ==
    ASSUME SeTyped, NEW f \in Rframes, SeRframe(f)
    PROVE  Answered(f)
<1>1. f.kind = "R" /\ f.seq \in Bit /\ UNCHANGED <<seExp, seBusy>>
  BY DEF Rframes, SeRframe
<1>2. CASE Reply(S("WTX_REQ", << >>)) /\ UNCHANGED <<seSeq, seUnacked, seOut>>
  <2>1. S("WTX_REQ", << >>) \in SeFrames /\ ~Acknowledges(S("WTX_REQ", << >>))
    BY SIs, AnswersAssumption DEF SRsps
  <2> QED
    BY <1>1, <1>2, <2>1 DEF Answered, SeTyped, Reply
<1>3. CASE seUnacked # None /\ Reply(seUnacked) /\ UNCHANGED <<seSeq, seUnacked, seOut>>
  <2>1. seUnacked \in SeIframes
    BY <1>3 DEF SeTyped
  <2> QED
    BY <1>1, <1>3, <2>1, NoAckIsNone DEF Answered, SeTyped, Reply, SeFrames
<1>4. CASE ~seBusy /\ seOut # << >> /\ SendI(f.seq, seOut)
  <2>1. seOut \in Seq(Carried)
    BY DEF SeTyped
  <2> QED
    BY <1>1, <1>4, <2>1, SendIFacts, NoAckIsNone DEF Answered, SeTyped, SeFrames
<1>5. CASE /\ \E repeats \in RepeatsRAck :
                Reply(IF repeats /\ seLast.kind = "R" THEN seLast ELSE R(seExp, "OTHER_ERROR"))
           /\ UNCHANGED <<seSeq, seUnacked, seOut>>
  <2>1. R(seExp, "OTHER_ERROR") \in SeFrames /\ ~Acknowledges(R(seExp, "OTHER_ERROR"))
    BY RIs DEF SeTyped, ErrorTypes
  <2> QED
    BY <1>1, <1>5, <2>1 DEF Answered, SeTyped, Reply
<1> QED
  BY <1>2, <1>3, <1>4, <1>5 DEF SeRframe

LEMMA SeSframeFacts ==
    ASSUME SeTyped, NEW f \in HostSframes, SeSframe(f)
    PROVE  Answered(f)
<1>1. f.kind = "S" /\ f.type \in SReqs
  BY DEF HostSframes
<1>2. CASE seBusy /\ BeginAnswer(seOut) /\ UNCHANGED <<seExp, seIn, executed>>
  BY <1>1, <1>2, BeginAnswerFacts DEF Answered, SeTyped
<1>3. CASE Reply(R(seExp, "OTHER_ERROR"))
           /\ UNCHANGED <<seExp, seSeq, seUnacked, seIn, seOut, seBusy, executed, wtxs>>
  <2>1. R(seExp, "OTHER_ERROR") \in SeFrames /\ ~Acknowledges(R(seExp, "OTHER_ERROR"))
    BY RIs DEF SeTyped, ErrorTypes
  <2> QED
    BY <1>3, <2>1 DEF Answered, SeTyped, Reply
<1>4. CASE /\ f.type \in {"RESYNCH_REQ", "INTF_RESET_REQ", "CHIP_RESET_REQ"}
           /\ Reply(S(AnswerTo[f.type], IF f.type = "INTF_RESET_REQ" THEN Atr ELSE << >>))
           /\ SeReset
  <2>1. AnswerTo[f.type] \in SRsps
    BY <1>4 DEF AnswerTo, SRsps
  <2>2. S(AnswerTo[f.type], IF f.type = "INTF_RESET_REQ" THEN Atr ELSE << >>) \in SeFrames
        /\ ~Acknowledges(S(AnswerTo[f.type], IF f.type = "INTF_RESET_REQ" THEN Atr ELSE << >>))
    BY <2>1, SIs, AnswersAssumption
  <2> QED
    BY <1>4, <2>2 DEF Answered, SeTyped, Reply, SeReset, Bit
<1>5. CASE Reply(S("WTX_REQ", << >>))
           /\ UNCHANGED <<seExp, seSeq, seUnacked, seIn, seOut, seBusy, executed, wtxs>>
  <2>1. S("WTX_REQ", << >>) \in SeFrames /\ ~Acknowledges(S("WTX_REQ", << >>))
    BY SIs, AnswersAssumption DEF SRsps
  <2> QED
    BY <1>5, <2>1 DEF Answered, SeTyped, Reply
<1>6. CASE /\ f.type \in {"PROP_END_APDU_REQ", "ATR_REQ", "DEEP_PWR_DOWN_REQ"}
           /\ Reply(S(AnswerTo[f.type], IF f.type = "ATR_REQ" THEN Atr ELSE << >>))
           /\ UNCHANGED <<seExp, seSeq, seUnacked, seIn, seOut, seBusy, executed, wtxs>>
  <2>1. AnswerTo[f.type] \in SRsps
    BY <1>6 DEF AnswerTo, SRsps
  <2>2. S(AnswerTo[f.type], IF f.type = "ATR_REQ" THEN Atr ELSE << >>) \in SeFrames
        /\ ~Acknowledges(S(AnswerTo[f.type], IF f.type = "ATR_REQ" THEN Atr ELSE << >>))
    BY <2>1, SIs, AnswersAssumption
  <2> QED
    BY <1>6, <2>2 DEF Answered, SeTyped, Reply
<1> QED
  BY <1>2, <1>3, <1>4, <1>5, <1>6 DEF SeSframe

\* One step of the SE: it empties its buffer and answers, or is silent for good.
LEMMA SeStepFacts ==
    ASSUME SeTyped, HalfDuplex, SeStep
    PROVE  /\ toSE # None /\ toHost = None /\ toSE' = None /\ SeTyped'
           /\ Answered(toSE) \/ UNCHANGED <<seLast, toHost>>
           /\ UNCHANGED <<vars, bounds>>
<1>1. toSE # None /\ toSE' = None /\ toHost = None /\ UNCHANGED <<vars, bounds>>
  BY DEF SeStep, HalfDuplex
<1>2. toSE \in HostFrames \cup {Bad}
  BY <1>1 DEF HalfDuplex
<1>3. CASE toSE.kind = "I" /\ SeIframe(toSE)
  BY <1>1, <1>2, <1>3, Kinds, SeIframeFacts DEF Answered
<1>4. CASE toSE.kind = "R" /\ SeRframe(toSE)
  BY <1>1, <1>2, <1>4, Kinds, SeRframeFacts DEF Answered
<1>5. CASE toSE.kind = "S" /\ SeSframe(toSE)
  BY <1>1, <1>2, <1>5, Kinds, SeSframeFacts DEF Answered
<1>6. CASE /\ Reply(R(seExp, "PARITY_ERROR"))
           /\ UNCHANGED <<seExp, seSeq, seUnacked, seIn, seOut, seBusy, executed, wtxs>>
  <2>1. R(seExp, "PARITY_ERROR") \in SeFrames /\ ~Acknowledges(R(seExp, "PARITY_ERROR"))
    BY RIs DEF SeTyped, ErrorTypes
  <2> QED
    BY <1>1, <1>6, <2>1 DEF Answered, SeTyped, Reply
<1>7. CASE UNCHANGED <<seVars, toHost>>
  BY <1>1, <1>7 DEF SeTyped, seVars
<1> QED
  BY <1>3, <1>4, <1>5, <1>6, <1>7 DEF SeStep

-----------------------------------------------------------------------------
(* The host, between an answer and what it sends next.                     *)

\* The exchange ends, or goes on with the I-frame it had, which it sends only if
\* it was sending it, or has sent it last.
KeepsIframe ==
    /\ pc' \in {"send", "done"} /\ UNCHANGED op
    /\ pc' = "send" =>
         /\ NextTx'.Iframe = NextTx.Iframe /\ UNCHANGED lastSentNonErrorframeType
         /\ nextTransceiveState' = "SEND_IFRAME" =>
              nextTransceiveState = "SEND_IFRAME" \/ lastSentNonErrorframeType = "IFRAME"

\* What the invariant of the protocol says while an answer is awaited.
LEMMA AwaitingFacts ==
    ASSUME IInv, pc = "recv"
    PROVE  /\ LastTx = NextTx /\ NextTx \in TxCntx /\ nextTransceiveState \in SendStates
           /\ NextTx.FrameType = "IFRAME" => nextTransceiveState = "SEND_IFRAME"
           /\ NextTx.FrameType = "RFRAME" => nextTransceiveState \in {"SEND_R_ACK", "SEND_R_NACK"}
           /\ NextTx.FrameType = "SFRAME" /\ NextTx.sFrameType = "WTX_RSP" =>
                nextTransceiveState = "SEND_S_WTX_RSP"
           /\ nextTransceiveState # "IDLE_STATE"
BY DEF IInv, AwaitsForLast, Sendable, Matches, SendStates, SFrameOf

LEMMA RecoveryKeeps ==
    ASSUME NextTx \in TxCntx, Loop, NEW cntx, NEW state, ErrorRecovery(cntx, state),
           cntx.Iframe = NextTx.Iframe,
           state = "SEND_IFRAME" =>
              nextTransceiveState = "SEND_IFRAME" \/ lastSentNonErrorframeType = "IFRAME",
           UNCHANGED <<op, lastSentNonErrorframeType>>
    PROVE  KeepsIframe
<1>1. SCntx("INTF_RESET_REQ").Iframe = NextTx.Iframe
  BY SCntxFacts DEF SReqs
<1> QED
  BY <1>1, LoopType DEF ErrorRecovery, Loop, KeepsIframe

LEMMA RecvIframeKeeps ==
    ASSUME IInv, NEW seq, NEW more \in BOOLEAN, NEW inf, RecvIframe(seq, more, inf)
    PROVE  KeepsIframe
<1>1. /\ pc = "recv" /\ Loop /\ NextTx \in TxCntx /\ UNCHANGED <<op, lastSentNonErrorframeType>>
  BY AwaitingFacts DEF RecvIframe, FrameOk, control
<1>2. RCntx("NO_ERROR").Iframe = NextTx.Iframe /\ RCntx("OTHER_ERROR").Iframe = NextTx.Iframe
  BY <1>1, RCntxFacts DEF ErrorTypes
<1>3. CASE IsNew(seq)
  <2>1. /\ NextTx' = RCntx("NO_ERROR") \/ NextTx' = NextTx
        /\ nextTransceiveState' \in {"SEND_R_ACK", "IDLE_STATE"}
    BY <1>3 DEF RecvIframe
  <2> QED
    BY <1>1, <1>2, <2>1, LoopType DEF KeepsIframe
<1>4. CASE ~IsNew(seq)
  <2>1. ErrorRecovery(RCntx("OTHER_ERROR"), "SEND_R_NACK")
    BY <1>4 DEF RecvIframe
  <2> QED
    BY <1>1, <1>2, <2>1, RecoveryKeeps
<1> QED
  BY <1>3, <1>4

LEMMA RecvRNackKeeps ==
    ASSUME IInv, NEW seq, RecvRNack(seq)
    PROVE  KeepsIframe
<1> DEFINE again == [LastTx EXCEPT !.FrameType = "IFRAME"]
<1>1. pc = "recv" /\ Loop /\ UNCHANGED <<op, lastSentNonErrorframeType>>
  BY DEF RecvRNack, FrameOk, control
<1>2. /\ RCntx("NO_ERROR").Iframe = NextTx.Iframe /\ RCntx("OTHER_ERROR").Iframe = NextTx.Iframe
      /\ again.Iframe = NextTx.Iframe /\ LastTx.Iframe = NextTx.Iframe /\ NextTx \in TxCntx
  BY <1>1, AwaitingFacts, RCntxFacts DEF ErrorTypes, TxCntx
<1>3. \/ /\ nextTransceiveState = "SEND_IFRAME" \/ lastSentNonErrorframeType = "IFRAME"
         /\ ErrorRecovery(again, "SEND_IFRAME")
      \/ ErrorRecovery(RCntx("NO_ERROR"), "SEND_R_ACK")
      \/ ErrorRecovery(RCntx("OTHER_ERROR"), "SEND_R_NACK")
      \/ ErrorRecovery(LastTx, nextTransceiveState)
  BY <1>1, AwaitingFacts, Zenon DEF RecvRNack
<1> HIDE DEF again
<1> QED
  BY <1>1, <1>2, <1>3, RecoveryKeeps

LEMMA RecvRSofMissedKeeps ==
    ASSUME IInv, RecvRSofMissed
    PROVE  KeepsIframe
<1>1. pc = "recv" /\ Loop /\ UNCHANGED <<op, lastSentNonErrorframeType>>
      /\ ErrorRecovery(LastTx, nextTransceiveState)
  BY DEF RecvRSofMissed, FrameOk, control
<1> QED
  BY <1>1, AwaitingFacts, RecoveryKeeps

LEMMA RecvWtxReqKeeps ==
    ASSUME IInv, RecvWtxReq
    PROVE  KeepsIframe
<1>1. pc = "recv" /\ Loop /\ UNCHANGED <<op, lastSentNonErrorframeType>>
  BY DEF RecvWtxReq, FrameOk, control
<1>2. /\ SCntx("INTF_RESET_REQ").Iframe = NextTx.Iframe /\ SCntx("WTX_RSP").Iframe = NextTx.Iframe
      /\ LastTx.Iframe = NextTx.Iframe /\ NextTx \in TxCntx
  BY <1>1, AwaitingFacts, SCntxFacts DEF SReqs
<1>3. \/ ErrorRecovery(LastTx, nextTransceiveState)
      \/ NextTx' = SCntx("INTF_RESET_REQ") /\ nextTransceiveState' = "SEND_S_INTF_RST"
      \/ NextTx' = SCntx("WTX_RSP") /\ nextTransceiveState' = "SEND_S_WTX_RSP"
  BY Zenon DEF RecvWtxReq
<1>4. CASE ErrorRecovery(LastTx, nextTransceiveState)
  BY <1>1, <1>2, <1>4, RecoveryKeeps
<1> QED
  BY <1>1, <1>2, <1>3, <1>4, LoopType DEF KeepsIframe

LEMMA RecvSframeKeeps ==
    ASSUME IInv, NEW type, NEW inf, RecvSframe(type, inf)
    PROVE  KeepsIframe
<1>1. CASE RecvWtxReq
  BY <1>1, RecvWtxReqKeeps
<1>2. CASE RecvIntfResetRsp(inf)
  BY <1>2, LoopType DEF RecvIntfResetRsp, Loop, KeepsIframe
<1>3. CASE RecvUnknownSframe
  BY <1>3, LoopType DEF RecvUnknownSframe, FrameOk, control, KeepsIframe
<1>4. CASE RecvSRsp(type, inf)
  BY <1>4, LoopType DEF RecvSRsp, FrameOk, control, Loop, KeepsIframe
<1> QED
  BY <1>1, <1>2, <1>3, <1>4 DEF RecvSframe

LEMMA AskAgainKeeps ==
    ASSUME IInv, pc = "recv", NEW err \in ErrorTypes, AskAgain(err), Loop,
           UNCHANGED <<op, lastSentNonErrorframeType>>
    PROVE  KeepsIframe
<1>1. RCntx(err).Iframe = NextTx.Iframe
  BY AwaitingFacts, RCntxFacts
<1> QED
  BY <1>1, LoopType DEF AskAgain, Loop, KeepsIframe

LEMMA BadCrcKeeps ==
    ASSUME IInv, BadCrc
    PROVE  KeepsIframe /\ (pc' = "done" => ~status')
<1>1. pc = "recv" /\ Loop /\ AskAgain("PARITY_ERROR") /\ UNCHANGED <<op, lastSentNonErrorframeType>>
  BY DEF BadCrc, control
<1>2. KeepsIframe
  BY <1>1, AskAgainKeeps DEF ErrorTypes
<1>3. pc' = "done" => ~(rnack_retry_counter < RNACK_LIMIT)
  BY <1>1, CountersAssumption DEF Loop, AskAgain, IInv, TypeOK
<1> QED
  BY <1>2, <1>3 DEF BadCrc

\* Silence: what is sent then asks again only after a frame the SE had to answer.
LEMMA ReadFailsKeeps ==
    ASSUME IInv, ReadFails
    PROVE  /\ KeepsIframe /\ ~status'
           /\ pc' = "send" /\ Repeats(nextTransceiveState') =>
                nextTransceiveState = "SEND_IFRAME" \/ Repeats(nextTransceiveState)
<1>1. /\ pc = "recv" /\ Loop /\ ~status' /\ UNCHANGED <<op, lastSentNonErrorframeType>>
  BY DEF ReadFails, control
<1>2. CASE /\ LastTx.FrameType = "SFRAME" /\ LastTx.sFrameType = "WTX_RSP"
           /\ AskAgain("OTHER_ERROR")
  BY <1>1, <1>2, AwaitingFacts, AskAgainKeeps DEF ErrorTypes, Repeats
<1>3. CASE LastTx.FrameType = "IFRAME" /\ AskAgain("PARITY_ERROR")
  BY <1>1, <1>3, AwaitingFacts, AskAgainKeeps DEF ErrorTypes
<1>4. CASE SendAgain
  BY <1>1, <1>4, AwaitingFacts, LoopType DEF SendAgain, KeepsIframe, Loop, Repeats
<1> QED
  BY <1>2, <1>3, <1>4 DEF ReadFails

\* An R-ACK makes the host go on to the next fragment, or send the same again.
LEMMA RecvRAckKeeps ==
    ASSUME IInv, NEW seq, RecvRAck(seq)
    PROVE  /\ pc' = "send" /\ UNCHANGED op
           /\ \/ seq # NextTx.Iframe.seqNo /\ SetNextIframeContxt
              \/ seq = NextTx.Iframe.seqNo /\ UNCHANGED NextTx
<1>1. pc = "recv" /\ Loop /\ UNCHANGED op
  BY DEF RecvRAck, FrameOk, control
<1>2. nextTransceiveState' # "IDLE_STATE"
  BY <1>1, AwaitingFacts DEF RecvRAck
<1> QED
  BY <1>1, <1>2, AwaitingFacts DEF RecvRAck, Loop

-----------------------------------------------------------------------------
(* The steps of the SE and of the bus.                                     *)

\* The SE acknowledges a fragment only, and the bus only takes frames away or
\* spoils them.
LEMMA SeStepRight == ASSUME LInv, SeStep PROVE LinkRight'
<1>1. /\ toSE # None /\ toHost = None /\ toSE' = None /\ SeTyped'
      /\ Answered(toSE) \/ UNCHANGED <<seLast, toHost>>
      /\ UNCHANGED <<vars, bounds>>
  BY SeStepFacts DEF LInv, LinkRight
<1>2. UNCHANGED <<NextTx, nextTransceiveState, lastSentNonErrorframeType, status, pc, op, connected, calls>>
  BY <1>1 DEF vars, control, bounds
<1>3. Acknowledges(seLast') =>
        \/ toSE.kind = "I" /\ toSE.more /\ seLast'.seq = Flip(toSE.seq)
        \/ seLast' = seLast /\ (toHost' = None \/ toSE.kind = "R")
  BY <1>1 DEF Answered
<1>4. HalfDuplex'
  BY <1>1 DEF HalfDuplex, Answered
<1>5. toSE'.kind = "none"
  BY <1>1, Kinds
<1>6. OnCommand'
  BY <1>2, <1>3, <1>5, Zenon DEF LInv, LinkRight, OnCommand, InLoop
<1>7. OffCommand'
  BY <1>2, <1>3, <1>5 DEF LInv, LinkRight, OffCommand, InLoop, Repeats
<1>8. AtRest'
  BY <1>1, <1>2 DEF LInv, LinkRight, AtRest
<1> QED
  BY <1>1, <1>2, <1>4, <1>6, <1>7, <1>8 DEF LInv, LinkRight, WaitsInOpen

\* Whatever is taken from the bus or spoiled on it.
LEMMA LessOnTheBus ==
    ASSUME LInv, UNCHANGED vars, UNCHANGED <<seExp, seSeq, connected, calls>>,
           toSE' \in {toSE, None, Bad}, toHost' \in {toHost, None, Bad},
           toSE = None => toSE' = None, toHost = None => toHost' = None,
           seLast' = seLast \/ (seLast' = None /\ toHost' = None),
           UNCHANGED <<seUnacked, seOut, seBusy>> \/ (seUnacked' = None /\ seOut' = << >> /\ seBusy' = FALSE)
    PROVE  LinkRight'
<1>1. UNCHANGED <<NextTx, nextTransceiveState, lastSentNonErrorframeType, status, pc, op>>
  BY DEF vars, control
<1>2. SeTyped'
  <2>1. SeTyped
    BY DEF LInv, LinkRight
  <2>2. CASE UNCHANGED <<seUnacked, seOut, seBusy>>
    BY <2>1, <2>2 DEF SeTyped
  <2>3. CASE seUnacked' = None /\ seOut' = << >> /\ seBusy' = FALSE
    BY <2>1, <2>3 DEF SeTyped
  <2> QED
    BY <2>2, <2>3
<1>3. HalfDuplex'
  BY DEF LInv, LinkRight, HalfDuplex
<1>4. /\ toSE'.kind \in {"I", "R"} => toSE' = toSE
      /\ Acknowledges(seLast') => seLast' = seLast
  BY Kinds, NoAckIsNone
<1>5. OnCommand'
  BY <1>1, <1>4, Zenon DEF LInv, LinkRight, OnCommand, InLoop
<1>6. OffCommand'
  BY <1>1, <1>4 DEF LInv, LinkRight, OffCommand, InLoop, Repeats
<1>7. AtRest'
  BY <1>1, <1>4 DEF LInv, LinkRight, AtRest
<1> QED
  BY <1>1, <1>2, <1>3, <1>5, <1>6, <1>7 DEF LInv, LinkRight, WaitsInOpen

LEMMA BusFaultRight == ASSUME LInv, BusFault PROVE LinkRight'
<1>1. /\ UNCHANGED vars /\ UNCHANGED <<seExp, seSeq, connected, calls>>
      /\ UNCHANGED <<seLast, seUnacked, seOut, seBusy>>
  BY DEF BusFault, seVars
<1>2. /\ toSE' \in {toSE, None, Bad} /\ toHost' \in {toHost, None, Bad}
      /\ toSE = None => toSE' = None
      /\ toHost = None => toHost' = None
  BY DEF BusFault
<1> QED
  BY <1>1, <1>2, LessOnTheBus

LEMMA SeGoesMuteRight == ASSUME LInv, SeGoesMute PROVE LinkRight'
<1>1. /\ UNCHANGED vars /\ UNCHANGED <<seExp, seSeq, connected, calls>>
      /\ UNCHANGED <<seLast, seUnacked, seOut, seBusy>> /\ UNCHANGED <<toSE, toHost>>
  BY DEF SeGoesMute, bus
<1> QED
  BY <1>1, LessOnTheBus

\* The SE loses its supply: it forgets its blocks and its numbers.
LEMMA SePowerLossRight == ASSUME LInv, SePowerLoss PROVE LinkRight'
<1>1. /\ UNCHANGED <<NextTx, nextTransceiveState, lastSentNonErrorframeType, status, pc, op, connected, calls>>
      /\ toSE' = None /\ toHost' = None /\ seLast' = None
  BY DEF SePowerLoss, vars, control
<1>2. SeTyped'
  BY DEF SePowerLoss, SeReset, SeTyped, Bit
<1>3. HalfDuplex' /\ AtRest'
  BY <1>1, NoAckIsNone DEF HalfDuplex, AtRest
<1>4. toSE'.kind = "none" /\ ~Acknowledges(seLast')
  BY <1>1, Kinds, NoAckIsNone
<1>5. OnCommand'
  BY <1>1, <1>4, Zenon DEF LInv, LinkRight, OnCommand, InLoop
<1>6. OffCommand'
  BY <1>1, <1>4 DEF LInv, LinkRight, OffCommand, InLoop, Repeats
<1> QED
  BY <1>1, <1>2, <1>3, <1>5, <1>6 DEF LInv, LinkRight, WaitsInOpen

-----------------------------------------------------------------------------
(* The steps of the host.                                                  *)

\* What the host puts on the bus is a frame, and an I-frame is that of its context.
LEMMA TxFrameIs ==
    ASSUME LInv, pc = "send"
    PROVE  /\ TxFrame \in HostFrames
           /\ TxFrame.kind = "I" => /\ nextTransceiveState = "SEND_IFRAME"
                                    /\ TxFrame.seq = NextTx.Iframe.seqNo
                                    /\ TxFrame.more = NextTx.Iframe.isChained
           /\ TxFrame.kind = "R" => nextTransceiveState \in {"SEND_R_ACK", "SEND_R_NACK"}
<1>1. /\ NextTx \in TxCntx /\ nextTransceiveState \in SendStates /\ lastRcvdSeqNo \in Bit
      /\ NextTx.Iframe \in IframeInfo /\ NextTx.errCode \in ErrorTypes
  BY DEF LInv, IInv, Sendable, TypeOK, TxCntx
<1>2. CASE nextTransceiveState = "SEND_IFRAME"
  <2>1. NextTx.Iframe.p_data \in Cmds
    BY <1>2 DEF LInv, LinkRight, OffCommand, OnCommand, InLoop
  <2>2. TxFrame = [kind |-> "I", seq |-> NextTx.Iframe.seqNo, more |-> NextTx.Iframe.isChained,
                   cmd |-> NextTx.Iframe.p_data, offset |-> NextTx.Iframe.dataOffset,
                   len |-> NextTx.Iframe.sendDataLen]
    BY <1>2 DEF TxFrame
  <2>3. /\ NextTx.Iframe.seqNo \in Bit /\ NextTx.Iframe.isChained \in BOOLEAN
        /\ NextTx.Iframe.dataOffset \in Nat /\ NextTx.Iframe.sendDataLen \in Nat
    BY <1>1, DataAssumption DEF IframeInfo
  <2> QED
    BY <1>2, <2>1, <2>2, <2>3 DEF HostFrames, HostIframes
<1>3. CASE nextTransceiveState \in {"SEND_R_ACK", "SEND_R_NACK"}
  <2>1. TxFrame = R(Flip(lastRcvdSeqNo), "NO_ERROR") \/ TxFrame = R(Flip(lastRcvdSeqNo), NextTx.errCode)
    BY <1>3 DEF TxFrame, R
  <2>2. Flip(lastRcvdSeqNo) \in Bit
    BY <1>1, FlipBit
  <2>3. TxFrame \in Rframes
    BY <1>1, <2>1, <2>2 DEF Rframes, R, ErrorTypes
  <2> QED
    BY <1>3, <2>3 DEF HostFrames, Rframes
<1>4. CASE nextTransceiveState \in DOMAIN SFrameOf
  <2>1. TxFrame = [kind |-> "S", type |-> SFrameOf[nextTransceiveState]]
    BY <1>4 DEF TxFrame, SFrameOf
  <2>2. SFrameOf[nextTransceiveState] \in SReqs
    BY <1>4 DEF SFrameOf, SReqs
  <2> QED
    BY <2>1, <2>2 DEF HostFrames, HostSframes
<1> QED
  BY <1>1, <1>2, <1>3, <1>4 DEF SendStates

\* The kind noted when an exchange without a command sends is no I-frame.
LEMMA NotedKind ==
    ASSUME NoteSent, nextTransceiveState # "SEND_IFRAME",
           Repeats(nextTransceiveState) => lastSentNonErrorframeType # "IFRAME"
    PROVE  lastSentNonErrorframeType' # "IFRAME"
BY DEF NoteSent, Repeats

LEMMA LinkSendRight ==
    ASSUME LInv, LinkSend, UNCHANGED <<connected, calls, seVars>>
    PROVE  LinkRight'
<1>1. pc = "send" /\ UNCHANGED <<NextTx, op, connected, calls, seLast>>
      /\ UNCHANGED <<seExp, seSeq, seUnacked, seOut, seBusy>>
  BY DEF LinkSend, SendOk, SendFails, seVars, control
<1>2. SeTyped' /\ calls' \in Seq(CmdLens)
  BY <1>1 DEF LInv, LinkRight, SeTyped
<1>3. CASE SendOk /\ Put(TxFrame)
  <2>1. /\ pc' = "recv" /\ UNCHANGED nextTransceiveState /\ NoteSent
        /\ toSE' = TxFrame /\ toHost' = None
    BY <1>3 DEF SendOk, Put
  <2>2. HalfDuplex' /\ WaitsInOpen' /\ AtRest'
    BY <1>1, <2>1, TxFrameIs DEF HalfDuplex, WaitsInOpen, AtRest
  <2>3. OnCommand'
    BY <1>1, <2>1, TxFrameIs, Zenon DEF LInv, LinkRight, OnCommand, InLoop
  <2>4. OffCommand'
    BY <1>1, <2>1, TxFrameIs, NotedKind DEF LInv, LinkRight, OffCommand, InLoop, Repeats
  <2> QED
    BY <1>2, <2>2, <2>3, <2>4 DEF LinkRight
<1>4. CASE SendFails /\ UNCHANGED bus
  <2>1. pc' = "done" /\ ~status' /\ UNCHANGED <<toSE, toHost>>
    BY <1>4 DEF SendFails, bus
  <2> QED
    BY <1>1, <1>2, <2>1
    DEF LInv, LinkRight, HalfDuplex, WaitsInOpen, AtRest, OnCommand, OffCommand, InLoop
<1> QED
  BY <1>3, <1>4 DEF LinkSend

\* The next fragment is the rest of the command, or the beginning of its rest.
LEMMA NextFragmentIs ==
    ASSUME LInv, pc = "recv", op = "Transceive", SetNextIframeContxt, NextTx.Iframe.isChained
    PROVE  LET f   == NextTx'.Iframe
               len == calls[Len(calls)]
           IN  /\ f.p_data = Len(calls) /\ f.p_data \in Cmds
               /\ f.dataOffset + f.sendDataLen <= len
               /\ f.isChained => f.sendDataLen = IFSC /\ f.dataOffset + IFSC + f.totalDataLen = len
               /\ f.seqNo = Flip(NextTx.Iframe.seqNo)
<1> DEFINE last == NextTx.Iframe
           len  == calls[Len(calls)]
           more == last.totalDataLen > IFSC
           seqNo == Flip(last.seqNo)
           kept == [last EXCEPT !.seqNo = seqNo]
           fragment == [p_data |-> last.p_data, isChained |-> more, seqNo |-> seqNo,
                        dataOffset |-> last.dataOffset + IFSC,
                        totalDataLen |-> IF more THEN last.totalDataLen - IFSC ELSE last.totalDataLen,
                        sendDataLen |-> IF more THEN IFSC ELSE last.totalDataLen]
<1>1. LastTx = NextTx /\ NextTx \in TxCntx /\ last \in IframeInfo
  BY AwaitingFacts DEF LInv, TxCntx
<1>2. /\ last.p_data = Len(calls) /\ last.p_data \in Cmds
      /\ last.dataOffset + IFSC + last.totalDataLen = len
      /\ last.dataOffset + last.sendDataLen <= len
      /\ last.sendDataLen = IFSC /\ last.isChained
  BY DEF LInv, LinkRight, OnCommand, InLoop
<1>3. NextTx'.Iframe = IF UINT_MAX - last.dataOffset < IFSC THEN kept ELSE fragment
  <2>1. NextTx' = [NextTx EXCEPT !.FrameType = "IFRAME",
                     !.Iframe = IF UINT_MAX - last.dataOffset < IFSC THEN kept ELSE fragment]
    BY <1>1, Zenon DEF SetNextIframeContxt, NextFragment
  <2> QED
    BY <1>1, <2>1 DEF TxCntx
<1>4. /\ kept.p_data = last.p_data /\ kept.dataOffset = last.dataOffset /\ kept.seqNo = seqNo
      /\ kept.sendDataLen = last.sendDataLen /\ kept.totalDataLen = last.totalDataLen
  BY <1>1 DEF IframeInfo
<1>5. /\ fragment.p_data = last.p_data /\ fragment.seqNo = seqNo
      /\ fragment.dataOffset + fragment.sendDataLen <= len
      /\ fragment.isChained =>
           fragment.sendDataLen = IFSC /\ fragment.dataOffset + IFSC + fragment.totalDataLen = len
  <2>1. IFSC \in Nat /\ last.totalDataLen \in Nat /\ last.dataOffset \in Nat
    BY <1>1, DataAssumption DEF IframeInfo
  <2>2. /\ fragment.p_data = last.p_data /\ fragment.seqNo = seqNo /\ fragment.isChained = more
        /\ fragment.dataOffset = last.dataOffset + IFSC
        /\ fragment.totalDataLen = IF more THEN last.totalDataLen - IFSC ELSE last.totalDataLen
        /\ fragment.sendDataLen = IF more THEN IFSC ELSE last.totalDataLen
    OBVIOUS
  <2> HIDE DEF fragment
  <2>3. CASE more
    BY <1>2, <2>1, <2>2, <2>3
  <2>4. CASE ~more
    <3>1. ~fragment.isChained
      BY <2>2, <2>4
    <3>2. fragment.dataOffset + fragment.sendDataLen <= len
      <4>1. len = last.dataOffset + IFSC + last.totalDataLen
        BY <1>2
      <4>2. fragment.sendDataLen = last.totalDataLen /\ fragment.dataOffset = last.dataOffset + IFSC
        BY <2>2, <2>4
      <4> HIDE DEF len, last
      <4> QED
        BY <2>1, <4>1, <4>2
    <3> QED
      BY <2>2, <3>1, <3>2
  <2> QED
    BY <2>3, <2>4
<1> HIDE DEF kept, fragment
<1> QED
  BY <1>2, <1>3, <1>4, <1>5


\* Whatever the host makes of an answer, or of none, if it keeps its I-frame: it
\* sends that again, asks the SE again, or ends.
LEMMA KeptRight ==
    ASSUME LInv, pc = "recv", KeepsIframe, toHost' = None,
           UNCHANGED <<toSE, connected, calls, seExp, seSeq, seLast, seUnacked, seOut, seBusy>>,
           \/ toHost = None
           \/ toSE = None /\ (op # "Transceive" => ~Acknowledges(seLast)),
           pc' = "done" /\ status' => toSE = None /\ ~Acknowledges(seLast),
           op # "Transceive" /\ pc' = "send" /\ Repeats(nextTransceiveState') => ~Acknowledges(seLast)
    PROVE  LinkRight'
<1>1. SeTyped' /\ HalfDuplex' /\ WaitsInOpen' /\ AtRest' /\ calls' \in Seq(CmdLens)
  BY DEF LInv, LinkRight, SeTyped, HalfDuplex, WaitsInOpen, AtRest, KeepsIframe
<1>2. OnCommand'
  BY Zenon DEF LInv, LinkRight, OnCommand, InLoop, KeepsIframe
<1>3. OffCommand'
  <2>1. op # "Transceive" =>
          /\ nextTransceiveState # "SEND_IFRAME" /\ lastSentNonErrorframeType # "IFRAME"
          /\ toSE.kind # "I"
    BY DEF LInv, LinkRight, OffCommand, InLoop
  <2> QED
    BY <2>1 DEF OffCommand, InLoop, KeepsIframe
<1> QED
  BY <1>1, <1>2, <1>3 DEF LinkRight

\* What of the I-frame in the next context OnCommand says.
FragmentRight ==
    LET f   == NextTx.Iframe
        len == calls[Len(calls)]
    IN  /\ calls # << >> /\ f.p_data = Len(calls) /\ f.p_data \in Cmds
        /\ f.dataOffset + f.sendDataLen <= len
        /\ f.isChained => f.sendDataLen = IFSC /\ f.dataOffset + IFSC + f.totalDataLen = len

LEMMA OnCommandParts ==
    OnCommand <=>
      (op = "Transceive" /\ InLoop =>
         /\ FragmentRight
         /\ toSE.kind = "I" => toSE.seq = NextTx.Iframe.seqNo /\ toSE.more = NextTx.Iframe.isChained
         /\ Acknowledges(seLast) => NextTx.Iframe.isChained \/ seLast.seq = NextTx.Iframe.seqNo)
BY Zenon DEF OnCommand, FragmentRight

\* An R-ACK reaches a host that has a next fragment, or wants this one again.
LEMMA RAckRight ==
    ASSUME LInv, RecvRAck(toHost.seq), toHost.kind = "R", toHost.err = "NO_ERROR",
           toHost # None, toHost' = None,
           UNCHANGED <<toSE, connected, calls, seExp, seSeq, seLast, seUnacked, seOut, seBusy>>
    PROVE  LinkRight'
<1>1. pc = "recv" /\ pc' = "send" /\ UNCHANGED op
  BY RecvRAckKeeps DEF RecvRAck, FrameOk, LInv
<1>2. toHost = seLast /\ Acknowledges(seLast) /\ toSE = None
  BY Kinds DEF LInv, LinkRight, HalfDuplex, Acknowledges
<1>3. op = "Transceive"
  BY <1>1, <1>2 DEF LInv, LinkRight, OffCommand, InLoop
<1>4. SeTyped' /\ HalfDuplex' /\ WaitsInOpen' /\ AtRest' /\ OffCommand' /\ calls' \in Seq(CmdLens)
  BY <1>1, <1>2, <1>3 DEF LInv, LinkRight, SeTyped, HalfDuplex, WaitsInOpen, AtRest, OffCommand
<1>5. toSE'.kind = "none"
  BY <1>2, Kinds
<1>6. /\ FragmentRight
      /\ NextTx.Iframe.isChained \/ seLast.seq = NextTx.Iframe.seqNo
  BY <1>1, <1>2, <1>3, OnCommandParts DEF LInv, LinkRight, InLoop
<1>7. FragmentRight' /\ (NextTx'.Iframe.isChained \/ seLast'.seq = NextTx'.Iframe.seqNo)
  <2>1. CASE seLast.seq = NextTx.Iframe.seqNo /\ UNCHANGED NextTx
    <3>1. FragmentRight'
      BY <1>6, <2>1 DEF FragmentRight
    <3> QED
      BY <2>1, <3>1
  <2>2. CASE seLast.seq # NextTx.Iframe.seqNo /\ SetNextIframeContxt
    <3>1. NextTx.Iframe.isChained /\ calls # << >>
      BY <1>6, <2>2 DEF FragmentRight
    <3>2. /\ NextTx'.Iframe.p_data = Len(calls) /\ NextTx'.Iframe.p_data \in Cmds
          /\ NextTx'.Iframe.dataOffset + NextTx'.Iframe.sendDataLen <= calls[Len(calls)]
          /\ NextTx'.Iframe.isChained =>
               /\ NextTx'.Iframe.sendDataLen = IFSC
               /\ NextTx'.Iframe.dataOffset + IFSC + NextTx'.Iframe.totalDataLen = calls[Len(calls)]
          /\ NextTx'.Iframe.seqNo = Flip(NextTx.Iframe.seqNo)
      BY <1>1, <1>3, <2>2, <3>1, NextFragmentIs
    <3>3. FragmentRight'
      BY <3>1, <3>2, Zenon DEF FragmentRight
    <3>4. seLast \in Rframes
      BY <1>2, Kinds DEF LInv, LinkRight, SeTyped, Acknowledges
    <3>5. seLast.seq \in Bit
      BY <3>4 DEF Rframes
    <3>6. NextTx.Iframe.seqNo \in Bit
      BY <1>1, AwaitingFacts DEF LInv, TxCntx, IframeInfo
    <3> QED
      BY <2>2, <3>2, <3>3, <3>5, <3>6 DEF Bit, Flip
  <2> QED
    BY <1>2, <2>1, <2>2, RecvRAckKeeps DEF LInv
<1>8. OnCommand'
  <2>1. (op = "Transceive" /\ InLoop =>
         /\ FragmentRight
         /\ toSE.kind = "I" => toSE.seq = NextTx.Iframe.seqNo /\ toSE.more = NextTx.Iframe.isChained
         /\ Acknowledges(seLast) => NextTx.Iframe.isChained \/ seLast.seq = NextTx.Iframe.seqNo)'
    BY <1>5, <1>7
  <2> QED
    BY <2>1, OnCommandParts, PTL
<1> QED
  BY <1>4, <1>8 DEF LinkRight

LEMMA LinkReceiveRight ==
    ASSUME LInv, LinkReceive, UNCHANGED <<connected, calls, seVars>>
    PROVE  LinkRight'
<1>1. UNCHANGED <<toSE, connected, calls, seExp, seSeq, seLast, seUnacked, seOut, seBusy>>
  BY DEF LinkReceive, seVars
<1>2. CASE toHost = None /\ ReadFails /\ UNCHANGED toHost
  <2>1. pc = "recv" /\ KeepsIframe /\ ~status'
        /\ (pc' = "send" /\ Repeats(nextTransceiveState') =>
              nextTransceiveState = "SEND_IFRAME" \/ Repeats(nextTransceiveState))
    BY <1>2, ReadFailsKeeps DEF ReadFails, LInv
  <2>2. op # "Transceive" /\ pc' = "send" /\ Repeats(nextTransceiveState') => ~Acknowledges(seLast)
    BY <2>1 DEF LInv, LinkRight, OffCommand, InLoop
  <2> QED
    BY <1>1, <1>2, <2>1, <2>2, KeptRight
<1>3. CASE toHost # None /\ toHost' = None
  <2>1. toSE = None /\ toHost \in {Bad, seLast}
    BY <1>3 DEF LInv, LinkRight, HalfDuplex
  <2>2. ASSUME pc = "recv" PROVE op # "Transceive" => ~Acknowledges(seLast)
    BY <1>3, <2>2 DEF LInv, LinkRight, OffCommand, InLoop
  <2>3. ASSUME pc = "recv", KeepsIframe, pc' = "done" /\ status' => ~Acknowledges(seLast)
        PROVE  LinkRight'
    BY <1>1, <1>3, <2>1, <2>2, <2>3, KeptRight
  <2>4. ASSUME toHost.kind \in {"I", "R", "S"} PROVE toHost = seLast /\ seLast \in SeFrames
    BY <2>1, <2>4, Kinds DEF LInv, LinkRight, SeTyped
  <2>5. CASE toHost.kind = "I" /\ RecvIframe(toHost.seq, toHost.more, toHost.inf)
    <3>1. toHost \in SeIframes /\ toHost = seLast
      BY <2>4, <2>5, Kinds
    <3>2. pc = "recv" /\ toHost.more \in BOOLEAN
      BY <2>5, <3>1 DEF RecvIframe, FrameOk, SeIframes
    <3>3. KeepsIframe
      BY <2>5, <3>2, RecvIframeKeeps DEF LInv
    <3> QED
      BY <2>3, <3>1, <3>2, <3>3, NoAckIsNone
  <2>6. CASE toHost.kind = "R" /\ RecvRframe(toHost.seq, toHost.err)
    <3>1. CASE toHost.err = "NO_ERROR" /\ RecvRAck(toHost.seq)
      BY <1>1, <1>3, <2>6, <3>1, RAckRight
    <3>2. CASE toHost.err # "NO_ERROR" /\ (RecvRNack(toHost.seq) \/ RecvRSofMissed)
      <4>1. KeepsIframe /\ pc = "recv"
        BY <3>2, RecvRNackKeeps, RecvRSofMissedKeeps DEF LInv, RecvRNack, RecvRSofMissed, FrameOk
      <4>2. ~Acknowledges(seLast)
        BY <2>4, <2>6, <3>2 DEF Acknowledges
      <4> QED
        BY <2>3, <4>1, <4>2
    <3> QED
      BY <2>6, <3>1, <3>2 DEF RecvRframe
  <2>7. CASE toHost.kind = "S" /\ RecvSframe(toHost.type, toHost.inf)
    <3>1. pc = "recv" /\ KeepsIframe
      BY <2>7, RecvSframeKeeps
      DEF LInv, RecvSframe, RecvWtxReq, RecvIntfResetRsp, RecvUnknownSframe, RecvSRsp, FrameOk
    <3>2. ~Acknowledges(seLast)
      BY <2>4, <2>7 DEF Acknowledges
    <3> QED
      BY <2>3, <3>1, <3>2
  <2>8. CASE toHost = Bad /\ BadCrc
    BY <2>3, <2>8, BadCrcKeeps DEF LInv, BadCrc
  <2> QED
    BY <1>3, <2>5, <2>6, <2>7, <2>8 DEF LinkReceive
<1> QED
  BY <1>2, <1>3 DEF LinkReceive


\* The raw writes and reads of phNxpEse_waitForWTX: an Open, whatever is read.
LEMMA LinkWaitRight ==
    ASSUME LInv, LinkWait, UNCHANGED <<connected, calls, seVars>>
    PROVE  LinkRight'
<1>1. /\ UNCHANGED <<connected, calls, seExp, seSeq, seLast, seUnacked, seOut, seBusy, op>>
      /\ pc \in {"wtxSync", "wtxRead", "wtxRsp", "clear"}
  BY DEF LinkWait, seVars, WtxSend, WtxRead, WtxReadFails, ClearThenRSync, WtxVars
<1>2. op = "Open"
  BY <1>1 DEF LInv, LinkRight, WaitsInOpen
<1>3. /\ pc' \in {"wtxRead", "wtxRsp", "clear", "send"}
      /\ pc' = "send" => nextTransceiveState' = "SEND_S_RSYNC"
  BY DEF LinkWait, WtxSend, WtxRead, WtxReadFails, ClearThenRSync, SendS
<1>4. HalfDuplex'
  <2>1. CASE Put([kind |-> "S", type |-> IF pc = "wtxSync" THEN "RESYNCH_REQ" ELSE "WTX_RSP"])
    <3>1. toSE' \in HostFrames
      BY <2>1 DEF Put, HostFrames, HostSframes, SReqs
    <3> QED
      BY <2>1, <3>1 DEF Put, HalfDuplex
  <2>2. CASE UNCHANGED toSE /\ toHost' \in {toHost, None}
    BY <1>1, <2>2 DEF LInv, LinkRight, HalfDuplex
  <2> QED
    BY <2>1, <2>2 DEF LinkWait, bus
<1> QED
  BY <1>1, <1>2, <1>3, <1>4
  DEF LInv, LinkRight, SeTyped, WaitsInOpen, OnCommand, OffCommand, AtRest, InLoop, Repeats

LEMMA OpenThenAtrRight ==
    ASSUME LInv, OpenThenAtr, UNCHANGED <<bus, bounds, seVars>>
    PROVE  LinkRight'
<1>1. /\ UNCHANGED <<toSE, toHost, connected, calls, seExp, seSeq, seLast, seUnacked, seOut, seBusy>>
      /\ pc' = "send" /\ op' = "OpenAtr" /\ nextTransceiveState' = "SEND_S_ATR"
  BY DEF OpenThenAtr, SendS, bus, bounds, seVars
<1> QED
  BY <1>1
  DEF LInv, LinkRight, SeTyped, HalfDuplex, WaitsInOpen, OnCommand, OffCommand, AtRest, InLoop, Repeats

LEMMA LinkReturnRight ==
    ASSUME LInv, LinkReturn, UNCHANGED seVars
    PROVE  LinkRight'
<1>1. /\ UNCHANGED <<toSE, toHost, calls, seExp, seSeq, seLast, seUnacked, seOut, seBusy>>
      /\ pc = "done" /\ pc' = "idle"
      /\ connected' = CASE op = "OpenAtr" -> status
                        [] op = "Transceive" -> status /\ rspData # << >>
                        [] OTHER -> FALSE
  BY DEF LinkReturn, Return, bus, seVars
<1>2. connected' => status /\ op \in {"OpenAtr", "Transceive"}
  BY <1>1
<1> QED
  BY <1>1, <1>2
  DEF LInv, LinkRight, SeTyped, HalfDuplex, WaitsInOpen, OnCommand, OffCommand, AtRest, InLoop

\* A command begins at its beginning, when nothing is under way.
LEMMA TransceiveRight ==
    ASSUME LInv, NEW len \in CmdLens, connected, Len(calls) + 1 \in Cmds,
           Transceive(Len(calls) + 1, len), calls' = Append(calls, len),
           UNCHANGED <<connected, toSE, toHost, seExp, seSeq, seLast, seUnacked, seOut, seBusy>>
    PROVE  LinkRight'
<1>1. pc = "idle" /\ op' = "Transceive" /\ pc' = "send"
  BY DEF Transceive, Begin
<1>2. toSE = None /\ ~Acknowledges(seLast) /\ toSE.kind = "none"
  BY <1>1, Kinds DEF LInv, LinkRight, AtRest
<1>3. /\ calls' \in Seq(CmdLens) /\ calls' # << >>
      /\ Len(calls') = Len(calls) + 1 /\ calls'[Len(calls')] = len
  BY DEF LInv, LinkRight
<1>4. /\ NextTx'.Iframe.p_data = Len(calls) + 1 /\ NextTx'.Iframe.dataOffset = 0
      /\ NextTx'.Iframe.isChained = (len > IFSC)
      /\ NextTx'.Iframe.totalDataLen = IF len > IFSC THEN len - IFSC ELSE len
      /\ NextTx'.Iframe.sendDataLen = IF len > IFSC THEN IFSC ELSE len
  BY DEF Transceive, LInv, IInv, TypeOK, TxCntx
<1>5. IFSC \in Nat /\ len \in Nat
  BY DataAssumption
<1>6. FragmentRight'
  <2>1. CASE len > IFSC
    BY <1>3, <1>4, <1>5, <2>1 DEF FragmentRight
  <2>2. CASE ~(len > IFSC)
    <3>1. ~NextTx'.Iframe.isChained
      BY <1>4, <2>2
    <3> QED
      BY <1>3, <1>4, <1>5, <2>2, <3>1 DEF FragmentRight
  <2> QED
    BY <2>1, <2>2
<1>7. OnCommand'
  <2>1. (op = "Transceive" /\ InLoop =>
         /\ FragmentRight
         /\ toSE.kind = "I" => toSE.seq = NextTx.Iframe.seqNo /\ toSE.more = NextTx.Iframe.isChained
         /\ Acknowledges(seLast) => NextTx.Iframe.isChained \/ seLast.seq = NextTx.Iframe.seqNo)'
    BY <1>2, <1>6
  <2> QED
    BY <2>1, OnCommandParts, PTL
<1> QED
  BY <1>1, <1>2, <1>3, <1>7
  DEF LInv, LinkRight, SeTyped, HalfDuplex, WaitsInOpen, OffCommand, AtRest

LEMMA LinkCallRight ==
    ASSUME LInv, LinkCall, UNCHANGED <<seVars, bus, faults>>
    PROVE  LinkRight'
<1>1. UNCHANGED <<connected, toSE, toHost, seExp, seSeq, seLast, seUnacked, seOut, seBusy>>
  BY DEF LinkCall, seVars, bus
<1>2. CASE Open /\ UNCHANGED calls
  <2>1. pc' = "wtxSync" /\ op' = "Open"
    BY <1>2 DEF Open, Begin
  <2> QED
    BY <1>1, <1>2, <2>1
    DEF LInv, LinkRight, SeTyped, HalfDuplex, WaitsInOpen, OnCommand, OffCommand, AtRest, InLoop
<1>3. ASSUME NEW len \in CmdLens, connected, Len(calls) + 1 \in Cmds,
             Transceive(Len(calls) + 1, len), calls' = Append(calls, len)
      PROVE  LinkRight'
  BY <1>1, <1>3, TransceiveRight
<1>4. CASE Close /\ UNCHANGED calls
  <2>1. pc' = "send" /\ op' = "Close" /\ nextTransceiveState' = "SEND_S_EOS"
    BY <1>4 DEF Close, Begin, SendS
  <2> QED
    BY <1>1, <1>4, <2>1
    DEF LInv, LinkRight, SeTyped, HalfDuplex, WaitsInOpen, OnCommand, OffCommand, AtRest, InLoop, Repeats
<1> QED
  BY <1>2, <1>3, <1>4 DEF LinkCall

LEMMA HostCrashRight == ASSUME LInv, HostCrash PROVE LinkRight'
<1>1. /\ UNCHANGED <<toSE, toHost, calls, seExp, seSeq, seLast, seUnacked, seOut, seBusy>>
      /\ pc' = "idle" /\ ~connected'
  BY DEF HostCrash, Restart, bus, seVars
<1> QED
  BY <1>1 DEF LInv, LinkRight, SeTyped, HalfDuplex, WaitsInOpen, OnCommand, OffCommand, AtRest, InLoop

LEMMA LinkStutterRight == ASSUME LInv, UNCHANGED linkVars PROVE LinkRight'
<1>1. /\ UNCHANGED vars /\ UNCHANGED <<seExp, seSeq, connected, calls>>
      /\ UNCHANGED <<seLast, seUnacked, seOut, seBusy>> /\ UNCHANGED <<toSE, toHost>>
  BY DEF linkVars, seVars, bus, bounds
<1> QED
  BY <1>1, LessOnTheBus

-----------------------------------------------------------------------------
(* The host's half of a step of the link is a step of the protocol.        *)

LEMMA ReceivesAFrame ==
    ASSUME LInv, LinkReceive
    PROVE  Receive
<1>1. toHost \in SeFrames \cup {None, Bad}
  BY DEF LInv, LinkRight, HalfDuplex, SeTyped
<1>2. CASE toHost # None /\ toHost.kind = "I" /\ RecvIframe(toHost.seq, toHost.more, toHost.inf)
  <2>1. toHost \in SeIframes
    BY <1>1, <1>2, Kinds
  <2>2. toHost.seq \in Bit /\ toHost.more \in BOOLEAN /\ toHost.inf \in Infs
    BY <2>1 DEF SeIframes
  <2> QED
    BY <1>2, <2>2, Zenon DEF Receive
<1>3. CASE toHost # None /\ toHost.kind = "R" /\ RecvRframe(toHost.seq, toHost.err)
  <2>1. toHost \in Rframes
    BY <1>1, <1>3, Kinds
  <2>2. toHost.seq \in Bit /\ toHost.err \in ErrorTypes
    BY <2>1 DEF Rframes
  <2> QED
    BY <1>3, <2>2, Zenon DEF Receive
<1>4. CASE toHost # None /\ toHost.kind = "S" /\ RecvSframe(toHost.type, toHost.inf)
  <2>1. toHost \in SeSframes
    BY <1>1, <1>4, Kinds
  <2>2. toHost.type \in SRsps /\ toHost.inf \in Infs
    BY <2>1 DEF SeSframes
  <2> QED
    BY <1>4, <2>2, Zenon DEF Receive
<1>5. CASE BadCrc \/ ReadFails
  BY <1>5, Zenon DEF Receive
<1> QED
  BY <1>2, <1>3, <1>4, <1>5, Zenon DEF LinkReceive

LEMMA WaitsForWTX ==
    ASSUME LinkWait
    PROVE  WaitForWTX
<1>1. TRUE \in BOOLEAN /\ FALSE \in BOOLEAN /\ (toHost = S("WTX_REQ", << >>)) \in BOOLEAN
  OBVIOUS
<1> QED
  BY <1>1, Zenon DEF LinkWait, WaitForWTX

LEMMA LinkStepIsHosts ==
    ASSUME LInv, [LinkNext]_linkVars
    PROVE  [Next]_vars
<1>1. CASE HostStep
  BY <1>1, ReceivesAFrame, WaitsForWTX, Zenon DEF HostStep, LinkSend, LinkReturn, Next
<1>2. CASE LinkCall
  <2>1. ASSUME NEW len \in CmdLens, Len(calls) + 1 \in Cmds, Transceive(Len(calls) + 1, len)
        PROVE  Call
    BY <2>1, Zenon DEF Call
  <2>2. Call
    BY <1>2, <2>1, Zenon DEF LinkCall, Call
  <2> QED
    BY <2>2 DEF Next
<1>3. CASE SeStep \/ BusFault \/ SePowerLoss \/ SeGoesMute
  BY <1>3, Zenon DEF SeStep, BusFault, SePowerLoss, SeGoesMute
<1>4. CASE HostCrash
  BY <1>4 DEF HostCrash, Next
<1>5. CASE UNCHANGED linkVars
  BY <1>5 DEF linkVars
<1> QED
  BY <1>1, <1>2, <1>3, <1>4, <1>5, Zenon DEF LinkNext

LEMMA LinkNextRight ==
    ASSUME LInv, [LinkNext]_linkVars
    PROVE  LinkRight'
<1>1. CASE HostStep
  BY <1>1, LinkSendRight, LinkReceiveRight, LinkWaitRight, OpenThenAtrRight, LinkReturnRight
  DEF HostStep
<1> QED
  BY <1>1, SeStepRight, LinkCallRight, BusFaultRight, SePowerLossRight, SeGoesMuteRight,
     HostCrashRight, LinkStutterRight, Zenon DEF LinkNext

LEMMA LinkInitRight == LinkInit => LInv
<1> SUFFICES ASSUME LinkInit PROVE LInv
  OBVIOUS
<1>1. IInv /\ pc = "idle" /\ ~connected
  BY InitIInv DEF LinkInit, Init
<1>2. SeTyped /\ HalfDuplex /\ calls \in Seq(CmdLens)
  BY DEF LinkInit, SeTyped, HalfDuplex, Bit
<1> QED
  BY <1>1, <1>2 DEF LInv, LinkRight, WaitsInOpen, OnCommand, OffCommand, AtRest, InLoop

LEMMA LinkInvariant == LinkSpec => []LInv
<1>1. LInv /\ [LinkNext]_linkVars => LInv'
  BY LinkStepIsHosts, LinkNextRight, NextIInv DEF LInv
<1> QED
  BY <1>1, LinkInitRight, PTL DEF LinkSpec

-----------------------------------------------------------------------------
(* The theorems.                                                           *)

\* What the host does on the link is a behaviour of the protocol, which T1oI2C
\* specifies for any frames at all: every frame the SE sends, late, repeated or out
\* of turn, is one of those, and every call is one the protocol allows.
THEOREM LinkKeepsToProtocol == LinkSpec => Spec
<1>1. LinkInit => Init
  BY DEF LinkInit
<1>2. LInv /\ [LinkNext]_linkVars => [Next]_vars
  BY LinkStepIsHosts
<1> QED
  BY <1>1, <1>2, LinkInvariant, PTL DEF LinkSpec, Spec

\* So the link's host repeats exactly, keeps state and frame in agreement, and uses
\* no buffer of a call that has returned (NextTx_Cntx, LastTx_Cntx, pRsp).
THEOREM ProtocolHoldsOnLink ==
    LinkSpec => [](TypeOK /\ AwaitsForLast /\ FrameMatchesContext /\ RepeatOrRenumber /\ NoReturnedBuffer)
BY LinkKeepsToProtocol, TypeCorrect, RepeatsTheLast, FramesMatch, Renumbers, BuffersAreLive, PTL

\* SetNextIframeContxt, which checks neither that there is a command nor that it
\* has a next fragment, is never reached without one: no R-ACK of a command that
\* was given up, by a time-out or with its process, is ever read.
THEOREM OnlyOwnCommandIsSent == LinkSpec => []SendsOnlyOwnCommand
<1>1. LInv => SendsOnlyOwnCommand
  BY OnCommandParts DEF LInv, LinkRight, OffCommand, InLoop, FragmentRight, SendsOnlyOwnCommand
<1> QED
  BY <1>1, LinkInvariant, PTL

-----------------------------------------------------------------------------
(***************************************************************************)
(* Nothing damaged.  When frames are lost or late, writes fail, the host's *)
(* process dies or the SE goes mute, however often, but no frame is        *)
(* corrupted and the SE keeps its supply, the two sides of a command stay  *)
(* in lockstep (Locked): the SE waits for the fragment at hand, has it and *)
(* waits for the next, or has executed the whole command and what the host *)
(* has saved, with what is under way and what is still to send, is the     *)
(* answer.  A session begins in step because Open makes both sides anew    *)
(* (Opening, Greeting), and goes on only after a call that left them so    *)
(* (Rested).                                                               *)
(***************************************************************************)

\* Consecutive fragments of one command, from its first unit up to this one.
Beginning(frags, cmd, end) ==
    /\ frags = << >> => end = 0
    /\ frags # << >> => /\ frags[1].offset = 0
                        /\ frags[Len(frags)].offset + frags[Len(frags)].len = end
    /\ \A k \in DOMAIN frags : frags[k].cmd = cmd
    /\ \A k \in 2..Len(frags) : frags[k].offset = frags[k-1].offset + frags[k-1].len

WholeCommand(frags) ==
    /\ frags # << >> /\ frags[1].cmd \in DOMAIN calls
    /\ Beginning(frags, frags[1].cmd, calls[frags[1].cmd])

\* What the SE has executed are whole commands.
SeHistory ==
    /\ seIn \in Seq(HostIframes) /\ executed \in Seq(Seq(HostIframes))
    /\ \A i \in DOMAIN executed : WholeCommand(executed[i])

\* The block the SE sent last, and its last I-frame, agree with its numbers.
SeBlocks ==
    /\ seLast.kind = "I" => seLast = seUnacked
    /\ seLast.kind = "R" => seLast.seq = seExp
    /\ seUnacked # None =>
         ~seBusy /\ seUnacked.seq = seSeq /\ (seUnacked.more <=> seOut # << >>)

NotExecuted(cmd) == \A i \in DOMAIN executed : executed[i][1].cmd # cmd

\* The SE, idle, has the last command issued up to this unit and nothing else.
HasUpTo(cmd, end) ==
    ~seBusy /\ calls # << >> /\ cmd = Len(calls) /\ NotExecuted(cmd) /\ Beginning(seIn, cmd, end)

\* An I-frame on its way to an SE that expects it continues what the SE has, even
\* when the process that sent it is gone.
OnTheWay ==
    toSE.kind = "I" /\ toSE.seq = seExp /\ ~seBusy =>
        /\ HasUpTo(toSE.cmd, toSE.offset)
        /\ ~toSE.more => toSE.offset + toSE.len = calls[toSE.cmd]

\* The SE has nothing to do and nothing to send, and both number alike.
Quiet == ~seBusy /\ seOut = << >> /\ seSeq = lastRcvdSeqNo

Unspent == recoveryCounter <= FRAME_RETRY_COUNT

\* A session between two commands is ready for the next.
Ready ==
    /\ toSE = None /\ toHost = None /\ Unspent
    /\ seIn = << >> /\ Quiet /\ seExp = Flip(LastTx.Iframe.seqNo)

Rested ==
    \/ connected /\ pc = "idle"
    \/ pc = "done" /\ status /\ op = "OpenAtr"
    \/ pc = "done" /\ status /\ op = "Transceive" /\ rspData # << >>
    => Ready

SeAnew   == seExp = 0 /\ seSeq = 1 /\ seIn = << >> /\ seOut = << >> /\ ~seBusy
HostAnew == LastTx.Iframe.seqNo = 1 /\ NextTx.Iframe.seqNo = 1 /\ lastRcvdSeqNo = 1

Asked(type) == toSE = None \/ toSE = [kind |-> "S", type |-> type]

\* An interface reset is answered by nothing else, and then the SE is as new.
Resetting ==
    pc = "recv" /\ nextTransceiveState = "SEND_S_INTF_RST" =>
      /\ Asked("INTF_RESET_REQ")
      /\ toHost # None => toHost = S("INTF_RESET_RSP", Atr) /\ SeAnew

\* Open resynchronises both sides.
Resyncing ==
    InLoop /\ nextTransceiveState = "SEND_S_RSYNC" =>
      /\ Unspent
      /\ pc = "recv" =>
           /\ Asked("RESYNCH_REQ")
           /\ toHost # None => \/ toHost = S("WTX_REQ", << >>)
                               \/ toHost = S("RESYNCH_RSP", << >>) /\ SeAnew
Opening ==
    op = "Open" =>
      /\ HostAnew
      /\ pc = "done" /\ status => toSE = None /\ toHost = None /\ SeAnew /\ Unspent
      /\ pc \in {"wtxSync", "wtxRead", "wtxRsp", "clear"} => Unspent
      /\ InLoop => nextTransceiveState \in {"SEND_S_RSYNC", "SEND_S_INTF_RST"}
      /\ Resyncing

\* And then asks for the ATR.
Greeting ==
    op = "OpenAtr" /\ InLoop =>
      /\ nextTransceiveState = "SEND_S_ATR" /\ HostAnew /\ SeAnew /\ Unspent
      /\ Asked("ATR_REQ")
      /\ toHost # None => toHost = S("ATR_RES", Atr)

\* Fragment f of the running command: the SE waits for it, or has it and waits for the next.
Listening  == Quiet /\ rspData = << >> /\ toHost.kind \in {"none", "R"}
Wanted(f)  == Listening /\ seExp = f.seqNo /\ HasUpTo(f.p_data, f.dataOffset)
Taken(f)   == Listening /\ seExp = Flip(f.seqNo) /\ f.isChained
              /\ HasUpTo(f.p_data, f.dataOffset + f.sendDataLen)

\* The command is executed: nothing of the answer has been sent, or a block of it has
\* been and is not yet received, or what has been sent is received.
Executed(f)   == /\ seExp = Flip(f.seqNo) /\ ~f.isChained /\ seIn = << >>
                 /\ ~NotExecuted(f.p_data) /\ ~Acknowledges(seLast)
Working(ans)  == seBusy /\ seSeq = lastRcvdSeqNo /\ rspData = << >> /\ seOut = ans
                 /\ toHost.kind # "I"
Sending(ans)  == ~seBusy /\ seUnacked # None /\ seSeq = Flip(lastRcvdSeqNo)
                 /\ rspData \o seUnacked.inf \o seOut = ans
Received(ans) == ~seBusy /\ seUnacked # None /\ seSeq = lastRcvdSeqNo /\ seOut # << >>
                 /\ rspData \o seOut = ans /\ toHost.kind # "I"
Answering(ans) == Working(ans) \/ Sending(ans) \/ Received(ans)

Lockstep(f) == Wanted(f) \/ Taken(f) \/ (Executed(f) /\ Answering(Answer(f.p_data)))

\* The frames under way in a Transceive.
UnderWay(f) ==
    /\ toSE.kind = "I" => toSE = [kind |-> "I", seq |-> f.seqNo, more |-> f.isChained,
                                  cmd |-> f.p_data, offset |-> f.dataOffset, len |-> f.sendDataLen]
    /\ toSE.kind = "R" => toSE.seq = Flip(lastRcvdSeqNo)
    /\ toSE.kind = "S" => toSE.type = "WTX_RSP"
    /\ toHost.kind = "S" => toHost = S("WTX_REQ", << >>)

LastFragment(f) == f.isChained \/ f.dataOffset + f.sendDataLen = calls[Len(calls)]

Talking ==
    op = "Transceive" /\ InLoop /\ nextTransceiveState # "SEND_S_INTF_RST" =>
      /\ nextTransceiveState \in {"SEND_IFRAME", "SEND_R_ACK", "SEND_R_NACK", "SEND_S_WTX_RSP"}
      /\ Unspent
      /\ LastFragment(NextTx.Iframe) /\ UnderWay(NextTx.Iframe) /\ Lockstep(NextTx.Iframe)

\* A Transceive that succeeds has the whole answer, or an interface reset none of it.
AnswerWhole ==
    op = "Transceive" /\ pc = "done" /\ status =>
      rspData = << >> \/ (rspData = Answer(Len(calls)) /\ ~NotExecuted(Len(calls)))

IdleOp == pc = "idle" => op = "none"

Undamaged == toSE # Bad /\ toHost # Bad

Locked == /\ Undamaged /\ SeHistory /\ SeBlocks /\ OnTheWay /\ Rested /\ Resetting
          /\ Opening /\ Greeting /\ Talking /\ AnswerWhole /\ IdleOp

-----------------------------------------------------------------------------
(* Fragments and answers. *)

\* What Append makes of a sequence.
LEMMA AppendIs ==
    ASSUME NEW T, NEW s \in Seq(T), NEW e \in T
    PROVE  /\ Append(s, e) \in Seq(T) /\ Append(s, e) # << >>
           /\ Len(Append(s, e)) = Len(s) + 1 /\ Len(s) \in Nat
           /\ Append(s, e)[Len(s) + 1] = e
           /\ \A k \in 1..Len(s) : Append(s, e)[k] = s[k]
           /\ DOMAIN s = 1..Len(s) /\ DOMAIN Append(s, e) = 1..(Len(s) + 1)
           /\ s = << >> <=> Len(s) = 0
BY EmptySeq

\* The fragment that begins where the others end makes a longer beginning.
LEMMA BeginningGrows ==
    ASSUME NEW frags \in Seq(HostIframes), NEW f \in HostIframes,
           Beginning(frags, f.cmd, f.offset)
    PROVE  /\ Beginning(Append(frags, f), f.cmd, f.offset + f.len)
           /\ Append(frags, f) # << >> /\ Append(frags, f)[1].cmd = f.cmd
<1> DEFINE n == Len(frags)
           longer == Append(frags, f)
<1>1. /\ n \in Nat /\ Len(longer) = n + 1 /\ longer[n + 1] = f /\ longer # << >>
      /\ \A k \in 1..n : longer[k] = frags[k]
      /\ DOMAIN frags = 1..n /\ DOMAIN longer = 1..(n + 1) /\ (frags = << >> <=> n = 0)
  BY AppendIs
<1> HIDE DEF n, longer
<1>2. /\ n = 0 => f.offset = 0
      /\ n # 0 => frags[1].offset = 0 /\ frags[n].offset + frags[n].len = f.offset
      /\ \A k \in 1..n : frags[k].cmd = f.cmd
      /\ \A k \in 2..n : frags[k].offset = frags[k-1].offset + frags[k-1].len
  BY <1>1 DEF Beginning, n
<1>3. longer[1].offset = 0 /\ longer[1].cmd = f.cmd
  <2>1. CASE n = 0
    BY <1>1, <1>2, <2>1
  <2>2. CASE n # 0
    <3>1. 1 \in 1..n
      BY <1>1, <2>2
    <3> QED BY <1>1, <1>2, <2>2, <3>1
  <2> QED BY <2>1, <2>2
<1>4. \A k \in DOMAIN longer : longer[k].cmd = f.cmd
  <2> TAKE k \in DOMAIN longer
  <2>1. CASE k = n + 1
    BY <1>1, <2>1
  <2>2. CASE k # n + 1
    <3>1. k \in 1..n
      BY <1>1, <2>2
    <3> QED BY <1>1, <1>2, <3>1
  <2> QED BY <2>1, <2>2
<1>5. \A k \in 2..Len(longer) : longer[k].offset = longer[k-1].offset + longer[k-1].len
  <2> TAKE k \in 2..Len(longer)
  <2>1. CASE k = n + 1
    <3>1. n # 0 /\ n \in 1..n /\ k - 1 = n
      BY <1>1, <2>1
    <3> QED BY <1>1, <1>2, <2>1, <3>1
  <2>2. CASE k # n + 1
    <3>1. k \in 2..n /\ k \in 1..n /\ k - 1 \in 1..n
      BY <1>1, <2>2
    <3> QED BY <1>1, <1>2, <3>1
  <2> QED BY <2>1, <2>2
<1>6. Beginning(longer, f.cmd, f.offset + f.len)
  BY <1>1, <1>3, <1>4, <1>5 DEF Beginning
<1> QED BY <1>1, <1>3, <1>6 DEF longer

\* Nothing is the beginning of any command.
LEMMA BeginsEmpty == \A cmd : Beginning(<< >>, cmd, 0)
BY DEF Beginning

\* The first unit and the others are the whole.
LEMMA HeadThenTail ==
    ASSUME NEW T, NEW s \in Seq(T), NEW t \in Seq(T), t # << >>
    PROVE  /\ (s \o <<Head(t)>>) \o Tail(t) = s \o t
           /\ (<< >> \o <<Head(t)>>) \o Tail(t) = t
           /\ s \o << >> = s
           /\ Len(t) > 1 <=> Tail(t) # << >>
<1>1. <<Head(t)>> \o Tail(t) = t /\ Head(t) \in T /\ Tail(t) \in Seq(T) /\ << >> \o t = t
  OBVIOUS
<1>2. (s \o <<Head(t)>>) \o Tail(t) = s \o (<<Head(t)>> \o Tail(t))
  OBVIOUS
<1>3. (<< >> \o <<Head(t)>>) \o Tail(t) = t
  BY <1>1
<1>4. Len(t) > 1 <=> Tail(t) # << >>
  <2>1. Len(Tail(t)) = Len(t) - 1 /\ Tail(t) \in Seq(T) /\ Len(t) \in Nat \ {0}
    BY HeadTailProperties, EmptySeq
  <2>2. Tail(t) = << >> <=> Len(Tail(t)) = 0
    BY <2>1, EmptySeq
  <2> QED BY <2>1, <2>2
<1> QED BY <1>1, <1>2, <1>3, <1>4

-----------------------------------------------------------------------------
(* The SE's blocks. *)

\* A block with an I-frame: the SE remembers it, and what is left to send.
LEMMA SendIBlocks ==
    ASSUME NEW seq \in Bit, NEW rest \in Seq(Carried), rest # << >>, SendI(seq, rest),
           seBusy' = FALSE
    PROVE  /\ SeBlocks' /\ seUnacked' # None /\ toHost' = seUnacked' /\ seLast' = seUnacked'
           /\ seLast'.kind = "I" /\ ~Acknowledges(seLast')
           /\ seUnacked'.inf = <<Head(rest)>> /\ seOut' = Tail(rest) /\ seSeq' = seq
<1>1. /\ seUnacked' = I(seq, Len(rest) > 1, <<Head(rest)>>) /\ seLast' = seUnacked'
      /\ toHost' = seUnacked' /\ seSeq' = seq /\ seOut' = Tail(rest)
  BY DEF SendI, Reply
<1>2. /\ seUnacked'.kind = "I" /\ seUnacked'.seq = seq /\ seUnacked'.inf = <<Head(rest)>>
      /\ seUnacked'.more = (Len(rest) > 1)
  BY <1>1 DEF I
<1>3. Len(rest) > 1 <=> Tail(rest) # << >>
  BY HeadThenTail
<1>4. seUnacked' # None
  BY <1>2, Kinds
<1> QED BY <1>1, <1>2, <1>3, <1>4 DEF SeBlocks, Acknowledges

\* The first block of an answer, or a request for time and the whole answer still to send.
LEMMA BeginAnswerBlocks ==
    ASSUME SeTyped, NEW ans \in Seq(Carried), ans # << >>, BeginAnswer(ans)
    PROVE  /\ SeBlocks' /\ toHost' = seLast' /\ ~Acknowledges(seLast')
           /\ toHost'.kind = "S" => toHost' = S("WTX_REQ", << >>)
           /\ \/ seBusy' /\ seSeq' = seSeq /\ seOut' = ans /\ toHost'.kind # "I"
              \/ /\ ~seBusy' /\ seUnacked' # None /\ seSeq' = Flip(seSeq)
                 /\ seUnacked'.inf = <<Head(ans)>> /\ seOut' = Tail(ans)
<1>1. CASE SendI(Flip(seSeq), ans) /\ seBusy' = FALSE
  <2>1. Flip(seSeq) \in Bit
    BY FlipBit DEF SeTyped
  <2> QED BY <1>1, <2>1, SendIBlocks
<1>2. CASE /\ Reply(S("WTX_REQ", << >>)) /\ seOut' = ans /\ seBusy' = TRUE
           /\ seUnacked' = None /\ UNCHANGED seSeq
  <2>1. S("WTX_REQ", << >>).kind = "S"
    BY DEF S
  <2> QED BY <1>2, <2>1 DEF Reply, SeBlocks, Acknowledges
<1> QED BY <1>1, <1>2 DEF BeginAnswer

\* An error asks for the block the SE expects, and leaves it as it was.
LEMMA ErrorBlocks ==
    ASSUME SeBlocks, NEW err \in ErrorTypes, Reply(R(seExp, err)),
           UNCHANGED <<seExp, seSeq, seUnacked, seOut, seBusy>>
    PROVE  /\ SeBlocks' /\ toHost' = seLast' /\ toHost'.kind = "R"
           /\ err # "NO_ERROR" => ~Acknowledges(seLast')
<1>1. R(seExp, err).kind = "R" /\ R(seExp, err).seq = seExp /\ R(seExp, err).err = err
  BY DEF R
<1> QED BY <1>1 DEF SeBlocks, Reply, Acknowledges

-----------------------------------------------------------------------------
(* The SE answers: what it executes, and what the host then has of it. *)

\* What has been executed stays executed.
LEMMA ExecutedStays ==
    ASSUME SeHistory, NEW frags \in Seq(HostIframes),
           executed' = Append(executed, frags) \/ UNCHANGED executed, NEW cmd
    PROVE  /\ ~NotExecuted(cmd) => ~NotExecuted(cmd)'
           /\ executed' = Append(executed, frags) /\ frags[1].cmd = cmd => ~NotExecuted(cmd)'
<1>1. CASE UNCHANGED executed
  <2>1. ~NotExecuted(cmd) => ~NotExecuted(cmd)'
    BY <1>1 DEF NotExecuted
  <2>2. executed # Append(executed, frags)
    BY AppendIs DEF SeHistory
  <2> QED BY <1>1, <2>1, <2>2
<1>2. CASE executed' = Append(executed, frags)
  <2>1. /\ executed'[Len(executed) + 1] = frags /\ Len(executed) + 1 \in DOMAIN executed'
        /\ \A i \in DOMAIN executed : i \in DOMAIN executed' /\ executed'[i] = executed[i]
    BY <1>2, AppendIs DEF SeHistory
  <2> QED BY <1>2, <2>1 DEF NotExecuted
<1> QED BY <1>1, <1>2

\* The SE takes the last fragment of a command, and executes the whole of it.
LEMMA CommandTaken ==
    ASSUME SeHistory, NEW f \in HostIframes, HasUpTo(f.cmd, f.offset),
           f.offset + f.len = calls[f.cmd], calls \in Seq(CmdLens), UNCHANGED calls,
           seIn' = << >>, executed' = Append(executed, Append(seIn, f))
    PROVE  SeHistory' /\ ~NotExecuted(f.cmd)'
<1> DEFINE frags == Append(seIn, f)
<1>1. frags \in Seq(HostIframes)
  BY AppendIs DEF SeHistory
<1>2. /\ Beginning(frags, f.cmd, calls[f.cmd]) /\ frags # << >> /\ frags[1].cmd = f.cmd
  BY BeginningGrows DEF SeHistory, HasUpTo
<1>3. f.cmd \in DOMAIN calls
  BY EmptySeq DEF HasUpTo
<1>4. WholeCommand(frags)
  BY <1>2, <1>3 DEF WholeCommand
<1> HIDE DEF frags
<1>5. executed' = Append(executed, frags)
  BY DEF frags
<1>6. /\ executed' \in Seq(Seq(HostIframes)) /\ DOMAIN executed' = 1..(Len(executed) + 1)
      /\ executed'[Len(executed) + 1] = frags /\ DOMAIN executed = 1..Len(executed)
      /\ \A i \in 1..Len(executed) : executed'[i] = executed[i]
      /\ Len(executed) \in Nat
  BY <1>1, <1>5, AppendIs DEF SeHistory
<1>7. \A i \in DOMAIN executed' : WholeCommand(executed'[i])
  <2> TAKE i \in DOMAIN executed'
  <2>1. CASE i = Len(executed) + 1
    BY <1>4, <1>6, <2>1
  <2>2. CASE i # Len(executed) + 1
    <3>1. i \in 1..Len(executed)
      BY <1>6, <2>2
    <3> QED BY <1>6, <3>1 DEF SeHistory
  <2> QED BY <2>1, <2>2
<1>8. SeHistory'
  <2>1. \A frags2 : WholeCommand(frags2)' <=> WholeCommand(frags2)
    BY DEF WholeCommand
  <2>2. << >> \in Seq(HostIframes)
    BY EmptySeq
  <2> QED BY <1>6, <1>7, <2>1, <2>2 DEF SeHistory, WholeCommand
<1> QED BY <1>1, <1>2, <1>5, <1>8, ExecutedStays

\* The SE takes a fragment that others follow.
LEMMA FragmentTaken ==
    ASSUME SeHistory, NEW f \in HostIframes, HasUpTo(f.cmd, f.offset),
           UNCHANGED <<calls, executed, seBusy>>, seIn' = Append(seIn, f)
    PROVE  SeHistory' /\ HasUpTo(f.cmd, f.offset + f.len)'
<1>1. seIn' \in Seq(HostIframes)
  BY AppendIs DEF SeHistory
<1>2. Beginning(seIn', f.cmd, f.offset + f.len)
  BY BeginningGrows DEF SeHistory, HasUpTo
<1>3. SeHistory'
  BY <1>1 DEF SeHistory, WholeCommand
<1>4. NotExecuted(f.cmd)'
  BY DEF HasUpTo, NotExecuted
<1> QED BY <1>2, <1>3, <1>4 DEF HasUpTo

\* What the SE has been given and has executed stays.
LEMMA HistoryStays ==
    ASSUME SeHistory, UNCHANGED <<calls, executed>>,
           seIn' \in {seIn, << >>}
    PROVE  /\ SeHistory' /\ \A cmd : NotExecuted(cmd)' <=> NotExecuted(cmd)
           /\ seIn' = seIn /\ seBusy' = seBusy =>
                \A cmd, end : HasUpTo(cmd, end)' <=> HasUpTo(cmd, end)
<1>1. seIn' \in Seq(HostIframes)
  BY EmptySeq DEF SeHistory
<1>2. SeHistory'
  BY <1>1 DEF SeHistory, WholeCommand
<1>3. \A cmd : NotExecuted(cmd)' <=> NotExecuted(cmd)
  BY DEF NotExecuted
<1> QED BY <1>2, <1>3 DEF HasUpTo

\* The SE begins to answer the command it has just executed, or has been busy with.
LEMMA BeginsAnswering ==
    ASSUME SeTyped, NEW ans \in Seq(Carried), ans # << >>, BeginAnswer(ans),
           seSeq = lastRcvdSeqNo, rspData = << >>, UNCHANGED <<lastRcvdSeqNo, rspData>>
    PROVE  Answering(ans)'
<1>1. \/ seBusy' /\ seSeq' = seSeq /\ seOut' = ans /\ toHost'.kind # "I"
      \/ /\ ~seBusy' /\ seUnacked' # None /\ seSeq' = Flip(seSeq)
         /\ seUnacked'.inf = <<Head(ans)>> /\ seOut' = Tail(ans)
  BY BeginAnswerBlocks
<1>2. (<< >> \o <<Head(ans)>>) \o Tail(ans) = ans
  BY HeadThenTail
<1>3. CASE seBusy' /\ seSeq' = seSeq /\ seOut' = ans /\ toHost'.kind # "I"
  BY <1>3 DEF Answering, Working
<1>4. CASE /\ ~seBusy' /\ seUnacked' # None /\ seSeq' = Flip(seSeq)
           /\ seUnacked'.inf = <<Head(ans)>> /\ seOut' = Tail(ans)
  <2>1. rspData' \o seUnacked'.inf \o seOut' = ans
    BY <1>2, <1>4, Zenon
  <2> QED BY <1>4, <2>1, Zenon DEF Answering, Sending
<1> QED BY <1>1, <1>3, <1>4

\* Lockstep is about what the SE has and what the host has of its answer: it survives
\* any step that changes neither.
LEMMA LockKept ==
    ASSUME SeHistory, NEW f, Lockstep(f),
           UNCHANGED <<seExp, seSeq, seUnacked, seIn, seOut, seBusy, executed, calls,
                       lastRcvdSeqNo, rspData>>,
           ~Acknowledges(seLast) => ~Acknowledges(seLast'),
           \/ toHost'.kind \in {"none", "R"} \/ toHost' = toHost
           \/ seBusy /\ toHost'.kind = "S"
    PROVE  Lockstep(f)'
<1>1. /\ NotExecuted(f.p_data)' <=> NotExecuted(f.p_data)
      /\ \A end : HasUpTo(f.p_data, end)' <=> HasUpTo(f.p_data, end)
  BY HistoryStays
<1>2. ~seBusy /\ toHost.kind \in {"none", "R"} => toHost'.kind \in {"none", "R"}
  OBVIOUS
<1>3. toHost.kind # "I" => toHost'.kind # "I"
  OBVIOUS
<1>4. Listening => Listening'
  BY <1>2 DEF Listening, Quiet
<1>5. CASE Wanted(f)
  BY <1>1, <1>4, <1>5 DEF Wanted, Lockstep
<1>6. CASE Taken(f)
  BY <1>1, <1>4, <1>6 DEF Taken, Lockstep
<1>7. CASE Executed(f) /\ Answering(Answer(f.p_data))
  <2>1. Executed(f)'
    BY <1>1, <1>7 DEF Executed
  <2>2. Answering(Answer(f.p_data))'
    BY <1>3, <1>7, Zenon DEF Answering, Working, Sending, Received
  <2> QED BY <2>1, <2>2 DEF Lockstep
<1> QED BY <1>5, <1>6, <1>7 DEF Lockstep

\* An I-frame: the fragment the SE waits for, or one it has.
LEMMA SeIframeKeeps ==
    ASSUME LInv, SeHistory, SeBlocks, OnTheWay, toSE.kind = "I", SeIframe(toSE),
           UNCHANGED calls
    PROVE  /\ SeHistory' /\ SeBlocks' /\ toHost' = seLast'
           /\ toHost'.kind = "S" => toHost' = S("WTX_REQ", << >>)
           /\ \A cmd : ~NotExecuted(cmd) => ~NotExecuted(cmd)'
<1> DEFINE i == toSE
<1>1. i \in HostIframes /\ SeTyped /\ calls \in Seq(CmdLens)
  BY Kinds DEF LInv, LinkRight, HalfDuplex
<1>2. i.seq \in Bit /\ i.cmd \in Cmds /\ seExp \in Bit /\ Flip(seExp) \in Bit
  BY <1>1, FlipBit DEF HostIframes, SeTyped
<1>3. CASE /\ i.seq = seExp /\ ~seBusy /\ i.more
           /\ seExp' = Flip(seExp) /\ seIn' = Append(seIn, i)
           /\ Reply(R(Flip(seExp), "NO_ERROR"))
           /\ seOut' = << >> /\ seUnacked' = None
           /\ UNCHANGED <<seSeq, seBusy, executed, wtxs>>
  <2>1. SeHistory' /\ \A cmd : ~NotExecuted(cmd) => ~NotExecuted(cmd)'
    BY <1>1, <1>3, FragmentTaken DEF OnTheWay, NotExecuted
  <2>2. /\ R(Flip(seExp), "NO_ERROR").kind = "R" /\ R(Flip(seExp), "NO_ERROR").seq = Flip(seExp)
    BY DEF R
  <2> QED BY <1>3, <2>1, <2>2 DEF SeBlocks, Reply
<1>4. CASE /\ i.seq = seExp /\ ~seBusy /\ ~i.more
           /\ seIn' = << >> /\ executed' = Append(executed, Append(seIn, i))
           /\ BeginAnswer(Answer(i.cmd))
  <2>1. SeHistory'
    BY <1>1, <1>4, CommandTaken DEF OnTheWay
  <2>2. Append(seIn, i) \in Seq(HostIframes)
    BY <1>1, AppendIs DEF SeHistory
  <2>3. \A cmd : ~NotExecuted(cmd) => ~NotExecuted(cmd)'
    BY <1>4, <2>2, ExecutedStays
  <2>4. Answer(i.cmd) # << >> /\ Answer(i.cmd) \in Seq(Carried)
    BY <1>2, AnswersAssumption, Zenon DEF Carried
  <2> QED BY <1>1, <1>4, <2>1, <2>3, <2>4, BeginAnswerBlocks
<1>5. CASE /\ Reply(R(seExp, "OTHER_ERROR"))
           /\ UNCHANGED <<seExp, seSeq, seUnacked, seIn, seOut, seBusy, executed, wtxs>>
  BY <1>5, HistoryStays, ErrorBlocks DEF ErrorTypes
<1> QED BY <1>3, <1>4, <1>5 DEF SeIframe

LEMMA SeIframeLocks ==
    ASSUME LInv, SeHistory, SeBlocks, OnTheWay, toSE.kind = "I", SeIframe(toSE),
           UNCHANGED <<calls, lastRcvdSeqNo, rspData>>,
           NEW f \in IframeInfo, UnderWay(f), Lockstep(f)
    PROVE  Lockstep(f)'
<1> PICK i : i = toSE
  OBVIOUS
<1>1. i \in HostIframes /\ SeTyped /\ calls \in Seq(CmdLens)
  BY Kinds DEF LInv, LinkRight, HalfDuplex
<1>2. /\ i.seq = f.seqNo /\ i.more = f.isChained /\ i.cmd = f.p_data
      /\ i.offset = f.dataOffset /\ i.len = f.sendDataLen
  BY DEF UnderWay
<1>3. /\ i.cmd \in Cmds /\ f.seqNo \in Bit /\ Flip(f.seqNo) # f.seqNo
  BY <1>1, FlipBit DEF HostIframes, IframeInfo
<1>4. ASSUME i.seq = seExp PROVE Wanted(f)
  BY <1>2, <1>3, <1>4 DEF Lockstep, Taken, Executed
<1>5. CASE /\ i.seq = seExp /\ ~seBusy /\ i.more
           /\ seExp' = Flip(seExp) /\ seIn' = Append(seIn, i)
           /\ Reply(R(Flip(seExp), "NO_ERROR"))
           /\ seOut' = << >> /\ seUnacked' = None
           /\ UNCHANGED <<seSeq, seBusy, executed, wtxs>>
  <2>1. HasUpTo(i.cmd, i.offset + i.len)'
    BY <1>1, <1>5, FragmentTaken DEF OnTheWay
  <2>2. HasUpTo(f.p_data, f.dataOffset + f.sendDataLen)'
    BY <1>2, <2>1, Zenon
  <2>3. toHost'.kind = "R"
    BY <1>5 DEF Reply, R
  <2>4. Listening' /\ seExp' = Flip(f.seqNo) /\ f.isChained
    BY <1>2, <1>4, <1>5, <2>3 DEF Wanted, Listening, Quiet
  <2> QED BY <2>2, <2>4 DEF Taken, Lockstep
<1>6. CASE /\ i.seq = seExp /\ ~seBusy /\ ~i.more /\ seExp' = Flip(seExp)
           /\ seIn' = << >> /\ executed' = Append(executed, Append(seIn, i))
           /\ BeginAnswer(Answer(i.cmd))
  <2>1. ~NotExecuted(i.cmd)'
    BY <1>1, <1>6, CommandTaken DEF OnTheWay
  <2>2. Answer(i.cmd) # << >> /\ Answer(i.cmd) \in Seq(Carried)
    BY <1>3, AnswersAssumption, Zenon DEF Carried
  <2>3. ~Acknowledges(seLast')
    BY <1>1, <1>6, <2>2, BeginAnswerBlocks
  <2>4. Executed(f)'
    BY <1>2, <1>6, <2>1, <2>3 DEF Executed
  <2>5. Answering(Answer(i.cmd))'
    BY <1>1, <1>4, <1>6, <2>2, BeginsAnswering DEF Wanted, Listening, Quiet
  <2>6. Answering(Answer(f.p_data))'
    BY <1>2, <2>5, Zenon
  <2> QED BY <2>4, <2>6 DEF Lockstep
<1>7. CASE /\ Reply(R(seExp, "OTHER_ERROR"))
           /\ UNCHANGED <<seExp, seSeq, seUnacked, seIn, seOut, seBusy, executed, wtxs>>
  BY <1>7, ErrorBlocks, LockKept DEF ErrorTypes
<1> QED BY <1>5, <1>6, <1>7 DEF SeIframe

\* An R-frame: the block it names again, the next one, or the question which one.
LEMMA SeRframeKeeps ==
    ASSUME LInv, SeHistory, SeBlocks, toSE.kind = "R", SeRframe(toSE), UNCHANGED calls
    PROVE  /\ SeHistory' /\ SeBlocks' /\ toHost' = seLast'
           /\ toHost'.kind = "S" => toHost' = S("WTX_REQ", << >>)
           /\ UNCHANGED executed
<1>1. /\ toSE.seq \in Bit /\ SeTyped /\ UNCHANGED <<seExp, seIn, seBusy, executed>>
  BY Kinds DEF LInv, LinkRight, HalfDuplex, Rframes, SeRframe
<1>2. SeHistory'
  BY <1>1, HistoryStays
<1>3. CASE seBusy /\ Reply(S("WTX_REQ", << >>)) /\ UNCHANGED <<seSeq, seUnacked, seOut>>
  <2>1. S("WTX_REQ", << >>).kind = "S"
    BY DEF S
  <2> QED BY <1>1, <1>2, <1>3, <2>1 DEF SeBlocks, Reply
<1>4. CASE seUnacked # None /\ Reply(seUnacked) /\ UNCHANGED <<seSeq, seUnacked, seOut>>
  <2>1. seUnacked.kind = "I"
    BY <1>1, <1>4 DEF SeTyped, SeIframes
  <2> QED BY <1>1, <1>2, <1>4, <2>1 DEF SeBlocks, Reply
<1>5. CASE ~seBusy /\ seOut # << >> /\ SendI(toSE.seq, seOut)
  <2>1. seOut \in Seq(Carried)
    BY <1>1 DEF SeTyped
  <2>2. SeBlocks' /\ toHost' = seLast' /\ toHost'.kind = "I" /\ seBusy' = FALSE
    <3>1. seBusy' = FALSE
      BY <1>1, <1>5 DEF SeBlocks
    <3> QED BY <1>1, <1>5, <2>1, <3>1, SendIBlocks
  <2> QED BY <1>1, <1>2, <2>2
<1>6. CASE seLast.kind = "R" /\ Reply(seLast) /\ UNCHANGED <<seSeq, seUnacked, seOut>>
  BY <1>1, <1>2, <1>6 DEF SeBlocks, Reply
<1>7. CASE Reply(R(seExp, "OTHER_ERROR")) /\ UNCHANGED <<seSeq, seUnacked, seOut>>
  BY <1>1, <1>2, <1>7, ErrorBlocks DEF ErrorTypes
<1> QED BY <1>3, <1>4, <1>5, <1>6, <1>7 DEF SeRframe

LEMMA SeRframeLocks ==
    ASSUME LInv, SeHistory, SeBlocks, toSE.kind = "R", SeRframe(toSE),
           UNCHANGED <<calls, lastRcvdSeqNo, rspData>>,
           NEW f \in IframeInfo, UnderWay(f), Lockstep(f)
    PROVE  Lockstep(f)'
<1>1. /\ toSE.seq \in Bit /\ SeTyped /\ UNCHANGED <<seExp, seIn, seBusy, executed>>
  BY Kinds DEF LInv, LinkRight, HalfDuplex, Rframes, SeRframe
<1>2. /\ toSE.seq = Flip(lastRcvdSeqNo) /\ lastRcvdSeqNo \in Bit
      /\ Flip(lastRcvdSeqNo) # lastRcvdSeqNo
  BY FlipBit DEF UnderWay, LInv, IInv, TypeOK
<1>3. CASE seBusy /\ Reply(S("WTX_REQ", << >>)) /\ UNCHANGED <<seSeq, seUnacked, seOut>>
  <2>1. toHost'.kind = "S" /\ ~Acknowledges(seLast')
    BY <1>3 DEF S, Reply, Acknowledges
  <2> QED BY <1>1, <1>3, <2>1, LockKept
<1>4. CASE /\ ~seBusy /\ seUnacked # None /\ toSE.seq = seSeq
           /\ Reply(seUnacked) /\ UNCHANGED <<seSeq, seUnacked, seOut>>
  <2>1. Executed(f) /\ Sending(Answer(f.p_data))
    BY <1>2, <1>4
    DEF Lockstep, Wanted, Taken, Listening, Quiet, Answering, Working, Received
  <2>2. ~Acknowledges(seLast')
    BY <1>1, <1>4, NoAckIsNone DEF SeTyped, Reply
  <2>3. Executed(f)'
    BY <1>1, <2>1, <2>2, HistoryStays DEF Executed
  <2>4. Answering(Answer(f.p_data))'
    BY <1>1, <1>4, <2>1, Zenon DEF Sending, Answering
  <2> QED BY <2>3, <2>4 DEF Lockstep
<1>5. CASE /\ ~seBusy /\ seUnacked # None /\ toSE.seq # seSeq
           /\ seOut # << >> /\ SendI(toSE.seq, seOut)
  <2>1. Executed(f) /\ Received(Answer(f.p_data))
    <3>1. seSeq \in Bit
      BY <1>1 DEF SeTyped
    <3> QED
      BY <1>2, <1>5, <3>1
      DEF Lockstep, Wanted, Taken, Listening, Quiet, Answering, Working, Sending
  <2>2. seOut \in Seq(Carried) /\ seOut \in Seq(Units) /\ rspData \in Seq(Units)
    <3>1. seOut \in Seq(Carried) /\ rspData \in Seq(Units)
      BY <1>1 DEF SeTyped, LInv, IInv, TypeOK
    <3>2. Carried \subseteq Units
      BY DEF Carried
    <3> QED BY <3>1, <3>2, SeqMonotonic
  <2>3. /\ seUnacked' # None /\ ~Acknowledges(seLast')
        /\ seUnacked'.inf = <<Head(seOut)>> /\ seOut' = Tail(seOut) /\ seSeq' = toSE.seq
    <3>1. seBusy' = FALSE
      BY <1>1, <1>5 DEF SeBlocks
    <3> QED BY <1>1, <1>5, <2>2, <3>1, SendIBlocks
  <2>4. (rspData \o <<Head(seOut)>>) \o Tail(seOut) = rspData \o seOut
    BY <1>5, <2>2, HeadThenTail
  <2>5. rspData' \o seUnacked'.inf \o seOut' = Answer(f.p_data)
    BY <2>1, <2>3, <2>4, Zenon DEF Received
  <2>6. Answering(Answer(f.p_data))'
    BY <1>1, <1>2, <1>5, <2>3, <2>5, Zenon DEF Sending, Answering
  <2>7. Executed(f)'
    BY <1>1, <2>1, <2>3, HistoryStays DEF Executed
  <2> QED BY <2>6, <2>7 DEF Lockstep
<1>6. CASE seLast.kind = "R" /\ Reply(seLast) /\ UNCHANGED <<seSeq, seUnacked, seOut>>
  BY <1>1, <1>6, LockKept DEF Reply
<1>7. CASE Reply(R(seExp, "OTHER_ERROR")) /\ UNCHANGED <<seSeq, seUnacked, seOut>>
  BY <1>1, <1>7, ErrorBlocks, LockKept DEF ErrorTypes
<1> QED BY <1>3, <1>4, <1>5, <1>6, <1>7 DEF SeRframe

\* An S-frame: time granted, a reset or a request that leaves the SE's blocks alone.
LEMMA SeSframeKeeps ==
    ASSUME LInv, SeHistory, SeBlocks, toSE.kind = "S", SeSframe(toSE), UNCHANGED calls
    PROVE  SeHistory' /\ SeBlocks' /\ toHost' = seLast' /\ UNCHANGED executed
<1>1. SeTyped /\ UNCHANGED executed
  BY DEF LInv, LinkRight, SeSframe
<1>2. CASE seBusy /\ BeginAnswer(seOut) /\ UNCHANGED <<seExp, seIn, executed>>
  <2>1. seOut \in Seq(Carried) /\ seOut # << >>
    BY <1>1, <1>2 DEF SeTyped
  <2> QED BY <1>1, <1>2, <2>1, HistoryStays, BeginAnswerBlocks
<1>3. CASE /\ Reply(R(seExp, "OTHER_ERROR"))
           /\ UNCHANGED <<seExp, seSeq, seUnacked, seIn, seOut, seBusy, executed, wtxs>>
  BY <1>3, HistoryStays, ErrorBlocks DEF ErrorTypes
<1>4. ASSUME NEW type, NEW inf, Reply(S(type, inf)), SeReset
      PROVE  SeHistory' /\ SeBlocks' /\ toHost' = seLast'
  <2>1. seLast'.kind = "S"
    BY <1>4 DEF Reply, S
  <2>2. SeHistory'
    BY <1>1, <1>4, HistoryStays DEF SeReset
  <2> QED BY <1>4, <2>1, <2>2 DEF SeBlocks, SeReset, Reply
<1>5. ASSUME NEW type, NEW inf, Reply(S(type, inf)),
             UNCHANGED <<seExp, seSeq, seUnacked, seIn, seOut, seBusy, executed, wtxs>>
      PROVE  SeHistory' /\ SeBlocks' /\ toHost' = seLast'
  <2>1. seLast'.kind = "S"
    BY <1>5 DEF Reply, S
  <2>2. SeHistory'
    BY <1>1, <1>5, HistoryStays
  <2> QED BY <1>5, <2>1, <2>2 DEF SeBlocks, Reply
<1> QED BY <1>1, <1>2, <1>3, <1>4, <1>5, Zenon DEF SeSframe

LEMMA SeSframeLocks ==
    ASSUME LInv, SeHistory, SeBlocks, toSE.kind = "S", SeSframe(toSE),
           UNCHANGED <<calls, lastRcvdSeqNo, rspData>>,
           NEW f \in IframeInfo, UnderWay(f), Lockstep(f)
    PROVE  /\ Lockstep(f)'
           /\ toHost'.kind = "S" => toHost' = S("WTX_REQ", << >>)
<1>1. SeTyped /\ toSE.type = "WTX_RSP"
  BY DEF LInv, LinkRight, UnderWay
<1>2. CASE seBusy /\ BeginAnswer(seOut) /\ UNCHANGED <<seExp, seIn, executed>>
  <2>1. seOut \in Seq(Carried) /\ seOut # << >>
    BY <1>1, <1>2 DEF SeTyped
  <2>2. Executed(f) /\ Working(Answer(f.p_data))
    BY <1>2
    DEF Lockstep, Wanted, Taken, Listening, Quiet, Answering, Sending, Received
  <2>3. PICK ans : ans = seOut
    OBVIOUS
  <2>4. Answering(ans)'
    BY <1>1, <1>2, <2>1, <2>2, <2>3, BeginsAnswering DEF Working
  <2>5. Answering(Answer(f.p_data))'
    BY <2>2, <2>3, <2>4, Zenon DEF Working
  <2>6. ~Acknowledges(seLast') /\ (toHost'.kind = "S" => toHost' = S("WTX_REQ", << >>))
    BY <1>1, <1>2, <2>1, BeginAnswerBlocks
  <2>7. Executed(f)'
    BY <1>2, <2>2, <2>6, HistoryStays DEF Executed
  <2> QED BY <2>5, <2>6, <2>7 DEF Lockstep
<1>3. CASE /\ Reply(R(seExp, "OTHER_ERROR"))
           /\ UNCHANGED <<seExp, seSeq, seUnacked, seIn, seOut, seBusy, executed, wtxs>>
  BY <1>3, ErrorBlocks, LockKept DEF ErrorTypes
<1> QED BY <1>1, <1>2, <1>3 DEF SeSframe

\* The requests of Open, and the answers each gets from an SE that is not mute.
LEMMA SeAnswersRequest ==
    ASSUME SeStep, NEW type \in {"INTF_RESET_REQ", "RESYNCH_REQ", "ATR_REQ"},
           toSE = [kind |-> "S", type |-> type]
    PROVE  \/ UNCHANGED <<toHost, seExp, seSeq, seIn, seOut, seBusy>>
           \/ type = "INTF_RESET_REQ" /\ toHost' = S("INTF_RESET_RSP", Atr) /\ SeAnew'
           \/ type = "RESYNCH_REQ" /\ toHost' = S("WTX_REQ", << >>)
           \/ type = "RESYNCH_REQ" /\ toHost' = S("RESYNCH_RSP", << >>) /\ SeAnew'
           \/ /\ type = "ATR_REQ" /\ toHost' = S("ATR_RES", Atr)
              /\ UNCHANGED <<seExp, seSeq, seIn, seOut, seBusy>>
<1>1. toSE.kind = "S" /\ toSE.type = type /\ toSE # Bad
  BY Kinds
<1>2. CASE mute /\ UNCHANGED <<seVars, toHost>>
  BY <1>2 DEF seVars
<1>3. CASE SeSframe(toSE)
  <2>1. CASE type = "INTF_RESET_REQ"
    BY <1>1, <1>3, <2>1 DEF SeSframe, Reply, AnswerTo, SeReset, SeAnew
  <2>2. CASE type = "RESYNCH_REQ"
    BY <1>1, <1>3, <2>2 DEF SeSframe, Reply, AnswerTo, SeReset, SeAnew
  <2>3. CASE type = "ATR_REQ"
    BY <1>1, <1>3, <2>3 DEF SeSframe, Reply, AnswerTo
  <2> QED BY <2>1, <2>2, <2>3
<1> QED BY <1>1, <1>2, <1>3 DEF SeStep

\* What the SE's step leaves as it is for the parts about the SE itself.
LEMMA SeStepKeeps ==
    ASSUME LInv, Locked, SeStep
    PROVE  /\ SeHistory' /\ SeBlocks' /\ toHost' # Bad
           /\ \A cmd : ~NotExecuted(cmd) => ~NotExecuted(cmd)'
<1>1. /\ SeHistory /\ SeBlocks /\ OnTheWay /\ toSE # Bad /\ toHost # Bad
      /\ UNCHANGED calls /\ SeTyped'
  BY SeStepFacts DEF Locked, Undamaged, SeStep, bounds, LInv, LinkRight
<1>2. ASSUME toHost' = seLast' PROVE toHost' # Bad
  BY <1>1, <1>2, Kinds DEF SeTyped
<1>3. CASE toSE.kind = "I" /\ SeIframe(toSE)
  BY <1>1, <1>2, <1>3, SeIframeKeeps
<1>4. CASE toSE.kind = "R" /\ SeRframe(toSE)
  BY <1>1, <1>2, <1>4, SeRframeKeeps DEF NotExecuted
<1>5. CASE toSE.kind = "S" /\ SeSframe(toSE)
  BY <1>1, <1>2, <1>5, SeSframeKeeps DEF NotExecuted
<1>6. CASE mute /\ UNCHANGED <<seVars, toHost>>
  BY <1>1, <1>6, HistoryStays DEF seVars, SeBlocks, NotExecuted
<1> QED BY <1>1, <1>3, <1>4, <1>5, <1>6 DEF SeStep

\* In a Transceive the SE's step keeps both sides together.
LEMMA SeStepTalking == ASSUME LInv, Locked, SeStep PROVE Talking'
<1>1. /\ SeHistory /\ SeBlocks /\ OnTheWay /\ toSE # Bad /\ toSE' = None /\ toHost = None
      /\ UNCHANGED <<calls, lastRcvdSeqNo, rspData, op, pc, nextTransceiveState, NextTx,
                     recoveryCounter>>
  BY SeStepFacts
  DEF Locked, Undamaged, SeStep, bounds, vars, response, counters, control, LInv, LinkRight
<1>2. SUFFICES ASSUME op = "Transceive", InLoop, nextTransceiveState # "SEND_S_INTF_RST"
               PROVE  /\ LastFragment(NextTx.Iframe)' /\ UnderWay(NextTx.Iframe)'
                      /\ Lockstep(NextTx.Iframe)'
  BY <1>1 DEF Talking, Locked, InLoop, Unspent
<1>3. PICK f : f = NextTx.Iframe
  OBVIOUS
<1>4. f \in IframeInfo /\ LastFragment(f) /\ UnderWay(f) /\ Lockstep(f)
  BY <1>2, <1>3 DEF Talking, Locked, LInv, IInv, TypeOK, TxCntx
<1>5. Lockstep(f)' /\ (toHost'.kind = "S" => toHost' = S("WTX_REQ", << >>))
  <2>1. CASE toSE.kind = "I" /\ SeIframe(toSE)
    BY <1>1, <1>4, <2>1, SeIframeKeeps, SeIframeLocks
  <2>2. CASE toSE.kind = "R" /\ SeRframe(toSE)
    BY <1>1, <1>4, <2>2, SeRframeKeeps, SeRframeLocks
  <2>3. CASE toSE.kind = "S" /\ SeSframe(toSE)
    BY <1>1, <1>4, <2>3, SeSframeLocks
  <2>4. CASE mute /\ UNCHANGED <<seVars, toHost>>
    BY <1>1, <1>4, <2>4, LockKept DEF seVars, UnderWay
  <2> QED BY <1>1, <2>1, <2>2, <2>3, <2>4 DEF SeStep
<1>6. UnderWay(f)'
  BY <1>1, <1>5, Kinds DEF UnderWay
<1>7. LastFragment(f)'
  BY <1>1, <1>4 DEF LastFragment
<1> QED BY <1>1, <1>3, <1>5, <1>6, <1>7, Zenon

\* The SE's step.
LEMMA SeStepLocked == ASSUME LInv, Locked, SeStep PROVE Locked'
<1>1. /\ toSE # None /\ toSE' = None /\ toHost = None
      /\ UNCHANGED <<calls, lastRcvdSeqNo, rspData, op, pc, nextTransceiveState, NextTx, LastTx,
                     recoveryCounter, status, connected>>
  BY SeStepFacts
  DEF Locked, SeStep, bounds, vars, response, counters, control, LInv, LinkRight
<1>2. /\ SeHistory' /\ SeBlocks' /\ toHost' # Bad
      /\ \A cmd : ~NotExecuted(cmd) => ~NotExecuted(cmd)'
  BY SeStepKeeps
<1>3. Undamaged' /\ OnTheWay' /\ IdleOp'
  BY <1>1, <1>2, Kinds DEF Undamaged, OnTheWay, IdleOp, Locked
<1>4. Rested'
  BY <1>1 DEF Rested, Ready, Locked
<1>5. Resetting'
  <2> SUFFICES ASSUME pc = "recv", nextTransceiveState = "SEND_S_INTF_RST", toHost' # None
               PROVE  toHost' = S("INTF_RESET_RSP", Atr) /\ SeAnew'
    BY <1>1 DEF Resetting, Asked
  <2>1. toSE = [kind |-> "S", type |-> "INTF_RESET_REQ"]
    BY <1>1 DEF Locked, Resetting, Asked
  <2> QED BY <1>1, <2>1, SeAnswersRequest
<1>6. Opening'
  <2> SUFFICES ASSUME op = "Open" PROVE Opening'
    BY <1>1 DEF Opening
  <2>1. Opening /\ HostAnew' /\ HostAnew
    BY <1>1 DEF Locked, Opening, HostAnew
  <2>2. Resyncing'
    <3> SUFFICES ASSUME pc = "recv", nextTransceiveState = "SEND_S_RSYNC", toHost' # None
                 PROVE  \/ toHost' = S("WTX_REQ", << >>)
                        \/ toHost' = S("RESYNCH_RSP", << >>) /\ SeAnew'
      BY <1>1, <2>1 DEF Resyncing, Asked, Opening, InLoop, Unspent
    <3>1. toSE = [kind |-> "S", type |-> "RESYNCH_REQ"]
      BY <1>1, <2>1 DEF Opening, Resyncing, Asked, InLoop
    <3> QED BY <1>1, <3>1, SeAnswersRequest
  <2> QED BY <1>1, <2>1, <2>2 DEF Opening, InLoop, Unspent
<1>7. Greeting'
  <2> SUFFICES ASSUME op = "OpenAtr", InLoop PROVE Greeting'
    BY <1>1 DEF Greeting, InLoop
  <2>1. /\ toSE = [kind |-> "S", type |-> "ATR_REQ"] /\ HostAnew' /\ SeAnew /\ Unspent'
        /\ nextTransceiveState' = "SEND_S_ATR"
    BY <1>1 DEF Locked, Greeting, Asked, HostAnew, Unspent
  <2>2. \/ UNCHANGED <<toHost, seExp, seSeq, seIn, seOut, seBusy>>
        \/ /\ toHost' = S("ATR_RES", Atr)
           /\ UNCHANGED <<seExp, seSeq, seIn, seOut, seBusy>>
    BY <2>1, SeAnswersRequest
  <2> QED BY <1>1, <2>1, <2>2 DEF Greeting, SeAnew, Asked
<1>8. AnswerWhole'
  <2>1. \A cmd : ~NotExecuted(cmd) => ~NotExecuted(cmd)'
    BY <1>2
  <2>2. PICK n : n = Len(calls)
    OBVIOUS
  <2>3. ~NotExecuted(n) => ~NotExecuted(n)'
    BY <2>1
  <2>4. n = Len(calls')
    BY <1>1, <2>2
  <2>5. (op = "Transceive" /\ pc = "done" /\ status)' =>
           (rspData = << >> \/ (rspData = Answer(n) /\ ~NotExecuted(n)))'
    BY <1>1, <2>2, <2>3, Zenon DEF Locked, AnswerWhole
  <2> QED BY <2>4, <2>5, Zenon DEF AnswerWhole
<1> QED BY <1>2, <1>3, <1>4, <1>5, <1>6, <1>7, <1>8, SeStepTalking DEF Locked

-----------------------------------------------------------------------------
(* The bus and the host. *)

\* A step that is not the SE's leaves what the SE has, and what is on its way to it
\* unless it puts an I-frame there.
LEMMA SeLeftAlone ==
    ASSUME Locked, UNCHANGED <<seVars, calls>>, toSE' = toSE \/ toSE'.kind # "I"
    PROVE  /\ SeHistory' /\ SeBlocks' /\ OnTheWay'
           /\ \A cmd : NotExecuted(cmd)' <=> NotExecuted(cmd)
<1>1. /\ SeHistory /\ SeBlocks /\ OnTheWay
      /\ UNCHANGED <<calls, seExp, seSeq, seLast, seUnacked, seIn, seOut, seBusy, executed>>
  BY DEF Locked, seVars
<1>2. /\ SeHistory' /\ \A cmd : NotExecuted(cmd)' <=> NotExecuted(cmd)
      /\ \A cmd, end : HasUpTo(cmd, end)' <=> HasUpTo(cmd, end)
  BY <1>1, HistoryStays
<1>3. SeBlocks'
  BY <1>1 DEF SeBlocks
<1>4. OnTheWay'
  <2>1. CASE toSE'.kind # "I"
    BY <2>1 DEF OnTheWay
  <2>2. CASE toSE' = toSE
    <3>1. PICK i : i = toSE
      OBVIOUS
    <3>2. i.kind = "I" /\ i.seq = seExp' /\ ~seBusy' =>
             HasUpTo(i.cmd, i.offset)' /\ (~i.more => i.offset + i.len = calls'[i.cmd])
      BY <1>1, <1>2, <3>1 DEF OnTheWay
    <3>3. i = toSE'
      BY <2>2, <3>1
    <3> QED BY <3>2, <3>3, Zenon DEF OnTheWay
  <2> QED BY <2>1, <2>2
<1> QED BY <1>2, <1>3, <1>4

\* Frames only disappear.
LEMMA BusLocked ==
    ASSUME LInv, Locked, UNCHANGED <<vars, connected, calls>>,
           UNCHANGED <<seExp, seSeq, seLast, seUnacked, seIn, seOut, seBusy, executed>>,
           toSE' \in {toSE, None}, toHost' \in {toHost, None}
    PROVE  Locked'
<1>1. /\ SeHistory /\ SeBlocks /\ OnTheWay /\ toSE # Bad /\ toHost # Bad
      /\ UNCHANGED <<lastRcvdSeqNo, rspData, op, pc, nextTransceiveState, NextTx, LastTx,
                     recoveryCounter, status>>
  BY DEF Locked, Undamaged, vars, response, counters, control
<1>2. /\ SeHistory' /\ \A cmd : NotExecuted(cmd)' <=> NotExecuted(cmd)
      /\ \A cmd, end : HasUpTo(cmd, end)' <=> HasUpTo(cmd, end)
  BY <1>1, HistoryStays
<1>3. SeBlocks' /\ Undamaged' /\ IdleOp'
  BY <1>1, Kinds DEF SeBlocks, Undamaged, IdleOp, Locked
<1>4. OnTheWay'
  <2>1. CASE toSE' = None
    BY <2>1, Kinds DEF OnTheWay
  <2>2. CASE toSE' = toSE
    <3>1. PICK i : i = toSE
      OBVIOUS
    <3>2. i.kind = "I" /\ i.seq = seExp' /\ ~seBusy' =>
             HasUpTo(i.cmd, i.offset)' /\ (~i.more => i.offset + i.len = calls'[i.cmd])
      BY <1>1, <1>2, <3>1 DEF OnTheWay
    <3>3. i = toSE'
      BY <2>2, <3>1
    <3> QED BY <3>2, <3>3, Zenon DEF OnTheWay
  <2> QED BY <2>1, <2>2
<1>5. Rested'
  BY <1>1 DEF Rested, Ready, Quiet, Unspent, Locked
<1>6. Resetting'
  BY <1>1 DEF Resetting, Asked, SeAnew, Locked
<1>7. Opening'
  BY <1>1 DEF Opening, Resyncing, HostAnew, SeAnew, Unspent, Asked, InLoop, Locked
<1>8. Greeting'
  BY <1>1 DEF Greeting, HostAnew, SeAnew, Unspent, Asked, InLoop, Locked
<1>9. Talking'
  <2> SUFFICES ASSUME op = "Transceive", InLoop, nextTransceiveState # "SEND_S_INTF_RST"
               PROVE  /\ LastFragment(NextTx.Iframe)' /\ UnderWay(NextTx.Iframe)'
                      /\ Lockstep(NextTx.Iframe)'
    BY <1>1 DEF Talking, Locked, InLoop, Unspent
  <2>1. PICK f : f = NextTx.Iframe
    OBVIOUS
  <2>2. LastFragment(f) /\ UnderWay(f) /\ Lockstep(f)
    BY <2>1 DEF Talking, Locked
  <2>3. Lockstep(f)'
    BY <1>1, <2>2, LockKept, Kinds
  <2>4. UnderWay(f)' /\ LastFragment(f)'
    BY <1>1, <2>2, Kinds DEF UnderWay, LastFragment
  <2> QED BY <1>1, <2>1, <2>3, <2>4, Zenon
<1>10. AnswerWhole'
  BY <1>1, <1>2 DEF AnswerWhole, Locked
<1> QED BY <1>2, <1>3, <1>4, <1>5, <1>6, <1>7, <1>8, <1>9, <1>10 DEF Locked

\* Nothing on this bus damages a frame, and the SE keeps its supply. Frames may be
\* lost or late, writes may fail, the host's process may die, the SE may go mute.
NothingDamaged == Faults \cap {"corrupt", "power"} = {}

\* A command's length can be counted by dataOffset, an unsigned int.
CommandsFit == \A len \in CmdLens : len <= UINT_MAX

LEMMA FaultLocked ==
    ASSUME NothingDamaged, LInv, Locked, BusFault \/ SePowerLoss \/ SeGoesMute
    PROVE  Locked'
<1>1. ~Fault("corrupt") /\ ~Fault("power")
  BY DEF NothingDamaged, Fault
<1>2. CASE BusFault
  <2>1. /\ toSE' \in {toSE, None} /\ toHost' \in {toHost, None}
        /\ UNCHANGED <<vars, seVars, connected, calls>>
    BY <1>1, <1>2 DEF BusFault
  <2> QED BY <2>1, BusLocked DEF seVars
<1>3. CASE SeGoesMute
  BY <1>3, BusLocked DEF SeGoesMute, bus
<1> QED BY <1>1, <1>2, <1>3 DEF SePowerLoss

LEMMA StutterLocked == ASSUME LInv, Locked, UNCHANGED linkVars PROVE Locked'
BY BusLocked DEF linkVars, seVars, bus, bounds

\* The host's process dies: what is on its way stays on its way.
LEMMA HostCrashLocked == ASSUME LInv, Locked, HostCrash PROVE Locked'
<1>1. /\ pc' = "idle" /\ op' = "none" /\ connected' = FALSE
      /\ UNCHANGED <<seVars, calls, toSE, toHost>>
  BY DEF HostCrash, Restart, bus
<1>2. SeHistory' /\ SeBlocks' /\ OnTheWay'
  BY <1>1, SeLeftAlone
<1>3. Undamaged' /\ IdleOp'
  BY <1>1 DEF Undamaged, IdleOp, Locked
<1> QED
  BY <1>1, <1>2, <1>3
  DEF Locked, Rested, Resetting, Opening, Greeting, Talking, AnswerWhole, InLoop

-----------------------------------------------------------------------------
(* The host sends. *)

\* The frame each sending state puts on the bus.
LEMMA TxFrameOf ==
    ASSUME nextTransceiveState \in SendStates
    PROVE  /\ nextTransceiveState = "SEND_IFRAME" =>
                TxFrame = [kind |-> "I", seq |-> NextTx.Iframe.seqNo,
                           more |-> NextTx.Iframe.isChained, cmd |-> NextTx.Iframe.p_data,
                           offset |-> NextTx.Iframe.dataOffset, len |-> NextTx.Iframe.sendDataLen]
           /\ nextTransceiveState \in {"SEND_R_ACK", "SEND_R_NACK"} =>
                TxFrame.kind = "R" /\ TxFrame.seq = Flip(lastRcvdSeqNo)
           /\ nextTransceiveState \notin {"SEND_IFRAME", "SEND_R_ACK", "SEND_R_NACK"} =>
                TxFrame = [kind |-> "S", type |-> SFrameOf[nextTransceiveState]]
BY DEF TxFrame, SendStates

\* An exchange that ends in failure is over: nothing is said of it.
LEMMA FailedLocked ==
    ASSUME Locked, UNCHANGED <<seVars, calls, toSE, op>>, toHost' \in {toHost, None},
           pc' = "done", ~status',
           op = "Open" => HostAnew'
    PROVE  Locked'
<1>1. SeHistory' /\ SeBlocks' /\ OnTheWay'
  BY SeLeftAlone
<1>2. Undamaged' /\ IdleOp'
  BY Kinds DEF Undamaged, IdleOp, Locked
<1> QED
  BY <1>1, <1>2
  DEF Locked, Rested, Resetting, Opening, Resyncing, Greeting, Talking, AnswerWhole, InLoop

LEMMA SendOkLocked ==
    ASSUME LInv, Locked, SendOk, Put(TxFrame), UNCHANGED <<connected, calls, seVars>>
    PROVE  Locked'
<1>1. /\ pc = "send" /\ pc' = "recv" /\ LastTx' = NextTx
      /\ UNCHANGED <<NextTx, lastRcvdSeqNo, rspData, nextTransceiveState, op, recoveryCounter>>
      /\ toSE = None /\ toSE' = TxFrame /\ toHost' = None
      /\ UNCHANGED <<seExp, seSeq, seLast, seUnacked, seIn, seOut, seBusy, executed>>
  BY DEF SendOk, Put, response, counters, control, seVars
<1>2. /\ nextTransceiveState \in SendStates /\ InLoop /\ InLoop'
      /\ NextTx.Iframe \in IframeInfo /\ TxFrame \in HostFrames
  BY <1>1, TxFrameIs DEF LInv, IInv, TypeOK, Sendable, InLoop, TxCntx
<1>3. Undamaged' /\ IdleOp' /\ Rested' /\ AnswerWhole'
  BY <1>1, <1>2, Kinds DEF Undamaged, IdleOp, Rested, AnswerWhole
<1>4. Resetting'
  BY <1>1, <1>2, TxFrameOf DEF Resetting, Asked, SFrameOf
<1>5. Opening'
  BY <1>1, <1>2, TxFrameOf
  DEF Opening, Resyncing, Asked, SFrameOf, Locked, HostAnew, Unspent
<1>6. Greeting'
  BY <1>1, <1>2, TxFrameOf DEF Greeting, Asked, SFrameOf, Locked, HostAnew, SeAnew, Unspent
<1>7. Talking'
  <2> SUFFICES ASSUME op = "Transceive", nextTransceiveState # "SEND_S_INTF_RST"
               PROVE  /\ LastFragment(NextTx.Iframe)' /\ UnderWay(NextTx.Iframe)'
                      /\ Lockstep(NextTx.Iframe)'
    BY <1>1, <1>2 DEF Talking, Locked, Unspent
  <2>1. PICK f : f = NextTx.Iframe
    OBVIOUS
  <2>2. /\ LastFragment(f) /\ Lockstep(f)
        /\ nextTransceiveState \in {"SEND_IFRAME", "SEND_R_ACK", "SEND_R_NACK", "SEND_S_WTX_RSP"}
    BY <1>2, <2>1 DEF Talking, Locked
  <2>3. Lockstep(f)'
    BY <1>1, <2>2, LockKept, Kinds DEF Locked
  <2>4. UnderWay(f)'
    BY <1>1, <1>2, <2>1, <2>2, TxFrameOf, Kinds DEF UnderWay, SFrameOf
  <2>5. LastFragment(f)'
    BY <1>1, <2>2 DEF LastFragment
  <2> QED BY <1>1, <2>1, <2>3, <2>4, <2>5, Zenon
<1>8. OnTheWay'
  <2>1. CASE nextTransceiveState # "SEND_IFRAME"
    BY <1>1, <1>2, <2>1, TxFrameOf DEF OnTheWay
  <2>2. CASE nextTransceiveState = "SEND_IFRAME" /\ NextTx.Iframe.seqNo = seExp /\ ~seBusy
    <3>1. PICK f : f = NextTx.Iframe
      OBVIOUS
    <3>2. op = "Transceive" /\ f.p_data = Len(calls) /\ f \in IframeInfo
      BY <1>2, <2>2, <3>1, OnCommandParts DEF LInv, LinkRight, OffCommand, FragmentRight
    <3>3. LastFragment(f) /\ Lockstep(f)
      BY <1>2, <2>2, <3>1, <3>2 DEF Talking, Locked
    <3>4. Flip(f.seqNo) # f.seqNo
      BY <3>2, FlipBit DEF IframeInfo
    <3>5. HasUpTo(f.p_data, f.dataOffset)
      BY <2>2, <3>1, <3>3, <3>4 DEF Lockstep, Wanted, Taken, Executed
    <3>6. HasUpTo(f.p_data, f.dataOffset)'
      BY <1>1, <3>5, HistoryStays DEF Locked
    <3>7. /\ toSE'.cmd = f.p_data /\ toSE'.offset = f.dataOffset /\ toSE'.more = f.isChained
          /\ toSE'.len = f.sendDataLen
      BY <1>1, <1>2, <2>2, <3>1, TxFrameOf
    <3>8. HasUpTo(toSE.cmd, toSE.offset)'
      BY <3>6, <3>7, Zenon
    <3> QED BY <3>2, <3>3, <3>7, <3>8 DEF OnTheWay, LastFragment
  <2>3. CASE nextTransceiveState = "SEND_IFRAME" /\ ~(NextTx.Iframe.seqNo = seExp /\ ~seBusy)
    BY <1>1, <1>2, <2>3, TxFrameOf DEF OnTheWay
  <2> QED BY <2>1, <2>2, <2>3
<1>9. SeHistory' /\ SeBlocks'
  BY <1>1, HistoryStays DEF Locked, SeBlocks
<1> QED BY <1>3, <1>4, <1>5, <1>6, <1>7, <1>8, <1>9 DEF Locked

LEMMA LinkSendLocked ==
    ASSUME LInv, Locked, LinkSend, UNCHANGED <<connected, calls, seVars>>
    PROVE  Locked'
<1>1. CASE SendFails /\ UNCHANGED bus
  <2>1. pc = "send" /\ pc' = "done" /\ ~status' /\ UNCHANGED <<LastTx, NextTx, lastRcvdSeqNo, op>>
        /\ UNCHANGED <<toSE, toHost>>
    BY <1>1 DEF SendFails, bus, control
  <2>2. op = "Open" => HostAnew'
    BY <2>1 DEF Locked, Opening, HostAnew
  <2> QED BY <2>1, <2>2, FailedLocked
<1> QED BY <1>1, SendOkLocked DEF LinkSend

-----------------------------------------------------------------------------
(* The host receives. *)

\* While an answer is awaited the protocol is in the middle of a call's loop, and the
\* loop goes on or ends.
LEMMA AwaitsAndLoops ==
    ASSUME LInv, LinkReceive, UNCHANGED <<connected, calls, seVars>>
    PROVE  /\ pc = "recv" /\ InLoop /\ pc' \in {"send", "done"} /\ UNCHANGED op
           /\ UNCHANGED toSE /\ toHost' = None /\ UNCHANGED <<connected, calls, seVars>>
<1>1. UNCHANGED toSE /\ toHost' = None
  BY DEF LinkReceive
<1>2. pc = "recv"
  BY DEF LinkReceive, RecvIframe, RecvRframe, RecvRAck, RecvRNack, RecvRSofMissed, RecvSframe,
         RecvWtxReq, RecvIntfResetRsp, RecvUnknownSframe, RecvSRsp, FrameOk, BadCrc, ReadFails
<1>3. Loop
  BY DEF LinkReceive, RecvIframe, RecvRframe, RecvRAck, RecvRNack, RecvRSofMissed, RecvSframe,
         RecvWtxReq, RecvIntfResetRsp, RecvUnknownSframe, RecvSRsp, BadCrc, ReadFails
<1>4. UNCHANGED op
  BY DEF LinkReceive, RecvIframe, RecvRframe, RecvRAck, RecvRNack, RecvRSofMissed, RecvSframe,
         RecvWtxReq, RecvIntfResetRsp, RecvUnknownSframe, RecvSRsp, FrameOk, BadCrc, ReadFails,
         control
<1> QED BY <1>1, <1>2, <1>3, <1>4, LoopType DEF InLoop

\* What then has to be shown of the calls in progress.
LEMMA ReceivedLocked ==
    ASSUME LInv, Locked, LinkReceive, UNCHANGED <<connected, calls, seVars>>,
           Rested', Opening', Greeting', Talking', AnswerWhole'
    PROVE  Locked'
<1>1. /\ pc' \in {"send", "done"} /\ UNCHANGED toSE /\ toHost' = None
      /\ UNCHANGED <<connected, calls, seVars>>
  BY AwaitsAndLoops
<1>2. SeHistory' /\ SeBlocks' /\ OnTheWay'
  BY <1>1, SeLeftAlone
<1>3. Undamaged' /\ IdleOp' /\ Resetting'
  BY <1>1, Kinds DEF Undamaged, IdleOp, Resetting, Locked
<1> QED BY <1>2, <1>3 DEF Locked

\* Silence after an S-frame: the same again, or a failure.
LEMMA SilenceRepeats ==
    ASSUME LInv, pc = "recv", ReadFails, nextTransceiveState \in DOMAIN SFrameOf,
           nextTransceiveState # "SEND_S_WTX_RSP"
    PROVE  /\ ~status' /\ UNCHANGED <<LastTx, lastRcvdSeqNo, rspData, recoveryCounter>>
           /\ NextTx'.Iframe = NextTx.Iframe
           /\ pc' = "send" => UNCHANGED nextTransceiveState
<1>1. /\ ~status' /\ Loop /\ UNCHANGED <<LastTx, lastRcvdSeqNo, rspData, recoveryCounter>>
  BY DEF ReadFails, response
<1>2. /\ LastTx.FrameType = "SFRAME" /\ LastTx.sFrameType # "WTX_RSP" /\ LastTx = NextTx
  BY DEF LInv, IInv, AwaitsForLast, Sendable, Matches, SFrameOf
<1>3. SendAgain
  BY <1>2 DEF ReadFails
<1> QED BY <1>1, <1>2, <1>3 DEF SendAgain, Loop

\* What can be read: nothing, or a frame that arrived as it was sent.
LEMMA ReadsWhatWasSent ==
    ASSUME LInv, Locked, LinkReceive
    PROVE  \/ toHost = None /\ ReadFails
           \/ /\ toHost # None /\ toHost = seLast /\ toHost \in SeFrames /\ toSE = None
              /\ \/ toHost.kind = "I" /\ RecvIframe(toHost.seq, toHost.more, toHost.inf)
                 \/ toHost.kind = "R" /\ RecvRframe(toHost.seq, toHost.err)
                 \/ toHost.kind = "S" /\ RecvSframe(toHost.type, toHost.inf)
<1>1. /\ toHost # None => toHost = seLast /\ toSE = None /\ toHost \in SeFrames
      /\ toHost # Bad
  BY Kinds DEF LInv, LinkRight, HalfDuplex, SeTyped, Locked, Undamaged
<1> QED BY <1>1 DEF LinkReceive

\* After an interface reset both sides begin anew, with nothing received.
LEMMA ResetReceived ==
    ASSUME LInv, Locked, LinkReceive, UNCHANGED <<connected, calls, seVars>>,
           nextTransceiveState = "SEND_S_INTF_RST"
    PROVE  Locked'
<1>1. /\ pc = "recv" /\ InLoop /\ pc' \in {"send", "done"} /\ UNCHANGED op
      /\ UNCHANGED toSE /\ toHost' = None /\ UNCHANGED <<calls, seVars>>
  BY AwaitsAndLoops
<1>2. op # "OpenAtr"
  BY <1>1 DEF Locked, Greeting
<1>3. op = "Open" => HostAnew
  BY DEF Locked, Opening
<1>4. nextTransceiveState \in DOMAIN SFrameOf /\ nextTransceiveState # "SEND_S_WTX_RSP"
  BY DEF SFrameOf
<1>5. CASE toHost = None /\ ReadFails
  <2>1. /\ ~status' /\ UNCHANGED <<LastTx, lastRcvdSeqNo>> /\ NextTx'.Iframe = NextTx.Iframe
        /\ pc' = "send" => nextTransceiveState' = "SEND_S_INTF_RST"
    BY <1>1, <1>4, <1>5, SilenceRepeats
  <2>2. Rested' /\ AnswerWhole' /\ Greeting' /\ Talking'
    BY <1>1, <1>2, <2>1 DEF Rested, AnswerWhole, Greeting, Talking, InLoop
  <2>3. Opening'
    BY <1>1, <1>3, <2>1 DEF Opening, Resyncing, HostAnew, InLoop
  <2> QED BY <2>2, <2>3, ReceivedLocked
<1>6. CASE toHost # None /\ RecvIntfResetRsp(Atr)
  <2>1. SeAnew /\ toSE = None
    BY <1>1, <1>6 DEF Locked, Resetting, LInv, LinkRight, HalfDuplex
  <2>2. SeAnew' /\ toSE' = None
    BY <1>1, <2>1 DEF SeAnew, seVars
  <2>3. pc' = "done"
    BY <1>6 DEF RecvIntfResetRsp, Loop
  <2>4. CASE ~status' /\ UNCHANGED <<LastTx, NextTx, lastRcvdSeqNo>>
    <3>1. op = "Open" => HostAnew'
      BY <1>3, <2>4 DEF HostAnew
    <3> QED BY <1>1, <2>3, <2>4, <3>1, FailedLocked
  <2>5. CASE /\ LastTx' = ResetCntx /\ NextTx' = [ResetCntx EXCEPT !.FrameType = "UNKNOWN"]
             /\ lastRcvdSeqNo' = 1 /\ rspData' = << >> /\ recoveryCounter' = 0
    <3>1. HostAnew' /\ Unspent'
      BY <2>5, CountersAssumption DEF HostAnew, Unspent, ResetCntx
    <3>2. Rested' /\ AnswerWhole' /\ Greeting' /\ Talking' /\ Opening'
      BY <1>1, <1>2, <2>2, <2>3, <2>5, <3>1
      DEF Rested, AnswerWhole, Greeting, Talking, Opening, Resyncing, InLoop
    <3> QED BY <3>2, ReceivedLocked
  <2> QED BY <1>6, <2>4, <2>5 DEF RecvIntfResetRsp
<1>7. ASSUME toHost # None PROVE toHost.kind = "S" /\ RecvSframe(toHost.type, toHost.inf) => RecvIntfResetRsp(Atr)
  <2>1. toHost = S("INTF_RESET_RSP", Atr)
    BY <1>1, <1>7 DEF Locked, Resetting
  <2> QED BY <2>1 DEF RecvSframe, S
<1>8. toHost # None => toHost.kind = "S"
  BY <1>1 DEF Locked, Resetting, S
<1> QED BY <1>5, <1>6, <1>7, <1>8, ReadsWhatWasSent

\* One more error within the limit: once more, or an interface reset.
LEMMA RecoversOnce ==
    ASSUME TypeOK, Unspent, NEW cntx, NEW state, ErrorRecovery(cntx, state), Loop,
           state # "IDLE_STATE"
    PROVE  /\ pc' = "send"
           /\ \/ NextTx' = cntx /\ nextTransceiveState' = state /\ Unspent'
              \/ NextTx' = SCntx("INTF_RESET_REQ") /\ nextTransceiveState' = "SEND_S_INTF_RST"
<1>1. CASE recoveryCounter < FRAME_RETRY_COUNT
  <2>1. recoveryCounter + 1 < UINT8_RANGE /\ recoveryCounter + 1 \in Nat
    BY <1>1, CountersAssumption DEF TypeOK
  <2>2. recoveryCounter' = recoveryCounter + 1
    BY <2>1, CountersAssumption DEF ErrorRecovery
  <2> QED BY <1>1, <2>2, CountersAssumption DEF ErrorRecovery, Loop, Unspent, TypeOK
<1>2. CASE recoveryCounter = FRAME_RETRY_COUNT
  BY <1>2, CountersAssumption DEF ErrorRecovery, Loop
<1> QED BY <1>1, <1>2, CountersAssumption DEF Unspent, TypeOK

\* Open and its answers.
LEMMA OpenReceived ==
    ASSUME LInv, Locked, LinkReceive, UNCHANGED <<connected, calls, seVars>>,
           op = "Open", nextTransceiveState # "SEND_S_INTF_RST"
    PROVE  Locked'
<1>1. /\ pc = "recv" /\ InLoop /\ pc' \in {"send", "done"} /\ op' = "Open"
      /\ UNCHANGED toSE /\ toHost' = None /\ UNCHANGED <<calls, seVars>>
  BY AwaitsAndLoops
<1>2. /\ HostAnew /\ nextTransceiveState = "SEND_S_RSYNC" /\ Unspent
      /\ toHost # None => \/ toHost = S("WTX_REQ", << >>)
                          \/ toHost = S("RESYNCH_RSP", << >>) /\ SeAnew
  BY <1>1 DEF Locked, Opening, Resyncing
<1>3. Rested' /\ AnswerWhole' /\ Greeting' /\ Talking'
  BY <1>1 DEF Rested, AnswerWhole, Greeting, Talking
<1>4. CASE toHost = None /\ ReadFails
  <2>1. /\ ~status' /\ UNCHANGED <<LastTx, lastRcvdSeqNo, recoveryCounter>>
        /\ NextTx'.Iframe = NextTx.Iframe
        /\ pc' = "send" => nextTransceiveState' = "SEND_S_RSYNC"
    BY <1>1, <1>2, <1>4, SilenceRepeats DEF SFrameOf
  <2>2. Opening'
    BY <1>1, <1>2, <2>1 DEF Opening, Resyncing, HostAnew, Unspent, InLoop
  <2> QED BY <1>3, <2>2, ReceivedLocked
<1>5. CASE toHost = S("WTX_REQ", << >>) /\ RecvWtxReq
  <2>1. /\ LastTx.FrameType = "SFRAME" /\ LastTx.sFrameType = "RESYNCH_REQ"
        /\ LastTx = NextTx /\ NextTx \in TxCntx /\ TypeOK
    BY <1>1, <1>2 DEF LInv, IInv, AwaitsForLast, Sendable, Matches, SFrameOf
  <2>2. ErrorRecovery(LastTx, nextTransceiveState) /\ Loop /\ UNCHANGED <<LastTx, lastRcvdSeqNo>>
    BY <1>5, <2>1 DEF RecvWtxReq
  <2>3. /\ pc' = "send"
        /\ \/ NextTx' = LastTx /\ nextTransceiveState' = "SEND_S_RSYNC" /\ Unspent'
           \/ NextTx' = SCntx("INTF_RESET_REQ") /\ nextTransceiveState' = "SEND_S_INTF_RST"
    BY <1>2, <2>1, <2>2, RecoversOnce
  <2>4. NextTx'.Iframe = NextTx.Iframe
    BY <2>1, <2>3, SCntxFacts DEF SReqs
  <2>5. Opening'
    BY <1>1, <1>2, <2>2, <2>3, <2>4 DEF Opening, Resyncing, HostAnew, InLoop
  <2> QED BY <1>3, <2>5, ReceivedLocked
<1>6. CASE toHost = S("RESYNCH_RSP", << >>) /\ RecvSRsp("RESYNCH_RSP", << >>)
  <2>1. toSE = None /\ SeAnew
    BY <1>2, <1>6, Kinds DEF LInv, LinkRight, HalfDuplex, S
  <2>2. /\ pc' = "done" /\ UNCHANGED <<LastTx, lastRcvdSeqNo, recoveryCounter>>
        /\ NextTx' = [NextTx EXCEPT !.FrameType = "UNKNOWN"]
    BY <1>6 DEF RecvSRsp, Loop
  <2>3. NextTx'.Iframe = NextTx.Iframe
    BY <2>2 DEF LInv, IInv, TypeOK, TxCntx
  <2>4. SeAnew'
    BY <1>1, <2>1 DEF SeAnew, seVars
  <2>5. Opening'
    BY <1>1, <1>2, <2>1, <2>2, <2>3, <2>4 DEF Opening, Resyncing, HostAnew, Unspent, InLoop
  <2> QED BY <1>3, <2>5, ReceivedLocked
<1>7. ASSUME toHost # None
      PROVE  toHost.kind = "S" /\ (RecvSframe(toHost.type, toHost.inf) =>
                \/ toHost = S("WTX_REQ", << >>) /\ RecvWtxReq
                \/ toHost = S("RESYNCH_RSP", << >>) /\ RecvSRsp("RESYNCH_RSP", << >>))
  BY <1>2, <1>7 DEF RecvSframe, S, SRsps
<1> QED BY <1>4, <1>5, <1>6, <1>7, ReadsWhatWasSent

\* The answer to reset ends Open: the session is ready.
LEMMA AtrReceived ==
    ASSUME LInv, Locked, LinkReceive, UNCHANGED <<connected, calls, seVars>>,
           op = "OpenAtr"
    PROVE  Locked'
<1>1. /\ pc = "recv" /\ InLoop /\ pc' \in {"send", "done"} /\ op' = "OpenAtr"
      /\ UNCHANGED toSE /\ toHost' = None /\ UNCHANGED <<calls, seVars>>
  BY AwaitsAndLoops
<1>2. /\ HostAnew /\ SeAnew /\ nextTransceiveState = "SEND_S_ATR" /\ Unspent /\ Asked("ATR_REQ")
      /\ toHost # None => toHost = S("ATR_RES", Atr)
  BY <1>1 DEF Locked, Greeting
<1>3. SeAnew'
  BY <1>1, <1>2 DEF SeAnew, seVars
<1>4. AnswerWhole' /\ Opening' /\ Talking'
  BY <1>1 DEF AnswerWhole, Opening, Talking
<1>5. CASE toHost = None /\ ReadFails
  <2>1. /\ ~status' /\ UNCHANGED <<LastTx, lastRcvdSeqNo, recoveryCounter>>
        /\ NextTx'.Iframe = NextTx.Iframe
        /\ pc' = "send" => nextTransceiveState' = "SEND_S_ATR"
    BY <1>1, <1>2, <1>5, SilenceRepeats DEF SFrameOf
  <2>2. Greeting' /\ Rested'
    BY <1>1, <1>2, <1>3, <2>1 DEF Greeting, Asked, HostAnew, Unspent, InLoop, Rested
  <2> QED BY <1>4, <2>2, ReceivedLocked
<1>6. CASE toHost # None /\ RecvSRsp("ATR_RES", Atr)
  <2>1. toSE = None
    BY <1>6 DEF LInv, LinkRight, HalfDuplex
  <2>2. pc' = "done" /\ UNCHANGED <<LastTx, lastRcvdSeqNo, recoveryCounter>>
    BY <1>6 DEF RecvSRsp, Loop
  <2>3. Ready'
    BY <1>1, <1>2, <1>3, <2>1, <2>2 DEF Ready, Quiet, Unspent, HostAnew, SeAnew, Flip
  <2>4. Greeting' /\ Rested'
    BY <1>1, <2>2, <2>3 DEF Greeting, Rested, InLoop
  <2> QED BY <1>4, <2>4, ReceivedLocked
<1>7. ASSUME toHost # None
      PROVE  /\ toHost.kind = "S"
             /\ RecvSframe(toHost.type, toHost.inf) => RecvSRsp("ATR_RES", Atr)
  BY <1>2, <1>7 DEF RecvSframe, S, SRsps
<1> QED BY <1>5, <1>6, <1>7, ReadsWhatWasSent

\* No other call but Transceive has anything to keep.
LEMMA OtherReceived ==
    ASSUME LInv, Locked, LinkReceive, UNCHANGED <<connected, calls, seVars>>,
           op \notin {"Open", "OpenAtr", "Transceive"}
    PROVE  Locked'
<1>1. pc' \in {"send", "done"} /\ UNCHANGED op
  BY AwaitsAndLoops
<1> QED BY <1>1, ReceivedLocked DEF Rested, AnswerWhole, Opening, Greeting, Talking

\* An exchange of a Transceive that goes on with the fragment it had, and with what it
\* had of the answer, or ends in failure.
LEMMA TalkKept ==
    ASSUME LInv, Locked, LinkReceive, UNCHANGED <<connected, calls, seVars>>,
           op = "Transceive", nextTransceiveState # "SEND_S_INTF_RST",
           UNCHANGED <<lastRcvdSeqNo, rspData>>, KeepsIframe, pc' = "done" => ~status',
           pc' = "send" =>
             \/ nextTransceiveState' = "SEND_S_INTF_RST"
             \/ /\ nextTransceiveState' \in
                     {"SEND_IFRAME", "SEND_R_ACK", "SEND_R_NACK", "SEND_S_WTX_RSP"}
                /\ Unspent'
    PROVE  Locked'
<1>1. /\ pc = "recv" /\ InLoop /\ pc' \in {"send", "done"} /\ op' = "Transceive"
      /\ UNCHANGED toSE /\ toHost' = None /\ UNCHANGED <<calls, seVars>>
  BY AwaitsAndLoops
<1>2. Rested' /\ AnswerWhole' /\ Opening' /\ Greeting'
  BY <1>1 DEF Rested, AnswerWhole, Opening, Greeting
<1>3. Talking'
  <2> SUFFICES ASSUME pc' = "send"
               PROVE  /\ LastFragment(NextTx.Iframe)' /\ UnderWay(NextTx.Iframe)'
                      /\ Lockstep(NextTx.Iframe)'
    BY <1>1 DEF Talking, InLoop
  <2>1. PICK f : f = NextTx.Iframe
    OBVIOUS
  <2>2. f = NextTx'.Iframe /\ LastFragment(f) /\ UnderWay(f) /\ Lockstep(f)
    BY <1>1, <2>1 DEF Talking, Locked, KeepsIframe
  <2>3. Lockstep(f)'
    BY <1>1, <2>2, LockKept, Kinds DEF Locked, seVars
  <2>4. UnderWay(f)' /\ LastFragment(f)'
    BY <1>1, <2>2, Kinds DEF UnderWay, LastFragment
  <2> QED BY <2>2, <2>3, <2>4, Zenon
<1> QED BY <1>2, <1>3, ReceivedLocked

\* Silence in a Transceive.
LEMMA TalkSilence ==
    ASSUME LInv, Locked, LinkReceive, UNCHANGED <<connected, calls, seVars>>,
           op = "Transceive", nextTransceiveState # "SEND_S_INTF_RST", ReadFails
    PROVE  Locked'
<1>1. KeepsIframe /\ ~status' /\ Loop /\ UNCHANGED <<lastRcvdSeqNo, rspData, recoveryCounter>>
  BY ReadFailsKeeps DEF LInv, ReadFails, response
<1>2. /\ nextTransceiveState \in {"SEND_IFRAME", "SEND_R_ACK", "SEND_R_NACK", "SEND_S_WTX_RSP"}
      /\ Unspent'
  BY <1>1, AwaitsAndLoops DEF Locked, Talking, Unspent
<1>3. nextTransceiveState' \in {nextTransceiveState, "SEND_R_NACK", "IDLE_STATE"}
  BY DEF ReadFails, AskAgain, SendAgain
<1>4. pc' = "send" => nextTransceiveState' # "IDLE_STATE"
  BY <1>1 DEF Loop
<1> QED BY <1>1, <1>2, <1>3, <1>4, TalkKept

\* A request for time in a Transceive is granted, or answered by a reset.
LEMMA TalkWtx ==
    ASSUME LInv, Locked, LinkReceive, UNCHANGED <<connected, calls, seVars>>,
           op = "Transceive", nextTransceiveState # "SEND_S_INTF_RST", RecvWtxReq
    PROVE  Locked'
<1>1. /\ nextTransceiveState \in {"SEND_IFRAME", "SEND_R_ACK", "SEND_R_NACK", "SEND_S_WTX_RSP"}
      /\ Unspent /\ pc = "recv" /\ InLoop
  BY AwaitsAndLoops DEF Locked, Talking
<1>2. ~(LastTx.FrameType = "SFRAME" /\ LastTx.sFrameType # "WTX_RSP")
  BY <1>1 DEF LInv, IInv, AwaitsForLast, Sendable, Matches, SFrameOf
<1>3. /\ KeepsIframe /\ Loop /\ UNCHANGED <<lastRcvdSeqNo, rspData, recoveryCounter>>
      /\ nextTransceiveState' \in {"SEND_S_INTF_RST", "SEND_S_WTX_RSP"}
  BY <1>2, RecvWtxReqKeeps DEF LInv, RecvWtxReq, response
<1>4. pc' = "send" /\ Unspent'
  BY <1>1, <1>3 DEF Loop, Unspent
<1> QED BY <1>3, <1>4, TalkKept

\* An error reported in a Transceive: something again, or a reset.
LEMMA TalkError ==
    ASSUME LInv, Locked, LinkReceive, UNCHANGED <<connected, calls, seVars>>,
           op = "Transceive", nextTransceiveState # "SEND_S_INTF_RST",
           NEW seq, RecvRNack(seq) \/ RecvRSofMissed
    PROVE  Locked'
<1>1. /\ nextTransceiveState \in {"SEND_IFRAME", "SEND_R_ACK", "SEND_R_NACK", "SEND_S_WTX_RSP"}
      /\ Unspent /\ TypeOK
  BY AwaitsAndLoops DEF Locked, Talking, LInv, IInv
<1>2. KeepsIframe /\ Loop /\ UNCHANGED <<lastRcvdSeqNo, rspData>>
  BY RecvRNackKeeps, RecvRSofMissedKeeps DEF LInv, RecvRNack, RecvRSofMissed, response
<1>3. \E cntx, state : /\ ErrorRecovery(cntx, state)
                       /\ state \in {"SEND_IFRAME", "SEND_R_ACK", "SEND_R_NACK", "SEND_S_WTX_RSP"}
  <2>1. \/ ErrorRecovery([LastTx EXCEPT !.FrameType = "IFRAME"], "SEND_IFRAME")
        \/ ErrorRecovery(RCntx("NO_ERROR"), "SEND_R_ACK")
        \/ ErrorRecovery(RCntx("OTHER_ERROR"), "SEND_R_NACK")
        \/ ErrorRecovery(LastTx, nextTransceiveState)
    BY Zenon DEF RecvRNack, RecvRSofMissed
  <2> QED BY <1>1, <2>1, Zenon
<1>4. PICK cntx, state : /\ ErrorRecovery(cntx, state)
                         /\ state \in {"SEND_IFRAME", "SEND_R_ACK", "SEND_R_NACK", "SEND_S_WTX_RSP"}
  BY <1>3
<1>5. /\ pc' = "send"
      /\ \/ nextTransceiveState' = state /\ Unspent'
         \/ nextTransceiveState' = "SEND_S_INTF_RST"
  BY <1>1, <1>2, <1>4, RecoversOnce
<1> QED BY <1>2, <1>4, <1>5, TalkKept

\* The next fragment begins where the last one ended, and the last of all ends where
\* the command does.
LEMMA NextIsNext ==
    ASSUME CommandsFit, LInv, pc = "recv", op = "Transceive", SetNextIframeContxt,
           NextTx.Iframe.isChained
    PROVE  /\ NextTx'.Iframe.p_data = NextTx.Iframe.p_data
           /\ NextTx'.Iframe.seqNo = Flip(NextTx.Iframe.seqNo)
           /\ NextTx'.Iframe.dataOffset = NextTx.Iframe.dataOffset + NextTx.Iframe.sendDataLen
           /\ \/ NextTx'.Iframe.isChained
              \/ NextTx'.Iframe.dataOffset + NextTx'.Iframe.sendDataLen = calls[Len(calls)]
           /\ NextTx.Iframe.totalDataLen # 0 =>
                /\ NextTx'.Iframe.sendDataLen # 0
                /\ NextTx'.Iframe.isChained => NextTx'.Iframe.totalDataLen # 0
<1>1. PICK f, len : f = NextTx.Iframe /\ len = calls[Len(calls)]
  OBVIOUS
<1>2. LastTx = NextTx /\ NextTx \in TxCntx /\ f \in IframeInfo
  BY <1>1, AwaitingFacts DEF LInv, TxCntx
<1>3. /\ f.sendDataLen = IFSC /\ f.dataOffset + IFSC + f.totalDataLen = len /\ calls # << >>
  BY <1>1, OnCommandParts DEF LInv, LinkRight, FragmentRight, InLoop
<1>4. len \in CmdLens
  <2>1. calls \in Seq(CmdLens) /\ Len(calls) \in Nat /\ Len(calls) # 0
    BY <1>3, EmptySeq DEF LInv, LinkRight
  <2> QED BY <1>1, <2>1
<1>5. /\ len \in Nat /\ len <= UINT_MAX /\ IFSC \in Nat /\ UINT_MAX \in Nat
      /\ f.dataOffset \in Nat /\ f.totalDataLen \in Nat
  BY <1>2, <1>4, DataAssumption DEF CommandsFit, IframeInfo
<1>6. ~(UINT_MAX - f.dataOffset < IFSC)
  BY <1>3, <1>5
<1> DEFINE fragment == [p_data |-> f.p_data, isChained |-> f.totalDataLen > IFSC,
                        seqNo |-> Flip(f.seqNo), dataOffset |-> f.dataOffset + IFSC,
                        totalDataLen |-> IF f.totalDataLen > IFSC THEN f.totalDataLen - IFSC
                                                                  ELSE f.totalDataLen,
                        sendDataLen |-> IF f.totalDataLen > IFSC THEN IFSC ELSE f.totalDataLen]
<1>7. NextTx'.Iframe = fragment
  <2>1. NextTx' = [NextTx EXCEPT !.FrameType = "IFRAME",
                     !.Iframe = IF UINT_MAX - f.dataOffset < IFSC
                                THEN [f EXCEPT !.seqNo = Flip(f.seqNo)] ELSE fragment]
    BY <1>1, <1>2, Zenon DEF SetNextIframeContxt, NextFragment
  <2> HIDE DEF fragment
  <2> QED BY <1>2, <1>6, <2>1 DEF TxCntx
<1>8. /\ NextTx'.Iframe.p_data = f.p_data /\ NextTx'.Iframe.seqNo = Flip(f.seqNo)
      /\ NextTx'.Iframe.dataOffset = f.dataOffset + IFSC
      /\ NextTx'.Iframe.isChained = (f.totalDataLen > IFSC)
      /\ NextTx'.Iframe.sendDataLen = IF f.totalDataLen > IFSC THEN IFSC ELSE f.totalDataLen
      /\ NextTx'.Iframe.totalDataLen = IF f.totalDataLen > IFSC THEN f.totalDataLen - IFSC
                                                                ELSE f.totalDataLen
  BY <1>7
<1> HIDE DEF fragment
<1>9. \/ NextTx'.Iframe.isChained
      \/ NextTx'.Iframe.dataOffset + NextTx'.Iframe.sendDataLen = len
  <2>1. CASE f.totalDataLen > IFSC
    BY <1>8, <2>1
  <2>2. CASE ~(f.totalDataLen > IFSC)
    BY <1>3, <1>5, <1>8, <2>2
  <2> QED BY <2>1, <2>2
<1>10. f.totalDataLen # 0 =>
         /\ NextTx'.Iframe.sendDataLen # 0
         /\ NextTx'.Iframe.isChained => NextTx'.Iframe.totalDataLen # 0
  BY <1>5, <1>8, DataAssumption
<1> QED BY <1>1, <1>3, <1>8, <1>9, <1>10

\* An acknowledgement: the SE has this fragment and waits for the next, or has
\* acknowledged the one before again and waits for this one.
LEMMA TalkAck ==
    ASSUME CommandsFit, LInv, Locked, LinkReceive, UNCHANGED <<connected, calls, seVars>>,
           op = "Transceive", nextTransceiveState # "SEND_S_INTF_RST",
           toHost # None, toHost = seLast, Acknowledges(toHost), RecvRAck(toHost.seq)
    PROVE  Locked'
<1>1. /\ pc = "recv" /\ InLoop /\ pc' \in {"send", "done"} /\ op' = "Transceive"
      /\ UNCHANGED toSE /\ toHost' = None /\ UNCHANGED <<calls, seVars>>
  BY AwaitsAndLoops
<1>2. /\ pc' = "send" /\ Unspent' /\ UNCHANGED <<lastRcvdSeqNo, rspData>>
      /\ \/ /\ toHost.seq # NextTx.Iframe.seqNo /\ SetNextIframeContxt
            /\ nextTransceiveState' = "SEND_IFRAME"
         \/ toHost.seq = NextTx.Iframe.seqNo /\ UNCHANGED <<NextTx, nextTransceiveState>>
  <2>1. LastTx = NextTx
    BY <1>1, AwaitingFacts DEF LInv
  <2>2. recoveryCounter' = 0 /\ UNCHANGED <<lastRcvdSeqNo, rspData>>
    BY DEF RecvRAck, response
  <2>3. pc' = "send"
    BY RecvRAckKeeps DEF LInv
  <2>4. Unspent'
    BY <2>2, CountersAssumption DEF Unspent
  <2> QED BY <2>1, <2>2, <2>3, <2>4 DEF RecvRAck
<1>3. toHost.seq = seExp /\ toSE = None /\ seExp \in Bit
  BY DEF Locked, SeBlocks, Acknowledges, LInv, LinkRight, HalfDuplex, SeTyped
<1>4. PICK f : f = NextTx.Iframe
  OBVIOUS
<1>5. /\ f \in IframeInfo /\ LastFragment(f) /\ Lockstep(f) /\ ~Executed(f)
      /\ nextTransceiveState \in {"SEND_IFRAME", "SEND_R_ACK", "SEND_R_NACK", "SEND_S_WTX_RSP"}
  BY <1>1, <1>4 DEF Talking, Locked, LInv, IInv, TypeOK, TxCntx, Executed
<1>6. Flip(f.seqNo) # f.seqNo
  BY <1>5, FlipBit DEF IframeInfo
<1>7. Rested' /\ AnswerWhole' /\ Opening' /\ Greeting'
  BY <1>1, <1>2 DEF Rested, AnswerWhole, Opening, Greeting
<1>8. CASE seExp # f.seqNo
  <2>1. Taken(f) /\ f.isChained
    BY <1>5, <1>8 DEF Lockstep, Wanted, Taken
  <2>2. PICK g : g = NextTx'.Iframe
    OBVIOUS
  <2>3. /\ g.p_data = f.p_data /\ g.seqNo = Flip(f.seqNo)
        /\ g.dataOffset = f.dataOffset + f.sendDataLen
        /\ g.isChained \/ g.dataOffset + g.sendDataLen = calls[Len(calls)]
        /\ nextTransceiveState' = "SEND_IFRAME"
    BY <1>1, <1>2, <1>3, <1>4, <1>8, <2>1, <2>2, NextIsNext
  <2>4. HasUpTo(g.p_data, g.dataOffset)
    BY <2>1, <2>3, Zenon DEF Taken
  <2>5. HasUpTo(g.p_data, g.dataOffset)'
    BY <1>1, <2>4, HistoryStays DEF Locked, seVars
  <2>6. Listening'
    BY <1>1, <1>2, <2>1, Kinds DEF Taken, Listening, Quiet, seVars
  <2>7. Wanted(g)'
    BY <1>1, <2>1, <2>3, <2>5, <2>6 DEF Wanted, Taken, seVars
  <2>8. UnderWay(g)' /\ LastFragment(g)'
    BY <1>1, <1>3, <2>3, Kinds DEF UnderWay, LastFragment
  <2>9. Lockstep(g)'
    BY <2>7 DEF Lockstep
  <2>10. LastFragment(NextTx.Iframe)' /\ UnderWay(NextTx.Iframe)' /\ Lockstep(NextTx.Iframe)'
    BY <2>2, <2>8, <2>9, Zenon
  <2>11. Talking'
    BY <1>2, <2>3, <2>10 DEF Talking
  <2> QED BY <1>7, <2>11, ReceivedLocked
<1>9. CASE seExp = f.seqNo
  <2>1. UNCHANGED <<NextTx, nextTransceiveState>>
    BY <1>2, <1>3, <1>4, <1>9
  <2>2. Lockstep(f)'
    BY <1>1, <1>2, <1>5, LockKept, Kinds DEF Locked, seVars
  <2>3. UnderWay(f)' /\ LastFragment(f)'
    BY <1>1, <1>3, <1>5, Kinds DEF UnderWay, LastFragment
  <2>4. LastFragment(NextTx.Iframe)' /\ UnderWay(NextTx.Iframe)' /\ Lockstep(NextTx.Iframe)'
    BY <1>4, <2>1, <2>2, <2>3, Zenon
  <2>5. Talking'
    BY <1>2, <1>5, <2>1, <2>4 DEF Talking
  <2> QED BY <1>7, <2>5, ReceivedLocked
<1> QED BY <1>8, <1>9

\* A block of the answer: the next one, with what was saved before.
LEMMA TalkAnswer ==
    ASSUME LInv, Locked, LinkReceive, UNCHANGED <<connected, calls, seVars>>,
           op = "Transceive", nextTransceiveState # "SEND_S_INTF_RST",
           toHost # None, toHost = seLast, toHost.kind = "I",
           RecvIframe(toHost.seq, toHost.more, toHost.inf)
    PROVE  Locked'
<1>1. /\ pc = "recv" /\ InLoop /\ pc' \in {"send", "done"} /\ op' = "Transceive"
      /\ UNCHANGED toSE /\ toHost' = None /\ UNCHANGED <<calls, seVars>>
  BY AwaitsAndLoops
<1>2. PICK f : f = NextTx.Iframe
  OBVIOUS
<1>3. PICK b : b = toHost
  OBVIOUS
<1>4. PICK ans : ans = Answer(f.p_data)
  OBVIOUS
<1>5. /\ LastFragment(f) /\ Executed(f) /\ Sending(ans) /\ f.p_data = Len(calls)
      /\ f \in IframeInfo
  <2>1. Lockstep(f) /\ LastFragment(f)
    BY <1>1, <1>2 DEF Talking, Locked
  <2>2. Executed(f) /\ Sending(Answer(f.p_data))
    BY <2>1, Zenon
    DEF Lockstep, Wanted, Taken, Listening, Answering, Working, Received
  <2>3. f.p_data = Len(calls) /\ f \in IframeInfo
    BY <1>1, <1>2, OnCommandParts
    DEF LInv, LinkRight, FragmentRight, IInv, TypeOK, TxCntx
  <2> QED BY <1>4, <2>1, <2>2, <2>3, Zenon
<1>6. /\ seUnacked = b /\ b \in SeIframes /\ b.seq = seSeq /\ (b.more <=> seOut # << >>)
      /\ toSE = None /\ seSeq = Flip(lastRcvdSeqNo) /\ lastRcvdSeqNo \in Bit /\ ~seBusy
      /\ rspData \in Seq(Units)
  <2>1. seUnacked = b /\ b.seq = seSeq /\ (b.more <=> seOut # << >>)
    BY <1>3, <1>5 DEF Locked, SeBlocks, Sending
  <2>2. b \in SeIframes /\ toSE = None
    BY <1>3, Kinds DEF LInv, LinkRight, SeTyped, HalfDuplex
  <2> QED BY <1>5, <2>1, <2>2 DEF Sending, LInv, IInv, TypeOK
<1>7. IsNew(b.seq) /\ b.more \in BOOLEAN
  BY <1>6, FlipBit DEF IsNew, SeIframes
<1>8. /\ Loop /\ lastRcvdSeqNo' = b.seq /\ recoveryCounter' = 0 /\ UNCHANGED LastTx
      /\ KeepsIframe
      /\ \/ /\ rspData' = rspData \o b.inf /\ status'
            /\ nextTransceiveState' = IF b.more THEN "SEND_R_ACK" ELSE "IDLE_STATE"
         \/ ~status' /\ nextTransceiveState' = "IDLE_STATE"
  <2>1. RecvIframe(b.seq, b.more, b.inf)
    BY <1>3
  <2>2. KeepsIframe
    BY <1>7, <2>1, RecvIframeKeeps DEF LInv
  <2> QED BY <1>7, <2>1, <2>2, Zenon DEF RecvIframe, SaveRxframeData
<1>9. Unspent' /\ Opening' /\ Greeting'
  BY <1>1, <1>8, CountersAssumption DEF Unspent, Opening, Greeting
<1>10. CASE ~status' /\ nextTransceiveState' = "IDLE_STATE"
  <2>1. pc' = "done"
    BY <1>8, <1>10 DEF Loop
  <2> QED BY <1>1, <1>10, <2>1, FailedLocked DEF seVars
<1>11. /\ seSeq' = lastRcvdSeqNo' /\ ~seBusy' /\ UNCHANGED seOut
  BY <1>1, <1>6, <1>8 DEF seVars
<1>12. Executed(f)'
  BY <1>1, <1>5, HistoryStays DEF Executed, Locked, seVars
<1>13. rspData \o b.inf \o seOut = ans
  BY <1>5, <1>6, Zenon DEF Sending
<1>14. CASE /\ b.more /\ rspData' = rspData \o b.inf /\ nextTransceiveState' = "SEND_R_ACK"
  <2>1. pc' = "send"
    BY <1>8, <1>14 DEF Loop
  <2>2. rspData' \o seOut' = ans /\ seOut' # << >>
    BY <1>6, <1>11, <1>13, <1>14, Zenon
  <2>3. seUnacked' # None /\ toHost'.kind # "I"
    BY <1>1, <1>5, Kinds DEF Sending, seVars
  <2>4. Received(ans)'
    BY <1>11, <2>2, <2>3 DEF Received
  <2>5. Received(Answer(f.p_data))'
    BY <1>4, <2>4, Zenon
  <2>6. Lockstep(f)'
    BY <1>12, <2>5 DEF Lockstep, Answering
  <2>7. UnderWay(f)' /\ LastFragment(f)'
    BY <1>1, <1>5, <1>6, Kinds DEF UnderWay, LastFragment
  <2>8. f = NextTx'.Iframe
    BY <1>2, <1>8, <2>1 DEF KeepsIframe
  <2>9. LastFragment(NextTx.Iframe)' /\ UnderWay(NextTx.Iframe)' /\ Lockstep(NextTx.Iframe)'
    BY <2>6, <2>7, <2>8, Zenon
  <2>10. Talking' /\ Rested' /\ AnswerWhole'
    BY <1>1, <1>9, <1>14, <2>1, <2>9 DEF Talking, Rested, AnswerWhole
  <2> QED BY <1>9, <2>10, ReceivedLocked
<1>15. CASE /\ ~b.more /\ rspData' = rspData \o b.inf /\ nextTransceiveState' = "IDLE_STATE"
  <2>1. pc' = "done"
    BY <1>8, <1>15 DEF Loop
  <2>2. seOut = << >> /\ rspData' = ans
    <3>1. seOut = << >>
      BY <1>6, <1>15
    <3>2. b.inf \in Seq(Units)
      BY <1>6, DataAssumption DEF SeIframes
    <3>3. rspData \o b.inf \in Seq(Units)
      BY <1>6, <3>2
    <3>4. (rspData \o b.inf) \o << >> = rspData \o b.inf
      BY <3>3
    <3> QED BY <1>13, <1>15, <3>1, <3>4, Zenon
  <2>3. LastTx'.Iframe.seqNo = f.seqNo
    BY <1>1, <1>2, <1>8, AwaitingFacts DEF LInv
  <2>4. Ready'
    BY <1>1, <1>6, <1>9, <1>11, <1>12, <2>2, <2>3 DEF Ready, Quiet, Executed
  <2>5. rspData' = Answer(f.p_data) /\ ~NotExecuted(f.p_data)'
    BY <1>4, <1>12, <2>2, Zenon DEF Executed
  <2>6. f.p_data = Len(calls')
    BY <1>1, <1>5
  <2>7. AnswerWhole'
    BY <2>5, <2>6, Zenon DEF AnswerWhole
  <2>8. Talking' /\ Rested'
    BY <2>1, <2>4 DEF Talking, Rested, InLoop
  <2> QED BY <1>9, <2>7, <2>8, ReceivedLocked
<1> QED BY <1>7, <1>8, <1>10, <1>14, <1>15

\* What a Transceive receives.
LEMMA TransceiveReceived ==
    ASSUME CommandsFit, LInv, Locked, LinkReceive, UNCHANGED <<connected, calls, seVars>>,
           op = "Transceive", nextTransceiveState # "SEND_S_INTF_RST"
    PROVE  Locked'
<1>1. InLoop /\ toHost.kind = "S" => toHost = S("WTX_REQ", << >>)
  BY DEF Locked, Talking, UnderWay
<1>2. InLoop
  BY AwaitsAndLoops
<1>3. CASE toHost = None /\ ReadFails
  BY <1>3, TalkSilence
<1>4. CASE /\ toHost # None /\ toHost = seLast /\ toHost.kind = "I"
           /\ RecvIframe(toHost.seq, toHost.more, toHost.inf)
  BY <1>4, TalkAnswer
<1>5. CASE /\ toHost # None /\ toHost = seLast /\ toHost.kind = "R"
           /\ RecvRframe(toHost.seq, toHost.err)
  <2>1. CASE toHost.err = "NO_ERROR" /\ RecvRAck(toHost.seq)
    BY <1>5, <2>1, TalkAck DEF Acknowledges
  <2>2. CASE RecvRNack(toHost.seq) \/ RecvRSofMissed
    BY <2>2, TalkError
  <2> QED BY <1>5, <2>1, <2>2 DEF RecvRframe
<1>6. CASE toHost.kind = "S" /\ RecvSframe(toHost.type, toHost.inf)
  <2>1. toHost.type = "WTX_REQ"
    BY <1>1, <1>2, <1>6 DEF S
  <2>2. RecvWtxReq
    BY <1>6, <2>1 DEF RecvSframe
  <2> QED BY <2>2, TalkWtx
<1> QED BY <1>3, <1>4, <1>5, <1>6, ReadsWhatWasSent

LEMMA LinkReceiveLocked ==
    ASSUME CommandsFit, LInv, Locked, LinkReceive, UNCHANGED <<connected, calls, seVars>>
    PROVE  Locked'
BY ResetReceived, OpenReceived, AtrReceived, TransceiveReceived, OtherReceived

-----------------------------------------------------------------------------
(* The host's other steps. *)

\* The raw writes and reads of phNxpEse_waitForWTX leave the host as new.
LEMMA LinkWaitLocked ==
    ASSUME LInv, Locked, LinkWait, UNCHANGED <<connected, calls, seVars>>
    PROVE  Locked'
<1>1. /\ UNCHANGED <<LastTx, lastRcvdSeqNo, recoveryCounter, op>>
      /\ pc \in {"wtxSync", "wtxRead", "wtxRsp", "clear"}
  BY DEF LinkWait, WtxSend, WtxRead, WtxReadFails, ClearThenRSync, WtxVars, counters
<1>2. op = "Open" /\ op' = "Open"
  BY <1>1 DEF LInv, LinkRight, WaitsInOpen
<1>3. /\ pc' \in {"wtxRead", "wtxRsp", "clear", "send"}
      /\ pc' = "send" => nextTransceiveState' = "SEND_S_RSYNC"
      /\ UNCHANGED NextTx \/ NextTx' = SCntx("RESYNCH_REQ")
  BY DEF LinkWait, WtxSend, WtxRead, WtxReadFails, ClearThenRSync, SendS, WtxVars
<1>4. NextTx'.Iframe = NextTx.Iframe
  BY <1>3, SCntxFacts DEF SReqs, LInv, IInv, TypeOK
<1>5. toSE' = toSE \/ toSE'.kind = "S"
  <2>1. ASSUME NEW type, Put([kind |-> "S", type |-> type]) PROVE toSE'.kind = "S"
    BY <2>1 DEF Put
  <2>2. \/ toSE' = toSE
        \/ Put([kind |-> "S", type |-> IF pc = "wtxSync" THEN "RESYNCH_REQ" ELSE "WTX_RSP"])
    BY Zenon DEF LinkWait, bus
  <2> QED BY <2>1, <2>2
<1>6. toHost' \in {toHost, None}
  BY DEF LinkWait, Put, bus
<1>7. SeHistory' /\ SeBlocks' /\ OnTheWay'
  BY <1>5, SeLeftAlone
<1>8. Undamaged' /\ IdleOp'
  BY <1>3, <1>5, <1>6, Kinds DEF Undamaged, IdleOp, Locked
<1>9. Opening'
  BY <1>1, <1>2, <1>3, <1>4 DEF Opening, Resyncing, HostAnew, Unspent, InLoop, Locked
<1> QED
  BY <1>2, <1>3, <1>7, <1>8, <1>9
  DEF Locked, Rested, Resetting, Greeting, Talking, AnswerWhole, InLoop

\* Open asks for the ATR when both sides are as new.
LEMMA OpenThenAtrLocked ==
    ASSUME LInv, Locked, OpenThenAtr, UNCHANGED <<bus, bounds, seVars>>
    PROVE  Locked'
<1>1. /\ UNCHANGED <<toSE, toHost, calls, connected, seVars>>
      /\ pc = "done" /\ op = "Open" /\ status /\ pc' = "send" /\ op' = "OpenAtr"
      /\ nextTransceiveState' = "SEND_S_ATR" /\ NextTx' = SCntx("ATR_REQ")
      /\ UNCHANGED <<LastTx, lastRcvdSeqNo, recoveryCounter>>
  BY DEF OpenThenAtr, SendS, bus, bounds, counters
<1>2. toSE = None /\ toHost = None /\ SeAnew /\ Unspent /\ HostAnew
  BY <1>1 DEF Locked, Opening
<1>3. NextTx'.Iframe = NextTx.Iframe
  BY <1>1, SCntxFacts DEF SReqs, LInv, IInv, TypeOK
<1>4. SeHistory' /\ SeBlocks' /\ OnTheWay'
  BY <1>1, SeLeftAlone
<1>5. Undamaged' /\ IdleOp'
  BY <1>1 DEF Undamaged, IdleOp, Locked
<1>6. Greeting'
  BY <1>1, <1>2, <1>3 DEF Greeting, HostAnew, SeAnew, Unspent, Asked, seVars
<1> QED
  BY <1>1, <1>4, <1>5, <1>6
  DEF Locked, Rested, Resetting, Opening, Talking, AnswerWhole, InLoop

\* A session goes on only after a call that leaves it ready.
LEMMA LinkReturnLocked ==
    ASSUME LInv, Locked, LinkReturn, UNCHANGED seVars
    PROVE  Locked'
<1>1. /\ UNCHANGED <<toSE, toHost, calls, seVars, LastTx, lastRcvdSeqNo, recoveryCounter>>
      /\ pc = "done" /\ pc' = "idle" /\ op' = "none"
      /\ connected' = CASE op = "OpenAtr" -> status
                        [] op = "Transceive" -> status /\ rspData # << >>
                        [] OTHER -> FALSE
  BY DEF LinkReturn, Return, bus, counters
<1>2. connected' => Ready
  BY <1>1 DEF Locked, Rested
<1>3. Rested'
  BY <1>1, <1>2 DEF Rested, Ready, Unspent, Quiet, seVars
<1>4. SeHistory' /\ SeBlocks' /\ OnTheWay'
  BY <1>1, SeLeftAlone
<1>5. Undamaged' /\ IdleOp'
  BY <1>1 DEF Undamaged, IdleOp, Locked
<1> QED
  BY <1>1, <1>3, <1>4, <1>5
  DEF Locked, Resetting, Opening, Greeting, Talking, AnswerWhole, InLoop

\* A command is new to the SE, which has executed none but earlier ones.
LEMMA TransceiveLocked ==
    ASSUME LInv, Locked, NEW len \in CmdLens, connected,
           Transceive(Len(calls) + 1, len), calls' = Append(calls, len),
           UNCHANGED <<seVars, toSE, toHost>>
    PROVE  Locked'
<1>1. /\ pc = "idle" /\ op' = "Transceive" /\ pc' = "send" /\ rspData' = << >>
      /\ nextTransceiveState' = "SEND_IFRAME" /\ UNCHANGED <<lastRcvdSeqNo, recoveryCounter>>
  BY DEF Transceive, Begin, FreshResponse, counters
<1>2. Ready
  BY <1>1 DEF Locked, Rested
<1>3. PICK n : n = Len(calls) + 1
  OBVIOUS
<1>4. /\ calls' # << >> /\ Len(calls') = n /\ calls'[n] = len /\ n \in Nat \ {0}
      /\ DOMAIN calls = 1..(n - 1) /\ DOMAIN calls' = 1..n
      /\ \A k \in DOMAIN calls : calls'[k] = calls[k]
  BY <1>3, AppendIs DEF LInv, LinkRight
<1>5. PICK f : f = NextTx'.Iframe
  OBVIOUS
<1>6. /\ f.p_data = n /\ f.dataOffset = 0 /\ f.seqNo = Flip(LastTx.Iframe.seqNo)
      /\ f.isChained = (len > IFSC) /\ f.sendDataLen = IF len > IFSC THEN IFSC ELSE len
  BY <1>3, <1>5 DEF Transceive, LInv, IInv, TypeOK, TxCntx
<1>7. SeHistory'
  <2>1. \A i \in DOMAIN executed : WholeCommand(executed[i])'
    <3> SUFFICES ASSUME NEW i \in DOMAIN executed PROVE WholeCommand(executed[i])'
      OBVIOUS
    <3>1. WholeCommand(executed[i]) /\ executed'[i] = executed[i]
      BY DEF Locked, SeHistory, seVars
    <3>2. PICK g : g = executed[i]
      OBVIOUS
    <3>3. g # << >> /\ g[1].cmd \in DOMAIN calls /\ Beginning(g, g[1].cmd, calls[g[1].cmd])
      BY <3>1, <3>2 DEF WholeCommand
    <3>4. g[1].cmd \in DOMAIN calls' /\ calls'[g[1].cmd] = calls[g[1].cmd]
      BY <1>4, <3>3
    <3>5. WholeCommand(g)'
      BY <3>3, <3>4 DEF WholeCommand
    <3> QED BY <3>1, <3>2, <3>5, Zenon
  <2>2. executed' = executed /\ seIn' = seIn
    BY DEF seVars
  <2>3. \A i \in DOMAIN executed' : WholeCommand(executed[i])'
    BY <2>1, <2>2
  <2> QED BY <2>2, <2>3, Zenon DEF Locked, SeHistory
<1>8. NotExecuted(n)'
  <2>1. \A i \in DOMAIN executed : executed[i][1].cmd \in 1..(n - 1)
    BY <1>4 DEF Locked, SeHistory, WholeCommand
  <2>2. n \notin 1..(n - 1)
    BY <1>4
  <2> QED BY <2>1, <2>2, Zenon DEF NotExecuted, seVars
<1>9. SeBlocks' /\ OnTheWay' /\ Undamaged' /\ IdleOp'
  BY <1>1, <1>2, Kinds DEF Locked, SeBlocks, OnTheWay, Undamaged, IdleOp, Ready, seVars
<1>10. Talking'
  <2>1. HasUpTo(f.p_data, f.dataOffset)'
    <3>1. Beginning(<< >>, f.p_data, f.dataOffset)
      BY <1>6, BeginsEmpty
    <3>2. seIn' = << >> /\ ~seBusy'
      BY <1>2 DEF Ready, Quiet, seVars
    <3>3. NotExecuted(f.p_data)' /\ f.p_data = Len(calls')
      BY <1>4, <1>6, <1>8
    <3> QED BY <1>4, <3>1, <3>2, <3>3, Zenon DEF HasUpTo
  <2>2. Listening' /\ seExp' = f.seqNo
    BY <1>1, <1>2, <1>6, Kinds DEF Ready, Quiet, Listening, seVars
  <2>3. Lockstep(f)'
    BY <2>1, <2>2 DEF Lockstep, Wanted
  <2>4. UnderWay(f)'
    BY <1>2, Kinds DEF UnderWay, Ready
  <2>5. LastFragment(f)'
    <3>1. len \in Nat /\ calls'[Len(calls')] = len
      BY <1>4, DataAssumption
    <3>2. f.isChained \/ f.dataOffset + f.sendDataLen = len
      <4>1. CASE len > IFSC
        BY <1>6, <4>1
      <4>2. CASE ~(len > IFSC)
        BY <1>6, <3>1, <4>2
      <4> QED BY <4>1, <4>2
    <3> QED BY <3>1, <3>2 DEF LastFragment
  <2>6. LastFragment(NextTx.Iframe)' /\ UnderWay(NextTx.Iframe)' /\ Lockstep(NextTx.Iframe)'
    BY <1>5, <2>3, <2>4, <2>5, Zenon
  <2> QED BY <1>1, <1>2, <2>6 DEF Talking, Ready, Unspent
<1> QED
  BY <1>1, <1>7, <1>9, <1>10
  DEF Locked, Rested, Resetting, Opening, Greeting, AnswerWhole

LEMMA LinkCallLocked ==
    ASSUME LInv, Locked, LinkCall, UNCHANGED <<seVars, bus, faults>>
    PROVE  Locked'
<1>1. UNCHANGED <<seVars, toSE, toHost>>
  BY DEF bus
<1>2. ASSUME pc' \in {"wtxSync", "send"}, op' \in {"Open", "Close"}, UNCHANGED calls,
             op' = "Open" => pc' = "wtxSync" /\ HostAnew' /\ Unspent'
      PROVE  Locked'
  <2>1. SeHistory' /\ SeBlocks' /\ OnTheWay'
    BY <1>1, <1>2, SeLeftAlone
  <2>2. Undamaged' /\ IdleOp'
    BY <1>1, <1>2 DEF Undamaged, IdleOp, Locked
  <2> QED
    BY <1>2, <2>1, <2>2
    DEF Locked, Rested, Resetting, Opening, Resyncing, Greeting, Talking, AnswerWhole, InLoop
<1>3. CASE Open /\ UNCHANGED calls
  <2>1. pc' = "wtxSync" /\ op' = "Open" /\ HostAnew' /\ Unspent'
    BY <1>3, CountersAssumption
    DEF Open, Begin, ResetProtoParams, ResetCntx, HostAnew, Unspent
  <2> QED BY <1>2, <1>3, <2>1
<1>4. CASE Close /\ UNCHANGED calls
  <2>1. pc' = "send" /\ op' = "Close"
    BY <1>4 DEF Close, Begin, SendS
  <2> QED BY <1>2, <1>4, <2>1
<1>5. ASSUME connected, NEW len \in CmdLens, Transceive(Len(calls) + 1, len),
             calls' = Append(calls, len)
      PROVE  Locked'
  BY <1>1, <1>5, TransceiveLocked
<1> QED BY <1>3, <1>4, <1>5 DEF LinkCall

LEMMA LockedInit == LinkInit => Locked
<1> SUFFICES ASSUME LinkInit PROVE Locked
  OBVIOUS
<1>1. pc = "idle" /\ op = "none" /\ ~connected
  BY DEF LinkInit, Init
<1>2. Undamaged /\ OnTheWay /\ SeHistory /\ SeBlocks
  BY EmptySeq, Kinds DEF LinkInit, Undamaged, OnTheWay, SeHistory, SeBlocks
<1> QED
  BY <1>1, <1>2
  DEF Locked, Rested, Resetting, Opening, Greeting, Talking, AnswerWhole, IdleOp, InLoop

LEMMA LockedNext ==
    ASSUME NothingDamaged, CommandsFit, LInv, Locked, [LinkNext]_linkVars
    PROVE  Locked'
<1>1. CASE HostStep
  BY <1>1, LinkSendLocked, LinkReceiveLocked, LinkWaitLocked, OpenThenAtrLocked, LinkReturnLocked
  DEF HostStep
<1>2. CASE BusFault \/ SePowerLoss \/ SeGoesMute
  BY <1>2, FaultLocked
<1> QED
  BY <1>1, <1>2, SeStepLocked, LinkCallLocked, HostCrashLocked, StutterLocked, Zenon DEF LinkNext

LEMMA LockedInvariant == NothingDamaged /\ CommandsFit => (LinkSpec => []Locked)
<1>1. ASSUME NothingDamaged, CommandsFit PROVE LInv /\ Locked /\ [LinkNext]_linkVars => Locked'
  BY <1>1, LockedNext
<1>2. CASE NothingDamaged /\ CommandsFit
  BY <1>1, <1>2, LockedInit, LinkInvariant, PTL DEF LinkSpec
<1> QED BY <1>2

-----------------------------------------------------------------------------
(* Commands are numbered, and the one running is the last. *)

Numbered == DOMAIN calls \subseteq Cmds /\ (op = "Transceive" => calls # << >>)

LEMMA NumberedNext == ASSUME LInv, Numbered, [LinkNext]_linkVars PROVE Numbered'
<1>1. ASSUME UNCHANGED calls, op' # "Transceive" \/ op' = op PROVE Numbered'
  BY <1>1 DEF Numbered
<1>2. CASE LinkCall
  <2>1. ASSUME UNCHANGED calls, Open \/ Close PROVE Numbered'
    BY <1>1, <2>1 DEF Open, Close, Begin
  <2>2. ASSUME NEW len \in CmdLens, Len(calls) + 1 \in Cmds, calls' = Append(calls, len)
        PROVE  Numbered'
    <3>1. calls' # << >> /\ DOMAIN calls' = 1..(Len(calls) + 1) /\ DOMAIN calls = 1..Len(calls)
          /\ Len(calls) \in Nat
      BY <2>2, AppendIs DEF LInv, LinkRight
    <3>2. \A k \in DOMAIN calls' : k = Len(calls) + 1 \/ k \in DOMAIN calls
      BY <3>1
    <3> QED BY <2>2, <3>1, <3>2 DEF Numbered
  <2> QED BY <1>2, <2>1, <2>2 DEF LinkCall
<1>3. CASE HostStep
  <2>1. UNCHANGED calls
    BY <1>3 DEF HostStep, LinkReturn, bounds
  <2>2. LinkSend \/ LinkWait => op' = op
    BY DEF LinkSend, SendOk, SendFails, LinkWait, WtxSend, WtxRead, WtxReadFails, ClearThenRSync,
           WtxVars, control
  <2>3. LinkReceive /\ UNCHANGED <<connected, calls, seVars>> => op' = op
    BY AwaitsAndLoops
  <2>4. OpenThenAtr \/ LinkReturn => op' # "Transceive"
    BY DEF OpenThenAtr, LinkReturn, Return
  <2> QED BY <1>1, <1>3, <2>1, <2>2, <2>3, <2>4 DEF HostStep
<1>4. CASE SeStep \/ BusFault \/ SePowerLoss \/ SeGoesMute \/ UNCHANGED linkVars
  <2>1. UNCHANGED <<op, calls>>
    BY <1>4 DEF SeStep, BusFault, SePowerLoss, SeGoesMute, linkVars, vars, control, bounds
  <2> QED BY <1>1, <2>1
<1>5. CASE HostCrash
  BY <1>1, <1>5 DEF HostCrash, Restart
<1> QED BY <1>2, <1>3, <1>4, <1>5 DEF LinkNext

LEMMA NumberedAlways == LinkSpec => []Numbered
<1>1. LinkInit => Numbered
  BY DEF LinkInit, Init, Numbered
<1>2. LInv /\ Numbered /\ [LinkNext]_linkVars => Numbered'
  BY NumberedNext
<1> QED BY <1>1, <1>2, LinkInvariant, PTL DEF LinkSpec

\* The command of the Transceive that is running has an answer.
LEMMA OwnAnswer ==
    ASSUME LInv, Numbered, op = "Transceive"
    PROVE  /\ Answer(Len(calls)) \in Seq(Units) /\ Len(Answer(Len(calls))) \in Nat
           /\ << >> = SubSeq(Answer(Len(calls)), 1, 0)
           /\ Answer(Len(calls)) = SubSeq(Answer(Len(calls)), 1, Len(Answer(Len(calls))))
<1>1. Len(calls) \in Cmds
  <2>1. Len(calls) \in 1..Len(calls) /\ DOMAIN calls = 1..Len(calls)
    BY LenProperties, EmptySeq DEF LInv, LinkRight, Numbered
  <2> QED BY <2>1 DEF Numbered
<1>2. PICK ans : ans = Answer(Len(calls))
  OBVIOUS
<1>3. ans \in Seq(Carried)
  BY <1>1, <1>2, AnswersAssumption, Zenon DEF Carried
<1>4. ans \in Seq(Units)
  BY <1>3, SeqMonotonic DEF Carried
<1>5. Len(ans) \in Nat /\ << >> = SubSeq(ans, 1, 0)
  BY <1>4, LenProperties, SubSeqEmpty
<1>6. SubSeq(ans, 1, Len(ans)) = ans
  BY <1>4
<1> QED BY <1>2, <1>4, <1>5, <1>6, Zenon

-----------------------------------------------------------------------------
(* The theorems. *)

\* DecodeFrame and the SE tell a repetition from a new fragment: what the SE executes is a
\* whole command with its fragments in order, none twice and none of another, however many
\* frames are lost or late and however often the host's process dies, as long as none is
\* damaged and the SE keeps its supply.
THEOREM CommandsArriveWhole == NothingDamaged /\ CommandsFit => (LinkSpec => []ExecutedWhole)
<1>1. SeHistory => ExecutedWhole
  <2> SUFFICES ASSUME SeHistory, NEW i \in DOMAIN executed, NEW frags, frags = executed[i]
               PROVE  /\ frags[1].offset = 0
                      /\ frags[Len(frags)].offset + frags[Len(frags)].len = calls[frags[1].cmd]
                      /\ \A k \in 2..Len(frags) :
                           /\ frags[k].cmd = frags[1].cmd
                           /\ frags[k].offset = frags[k-1].offset + frags[k-1].len
    BY DEF ExecutedWhole
  <2>1. WholeCommand(frags) /\ frags \in Seq(HostIframes)
    BY DEF SeHistory
  <2>2. \A k \in 2..Len(frags) : k \in DOMAIN frags
    BY <2>1, LenProperties
  <2> QED BY <2>1, <2>2 DEF WholeCommand, Beginning
<1>2. Locked => ExecutedWhole
  BY <1>1 DEF Locked
<1> QED BY <1>2, LockedInvariant, PTL

\* And what a Transceive has saved when it succeeds is the beginning of the answer to its own
\* command, with no block missing, repeated or left over from a command before.
THEOREM AnswersAreItsOwn == NothingDamaged /\ CommandsFit => (LinkSpec => []OwnAnswerPrefix)
<1>1. LInv /\ Locked /\ Numbered => OwnAnswerPrefix
  <2> SUFFICES ASSUME LInv, Locked, Numbered, op = "Transceive", pc = "done", status
               PROVE  LET answer == Answer(Len(calls))
                      IN  /\ Len(rspData) <= Len(answer)
                          /\ rspData = SubSeq(answer, 1, Len(rspData))
    BY DEF OwnAnswerPrefix
  <2>1. PICK ans : ans = Answer(Len(calls))
    OBVIOUS
  <2>2. Len(ans) \in Nat /\ << >> = SubSeq(ans, 1, 0) /\ ans = SubSeq(ans, 1, Len(ans))
    BY <2>1, OwnAnswer, Zenon
  <2>3. rspData = << >> \/ rspData = ans
    BY <2>1, Zenon DEF Locked, AnswerWhole
  <2>4. Len(rspData) <= Len(ans) /\ rspData = SubSeq(ans, 1, Len(rspData))
    <3>1. Len(<< >>) = 0 /\ 0 <= Len(ans) /\ Len(ans) <= Len(ans)
      BY <2>2
    <3>2. CASE rspData = << >>
      BY <2>2, <3>1, <3>2, Zenon
    <3>3. CASE rspData = ans
      BY <2>2, <3>1, <3>3, Zenon
    <3> QED BY <2>3, <3>2, <3>3
  <2> QED BY <2>1, <2>4, Zenon
<1> QED BY <1>1, LockedInvariant, LinkInvariant, NumberedAlways, PTL

\* It is all of that answer, or nothing, after an interface reset: an answer is never cut
\* short and passed for a success.
THEOREM AnswersAreWhole == NothingDamaged /\ CommandsFit => (LinkSpec => []NotCutShort)
<1>1. Locked => NotCutShort
  BY DEF Locked, AnswerWhole, NotCutShort
<1> QED BY <1>1, LockedInvariant, PTL

-----------------------------------------------------------------------------
(* The link implements ApduTransport. *)

\* The parts of the mapping of T1Link!Transport.
Images  == [i \in DOMAIN executed |-> executed[i][1].cmd]
Outcome == IF op # "Transceive" \/ pc # "done" THEN [is |-> "not yet"]
           ELSE IF status THEN [is |-> "bytes", bytes |-> rspData]
           ELSE [is |-> "failed"]

LEMMA TransportIs ==
    /\ Transport!ApduInit <=>
         Len(calls) = 0 /\ (op = "Transceive") = FALSE /\ Images = << >> /\ Outcome = [is |-> "not yet"]
    /\ Transport!Issue <=>
         /\ ~(op = "Transceive") /\ Len(calls) < Cardinality(Cmds)
         /\ Len(calls)' = Len(calls) + 1 /\ (op = "Transceive")' = TRUE
         /\ UNCHANGED <<Images, Outcome>>
    /\ Transport!Execute <=>
         /\ \A i \in DOMAIN Images : Images[i] < Len(calls)
         /\ Len(calls) > 0
         /\ Images' = Append(Images, Len(calls))
         /\ UNCHANGED <<Len(calls), op = "Transceive", Outcome>>
    /\ Transport!Succeed <=>
         /\ op = "Transceive" /\ Outcome = [is |-> "not yet"]
         /\ \E ans \in {SubSeq(Answer(Len(calls)), 1, n) : n \in 0..Len(Answer(Len(calls)))} :
              /\ ans # << >> => \E i \in DOMAIN Images : Images[i] = Len(calls)
              /\ Outcome' = [is |-> "bytes", bytes |-> ans]
         /\ UNCHANGED <<Len(calls), op = "Transceive", Images>>
    /\ Transport!Fail <=>
         /\ op = "Transceive" /\ Outcome = [is |-> "not yet"]
         /\ Outcome' = [is |-> "failed"]
         /\ UNCHANGED <<Len(calls), op = "Transceive", Images>>
    /\ Transport!EndCall <=>
         /\ op = "Transceive"
         /\ (op = "Transceive")' = FALSE /\ Outcome' = [is |-> "not yet"]
         /\ UNCHANGED <<Len(calls), Images>>
BY DEF Transport!ApduInit, Transport!Issue, Transport!Execute, Transport!Succeed, Transport!Fail,
       Transport!EndCall, Transport!NotYet, Transport!Failed, Transport!Bytes, Transport!Prefixes,
       Images, Outcome

\* Steps in which no command is begun and none is executed.
LEMMA NoOutcomeYet ==
    /\ Outcome = [is |-> "not yet"] <=> ~(op = "Transceive" /\ pc = "done")
    /\ [is |-> "failed"] # [is |-> "not yet"]
<1>1. /\ [is |-> "failed"].is = "failed" /\ [is |-> "not yet"].is = "not yet"
      /\ \A b : [is |-> "bytes", bytes |-> b].is = "bytes"
  OBVIOUS
<1>2. [is |-> "failed"] # [is |-> "not yet"]
  BY <1>1
<1>3. [is |-> "bytes", bytes |-> rspData] # [is |-> "not yet"]
  BY <1>1
<1> QED BY <1>2, <1>3, Zenon DEF Outcome

LEMMA QuietStep ==
    ASSUME UNCHANGED <<calls, executed>>, op' = op,
           op = "Transceive" =>
             \/ pc # "done" /\ pc' # "done"
             \/ UNCHANGED <<pc, status, rspData>>
    PROVE  UNCHANGED Transport!apduVars
<1>1. Outcome' = Outcome
  <2>1. CASE op # "Transceive"
    BY <2>1 DEF Outcome
  <2>2. CASE pc # "done" /\ pc' # "done"
    BY <2>2 DEF Outcome
  <2>3. CASE UNCHANGED <<pc, status, rspData>>
    BY <2>3 DEF Outcome
  <2> QED BY <2>1, <2>2, <2>3
<1> QED BY <1>1 DEF Transport!apduVars, Outcome

LEMMA CallOver ==
    ASSUME UNCHANGED <<calls, executed>>, op' # "Transceive"
    PROVE  Transport!EndCall \/ UNCHANGED Transport!apduVars
<1>1. Outcome' = [is |-> "not yet"] /\ Images' = Images /\ Len(calls)' = Len(calls)
  BY DEF Outcome, Images
<1>2. CASE op = "Transceive"
  BY <1>1, <1>2, TransportIs
<1>3. CASE op # "Transceive"
  <2>1. Outcome = [is |-> "not yet"] /\ (op = "Transceive") = FALSE /\ (op = "Transceive")' = FALSE
    BY <1>3 DEF Outcome
  <2> QED BY <1>1, <2>1 DEF Transport!apduVars, Outcome, Images
<1> QED BY <1>2, <1>3

\* A Transceive comes to its end: it has failed, or it has what AnswerWhole says.
LEMMA CallEnds ==
    ASSUME LInv, Numbered, AnswerWhole', UNCHANGED <<calls, executed>>, op = "Transceive", op' = op, pc # "done", pc' = "done"
    PROVE  Transport!Succeed \/ Transport!Fail
<1>1. Outcome = [is |-> "not yet"] /\ UNCHANGED <<Len(calls), op = "Transceive", Images>>
  BY DEF Outcome, Images
<1>2. CASE ~status'
  <2>1. Outcome' = [is |-> "failed"]
    BY <1>2 DEF Outcome
  <2> QED BY <1>1, <2>1, TransportIs
<1>3. CASE status'
  <2>1. PICK ans : ans = Answer(Len(calls))
    OBVIOUS
  <2>2. Len(ans) \in Nat /\ << >> = SubSeq(ans, 1, 0) /\ ans = SubSeq(ans, 1, Len(ans))
    BY <2>1, OwnAnswer, Zenon
  <2>3. rspData' = << >> \/ (rspData' = ans /\ ~NotExecuted(Len(calls))')
    BY <1>3, <2>1, Zenon DEF AnswerWhole
  <2>4. rspData' \in {SubSeq(ans, 1, n) : n \in 0..Len(ans)}
    <3>1. 0 \in 0..Len(ans) /\ Len(ans) \in 0..Len(ans)
      BY <2>2
    <3> QED BY <2>2, <2>3, <3>1, Zenon
  <2>5. rspData' # << >> => \E i \in DOMAIN Images : Images[i] = Len(calls)
    BY <2>3 DEF NotExecuted, Images
  <2>6. Outcome' = [is |-> "bytes", bytes |-> rspData']
    BY <1>3 DEF Outcome
  <2>7. \E ans2 \in {SubSeq(Answer(Len(calls)), 1, n) : n \in 0..Len(Answer(Len(calls)))} :
              /\ ans2 # << >> => \E i \in DOMAIN Images : Images[i] = Len(calls)
              /\ Outcome' = [is |-> "bytes", bytes |-> ans2]
    BY <2>1, <2>4, <2>5, <2>6, Zenon
  <2> QED BY <1>1, <2>7, TransportIs
<1> QED BY <1>2, <1>3

\* The SE executes the last command issued, which it has not executed.
LEMMA Executes ==
    ASSUME LInv, Locked, toSE.kind = "I", SeIframe(toSE), executed' # executed,
           UNCHANGED <<calls, op, pc, status, rspData>>
    PROVE  Transport!Execute
<1>1. PICK f : f = toSE
  OBVIOUS
<1>2. f \in HostIframes
  BY <1>1, Kinds DEF LInv, LinkRight, HalfDuplex
<1>3. /\ f.seq = seExp /\ ~seBusy /\ executed' = Append(executed, Append(seIn, f))
      /\ HasUpTo(f.cmd, f.offset)
  BY <1>1 DEF SeIframe, Locked, OnTheWay
<1>4. PICK n : n = Len(calls)
  OBVIOUS
<1>5. PICK frags : frags = Append(seIn, f)
  OBVIOUS
<1>6. frags \in Seq(HostIframes) /\ frags[1].cmd = n
  BY <1>2, <1>3, <1>4, <1>5, AppendIs, BeginningGrows DEF HasUpTo, Locked, SeHistory
<1>7. n \in Nat /\ n > 0 /\ DOMAIN calls = 1..n
  BY <1>3, <1>4, LenProperties, EmptySeq DEF HasUpTo, LInv, LinkRight
<1>8. PICK m : m = Len(executed)
  OBVIOUS
<1>9. /\ m \in Nat /\ DOMAIN executed = 1..m /\ DOMAIN executed' = 1..(m + 1)
      /\ executed'[m + 1] = frags /\ \A i \in 1..m : executed'[i] = executed[i]
  BY <1>3, <1>5, <1>6, <1>8, AppendIs DEF Locked, SeHistory
<1>10. \A i \in 1..m : executed[i][1].cmd \in 1..n /\ executed[i][1].cmd # n
  BY <1>3, <1>4, <1>7, <1>9 DEF Locked, SeHistory, WholeCommand, HasUpTo, NotExecuted
<1>11. DOMAIN Images = 1..m /\ \A i \in 1..m : Images[i] = executed[i][1].cmd /\ Images[i] < n
  BY <1>7, <1>9, <1>10 DEF Images
<1>12. Images' = Append(Images, n)
  <2>1. Images \in [1..m -> Nat]
    BY <1>9, <1>10 DEF Images
  <2>2. Images \in Seq(Nat) /\ Len(Images) = m
    BY <1>9, <2>1, SeqDef
  <2>3. PICK longer : longer = Append(Images, n)
    OBVIOUS
  <2>4. longer \in Seq(Nat) /\ Len(longer) = m + 1 /\ longer[m + 1] = n
        /\ \A i \in 1..m : longer[i] = Images[i]
    BY <1>7, <2>2, <2>3, AppendProperties
  <2>5. Images' = [i \in 1..(m + 1) |-> executed'[i][1].cmd]
    BY <1>9 DEF Images
  <2>6. \A i \in 1..(m + 1) : longer[i] = executed'[i][1].cmd
    <3> TAKE i \in 1..(m + 1)
    <3>1. CASE i = m + 1
      BY <1>6, <1>9, <2>4, <3>1
    <3>2. CASE i # m + 1
      <4>1. i \in 1..m
        BY <1>9, <3>2
      <4> QED BY <1>9, <1>11, <2>4, <4>1
    <3> QED BY <3>1, <3>2
  <2>7. longer = [i \in 1..(m + 1) |-> longer[i]]
    BY <2>4, LenProperties
  <2> QED BY <2>3, <2>5, <2>6, <2>7
<1>13. UNCHANGED <<Len(calls), op = "Transceive", Outcome>>
  BY DEF Outcome
<1>14. (\A i \in DOMAIN Images : Images[i] < Len(calls)) /\ Len(calls) > 0
       /\ Images' = Append(Images, Len(calls))
  BY <1>4, <1>7, <1>11, <1>12
<1> QED BY <1>13, <1>14, TransportIs, Zenon

\* Every step of the link is one of ApduTransport, or none.
LEMMA TransportStep ==
    ASSUME IsFiniteSet(Cmds), LInv, Numbered, Numbered', Locked, AnswerWhole',
           [LinkNext]_linkVars
    PROVE  [Transport!ApduNext]_(Transport!apduVars)
<1>1. ASSUME \/ UNCHANGED Transport!apduVars
             \/ Transport!Issue \/ Transport!Execute \/ Transport!Succeed \/ Transport!Fail
             \/ Transport!EndCall
      PROVE  [Transport!ApduNext]_(Transport!apduVars)
  BY <1>1 DEF Transport!ApduNext
<1>2. CASE HostStep
  <2>1. UNCHANGED <<calls, executed>>
    BY <1>2 DEF HostStep, LinkReturn, bounds, seVars
  <2>2. CASE LinkSend
    <3>1. op' = op /\ pc # "done"
      BY <2>2 DEF LinkSend, SendOk, SendFails, control
    <3> QED BY <1>1, <2>1, <3>1, QuietStep, CallEnds
  <2>3. CASE LinkReceive /\ UNCHANGED <<connected, calls, seVars>>
    <3>1. op' = op /\ pc # "done"
      BY <2>3, AwaitsAndLoops
    <3> QED BY <1>1, <2>1, <3>1, QuietStep, CallEnds
  <2>4. CASE LinkWait
    <3>1. op' = op /\ op # "Transceive"
      BY <2>4 DEF LinkWait, WtxSend, WtxRead, WtxReadFails, ClearThenRSync, WtxVars,
                  LInv, LinkRight, WaitsInOpen
    <3> QED BY <1>1, <2>1, <3>1, QuietStep
  <2>5. CASE OpenThenAtr \/ LinkReturn
    <3>1. op' # "Transceive"
      BY <2>5 DEF OpenThenAtr, LinkReturn, Return
    <3> QED BY <1>1, <2>1, <3>1, CallOver
  <2> QED BY <1>2, <2>2, <2>3, <2>4, <2>5 DEF HostStep
<1>3. CASE SeStep
  <2>1. UNCHANGED <<calls, op, pc, status, rspData>>
    BY <1>3 DEF SeStep, bounds, vars, control, response
  <2>2. CASE executed' = executed
    BY <1>1, <2>1, <2>2, QuietStep
  <2>3. CASE executed' # executed
    <3>1. toSE.kind = "I" /\ SeIframe(toSE)
      BY <1>3, <2>3 DEF SeStep, SeRframe, SeSframe, seVars
    <3> QED BY <1>1, <2>1, <2>3, <3>1, Executes
  <2> QED BY <2>2, <2>3
<1>4. CASE BusFault \/ SePowerLoss \/ SeGoesMute \/ UNCHANGED linkVars
  <2>1. UNCHANGED <<calls, executed, op, pc, status, rspData>>
    BY <1>4 DEF BusFault, SePowerLoss, SeGoesMute, linkVars, vars, control, bounds, seVars, response
  <2> QED BY <1>1, <2>1, QuietStep
<1>5. CASE HostCrash
  <2>1. UNCHANGED <<calls, executed>> /\ op' # "Transceive"
    BY <1>5 DEF HostCrash, Restart, seVars
  <2> QED BY <1>1, <2>1, CallOver
<1>6. CASE LinkCall /\ UNCHANGED <<seVars, bus, faults>>
  <2>1. UNCHANGED executed
    BY <1>6 DEF seVars
  <2>2. CASE (Open \/ Close) /\ UNCHANGED calls
    <3>1. op' # "Transceive"
      BY <2>2 DEF Open, Close, Begin
    <3> QED BY <1>1, <2>1, <2>2, <3>1, CallOver
  <2>3. ASSUME NEW len \in CmdLens, Transceive(Len(calls) + 1, len), calls' = Append(calls, len)
        PROVE  Transport!Issue
    <3>1. op = "none" /\ op' = "Transceive" /\ pc' = "send"
      BY <2>3 DEF Transceive, Begin, Locked, IdleOp
    <3>2. Outcome' = [is |-> "not yet"] /\ Outcome = [is |-> "not yet"] /\ Images' = Images
      BY <2>1, <3>1 DEF Outcome, Images
    <3>3. Len(calls') = Len(calls) + 1 /\ Len(calls) \in Nat /\ DOMAIN calls' = 1..(Len(calls) + 1)
      BY <2>3, AppendIs DEF LInv, LinkRight
    <3>4. Len(calls) + 1 <= Cardinality(Cmds)
      <4>1. 1..(Len(calls) + 1) \in SUBSET Cmds
        BY <3>3 DEF Numbered
      <4>2. Cardinality(1..(Len(calls) + 1)) <= Cardinality(Cmds)
        BY <4>1, FS_Subset
      <4>3. Cardinality(1..(Len(calls) + 1)) = Len(calls) + 1
        <5>1. 1 \in Int /\ Len(calls) + 1 \in Int /\ ~(1 > Len(calls) + 1)
          BY <3>3
        <5>2. Cardinality(1..(Len(calls) + 1)) = Len(calls) + 1 - 1 + 1
          BY <5>1, FS_Interval
        <5> QED BY <3>3, <5>2
      <4> QED BY <4>2, <4>3
    <3>5. Len(calls) < Cardinality(Cmds)
      BY <3>3, <3>4, FS_CardinalityType
    <3> QED BY <3>1, <3>2, <3>3, <3>5, TransportIs
  <2> QED BY <1>1, <1>6, <2>2, <2>3 DEF LinkCall
<1> QED BY <1>2, <1>3, <1>4, <1>5, <1>6 DEF LinkNext

\* So the link keeps the promise the layers above rely on: each command is executed at most
\* once and in the order of the calls, and a success has bytes of its own answer only, which
\* the SE has executed. The channel of Scp03 needs no more.
THEOREM LinkImplementsTransport ==
    NothingDamaged /\ CommandsFit /\ IsFiniteSet(Cmds) => (LinkSpec => ImplementsTransport)
<1>1. LinkInit => Transport!ApduInit
  <2> SUFFICES ASSUME LinkInit PROVE Transport!ApduInit
    OBVIOUS
  <2>1. Len(calls) = 0 /\ (op = "Transceive") = FALSE /\ Images = << >>
        /\ Outcome = [is |-> "not yet"]
    BY DEF LinkInit, Init, Images, Outcome
  <2> QED BY <2>1, TransportIs
<1>2. ASSUME IsFiniteSet(Cmds)
      PROVE  /\ LInv /\ Numbered /\ Numbered' /\ Locked /\ AnswerWhole' /\ [LinkNext]_linkVars
             => [Transport!ApduNext]_(Transport!apduVars)
  BY <1>2, TransportStep
<1>3. Locked => AnswerWhole
  BY DEF Locked
<1>4. CASE NothingDamaged /\ CommandsFit /\ IsFiniteSet(Cmds)
  <2>1. LInv /\ Numbered /\ Numbered' /\ Locked /\ AnswerWhole' /\ [LinkNext]_linkVars
        => [Transport!ApduNext]_(Transport!apduVars)
    BY <1>2, <1>4
  <2>2. NothingDamaged /\ CommandsFit
    BY <1>4
  <2> QED
    BY <1>1, <1>3, <2>1, <2>2, LockedInvariant, LinkInvariant, NumberedAlways, PTL
    DEF LinkSpec, ImplementsTransport, Transport!ApduSpec
<1> QED BY <1>4

-----------------------------------------------------------------------------
(***************************************************************************)
(* Losses made good.  When frames are only lost or late, or dropped with a *)
(* process that died, and no more of them than a limit of the code counts, *)
(* no limit is reached: each retry counter is paid for by a fault of its   *)
(* own (Mending), and what is counted in one exchange is not held against  *)
(* the next (CountersRest).  Sends and Useful add to lockstep what the     *)
(* host sends at each of its stages and that every frame under way can be  *)
(* used by its receiver, so that every exchange makes progress or is paid  *)
(* for.                                                                    *)
(***************************************************************************)

\* Faults only take frames away (lost, late, or dropped with a process that died), no
\* more of them than each kind of recovery makes good; the SE repeats its last R-frame when asked
\* for a block it has not, and asks for time less often than would make the host give up.
LossesOnly ==
    /\ Faults \subseteq {"lose", "late", "crash"}
    /\ MaxFaults <= FRAME_RETRY_COUNT /\ MaxFaults <= TIMEOUT_RETRY_COUNT /\ RNACK_LIMIT # 0
    /\ RepeatsRAck = {TRUE}
    /\ MaxWtx \in Nat /\ MaxWtx + MaxFaults < WTX_LIMIT

\* The caller's buffer has room for every answer.
AnswersFit == \A cmd \in Cmds : Len(Answer(cmd)) <= RSP_CAP

\* The host waits and nothing is on its way: a frame was lost.
Silent == pc = "recv" /\ toSE = None /\ toHost = None
Owed(due) == IF due THEN 1 ELSE 0

\* Each silence counted, and the one to be counted next, was a fault.
SilencesCounted ==
    /\ faults \in 0..MaxFaults /\ wtxs \in 0..MaxWtx /\ ~mute
    /\ timeoutCounter + Owed(Silent) <= faults

\* Neither an error nor a request for time nor a silence is counted: so a session
\* begins, and so it is between two commands.
NothingCounted == recoveryCounter = 0 /\ wtx_counter = 0 /\ rnack_retry_counter = 0
CountersRest ==
    /\ connected /\ pc = "idle" => NothingCounted
    /\ pc = "done" /\ status /\ op \in {"Open", "OpenAtr", "Transceive"} => NothingCounted
    /\ op = "Open" /\ pc \in {"wtxSync", "wtxRead", "wtxRsp", "clear"} => recoveryCounter = 0
    /\ op = "Open" /\ InLoop /\ nextTransceiveState = "SEND_S_RSYNC" =>
         /\ recoveryCounter = 0 \/ (seBusy /\ Asked("RESYNCH_REQ"))
         /\ pc = "recv" /\ toHost = S("WTX_REQ", << >>) => seBusy
    /\ op = "OpenAtr" /\ InLoop => recoveryCounter = 0

\* What is counted next: an error, a request for time.
Asking  == Silent \/ nextTransceiveState = "SEND_R_NACK"
TimeDue == seBusy /\ (Silent \/ toHost # None \/ nextTransceiveState = "SEND_R_NACK")

Filled(f) == f.sendDataLen # 0 /\ (f.isChained => f.totalDataLen # 0)

\* In lockstep the number the SE expects tells whether it waits for fragment f, has
\* it and waits for another, or has them all.
Waiting(f) == seExp = f.seqNo
HasOne(f)  == seExp # f.seqNo /\ f.isChained
HasAll(f)  == seExp # f.seqNo /\ ~f.isChained

\* What the host sends at each of these.
Sends(f) ==
    /\ nextTransceiveState # "SEND_R_NACK" => rnack_retry_counter = 0
    /\ nextTransceiveState = "SEND_IFRAME" =>
         IF pc = "send" THEN Waiting(f) ELSE lastSentNonErrorframeType = "IFRAME"
    /\ nextTransceiveState = "SEND_R_NACK" => HasAll(f) \/ lastSentNonErrorframeType = "IFRAME"
    /\ nextTransceiveState = "SEND_R_ACK" => HasAll(f) /\ ~seBusy
    /\ nextTransceiveState = "SEND_S_WTX_RSP" => HasAll(f) /\ (pc = "send" => seBusy)
    /\ HasAll(f) /\ ~seBusy /\ seSeq = lastRcvdSeqNo => nextTransceiveState = "SEND_R_ACK"
    /\ HasOne(f) => Acknowledges(seLast)

\* Every frame under way is one its receiver can use.
Useful(f) ==
    /\ toSE.kind = "I" => Waiting(f)
    /\ toSE.kind = "S" => seBusy
    /\ toSE.kind = "R" =>
         nextTransceiveState = IF Acknowledges(toSE) THEN "SEND_R_ACK" ELSE "SEND_R_NACK"
    /\ pc = "send" /\ toSE # None => nextTransceiveState \in {"SEND_R_ACK", "SEND_R_NACK"}
    /\ toHost.kind = "S" => seBusy
    /\ toHost.kind = "R" => Acknowledges(toHost) \/ (nextTransceiveState = "SEND_R_NACK" /\ Waiting(f))

Mending ==
    op = "Transceive" /\ InLoop =>
      /\ pRsp = "live" /\ nextTransceiveState # "SEND_S_INTF_RST"
      /\ Filled(NextTx.Iframe) /\ Sends(NextTx.Iframe) /\ Useful(NextTx.Iframe)
      /\ recoveryCounter + Owed(Asking) <= faults
      /\ wtx_counter + Owed(TimeDue) <= wtxs + faults

Mended == SilencesCounted /\ CountersRest /\ Mending /\ Repaired

-----------------------------------------------------------------------------
\* What lockstep says in the middle of a Transceive.
LEMMA Staged ==
    ASSUME LInv, Locked, Mending, op = "Transceive", InLoop, NEW f, f = NextTx.Iframe
    PROVE  /\ f \in IframeInfo /\ f.seqNo \in Bit /\ f.isChained \in BOOLEAN
           /\ f.p_data = Len(calls) /\ f.p_data \in Cmds
           /\ seExp \in Bit /\ seSeq \in Bit /\ lastRcvdSeqNo \in Bit
           /\ nextTransceiveState \in {"SEND_IFRAME", "SEND_R_ACK", "SEND_R_NACK", "SEND_S_WTX_RSP"}
           /\ Filled(f) /\ Sends(f) /\ Useful(f) /\ UnderWay(f) /\ Lockstep(f)
           /\ Waiting(f) => Wanted(f)
           /\ HasOne(f) => Taken(f)
           /\ HasAll(f) => Executed(f) /\ Answering(Answer(f.p_data))
<1>1. /\ f \in IframeInfo /\ f.seqNo \in Bit /\ f.isChained \in BOOLEAN
      /\ lastRcvdSeqNo \in Bit
  BY DEF LInv, IInv, TypeOK, TxCntx, IframeInfo
<1>2. seExp \in Bit /\ seSeq \in Bit
  BY DEF LInv, LinkRight, SeTyped
<1>3. f.p_data = Len(calls) /\ f.p_data \in Cmds
  BY OnCommandParts DEF LInv, LinkRight, FragmentRight
<1>4. /\ UnderWay(f) /\ Lockstep(f) /\ Filled(f) /\ Sends(f) /\ Useful(f)
      /\ nextTransceiveState \in {"SEND_IFRAME", "SEND_R_ACK", "SEND_R_NACK", "SEND_S_WTX_RSP"}
  BY DEF Mending, Locked, Talking
<1>5. Flip(f.seqNo) # f.seqNo
  BY <1>1, FlipBit
<1>6. /\ Waiting(f) => Wanted(f)
      /\ HasOne(f) => Taken(f)
      /\ HasAll(f) => Executed(f) /\ Answering(Answer(f.p_data))
  BY <1>4, <1>5 DEF Lockstep, Wanted, Taken, Executed, Waiting, HasOne, HasAll
<1> QED BY <1>1, <1>2, <1>3, <1>4, <1>6

\* An SE that is busy has the whole command; one that is not has sent a block it still
\* keeps, unless it waits for a fragment.
LEMMA StagedSe ==
    ASSUME LInv, Locked, Mending, op = "Transceive", InLoop, NEW f, f = NextTx.Iframe
    PROVE  /\ seBusy => HasAll(f) /\ seSeq = lastRcvdSeqNo
           /\ ~HasAll(f) => seSeq = lastRcvdSeqNo /\ seOut = << >>
           /\ HasAll(f) /\ ~seBusy /\ seSeq = lastRcvdSeqNo => seUnacked # None /\ seOut # << >>
           /\ HasAll(f) /\ ~seBusy => seUnacked # None
<1>1. Waiting(f) \/ HasOne(f) => Listening
  BY Staged DEF Wanted, Taken
<1>2. HasAll(f) => Answering(Answer(f.p_data))
  BY Staged
<1>3. lastRcvdSeqNo \in Bit /\ Flip(lastRcvdSeqNo) # lastRcvdSeqNo
  BY Staged, FlipBit
<1>4. Waiting(f) \/ HasOne(f) \/ HasAll(f)
  BY DEF Waiting, HasOne, HasAll
<1>5. HasAll(f) => /\ seBusy => seSeq = lastRcvdSeqNo
                   /\ ~seBusy => seUnacked # None
                   /\ ~seBusy /\ seSeq = lastRcvdSeqNo => seOut # << >>
  <2> PICK ans : ans = Answer(f.p_data)
    OBVIOUS
  <2>1. HasAll(f) => Answering(ans)
    BY <1>2, Zenon
  <2> QED BY <1>3, <2>1 DEF Answering, Working, Sending, Received
<1>6. ~HasAll(f) => ~seBusy /\ seSeq = lastRcvdSeqNo /\ seOut = << >>
  BY <1>1, <1>4 DEF Listening, Quiet
<1> QED BY <1>5, <1>6

\* A fragment reaches the SE: it is acknowledged, or the answer begins.
LEMMA SeIframeMends ==
    ASSUME LInv, Locked, Mending, op = "Transceive", InLoop, NEW f, f = NextTx.Iframe,
           toSE.kind = "I", SeIframe(toSE), toSE' = None, UNCHANGED vars
    PROVE  /\ Sends(f)' /\ Useful(f)' /\ toHost' # None
           /\ wtxs' = (IF seBusy' THEN wtxs + 1 ELSE wtxs)
<1> PICK i : i = toSE
  OBVIOUS
<1>1. /\ f.seqNo \in Bit /\ f.isChained \in BOOLEAN /\ Sends(f) /\ Useful(f) /\ Waiting(f)
      /\ seSeq = lastRcvdSeqNo /\ ~seBusy /\ f.p_data \in Cmds /\ UnderWay(f)
  BY Staged, StagedSe DEF Useful, Waiting, HasAll
<1>2. /\ i.seq = f.seqNo /\ i.more = f.isChained /\ i.cmd = f.p_data
  BY <1>1 DEF UnderWay
<1>3. /\ UNCHANGED <<lastRcvdSeqNo, nextTransceiveState, pc, rnack_retry_counter,
                     lastSentNonErrorframeType>>
      /\ toSE'.kind = "none"
  BY DEF vars, counters, None
<1>4. Flip(f.seqNo) # f.seqNo /\ seExp = f.seqNo /\ Flip(lastRcvdSeqNo) # lastRcvdSeqNo
  BY <1>1, Staged, FlipBit DEF Waiting
<1>5. /\ ~HasAll(f) /\ nextTransceiveState \in {"SEND_IFRAME", "SEND_R_NACK"}
      /\ nextTransceiveState = "SEND_R_NACK" => lastSentNonErrorframeType = "IFRAME"
      /\ nextTransceiveState = "SEND_IFRAME" => pc = "recv" /\ lastSentNonErrorframeType = "IFRAME"
  BY <1>1, Staged, Kinds DEF Sends, Useful, Waiting, HasAll, InLoop
<1>6. /\ seExp' = Flip(f.seqNo)
      /\ \/ /\ f.isChained /\ Reply(R(Flip(seExp), "NO_ERROR")) /\ UNCHANGED <<seBusy, wtxs>>
         \/ ~f.isChained /\ BeginAnswer(Answer(f.p_data))
  BY <1>1, <1>2, <1>4 DEF SeIframe
<1>7. CASE f.isChained /\ Reply(R(Flip(seExp), "NO_ERROR")) /\ UNCHANGED <<seBusy, wtxs>>
  <2>1. toHost'.kind = "R" /\ Acknowledges(toHost') /\ Acknowledges(seLast') /\ toHost' # None
    BY <1>7, Kinds DEF Reply, R, Acknowledges
  <2>2. Sends(f)'
    BY <1>1, <1>3, <1>4, <1>5, <1>6, <1>7, <2>1 DEF Sends, Waiting, HasOne, HasAll
  <2>3. Useful(f)'
    BY <1>1, <1>3, <2>1 DEF Useful, None
  <2> QED BY <1>1, <1>7, <2>1, <2>2, <2>3
<1>8. CASE ~f.isChained /\ BeginAnswer(Answer(f.p_data))
  <2>1. PICK ans : ans = Answer(f.p_data)
    OBVIOUS
  <2>2. ans # << >> /\ ans \in Seq(Carried)
    BY <1>1, <2>1, AnswersAssumption, Zenon DEF Carried
  <2>3. BeginAnswer(ans)
    BY <1>8, <2>1, Zenon
  <2>4. /\ \/ seBusy' /\ wtxs' = wtxs + 1 /\ toHost' = S("WTX_REQ", << >>)
           \/ ~seBusy' /\ wtxs' = wtxs /\ seSeq' = Flip(seSeq) /\ SendI(Flip(seSeq), ans)
    BY <2>3, Zenon DEF BeginAnswer, Reply, SendI
  <2>5. toHost' # None /\ toHost'.kind \in {"S", "I"} /\ (toHost'.kind = "S" => seBusy')
    BY <2>4, Kinds DEF SendI, Reply, S, I
  <2>6. Sends(f)'
    BY <1>1, <1>3, <1>4, <1>5, <1>6, <1>8, <2>4 DEF Sends, Waiting, HasOne, HasAll
  <2>7. Useful(f)'
    BY <1>1, <1>3, <2>5 DEF Useful, None
  <2> QED BY <2>4, <2>5, <2>6, <2>7
<1> QED BY <1>6, <1>7, <1>8

\* A question of the host: the SE asks for time again, sends the block the host has
\* not, or asks for the fragment it waits for.
LEMMA SeRframeMends ==
    ASSUME LossesOnly, LInv, Locked, Mending, op = "Transceive", InLoop,
           NEW f, f = NextTx.Iframe, toSE.kind = "R", SeRframe(toSE), toSE' = None, UNCHANGED vars
    PROVE  /\ Sends(f)' /\ Useful(f)' /\ toHost' # None
           /\ UNCHANGED <<wtxs, seBusy>> /\ (seBusy => nextTransceiveState = "SEND_R_NACK")
<1>1. /\ f.seqNo \in Bit /\ f.isChained \in BOOLEAN /\ Sends(f) /\ Useful(f) /\ UnderWay(f)
      /\ nextTransceiveState = IF Acknowledges(toSE) THEN "SEND_R_ACK" ELSE "SEND_R_NACK"
      /\ lastRcvdSeqNo \in Bit
  BY Staged DEF Useful
<1>2. /\ UNCHANGED <<lastRcvdSeqNo, nextTransceiveState, pc, rnack_retry_counter,
                     lastSentNonErrorframeType>>
      /\ toSE'.kind = "none" /\ UNCHANGED <<seExp, seBusy, wtxs>>
  BY DEF vars, counters, None, SeRframe
<1>3. Flip(lastRcvdSeqNo) # lastRcvdSeqNo /\ toSE.seq = Flip(lastRcvdSeqNo)
  BY <1>1, FlipBit DEF UnderWay
<1>4. /\ UNCHANGED <<Waiting(f), HasOne(f), HasAll(f)>>
      /\ Waiting(f) \/ HasOne(f) \/ HasAll(f)
  BY <1>2 DEF Waiting, HasOne, HasAll
<1>5. /\ seBusy => HasAll(f)
      /\ ~HasAll(f) => seSeq = lastRcvdSeqNo /\ seOut = << >>
      /\ HasAll(f) /\ ~seBusy => seUnacked # None
      /\ HasAll(f) /\ ~seBusy /\ seSeq = lastRcvdSeqNo =>
           seOut # << >> /\ nextTransceiveState = "SEND_R_ACK"
  BY <1>1, StagedSe DEF Sends
<1>6. CASE seBusy /\ Reply(S("WTX_REQ", << >>)) /\ UNCHANGED <<seSeq, seUnacked, seOut>>
  <2>1. toHost'.kind = "S" /\ toHost' # None
    BY <1>6, Kinds DEF Reply, S
  <2>2. nextTransceiveState = "SEND_R_NACK"
    BY <1>1, <1>6 DEF Sends
  <2>3. Sends(f)'
    BY <1>1, <1>2, <1>4, <1>5, <1>6, <2>2 DEF Sends, HasOne, HasAll
  <2>4. Useful(f)'
    BY <1>1, <1>2, <1>6, <2>1 DEF Useful, None
  <2> QED BY <1>2, <2>1, <2>2, <2>3, <2>4
<1>7. ASSUME ~seBusy, HasAll(f), seSeq' = Flip(lastRcvdSeqNo), toHost'.kind = "I"
      PROVE  Sends(f)' /\ Useful(f)' /\ toHost' # None
  <2>1. toHost' # None
    BY <1>7, Kinds
  <2>2. Sends(f)'
    BY <1>1, <1>2, <1>3, <1>4, <1>7 DEF Sends, HasOne, HasAll
  <2>3. Useful(f)'
    BY <1>1, <1>2, <1>7 DEF Useful, None
  <2> QED BY <2>1, <2>2, <2>3
<1>8. CASE ~seBusy /\ seUnacked # None /\ toSE.seq = seSeq /\ Reply(seUnacked) /\ UNCHANGED seSeq
  <2>1. HasAll(f)
    BY <1>3, <1>5, <1>8
  <2>2. toHost'.kind = "I"
    BY <1>8 DEF LInv, LinkRight, SeTyped, SeIframes, Reply
  <2> QED BY <1>2, <1>3, <1>7, <1>8, <2>1, <2>2
<1>9. CASE ~seBusy /\ seOut # << >> /\ SendI(toSE.seq, seOut)
  <2>1. HasAll(f) /\ toHost'.kind = "I" /\ seSeq' = toSE.seq
    BY <1>5, <1>9 DEF SendI, Reply, I
  <2> QED BY <1>2, <1>3, <1>7, <1>9, <2>1
<1>10. CASE /\ ~seBusy
            /\ ~(seUnacked # None /\ toSE.seq = seSeq)
            /\ ~(seUnacked # None /\ toSE.seq # seSeq /\ toSE.err = "NO_ERROR" /\ seOut # << >>)
            /\ \E repeats \in RepeatsRAck :
                 Reply(IF repeats /\ seLast.kind = "R" THEN seLast ELSE R(seExp, "OTHER_ERROR"))
            /\ UNCHANGED <<seSeq, seUnacked, seOut>>
  <2>1. ~HasAll(f)
    <3> SUFFICES ASSUME HasAll(f) PROVE FALSE
      OBVIOUS
    <3>1. seSeq = lastRcvdSeqNo
      <4>1. seSeq \in Bit /\ seSeq # Flip(lastRcvdSeqNo)
        BY <1>3, <1>5, <1>10, Staged
      <4> QED BY <1>1, <4>1 DEF Bit, Flip
    <3>2. toSE.err = "NO_ERROR"
      BY <1>1, <1>5, <1>10, <3>1 DEF Acknowledges
    <3> QED BY <1>3, <1>5, <1>10, <3>1, <3>2
  <2>2. nextTransceiveState = "SEND_R_NACK" /\ lastSentNonErrorframeType = "IFRAME"
    BY <1>1, <2>1 DEF Sends
  <2>3. Reply(IF seLast.kind = "R" THEN seLast ELSE R(seExp, "OTHER_ERROR"))
    BY <1>10 DEF LossesOnly
  <2>4. toHost' = seLast' /\ toHost'.kind = "R" /\ toHost' # None
    BY <2>3, Kinds DEF Reply, R
  <2>5. HasOne(f) => Acknowledges(seLast')
    BY <1>1, <2>3 DEF Sends, Reply, Acknowledges
  <2>6. Sends(f)'
    BY <1>1, <1>2, <1>4, <2>1, <2>2, <2>5 DEF Sends
  <2>7. Useful(f)'
    BY <1>1, <1>2, <1>4, <2>1, <2>2, <2>4, <2>5 DEF Useful, None
  <2> QED BY <1>2, <2>2, <2>4, <2>6, <2>7
<1> QED BY <1>6, <1>8, <1>9, <1>10, <1>2 DEF SeRframe

\* Time granted: the answer begins, or more time is asked for.
LEMMA SeSframeMends ==
    ASSUME LInv, Locked, Mending, op = "Transceive", InLoop, NEW f, f = NextTx.Iframe,
           toSE.kind = "S", SeSframe(toSE), toSE' = None, UNCHANGED vars
    PROVE  /\ Sends(f)' /\ Useful(f)' /\ toHost' # None
           /\ wtxs' = (IF seBusy' THEN wtxs + 1 ELSE wtxs)
<1>1. /\ f.seqNo \in Bit /\ f.isChained \in BOOLEAN /\ Sends(f) /\ Useful(f)
      /\ seSeq = lastRcvdSeqNo /\ seBusy /\ HasAll(f) /\ UnderWay(f) /\ lastRcvdSeqNo \in Bit
  BY Staged, StagedSe DEF Useful
<1>2. /\ UNCHANGED <<lastRcvdSeqNo, nextTransceiveState, pc, rnack_retry_counter,
                     lastSentNonErrorframeType>>
      /\ toSE'.kind = "none"
  BY DEF vars, counters, None
<1>3. Flip(lastRcvdSeqNo) # lastRcvdSeqNo
  BY <1>1, FlipBit
<1>4. BeginAnswer(seOut) /\ UNCHANGED seExp
  BY <1>1 DEF UnderWay, SeSframe
<1>5. /\ \/ seBusy' /\ wtxs' = wtxs + 1 /\ toHost' = S("WTX_REQ", << >>)
         \/ ~seBusy' /\ wtxs' = wtxs /\ seSeq' = Flip(seSeq) /\ toHost'.kind = "I"
  BY <1>4 DEF BeginAnswer, Reply, SendI, I
<1>6. toHost' # None /\ toHost'.kind \in {"S", "I"} /\ (toHost'.kind = "S" => seBusy')
  BY <1>5, Kinds DEF S
<1>7. HasAll(f)'
  BY <1>1, <1>4 DEF HasAll
<1>8. ~(pc = "send" /\ nextTransceiveState \in {"SEND_IFRAME", "SEND_S_WTX_RSP"})
      /\ nextTransceiveState # "SEND_R_ACK"
  BY <1>1, Kinds DEF Useful, Sends
<1>9. Sends(f)'
  BY <1>1, <1>2, <1>3, <1>5, <1>7, <1>8, Staged DEF Sends, HasOne, HasAll, InLoop
<1>10. Useful(f)'
  BY <1>1, <1>2, <1>6 DEF Useful, None
<1> QED BY <1>5, <1>6, <1>9, <1>10

\* Whatever the SE is asked it answers, and it asks for time within its limit.
LEMMA SeStepCounts ==
    ASSUME LossesOnly, LInv, Locked, SilencesCounted, SeStep
    PROVE  toHost' # None /\ SilencesCounted'
<1>1. /\ toSE # None /\ toHost = None /\ toSE' = None /\ SeTyped'
      /\ Answered(toSE) \/ UNCHANGED <<seLast, toHost>>
      /\ UNCHANGED <<vars, bounds, mute>>
  BY SeStepFacts DEF LInv, LinkRight, SeStep
<1>2. ~mute /\ toSE # Bad
  BY DEF SilencesCounted, Locked, Undamaged
<1>3. \/ toSE.kind = "I" /\ SeIframe(toSE)
      \/ toSE.kind = "R" /\ SeRframe(toSE)
      \/ toSE.kind = "S" /\ SeSframe(toSE)
  BY <1>2 DEF SeStep
<1>4. wtxs' = wtxs \/ (wtxs < MaxWtx /\ wtxs' = wtxs + 1)
  BY <1>3 DEF SeIframe, SeRframe, SeSframe, BeginAnswer
<1>5. SeTyped /\ (seUnacked # None => seUnacked.kind = "I")
  BY DEF LInv, LinkRight, SeTyped, SeIframes
<1>6. toHost' # None
  <2>1. ASSUME NEW ans, BeginAnswer(ans) PROVE toHost'.kind \in {"S", "I"}
    BY <2>1 DEF BeginAnswer, SendI, Reply, S, I
  <2>2. CASE SeIframe(toSE)
    BY <2>1, <2>2, Kinds DEF SeIframe, Reply, R
  <2>3. CASE SeRframe(toSE)
    BY <1>5, <2>3, Kinds DEF SeRframe, SendI, Reply, R, S, I
  <2>4. CASE SeSframe(toSE)
    BY <2>1, <2>4, Kinds DEF SeSframe, Reply, R, S
  <2> QED BY <1>3, <2>2, <2>3, <2>4
<1>7. wtxs' \in 0..MaxWtx
  BY <1>4 DEF SilencesCounted, LossesOnly
<1>8. UNCHANGED <<faults, timeoutCounter, pc>>
  BY <1>1 DEF bounds, vars, counters
<1> QED BY <1>1, <1>6, <1>7, <1>8 DEF SilencesCounted, Silent, Owed

\* In Open a busy SE stays busy, and an SE that was asked to resynchronise and is not
\* busy has nothing to ask for.
LEMMA SeStepRests ==
    ASSUME LInv, Locked, SilencesCounted, CountersRest, SeStep
    PROVE  CountersRest'
<1>1. /\ toSE # None /\ toHost = None /\ toSE' = None /\ ~mute
      /\ UNCHANGED <<pc, op, status, connected, nextTransceiveState, recoveryCounter, wtx_counter,
                     rnack_retry_counter>>
  BY SeStepFacts
  DEF LInv, LinkRight, SilencesCounted, vars, bounds, counters, control
<1>2. CASE op = "Open" /\ InLoop /\ nextTransceiveState = "SEND_S_RSYNC"
  <2>1. CASE toSE = [kind |-> "S", type |-> "RESYNCH_REQ"]
    <3>1. toSE.kind = "S" /\ toSE.type = "RESYNCH_REQ" /\ toSE # Bad
      BY <2>1, Kinds
    <3>2. SeSframe(toSE)
      BY <1>1, <3>1 DEF SeStep
    <3>3. \/ UNCHANGED seBusy /\ seBusy
          \/ ~seBusy /\ toHost'.type = "RESYNCH_RSP"
      BY <3>1, <3>2 DEF SeSframe, Reply, S, AnswerTo
    <3>4. S("WTX_REQ", << >>).type = "WTX_REQ"
      BY DEF S
    <3> QED BY <1>1, <1>2, <3>3, <3>4 DEF CountersRest, NothingCounted, Asked, InLoop
  <2>2. CASE toSE # [kind |-> "S", type |-> "RESYNCH_REQ"]
    <3>1. pc = "send" /\ recoveryCounter = 0
      BY <1>1, <1>2, <2>2
      DEF Locked, Opening, Resyncing, Asked, CountersRest, InLoop
    <3> QED BY <1>1, <1>2, <3>1 DEF CountersRest, NothingCounted, InLoop
  <2> QED BY <2>1, <2>2
<1>3. CASE ~(op = "Open" /\ InLoop /\ nextTransceiveState = "SEND_S_RSYNC")
  BY <1>1, <1>3 DEF CountersRest, NothingCounted, InLoop
<1> QED BY <1>2, <1>3

LEMMA SeStepMended ==
    ASSUME LossesOnly, LInv, Locked, Mended, SeStep
    PROVE  Mended'
<1>1. /\ toSE # None /\ toHost = None /\ toSE' = None /\ UNCHANGED <<vars, calls, faults>>
      /\ toSE # Bad /\ ~mute
  BY SeStepFacts DEF LInv, LinkRight, bounds, Locked, Undamaged, Mended, SilencesCounted
<1>2. SilencesCounted' /\ CountersRest' /\ toHost' # None
  BY SeStepCounts, SeStepRests DEF Mended
<1>3. Repaired'
  BY <1>1 DEF Mended, Repaired, vars, control, response
<1>4. Mending'
  <2> SUFFICES ASSUME op = "Transceive", InLoop PROVE Mending'
    BY <1>1 DEF Mending, InLoop, vars, control
  <2>1. PICK f : f = NextTx.Iframe
    OBVIOUS
  <2>2. f = NextTx'.Iframe
    BY <1>1, <2>1 DEF vars
  <2>3. /\ Sends(f)' /\ Useful(f)'
        /\ \/ wtxs' = wtxs + 1
           \/ wtxs' = wtxs /\ ~seBusy'
           \/ wtxs' = wtxs /\ seBusy /\ nextTransceiveState = "SEND_R_NACK"
    <3>1. CASE toSE.kind = "I" /\ SeIframe(toSE)
      <4>1. Sends(f)' /\ Useful(f)' /\ wtxs' = (IF seBusy' THEN wtxs + 1 ELSE wtxs)
        BY <1>1, <2>1, <3>1, SeIframeMends DEF Mended
      <4> QED BY <4>1
    <3>2. CASE toSE.kind = "R" /\ SeRframe(toSE)
      BY <1>1, <2>1, <3>2, SeRframeMends DEF Mended
    <3>3. CASE toSE.kind = "S" /\ SeSframe(toSE)
      <4>1. Sends(f)' /\ Useful(f)' /\ wtxs' = (IF seBusy' THEN wtxs + 1 ELSE wtxs)
        BY <1>1, <2>1, <3>3, SeSframeMends DEF Mended
      <4> QED BY <4>1
    <3> QED BY <1>1, <3>1, <3>2, <3>3 DEF SeStep
  <2>4. Sends(NextTx.Iframe)' /\ Useful(NextTx.Iframe)'
    BY <2>2, <2>3, Zenon
  <2>5. /\ pRsp' = "live" /\ nextTransceiveState' # "SEND_S_INTF_RST" /\ Filled(NextTx.Iframe)'
    BY <1>1 DEF Mended, Mending, Filled, vars, response
  <2>6. /\ faults \in Nat /\ wtxs \in Nat /\ recoveryCounter \in Nat /\ wtx_counter \in Nat
        /\ UNCHANGED <<faults, recoveryCounter, wtx_counter, nextTransceiveState, pc>>
    BY <1>1, FaultsAssumption DEF Mended, SilencesCounted, LossesOnly, LInv, IInv, TypeOK, vars, counters
  <2>7. recoveryCounter + Owed(Asking) <= faults /\ wtx_counter + Owed(TimeDue) <= wtxs + faults
    BY DEF Mended, Mending
  <2>8. recoveryCounter' + Owed(Asking)' <= faults'
    BY <1>1, <1>2, <2>6, <2>7 DEF Owed, Asking, Silent
  <2>9. wtx_counter' + Owed(TimeDue)' <= wtxs' + faults'
    BY <1>1, <1>2, <2>3, <2>6, <2>7 DEF Owed, TimeDue, Silent
  <2> QED BY <2>4, <2>5, <2>8, <2>9 DEF Mending
<1> QED BY <1>2, <1>3, <1>4 DEF Mended

\* A frame is lost: one fault more, and one silence more to come.
LEMMA FaultMended ==
    ASSUME LossesOnly, LInv, Locked, Mended, BusFault \/ SePowerLoss \/ SeGoesMute
    PROVE  Mended'
<1>1. /\ faults < MaxFaults /\ faults' = faults + 1
      /\ toSE' \in {toSE, None} /\ toHost' \in {toHost, None}
      /\ UNCHANGED <<vars, seVars, connected, calls, opens>>
  BY DEF LossesOnly, Fault, BusFault, SePowerLoss, SeGoesMute
<1>2. /\ faults \in 0..MaxFaults /\ MaxFaults \in Nat /\ wtxs \in 0..MaxWtx /\ MaxWtx \in Nat /\ ~mute
      /\ recoveryCounter \in Nat /\ wtx_counter \in Nat /\ timeoutCounter \in Nat
  BY FaultsAssumption DEF Mended, SilencesCounted, LossesOnly, LInv, IInv, TypeOK
<1>3. /\ UNCHANGED <<pc, op, status, nextTransceiveState, NextTx, lastRcvdSeqNo, rspData, pRsp,
                     recoveryCounter, wtx_counter, timeoutCounter, rnack_retry_counter,
                     lastSentNonErrorframeType>>
      /\ UNCHANGED <<seExp, seSeq, seLast, seBusy, wtxs, mute>>
  BY <1>1 DEF vars, counters, control, response, seVars
<1>4. SilencesCounted'
  BY <1>1, <1>2, <1>3 DEF Mended, SilencesCounted, Silent, Owed
<1>5. CountersRest'
  <2>1. toHost' = S("WTX_REQ", << >>) => toHost' = toHost
    BY <1>1, Kinds DEF S
  <2> QED BY <1>1, <1>3, <2>1 DEF Mended, CountersRest, NothingCounted, InLoop, Asked
<1>6. Repaired'
  BY <1>1, <1>3 DEF Mended, Repaired
<1>7. Mending'
  <2> SUFFICES ASSUME op = "Transceive", InLoop PROVE Mending'
    BY <1>3 DEF Mending, InLoop
  <2>1. PICK f : f = NextTx.Iframe
    OBVIOUS
  <2>2. f = NextTx'.Iframe
    BY <1>3, <2>1
  <2>3. Filled(f) /\ Sends(f) /\ Useful(f)
    BY <2>1, Staged DEF Mended
  <2>4. Sends(f)'
    BY <1>3, <2>3 DEF Sends, Waiting, HasOne, HasAll
  <2>5. Useful(f)'
    BY <1>1, <1>3, <2>3, Kinds DEF Useful, Waiting
  <2>6. Filled(NextTx.Iframe)' /\ Sends(NextTx.Iframe)' /\ Useful(NextTx.Iframe)'
    BY <2>2, <2>3, <2>4, <2>5, Zenon DEF Filled
  <2>7. recoveryCounter + Owed(Asking) <= faults /\ wtx_counter + Owed(TimeDue) <= wtxs + faults
    BY DEF Mended, Mending
  <2>8. recoveryCounter' + Owed(Asking)' <= faults' /\ wtx_counter' + Owed(TimeDue)' <= wtxs' + faults'
    BY <1>1, <1>2, <1>3, <2>7 DEF Owed
  <2> QED BY <1>3, <2>6, <2>8 DEF Mended, Mending
<1> QED BY <1>4, <1>5, <1>6, <1>7 DEF Mended

LEMMA HostCrashMended == ASSUME LossesOnly, LInv, Locked, Mended, HostCrash PROVE Mended'
<1>1. /\ faults < MaxFaults /\ faults' = faults + 1 /\ connected' = FALSE
      /\ pc' = "idle" /\ op' = "none" /\ timeoutCounter' = 0 /\ UNCHANGED <<wtxs, mute>>
  BY DEF HostCrash, Fault, Restart, ResetProtoParams, seVars
<1>2. /\ faults \in 0..MaxFaults /\ MaxFaults \in Nat /\ wtxs \in 0..MaxWtx /\ ~mute
  BY FaultsAssumption DEF Mended, SilencesCounted
<1>3. SilencesCounted'
  BY <1>1, <1>2 DEF SilencesCounted, Silent, Owed
<1> QED BY <1>1, <1>3 DEF Mended, CountersRest, Mending, Repaired, InLoop

LEMMA StutterMended == ASSUME LInv, Locked, Mended, UNCHANGED linkVars PROVE Mended'
<1>1. /\ UNCHANGED <<faults, connected, calls, toSE, toHost>>
      /\ UNCHANGED <<pc, op, status, nextTransceiveState, NextTx, lastRcvdSeqNo, rspData, pRsp,
                     recoveryCounter, wtx_counter, timeoutCounter, rnack_retry_counter,
                     lastSentNonErrorframeType>>
      /\ UNCHANGED <<seExp, seSeq, seLast, seBusy, wtxs, mute>>
  BY DEF linkVars, vars, counters, control, response, seVars, bus, bounds
<1>2. SilencesCounted' /\ CountersRest' /\ Repaired'
  BY <1>1
  DEF Mended, SilencesCounted, Silent, CountersRest, NothingCounted, InLoop, Asked, Repaired
<1>3. Mending'
  BY <1>1
  DEF Mended, Mending, InLoop, Filled, Sends, Useful, Waiting, HasOne, HasAll, Asking, TimeDue, Silent
<1> QED BY <1>2, <1>3 DEF Mended

\* What the host sends is what the SE can use, and a write never fails.
LEMMA LinkSendMended ==
    ASSUME LossesOnly, LInv, Locked, Mended, LinkSend, UNCHANGED <<connected, calls, opens, seVars>>
    PROVE  Mended'
<1>1. SendOk /\ Put(TxFrame) /\ UNCHANGED faults
  <2>1. ~(SendFails /\ EmptyIframe)
    <3> SUFFICES ASSUME SendFails, EmptyIframe PROVE FALSE
      OBVIOUS
    <3>1. pc = "send" /\ nextTransceiveState = "SEND_IFRAME" /\ NextTx.Iframe.sendDataLen = 0
      BY DEF SendFails, EmptyIframe
    <3>2. op = "Transceive"
      BY <3>1 DEF LInv, LinkRight, OffCommand, InLoop
    <3> QED BY <3>1, <3>2 DEF Mended, Mending, Filled, InLoop
  <2> QED BY <2>1 DEF LinkSend, LossesOnly, Fault
<1>2. /\ pc = "send" /\ pc' = "recv" /\ NoteSent
      /\ UNCHANGED <<NextTx, lastRcvdSeqNo, rspData, pRsp, nextTransceiveState, op, recoveryCounter,
                     timeoutCounter, wtx_counter, rnack_retry_counter>>
      /\ toSE = None /\ toSE' = TxFrame /\ toHost' = None
      /\ UNCHANGED <<seExp, seSeq, seLast, seBusy, wtxs, mute, faults, connected>>
  BY <1>1 DEF SendOk, Put, response, counters, control, seVars
<1>3. /\ nextTransceiveState \in SendStates /\ InLoop /\ InLoop' /\ TxFrame # None
      /\ Coded(nextTransceiveState, NextTx)
  BY <1>2, TxFrameIs, Kinds DEF LInv, IInv, Sendable, InLoop
<1>4. SilencesCounted'
  BY <1>2, <1>3 DEF Mended, SilencesCounted, Silent, Owed
<1>5. CountersRest'
  <2>1. nextTransceiveState = "SEND_S_RSYNC" => TxFrame = [kind |-> "S", type |-> "RESYNCH_REQ"]
    BY <1>3, TxFrameOf DEF SFrameOf
  <2>2. None # S("WTX_REQ", << >>)
    BY Kinds DEF S
  <2> QED BY <1>2, <1>3, <2>1, <2>2 DEF Mended, CountersRest, NothingCounted, Asked
<1>6. Repaired'
  BY <1>2 DEF Repaired
<1>7. Mending'
  <2> SUFFICES ASSUME op = "Transceive" PROVE Mending'
    BY <1>2 DEF Mending
  <2>1. PICK f : f = NextTx.Iframe
    OBVIOUS
  <2>2. f = NextTx'.Iframe
    BY <1>2, <2>1
  <2>3. /\ Filled(f) /\ Sends(f) /\ Useful(f)
        /\ nextTransceiveState \in {"SEND_IFRAME", "SEND_R_ACK", "SEND_R_NACK", "SEND_S_WTX_RSP"}
    BY <1>3, <2>1, Staged DEF Mended
  <2>4. lastSentNonErrorframeType' = IF nextTransceiveState = "SEND_IFRAME" THEN "IFRAME"
                                     ELSE IF nextTransceiveState = "SEND_R_NACK"
                                     THEN lastSentNonErrorframeType
                                     ELSE lastSentNonErrorframeType'
    BY <1>2 DEF NoteSent
  <2>5. Sends(f)'
    BY <1>2, <2>3, <2>4 DEF Sends, Waiting, HasOne, HasAll
  <2>6. /\ nextTransceiveState = "SEND_IFRAME" => TxFrame.kind = "I"
        /\ nextTransceiveState = "SEND_S_WTX_RSP" => TxFrame.kind = "S"
        /\ nextTransceiveState = "SEND_R_ACK" => TxFrame.kind = "R" /\ Acknowledges(TxFrame)
        /\ nextTransceiveState = "SEND_R_NACK" => TxFrame.kind = "R" /\ ~Acknowledges(TxFrame)
    BY <1>3 DEF TxFrame, Acknowledges, Coded
  <2>7. Useful(f)'
    BY <1>2, <2>3, <2>6, Kinds DEF Useful, Sends, Waiting
  <2>8. Filled(NextTx.Iframe)' /\ Sends(NextTx.Iframe)' /\ Useful(NextTx.Iframe)'
    BY <2>2, <2>3, <2>5, <2>7, Zenon DEF Filled
  <2>9. recoveryCounter + Owed(Asking) <= faults /\ wtx_counter + Owed(TimeDue) <= wtxs + faults
    BY <1>3 DEF Mended, Mending
  <2>10. Owed(Asking)' <= Owed(Asking) /\ Owed(TimeDue)' <= Owed(TimeDue)
    BY <1>2, <1>3 DEF Owed, Asking, TimeDue, Silent
  <2>11. /\ recoveryCounter \in Nat /\ wtx_counter \in Nat /\ faults \in Nat /\ wtxs \in Nat
         /\ Owed(Asking) \in {0, 1} /\ Owed(TimeDue) \in {0, 1}
         /\ Owed(Asking)' \in {0, 1} /\ Owed(TimeDue)' \in {0, 1}
    BY FaultsAssumption DEF Mended, SilencesCounted, LInv, IInv, TypeOK, Owed
  <2>12. recoveryCounter' + Owed(Asking)' <= faults' /\ wtx_counter' + Owed(TimeDue)' <= wtxs' + faults'
    BY <1>2, <2>9, <2>10, <2>11
  <2> QED BY <1>2, <1>3, <2>8, <2>12 DEF Mended, Mending
<1> QED BY <1>4, <1>5, <1>6, <1>7 DEF Mended

\* The raw reads and writes of Open count nothing.
LEMMA LinkWaitMended ==
    ASSUME LossesOnly, LInv, Locked, Mended, LinkWait, UNCHANGED <<connected, calls, opens, seVars>>
    PROVE  Mended'
<1>1. /\ UNCHANGED <<recoveryCounter, timeoutCounter, op>>
      /\ pc \in {"wtxSync", "wtxRead", "wtxRsp", "clear"}
      /\ pc' \in {"wtxRead", "wtxRsp", "clear", "send"}
      /\ faults' = faults \/ (faults < MaxFaults /\ faults' = faults + 1)
      /\ UNCHANGED <<wtxs, mute, seBusy>>
  BY DEF LinkWait, WtxSend, WtxRead, WtxReadFails, ClearThenRSync, SendS, WtxVars, counters, Fault,
         seVars
<1>2. op = "Open" /\ recoveryCounter = 0
  BY <1>1 DEF LInv, LinkRight, WaitsInOpen, Mended, CountersRest
<1>3. /\ faults \in 0..MaxFaults /\ MaxFaults \in Nat /\ timeoutCounter \in Nat
  BY FaultsAssumption DEF Mended, SilencesCounted, LInv, IInv, TypeOK
<1>4. SilencesCounted'
  BY <1>1, <1>3 DEF Mended, SilencesCounted, Silent, Owed
<1> QED BY <1>1, <1>2, <1>4 DEF Mended, CountersRest, Mending, Repaired, InLoop

LEMMA OpenThenAtrMended ==
    ASSUME LInv, Locked, Mended, OpenThenAtr, UNCHANGED <<bus, bounds, seVars>>
    PROVE  Mended'
<1>1. /\ op = "Open" /\ pc = "done" /\ status /\ op' = "OpenAtr" /\ pc' = "send"
      /\ UNCHANGED <<recoveryCounter, timeoutCounter, faults, wtxs, mute, connected>>
  BY DEF OpenThenAtr, SendS, counters, bounds, seVars
<1>2. SilencesCounted'
  BY <1>1 DEF Mended, SilencesCounted, Silent, Owed
<1> QED BY <1>1, <1>2 DEF Mended, CountersRest, NothingCounted, Mending, Repaired, InLoop

LEMMA LinkReturnMended ==
    ASSUME LInv, Locked, Mended, LinkReturn, UNCHANGED seVars
    PROVE  Mended'
<1>1. /\ pc = "done" /\ pc' = "idle" /\ op' = "none"
      /\ UNCHANGED <<recoveryCounter, timeoutCounter, wtx_counter, rnack_retry_counter, faults, wtxs,
                     mute>>
      /\ connected' = CASE op = "OpenAtr" -> status
                        [] op = "Transceive" -> status /\ rspData # << >>
                        [] OTHER -> FALSE
  BY DEF LinkReturn, Return, counters, seVars
<1>2. connected' => NothingCounted
  BY <1>1 DEF Mended, CountersRest
<1>3. SilencesCounted'
  BY <1>1 DEF Mended, SilencesCounted, Silent, Owed
<1> QED BY <1>1, <1>2, <1>3 DEF Mended, CountersRest, NothingCounted, Mending, Repaired, InLoop

\* A command begins with everything at rest, and with a fragment for an SE that waits.
LEMMA TransceiveMended ==
    ASSUME LInv, Locked, Mended, NEW len \in CmdLens, connected,
           Transceive(Len(calls) + 1, len), UNCHANGED <<seVars, toSE, toHost, faults, connected>>
    PROVE  Mended'
<1>1. /\ pc = "idle" /\ op' = "Transceive" /\ pc' = "send" /\ pRsp' = "live"
      /\ nextTransceiveState' = "SEND_IFRAME"
      /\ UNCHANGED <<lastRcvdSeqNo, recoveryCounter, timeoutCounter, wtx_counter, rnack_retry_counter>>
      /\ UNCHANGED <<seExp, seSeq, seLast, seBusy, wtxs, mute>>
  BY DEF Transceive, Begin, FreshResponse, counters, seVars
<1>2. Ready /\ NothingCounted
  BY <1>1 DEF Locked, Rested, Mended, CountersRest
<1>3. PICK f : f = NextTx'.Iframe
  OBVIOUS
<1>4. /\ f.seqNo = Flip(LastTx.Iframe.seqNo)
      /\ f.isChained = (len > IFSC) /\ f.sendDataLen = IF len > IFSC THEN IFSC ELSE len
      /\ f.totalDataLen = IF len > IFSC THEN len - IFSC ELSE len
  BY <1>3 DEF Transceive, LInv, IInv, TypeOK, TxCntx
<1>5. Filled(f)
  BY <1>4, DataAssumption DEF Filled
<1>6. Waiting(f)'
  BY <1>1, <1>2, <1>4 DEF Ready, Waiting
<1>7. Sends(f)'
  BY <1>1, <1>2, <1>6 DEF Sends, NothingCounted, Waiting, HasOne, HasAll
<1>8. Useful(f)'
  BY <1>2, Kinds DEF Useful, Ready
<1>9. Filled(NextTx.Iframe)' /\ Sends(NextTx.Iframe)' /\ Useful(NextTx.Iframe)'
  BY <1>3, <1>5, <1>7, <1>8, Zenon DEF Filled
<1>10. /\ recoveryCounter' + Owed(Asking)' <= faults' /\ wtx_counter' + Owed(TimeDue)' <= wtxs' + faults'
  <2>1. ~Asking' /\ ~TimeDue'
    BY <1>1, <1>2 DEF Asking, TimeDue, Silent, Ready
  <2>2. /\ recoveryCounter = 0 /\ wtx_counter = 0 /\ faults \in Nat /\ wtxs \in Nat
        /\ UNCHANGED <<recoveryCounter, wtx_counter, faults, wtxs>>
    BY <1>1, <1>2, FaultsAssumption DEF NothingCounted, Mended, SilencesCounted
  <2> QED BY <2>1, <2>2 DEF Owed
<1>11. SilencesCounted'
  BY <1>1 DEF Mended, SilencesCounted, Silent, Owed
<1> QED BY <1>1, <1>9, <1>10, <1>11 DEF Mended, CountersRest, Mending, Repaired, InLoop

LEMMA LinkCallMended ==
    ASSUME LInv, Locked, Mended, LinkCall, UNCHANGED <<seVars, bus, faults>>
    PROVE  Mended'
<1>1. UNCHANGED <<toSE, toHost, seBusy, wtxs, mute>>
  BY DEF bus, seVars
<1>2. ASSUME Open \/ Close PROVE Mended'
  <2>1. /\ pc' \in {"wtxSync", "send"} /\ op' \in {"Open", "Close"} /\ recoveryCounter' = 0
        /\ op' = "Open" => pc' = "wtxSync"
        /\ timeoutCounter' \in {0, timeoutCounter} /\ pc = "idle"
    BY <1>2 DEF Open, Close, Begin, SendS, ResetProtoParams
  <2>2. timeoutCounter \in Nat /\ faults \in Nat
    BY FaultsAssumption DEF LInv, IInv, TypeOK, Mended, SilencesCounted
  <2>3. SilencesCounted'
    <3>1. ~Silent /\ ~Silent'
      BY <2>1 DEF Silent
    <3>2. timeoutCounter <= faults
      BY <2>2, <3>1 DEF Mended, SilencesCounted, Owed
    <3>3. timeoutCounter' <= faults /\ UNCHANGED faults
      BY <2>1, <2>2, <3>2
    <3>4. CASE timeoutCounter' = 0
      BY <1>1, <2>2, <3>1, <3>3, <3>4 DEF Mended, SilencesCounted, Owed
    <3>5. CASE timeoutCounter' = timeoutCounter
      BY <1>1, <2>2, <3>1, <3>3, <3>5 DEF Mended, SilencesCounted, Owed
    <3> QED BY <2>1, <3>4, <3>5
  <2>4. CountersRest'
    BY <2>1 DEF CountersRest, InLoop
  <2>5. Mending' /\ Repaired'
    BY <2>1 DEF Mending, Repaired
  <2> QED BY <2>3, <2>4, <2>5 DEF Mended
<1>3. ASSUME connected, NEW len \in CmdLens, Transceive(Len(calls) + 1, len), UNCHANGED connected
      PROVE  Mended'
  BY <1>1, <1>3, TransceiveMended
<1> QED BY <1>2, <1>3 DEF LinkCall

\* An answer that does not come is one silence less to come, or one fault more: either
\* way the faults cover what is counted, this silence too.
LEMMA SilenceIsAFault ==
    ASSUME LossesOnly, LInv, Mended, LinkReceive, UNCHANGED <<connected, calls, seVars>>,
           toHost = None, ReadFails
    PROVE  \E n \in Nat :
             /\ faults' = n /\ n <= MaxFaults /\ timeoutCounter < n
             /\ op = "Transceive" => /\ recoveryCounter < n
                                     /\ seBusy => wtx_counter < wtxs + n
                                     /\ wtx_counter <= wtxs + n
<1>1. pc = "recv" /\ InLoop
  BY AwaitsAndLoops
<1>2. \/ toSE = None /\ faults' = faults
      \/ toSE # None /\ faults < MaxFaults /\ faults' = faults + 1
  BY Kinds DEF LinkReceive, Fault
<1>3. /\ faults \in Nat /\ MaxFaults \in Nat /\ faults <= MaxFaults /\ timeoutCounter \in Nat
      /\ recoveryCounter \in Nat /\ wtx_counter \in Nat /\ wtxs \in Nat
  BY FaultsAssumption DEF Mended, SilencesCounted, LInv, IInv, TypeOK
<1>4. /\ timeoutCounter + Owed(Silent) <= faults
      /\ op = "Transceive" => recoveryCounter + Owed(Asking) <= faults
                              /\ wtx_counter + Owed(TimeDue) <= wtxs + faults
  BY <1>1 DEF Mended, SilencesCounted, Mending
<1>5. CASE toSE = None /\ faults' = faults
  <2>1. timeoutCounter < faults
    BY <1>1, <1>3, <1>4, <1>5 DEF Owed, Silent
  <2>2. op = "Transceive" => recoveryCounter < faults
    BY <1>1, <1>3, <1>4, <1>5 DEF Owed, Asking, Silent
  <2>3. op = "Transceive" => (seBusy => wtx_counter < wtxs + faults) /\ wtx_counter <= wtxs + faults
    BY <1>1, <1>3, <1>4, <1>5 DEF Owed, TimeDue, Silent
  <2> QED BY <1>3, <1>5, <2>1, <2>2, <2>3
<1>6. CASE faults < MaxFaults /\ faults' = faults + 1
  <2>1. timeoutCounter <= faults
    BY <1>3, <1>4 DEF Owed
  <2>2. op = "Transceive" => recoveryCounter <= faults /\ wtx_counter <= wtxs + faults
    BY <1>3, <1>4 DEF Owed
  <2>3. PICK n \in Nat : n = faults + 1
    BY <1>3
  <2> QED BY <1>3, <1>6, <2>1, <2>2, <2>3
<1> QED BY <1>2, <1>5, <1>6

\* What a receipt leaves of the silences counted.
LEMMA LinkReceiveCounts ==
    ASSUME LossesOnly, LInv, Locked, Mended, LinkReceive, UNCHANGED <<connected, calls, seVars>>
    PROVE  SilencesCounted'
<1>1. /\ pc' # "recv" /\ wtxs' = wtxs /\ mute' = mute
  BY AwaitsAndLoops DEF seVars
<1>2. wtxs \in 0..MaxWtx /\ ~mute /\ faults \in 0..MaxFaults /\ MaxFaults \in Nat
      /\ timeoutCounter \in Nat
  BY FaultsAssumption DEF Mended, SilencesCounted, LInv, IInv, TypeOK
<1>3. CASE toHost = None /\ ReadFails
  <2>1. PICK n \in Nat : faults' = n /\ n <= MaxFaults /\ timeoutCounter < n
    BY <1>3, SilenceIsAFault
  <2>2. timeoutCounter' \in {timeoutCounter, timeoutCounter + 1, 0}
    BY <1>3 DEF ReadFails, SendAgain
  <2>3. PICK t \in {timeoutCounter, timeoutCounter + 1, 0} : t = timeoutCounter'
    BY <2>2
  <2>4. t \in Nat /\ t <= n
    BY <1>2, <2>1
  <2>5. ~Silent'
    BY <1>1 DEF Silent
  <2>6. t + (IF Silent' THEN 1 ELSE 0) <= n /\ n \in 0..MaxFaults
    BY <1>2, <2>1, <2>4, <2>5
  <2>7. timeoutCounter' + Owed(Silent)' <= faults' /\ faults' \in 0..MaxFaults
    BY <2>1, <2>3, <2>6 DEF Owed
  <2> QED BY <1>1, <1>2, <2>7 DEF SilencesCounted
<1>4. CASE toHost # None
  <2>1. timeoutCounter' = 0 /\ faults' = faults
    BY <1>4, ReadsWhatWasSent
    DEF LinkReceive, RecvIframe, RecvRframe, RecvRAck, RecvRNack, RecvRSofMissed, RecvSframe,
        RecvWtxReq, RecvIntfResetRsp, RecvUnknownSframe, RecvSRsp, FrameOk, BadCrc
  <2>2. ~Silent'
    BY <1>1 DEF Silent
  <2> QED BY <1>1, <1>2, <2>1, <2>2 DEF SilencesCounted, Owed
<1> QED BY <1>3, <1>4, ReadsWhatWasSent

\* Open: a busy SE is asked again, and one that has resynchronised asked for no time.
LEMMA OpenReceivedRests ==
    ASSUME LInv, Locked, Mended, LinkReceive, UNCHANGED <<connected, calls, seVars>>, op = "Open"
    PROVE  CountersRest'
<1>1. /\ pc = "recv" /\ InLoop /\ pc' \in {"send", "done"} /\ op' = "Open"
      /\ UNCHANGED <<toSE, seBusy>> /\ toHost' = None
  BY AwaitsAndLoops DEF seVars
<1>2. nextTransceiveState \in {"SEND_S_RSYNC", "SEND_S_INTF_RST"}
  BY <1>1 DEF Locked, Opening
<1>3. CASE toHost = None /\ ReadFails
  <2>1. ~status' /\ UNCHANGED recoveryCounter /\ (pc' = "send" => UNCHANGED nextTransceiveState)
    BY <1>1, <1>2, <1>3, SilenceRepeats DEF SFrameOf
  <2> QED BY <1>1, <2>1 DEF Mended, CountersRest, Asked, InLoop
<1>4. CASE toHost # None /\ nextTransceiveState = "SEND_S_INTF_RST"
  <2>1. toHost = S("INTF_RESET_RSP", Atr)
    BY <1>1, <1>4 DEF Locked, Resetting
  <2>2. RecvIntfResetRsp(Atr)
    BY <1>4, <2>1, ReadsWhatWasSent DEF RecvSframe, S
  <2>3. pc' = "done" /\ (status' => NothingCounted')
    BY <2>2 DEF RecvIntfResetRsp, Loop, NothingCounted
  <2> QED BY <1>1, <2>3 DEF CountersRest, InLoop
<1>5. CASE toHost # None /\ nextTransceiveState = "SEND_S_RSYNC"
  <2>1. /\ toHost = S("WTX_REQ", << >>) \/ (toHost = S("RESYNCH_RSP", << >>) /\ ~seBusy)
        /\ toSE = None
    BY <1>1, <1>5 DEF Locked, Opening, Resyncing, SeAnew, LInv, LinkRight, HalfDuplex
  <2>2. /\ recoveryCounter = 0 \/ seBusy
        /\ toHost = S("WTX_REQ", << >>) => seBusy
    BY <1>1, <1>5 DEF Mended, CountersRest
  <2>3. CASE toHost = S("WTX_REQ", << >>)
    <3>1. RecvWtxReq
      BY <1>5, <2>3, ReadsWhatWasSent DEF RecvSframe, S
    <3>2. /\ LastTx.FrameType = "SFRAME" /\ LastTx.sFrameType = "RESYNCH_REQ" /\ TypeOK /\ Unspent
      BY <1>1, <1>5
      DEF LInv, IInv, AwaitsForLast, Sendable, Matches, SFrameOf, Locked, Opening, Resyncing
    <3>3. ErrorRecovery(LastTx, nextTransceiveState) /\ Loop
      BY <3>1, <3>2 DEF RecvWtxReq
    <3>4. pc' = "send"
      BY <1>5, <3>2, <3>3, RecoversOnce
    <3> QED BY <1>1, <2>1, <2>2, <2>3, <3>4 DEF CountersRest, Asked, InLoop
  <2>4. CASE toHost = S("RESYNCH_RSP", << >>) /\ ~seBusy
    <3>1. RecvSRsp("RESYNCH_RSP", << >>)
      BY <1>5, <2>4, ReadsWhatWasSent DEF RecvSframe, S
    <3>2. pc' = "done" /\ NothingCounted'
      BY <2>2, <2>4, <3>1 DEF RecvSRsp, FrameOk, Loop, NothingCounted
    <3> QED BY <1>1, <3>2 DEF CountersRest, InLoop
  <2> QED BY <2>1, <2>3, <2>4
<1> QED BY <1>2, <1>3, <1>4, <1>5, ReadsWhatWasSent

\* The ATR, or silence.
LEMMA AtrReceivedRests ==
    ASSUME LInv, Locked, Mended, LinkReceive, UNCHANGED <<connected, calls, seVars>>, op = "OpenAtr"
    PROVE  CountersRest'
<1>1. /\ pc = "recv" /\ InLoop /\ pc' \in {"send", "done"} /\ op' = "OpenAtr"
  BY AwaitsAndLoops
<1>2. nextTransceiveState = "SEND_S_ATR" /\ (toHost # None => toHost = S("ATR_RES", Atr))
      /\ recoveryCounter = 0
  BY <1>1 DEF Locked, Greeting, Mended, CountersRest
<1>3. CASE toHost = None /\ ReadFails
  <2>1. ~status' /\ UNCHANGED recoveryCounter
    BY <1>1, <1>2, <1>3, SilenceRepeats DEF SFrameOf
  <2> QED BY <1>1, <1>2, <2>1 DEF CountersRest, InLoop
<1>4. CASE toHost # None
  <2>1. RecvSRsp("ATR_RES", Atr)
    BY <1>2, <1>4, ReadsWhatWasSent DEF RecvSframe, S, SRsps
  <2>2. pc' = "done" /\ NothingCounted'
    BY <1>2, <2>1 DEF RecvSRsp, FrameOk, Loop, NothingCounted
  <2> QED BY <1>1, <2>2 DEF CountersRest, InLoop
<1> QED BY <1>3, <1>4, ReadsWhatWasSent

LEMMA OwedFits ==
    /\ \A x, y \in Nat : x + y \in Nat
    /\ \A x, y \in Nat, due \in BOOLEAN : x <= y /\ (due => x < y) => x + Owed(due) <= y
<1> SUFFICES ASSUME NEW x \in Nat, NEW y \in Nat, NEW due \in BOOLEAN, x <= y, due => x < y
             PROVE  x + Owed(due) <= y
  OBVIOUS
<1>1. CASE due
  BY <1>1 DEF Owed
<1>2. CASE ~due
  BY <1>2 DEF Owed
<1> QED BY <1>1, <1>2

\* What keeps a Transceive mending that goes on after a receipt.
LEMMA TalkGoesOn ==
    ASSUME LInv, LinkReceive, UNCHANGED <<connected, calls, seVars>>, op = "Transceive", pc' = "send",
           NEW f, f = NextTx'.Iframe, pRsp' = "live", nextTransceiveState' # "SEND_S_INTF_RST",
           Filled(f), Sends(f)', Useful(f)',
           NEW n \in Nat, n = faults', NEW r \in Nat, r = recoveryCounter',
           NEW w \in Nat, w = wtx_counter', wtxs \in Nat,
           r <= n, nextTransceiveState' = "SEND_R_NACK" => r < n,
           w <= wtxs + n, seBusy /\ nextTransceiveState' = "SEND_R_NACK" => w < wtxs + n
    PROVE  Mending' /\ Repaired' /\ CountersRest'
<1>1. op' = "Transceive" /\ toHost' = None /\ UNCHANGED <<seBusy, wtxs>>
  BY AwaitsAndLoops DEF seVars
<1>2. Repaired' /\ CountersRest'
  BY <1>1 DEF Repaired, CountersRest
<1>3. /\ Asking' => nextTransceiveState' = "SEND_R_NACK"
      /\ TimeDue' => seBusy /\ nextTransceiveState' = "SEND_R_NACK"
  BY <1>1 DEF Asking, TimeDue, Silent
<1>4. Asking' \in BOOLEAN /\ TimeDue' \in BOOLEAN /\ wtxs + n \in Nat
  BY OwedFits DEF Asking, TimeDue, Silent
<1>5. r + Owed(Asking') <= n /\ w + Owed(TimeDue') <= wtxs + n
  BY <1>3, <1>4, OwedFits, Zenon
<1>6. recoveryCounter' + Owed(Asking)' <= faults' /\ wtx_counter' + Owed(TimeDue)' <= wtxs' + faults'
  BY <1>1, <1>5 DEF Owed
<1>7. Filled(NextTx.Iframe)' /\ Sends(NextTx.Iframe)' /\ Useful(NextTx.Iframe)'
  BY Zenon DEF Filled
<1> QED BY <1>2, <1>6, <1>7 DEF Mending

\* A frame lost or late in a Transceive: the host asks for the block, or sends its question
\* again.
LEMMA TalkSilenceMended ==
    ASSUME LossesOnly, LInv, Locked, Mended, LinkReceive, UNCHANGED <<connected, calls, seVars>>,
           op = "Transceive", toHost = None, ReadFails
    PROVE  Mending' /\ Repaired' /\ CountersRest'
<1>1. /\ pc = "recv" /\ InLoop /\ toSE' = toSE /\ toHost' = None /\ op' = "Transceive"
      /\ UNCHANGED <<seExp, seSeq, seLast, seBusy>>
  BY AwaitsAndLoops DEF seVars
<1>2. PICK f : f = NextTx.Iframe
  OBVIOUS
<1>3. /\ Filled(f) /\ Sends(f) /\ Useful(f) /\ pRsp = "live"
      /\ nextTransceiveState \in {"SEND_IFRAME", "SEND_R_ACK", "SEND_R_NACK", "SEND_S_WTX_RSP"}
  BY <1>1, <1>2, Staged DEF Mended, Mending
<1>4. PICK n \in Nat :
        /\ faults' = n /\ n <= MaxFaults /\ timeoutCounter < n /\ recoveryCounter < n
        /\ seBusy => wtx_counter < wtxs + n
        /\ wtx_counter <= wtxs + n
  BY SilenceIsAFault
<1>5. /\ LastTx = NextTx /\ NextTx \in TxCntx /\ Matches(nextTransceiveState, NextTx)
      /\ wtxs \in Nat /\ recoveryCounter \in Nat /\ wtx_counter \in Nat
  BY <1>1 DEF LInv, IInv, TypeOK, AwaitsForLast, Sendable, Mended, SilencesCounted
<1>6. /\ Loop /\ UNCHANGED <<lastRcvdSeqNo, pRsp, recoveryCounter, wtx_counter,
                             lastSentNonErrorframeType>>
  BY DEF ReadFails, response
<1>7. CASE nextTransceiveState \in {"SEND_IFRAME", "SEND_S_WTX_RSP"}
  <2>1. rnack_retry_counter = 0 /\ 0 < RNACK_LIMIT
    BY <1>3, <1>7, CountersAssumption DEF Sends, LossesOnly
  <2>2. \/ LastTx.FrameType = "IFRAME"
        \/ LastTx.FrameType = "SFRAME" /\ LastTx.sFrameType = "WTX_RSP"
    BY <1>5, <1>7 DEF Matches, SFrameOf
  <2>3. PICK err \in ErrorTypes : AskAgain(err)
    BY <2>2 DEF ReadFails, ErrorTypes
  <2>4. NextTx' = RCntx(err) /\ nextTransceiveState' = "SEND_R_NACK" /\ pc' = "send"
    BY <1>6, <2>1, <2>3, CountersAssumption DEF AskAgain, Loop
  <2>5. f = NextTx'.Iframe
    BY <1>2, <1>5, <2>4, RCntxFacts
  <2>6. Sends(f)'
    BY <1>1, <1>3, <1>6, <1>7, <2>4 DEF Sends, HasOne, HasAll, Waiting
  <2>7. Useful(f)'
    <3>1. toSE.kind # "R"
      BY <1>3, <1>7 DEF Useful
    <3> QED BY <1>1, <1>3, <2>4, <3>1, Kinds DEF Useful, Waiting
  <2> QED BY <1>3, <1>4, <1>5, <1>6, <2>4, <2>5, <2>6, <2>7, TalkGoesOn
<1>8. CASE nextTransceiveState \in {"SEND_R_ACK", "SEND_R_NACK"}
  <2>1. LastTx.FrameType = "RFRAME"
    BY <1>5, <1>8 DEF Matches, SFrameOf
  <2>2. timeoutCounter < TIMEOUT_RETRY_COUNT
    BY <1>4, CountersAssumption, FaultsAssumption DEF LossesOnly, LInv, IInv, TypeOK
  <2>3. SendAgain /\ UNCHANGED rnack_retry_counter
    BY <2>1 DEF ReadFails
  <2>4. NextTx' = NextTx /\ UNCHANGED nextTransceiveState /\ pc' = "send"
    BY <1>3, <1>5, <1>6, <2>2, <2>3, CountersAssumption DEF SendAgain, Loop, LInv, IInv, TypeOK
  <2>5. Sends(f)'
    BY <1>1, <1>3, <1>6, <1>8, <2>3, <2>4 DEF Sends, HasOne, HasAll, Waiting
  <2>6. Useful(f)'
    BY <1>1, <1>3, <1>8, <2>4, Kinds DEF Useful, Waiting
  <2> QED BY <1>2, <1>3, <1>4, <1>5, <1>6, <2>4, <2>5, <2>6, TalkGoesOn
<1> QED BY <1>3, <1>7, <1>8

\* A request for time is granted: there are fewer than the host puts up with.
LEMMA TalkWtxMended ==
    ASSUME LossesOnly, LInv, Locked, Mended, LinkReceive, UNCHANGED <<connected, calls, seVars>>,
           op = "Transceive", toHost # None, toHost.kind = "S", RecvWtxReq
    PROVE  Mending' /\ Repaired' /\ CountersRest'
<1>1. /\ pc = "recv" /\ InLoop /\ toSE' = None /\ toHost' = None
      /\ UNCHANGED <<seExp, seSeq, seLast, seBusy>>
  BY AwaitsAndLoops DEF seVars, LInv, LinkRight, HalfDuplex
<1>2. PICK f : f = NextTx.Iframe
  OBVIOUS
<1>3. /\ Filled(f) /\ pRsp = "live" /\ seBusy /\ HasAll(f)
      /\ nextTransceiveState \in {"SEND_IFRAME", "SEND_R_ACK", "SEND_R_NACK", "SEND_S_WTX_RSP"}
  BY <1>1, <1>2, Staged, StagedSe DEF Mended, Mending, Useful
<1>4. /\ LastTx = NextTx /\ NextTx \in TxCntx /\ Matches(nextTransceiveState, NextTx)
      /\ wtxs \in 0..MaxWtx /\ recoveryCounter \in Nat /\ wtx_counter \in Nat
      /\ faults \in 0..MaxFaults /\ MaxFaults \in Nat
  BY <1>1, FaultsAssumption
  DEF LInv, IInv, TypeOK, AwaitsForLast, Sendable, Mended, SilencesCounted
<1>5. /\ recoveryCounter <= faults /\ wtx_counter < wtxs + faults
  <2>1. recoveryCounter + Owed(Asking) <= faults /\ wtx_counter + Owed(TimeDue) <= wtxs + faults
    BY <1>1 DEF Mended, Mending
  <2>2. TimeDue
    BY <1>3 DEF TimeDue
  <2>3. recoveryCounter <= faults
    BY <1>4, <2>1 DEF Owed
  <2>4. wtx_counter + 1 <= wtxs + faults
    BY <2>1, <2>2 DEF Owed
  <2> QED BY <1>4, <2>3, <2>4
<1>6. PICK w \in Nat : w = wtx_counter + 1
  BY <1>4
<1>7. w <= wtxs + faults /\ w < WTX_LIMIT /\ w < ULONG_RANGE
  BY <1>4, <1>5, <1>6, CountersAssumption DEF LossesOnly
<1>8. (wtx_counter + 1) % ULONG_RANGE = w
  BY <1>6, <1>7, CountersAssumption
<1>9. ~(LastTx.FrameType = "SFRAME" /\ LastTx.sFrameType # "WTX_RSP")
  BY <1>3, <1>4 DEF Matches, SFrameOf
<1>10. /\ wtx_counter' = w /\ NextTx' = SCntx("WTX_RSP") /\ nextTransceiveState' = "SEND_S_WTX_RSP"
       /\ UNCHANGED <<recoveryCounter, lastRcvdSeqNo, pRsp>> /\ pc' = "send"
       /\ rnack_retry_counter' = 0
  BY <1>7, <1>8, <1>9, CountersAssumption DEF RecvWtxReq, FrameOk, response, Loop
<1>11. faults' = faults
  BY DEF LinkReceive
<1>12. f = NextTx'.Iframe
  BY <1>2, <1>4, <1>10, SCntxFacts DEF SReqs
<1>13. Sends(f)'
  BY <1>1, <1>3, <1>10 DEF Sends, HasOne, HasAll
<1>14. Useful(f)'
  BY <1>1, Kinds DEF Useful
<1> QED BY <1>3, <1>4, <1>5, <1>7, <1>10, <1>11, <1>12, <1>13, <1>14, TalkGoesOn

\* The SE reports a parity error, or another, and knows no third kind.
SeErrors == seLast.kind = "R" => seLast.err # "SOF_MISSED_ERROR"

LEMMA SeErrorsNext == ASSUME LInv, SeErrors, [LinkNext]_linkVars PROVE SeErrors'
<1>1. CASE SeStep
  <2>1. ASSUME NEW s \in Bit, NEW err \in {"NO_ERROR", "OTHER_ERROR", "PARITY_ERROR"},
               Reply(R(s, err))
        PROVE  SeErrors'
    BY <2>1 DEF Reply, R, SeErrors
  <2>2. ASSUME seLast'.kind # "R" PROVE SeErrors'
    BY <2>2 DEF SeErrors
  <2>3. ASSUME NEW type, NEW inf, Reply(S(type, inf)) PROVE SeErrors'
    BY <2>2, <2>3 DEF Reply, S
  <2>4. ASSUME NEW s, NEW rest, SendI(s, rest) PROVE SeErrors'
    BY <2>2, <2>4 DEF SendI, Reply, I
  <2>5. ASSUME NEW ans, BeginAnswer(ans) PROVE SeErrors'
    BY <2>3, <2>4, <2>5 DEF BeginAnswer
  <2>6. seExp \in Bit /\ Flip(seExp) \in Bit /\ (seUnacked # None => seUnacked.kind = "I")
    BY FlipBit DEF LInv, LinkRight, SeTyped, SeIframes
  <2>7. CASE SeIframe(toSE)
    BY <2>1, <2>5, <2>6, <2>7 DEF SeIframe
  <2>8. CASE SeRframe(toSE)
    <3>1. CASE Reply(S("WTX_REQ", << >>)) \/ SendI(toSE.seq, seOut)
      BY <2>3, <2>4, <3>1
    <3>2. CASE seUnacked # None /\ Reply(seUnacked)
      BY <2>2, <2>6, <3>2 DEF Reply
    <3>3. CASE \E repeats \in RepeatsRAck :
                 Reply(IF repeats /\ seLast.kind = "R" THEN seLast ELSE R(seExp, "OTHER_ERROR"))
      BY <2>1, <2>6, <3>3 DEF Reply, SeErrors
    <3> QED BY <2>8, <3>1, <3>2, <3>3 DEF SeRframe
  <2>9. CASE SeSframe(toSE)
    BY <2>1, <2>3, <2>5, <2>6, <2>9 DEF SeSframe
  <2>10. CASE Reply(R(seExp, "PARITY_ERROR")) \/ UNCHANGED seLast
    BY <2>1, <2>6, <2>10 DEF SeErrors
  <2> QED BY <1>1, <2>7, <2>8, <2>9, <2>10 DEF SeStep, seVars
<1>2. CASE UNCHANGED seLast \/ seLast' = None
  BY <1>2, Kinds DEF SeErrors
<1>3. \/ HostStep \/ BusFault \/ SeGoesMute \/ HostCrash
      \/ LinkCall /\ UNCHANGED seVars
      \/ UNCHANGED linkVars
      => UNCHANGED seLast
  BY DEF HostStep, BusFault, SeGoesMute, HostCrash, linkVars, seVars
<1>4. SePowerLoss => seLast' = None
  BY DEF SePowerLoss
<1> QED BY <1>1, <1>2, <1>3, <1>4 DEF LinkNext

\* The SE has not the fragment at hand: it was lost, and is sent again.
LEMMA TalkErrorMended ==
    ASSUME LossesOnly, LInv, Locked, Mended, SeErrors,
           LinkReceive, UNCHANGED <<connected, calls, seVars>>, op = "Transceive",
           toHost # None, toHost = seLast, toHost.kind = "R", ~Acknowledges(toHost),
           RecvRframe(toHost.seq, toHost.err)
    PROVE  Mending' /\ Repaired' /\ CountersRest'
<1>1. /\ pc = "recv" /\ InLoop /\ toSE' = None /\ toHost' = None
      /\ UNCHANGED <<seExp, seSeq, seLast, seBusy>>
  BY AwaitsAndLoops DEF seVars, LInv, LinkRight, HalfDuplex
<1>2. PICK f : f = NextTx.Iframe
  OBVIOUS
<1>3. /\ Filled(f) /\ Sends(f) /\ Waiting(f) /\ nextTransceiveState = "SEND_R_NACK" /\ pRsp = "live"
  BY <1>1, <1>2, Staged DEF Mended, Mending, Useful
<1>4. lastSentNonErrorframeType = "IFRAME" /\ ~seBusy
  BY <1>1, <1>2, <1>3, StagedSe DEF Sends, Waiting, HasAll, Mended
<1>5. /\ LastTx = NextTx /\ NextTx \in TxCntx /\ LastTx.FrameType = "RFRAME"
      /\ wtxs \in Nat /\ recoveryCounter \in Nat /\ faults \in 0..MaxFaults /\ MaxFaults \in Nat
  BY <1>1, <1>3, FaultsAssumption
  DEF LInv, IInv, TypeOK, AwaitsForLast, Sendable, Matches, SFrameOf, Mended, SilencesCounted
<1>6. toHost.seq = LastTx.Iframe.seqNo
  BY <1>2, <1>3, <1>5 DEF Waiting, Locked, SeBlocks
<1>7. /\ RecvRNack(toHost.seq)
  BY DEF RecvRframe, Acknowledges, SeErrors
<1>8. PICK again : again = [LastTx EXCEPT !.FrameType = "IFRAME"]
  OBVIOUS
<1>9. /\ ErrorRecovery(again, "SEND_IFRAME") /\ Loop /\ wtx_counter' = 0 /\ rnack_retry_counter' = 0
      /\ UNCHANGED <<lastRcvdSeqNo, pRsp, lastSentNonErrorframeType>>
  BY <1>4, <1>5, <1>6, <1>7, <1>8 DEF RecvRNack, FrameOk, response
<1>10. recoveryCounter < faults
  <2>1. recoveryCounter + Owed(Asking) <= faults
    BY <1>1 DEF Mended, Mending
  <2> QED BY <1>3, <1>5, <2>1 DEF Owed, Asking
<1>11. PICK r \in Nat : r = recoveryCounter + 1
  BY <1>5
<1>12. recoveryCounter < FRAME_RETRY_COUNT /\ r <= faults /\ r < UINT8_RANGE
  BY <1>5, <1>10, <1>11, CountersAssumption DEF LossesOnly
<1>13. (recoveryCounter + 1) % UINT8_RANGE = r
  BY <1>11, <1>12, CountersAssumption
<1>14. /\ recoveryCounter' = r /\ NextTx' = again /\ nextTransceiveState' = "SEND_IFRAME"
       /\ pc' = "send"
  BY <1>5, <1>9, <1>12, <1>13, CountersAssumption DEF ErrorRecovery, Loop
<1>15. f = NextTx'.Iframe
  BY <1>2, <1>5, <1>8, <1>14 DEF TxCntx
<1>16. Sends(f)'
  BY <1>1, <1>3, <1>9, <1>14 DEF Sends, Waiting, HasOne, HasAll
<1>17. Useful(f)'
  BY <1>1, Kinds DEF Useful
<1>18. faults' = faults /\ faults \in Nat /\ 0 <= wtxs + faults
  BY <1>5 DEF LinkReceive
<1> QED BY <1>3, <1>4, <1>5, <1>9, <1>12, <1>14, <1>15, <1>16, <1>17, <1>18, TalkGoesOn

\* An acknowledgement: the next fragment, or once more what the SE has not.
LEMMA TalkAckMended ==
    ASSUME LossesOnly, CommandsFit, LInv, Locked, Mended,
           LinkReceive, UNCHANGED <<connected, calls, seVars>>, op = "Transceive",
           toHost # None, toHost = seLast, Acknowledges(toHost), RecvRAck(toHost.seq)
    PROVE  Mending' /\ Repaired' /\ CountersRest'
<1>1. /\ pc = "recv" /\ InLoop /\ toSE' = None /\ toHost' = None
      /\ UNCHANGED <<seExp, seSeq, seLast, seBusy>>
  BY AwaitsAndLoops DEF seVars, LInv, LinkRight, HalfDuplex
<1>2. PICK f : f = NextTx.Iframe
  OBVIOUS
<1>3. /\ Filled(f) /\ Sends(f) /\ pRsp = "live" /\ nextTransceiveState # "SEND_S_INTF_RST"
      /\ f.seqNo \in Bit /\ seExp \in Bit
      /\ HasAll(f) => Executed(f)
      /\ HasOne(f) => Taken(f)
      /\ nextTransceiveState \in {"SEND_IFRAME", "SEND_R_ACK", "SEND_R_NACK", "SEND_S_WTX_RSP"}
  BY <1>1, <1>2, Staged DEF Mended, Mending
<1>4. ~HasAll(f) /\ ~seBusy
  BY <1>1, <1>2, <1>3, StagedSe DEF Executed, Mended
<1>5. /\ LastTx = NextTx /\ wtxs \in Nat /\ recoveryCounter \in Nat
      /\ faults \in 0..MaxFaults /\ MaxFaults \in Nat /\ faults \in Nat
      /\ 0 <= faults /\ 0 <= wtxs + faults
  BY <1>1, FaultsAssumption DEF LInv, IInv, TypeOK, AwaitsForLast, Mended, SilencesCounted
<1>6. toHost.seq = seExp
  BY DEF Acknowledges, Locked, SeBlocks
<1>7. /\ wtx_counter' = 0 /\ recoveryCounter' = 0 /\ rnack_retry_counter' = 0 /\ Loop
      /\ UNCHANGED <<lastRcvdSeqNo, pRsp, lastSentNonErrorframeType>> /\ faults' = faults
      /\ \/ /\ seExp # f.seqNo
            /\ SetNextIframeContxt /\ nextTransceiveState' = "SEND_IFRAME"
         \/ /\ seExp = f.seqNo
            /\ UNCHANGED <<NextTx, nextTransceiveState>>
  BY <1>2, <1>5, <1>6 DEF RecvRAck, FrameOk, response, LinkReceive
<1>8. pc' = "send"
  BY <1>3, <1>7 DEF Loop
<1>9. CASE seExp = f.seqNo /\ UNCHANGED <<NextTx, nextTransceiveState>>
  <2>1. Sends(f)'
    BY <1>1, <1>3, <1>4, <1>7, <1>8, <1>9 DEF Sends, Waiting, HasOne, HasAll
  <2>2. Useful(f)'
    BY <1>1, Kinds DEF Useful
  <2>3. nextTransceiveState = "SEND_R_NACK" => 0 < faults
    <3>1. recoveryCounter + Owed(Asking) <= faults
      BY <1>1 DEF Mended, Mending
    <3> QED BY <1>5, <3>1 DEF Owed, Asking
  <2> QED BY <1>2, <1>3, <1>4, <1>5, <1>7, <1>8, <1>9, <2>1, <2>2, <2>3, TalkGoesOn
<1>10. CASE seExp # f.seqNo /\ SetNextIframeContxt /\ nextTransceiveState' = "SEND_IFRAME"
  <2>1. f.isChained /\ HasOne(f)
    BY <1>4, <1>10 DEF HasOne, HasAll
  <2>2. PICK g : g = NextTx'.Iframe
    OBVIOUS
  <2>3. /\ g.seqNo = Flip(f.seqNo)
        /\ f.totalDataLen # 0 => g.sendDataLen # 0 /\ (g.isChained => g.totalDataLen # 0)
    BY <1>1, <1>2, <1>10, <2>1, <2>2, NextIsNext
  <2>4. Filled(g)
    BY <1>3, <2>1, <2>3 DEF Filled
  <2>5. Waiting(g)'
    BY <1>1, <1>3, <1>10, <2>3 DEF Waiting, Bit, Flip
  <2>6. Sends(g)'
    BY <1>1, <1>7, <1>8, <1>10, <2>5 DEF Sends, Waiting, HasOne, HasAll
  <2>7. Useful(g)'
    BY <1>1, Kinds DEF Useful
  <2> QED BY <1>3, <1>4, <1>5, <1>7, <1>8, <1>10, <2>2, <2>4, <2>6, <2>7, TalkGoesOn
<1> QED BY <1>7, <1>9, <1>10

\* A block of the answer: there is room for it, the next is asked for, and the last
\* completes the answer.
LEMMA TalkAnswerMended ==
    ASSUME LossesOnly, AnswersFit, LInv, Locked, Mended,
           LinkReceive, UNCHANGED <<connected, calls, seVars>>, op = "Transceive",
           toHost # None, toHost = seLast, toHost.kind = "I",
           RecvIframe(toHost.seq, toHost.more, toHost.inf)
    PROVE  Mending' /\ Repaired' /\ CountersRest'
<1>1. /\ pc = "recv" /\ InLoop /\ toSE' = None /\ toHost' = None /\ op' = "Transceive"
      /\ UNCHANGED <<seExp, seSeq, seLast, seBusy, calls>> /\ pc' \in {"send", "done"}
  BY AwaitsAndLoops DEF seVars, LInv, LinkRight, HalfDuplex
<1>2. PICK f : f = NextTx.Iframe
  OBVIOUS
<1>3. PICK b : b = toHost
  OBVIOUS
<1>4. PICK ans : ans = Answer(f.p_data)
  OBVIOUS
<1>5. /\ Filled(f) /\ Sends(f) /\ pRsp = "live" /\ f.p_data = Len(calls) /\ f.p_data \in Cmds
      /\ f.seqNo \in Bit /\ lastRcvdSeqNo \in Bit
  BY <1>1, <1>2, Staged DEF Mended, Mending
<1>6. HasAll(f) /\ Sending(ans)
  <2>1. Waiting(f) \/ HasOne(f) => Wanted(f) \/ Taken(f)
    BY <1>1, <1>2, Staged DEF Mended
  <2>2. HasAll(f)
    BY <2>1 DEF Wanted, Taken, Listening, Waiting, HasOne, HasAll
  <2>3. Answering(Answer(f.p_data))
    BY <1>1, <1>2, <2>2, Staged DEF Mended
  <2>4. Answering(ans)
    BY <1>4, <2>3, Zenon
  <2> QED BY <2>2, <2>4 DEF Answering, Working, Received
<1>7. /\ seUnacked = b /\ b \in SeIframes /\ b.seq = seSeq /\ (b.more <=> seOut # << >>)
      /\ seSeq = Flip(lastRcvdSeqNo) /\ ~seBusy /\ rspData \o b.inf \o seOut = ans
  <2>1. seUnacked = b /\ b.seq = seSeq /\ (b.more <=> seOut # << >>)
    BY <1>3, <1>6 DEF Locked, SeBlocks, Sending
  <2>2. b \in SeIframes
    BY <1>3, Kinds DEF LInv, LinkRight, SeTyped
  <2> QED BY <1>6, <2>1, <2>2, Zenon DEF Sending
<1>8. rspData \in Seq(Units) /\ b.inf \in Seq(Units) /\ seOut \in Seq(Units)
  <2>1. b.inf \in Seq(Units)
    BY <1>7, DataAssumption DEF SeIframes
  <2>2. seOut \in Seq(Carried)
    BY DEF LInv, LinkRight, SeTyped
  <2> QED BY <2>1, <2>2, SeqMonotonic DEF Carried, LInv, IInv, TypeOK
<1>9. Len(rspData) + Len(b.inf) <= RSP_CAP
  <2>1. PICK got : got = rspData \o b.inf
    OBVIOUS
  <2>2. got \in Seq(Units) /\ Len(got) = Len(rspData) + Len(b.inf)
    BY <1>8, <2>1, ConcatProperties
  <2>3. Len(got \o seOut) = Len(got) + Len(seOut) /\ Len(got) \in Nat /\ Len(seOut) \in Nat
    BY <1>8, <2>2, ConcatProperties, LenProperties
  <2>4. got \o seOut = ans
    BY <1>7, <2>1, Zenon
  <2>5. Len(Answer(f.p_data)) <= RSP_CAP
    BY <1>5 DEF AnswersFit
  <2>6. Len(ans) <= RSP_CAP
    BY <1>4, <2>5, Zenon
  <2> QED BY <2>2, <2>3, <2>4, <2>6, DataAssumption
<1>10. IsNew(b.seq) /\ b.more \in BOOLEAN
  BY <1>5, <1>7, FlipBit DEF IsNew, SeIframes
<1>11. /\ Loop /\ lastRcvdSeqNo' = b.seq /\ recoveryCounter' = 0 /\ wtx_counter' = 0
       /\ rnack_retry_counter' = 0 /\ UNCHANGED pRsp /\ faults' = faults
       /\ NextTx' = IF b.more THEN RCntx("NO_ERROR") ELSE NextTx
       /\ rspData' = rspData \o b.inf /\ status'
       /\ nextTransceiveState' = IF b.more THEN "SEND_R_ACK" ELSE "IDLE_STATE"
  <2>1. RecvIframe(b.seq, b.more, b.inf)
    BY <1>3
  <2>2. ~SaveFails(b.inf)
    BY <1>5, <1>8, <1>9, DataAssumption DEF SaveFails
  <2>3. faults' = faults
    BY DEF LinkReceive
  <2> QED BY <1>10, <2>1, <2>2, <2>3, Zenon DEF RecvIframe, FrameOk, SaveRxframeData
<1>12. CASE b.more
  <2>1. pc' = "send" /\ nextTransceiveState' = "SEND_R_ACK"
    BY <1>11, <1>12 DEF Loop
  <2>2. f = NextTx'.Iframe
    BY <1>2, <1>11, <1>12, RCntxFacts DEF LInv, IInv, TypeOK, ErrorTypes
  <2>3. Sends(f)'
    BY <1>1, <1>6, <1>7, <1>11, <2>1 DEF Sends, HasOne, HasAll
  <2>4. Useful(f)'
    BY <1>1, Kinds DEF Useful
  <2>5. faults \in Nat /\ wtxs \in Nat /\ 0 <= faults /\ 0 <= wtxs + faults
    BY FaultsAssumption DEF Mended, SilencesCounted
  <2> QED BY <1>5, <1>7, <1>11, <2>1, <2>2, <2>3, <2>4, <2>5, TalkGoesOn
<1>13. CASE ~b.more
  <2>1. pc' = "done" /\ NothingCounted'
    BY <1>11, <1>13 DEF Loop, NothingCounted
  <2>2. seOut = << >>
    BY <1>7, <1>13
  <2>3. rspData \o b.inf \in Seq(Units)
    BY <1>8
  <2>4. (rspData \o b.inf) \o << >> = rspData \o b.inf
    BY <2>3
  <2>5. rspData' = ans
    BY <1>7, <1>11, <2>2, <2>4, Zenon
  <2>6. rspData' = Answer(f.p_data) /\ f.p_data = Len(calls')
    BY <1>1, <1>4, <1>5, <2>5, Zenon
  <2>7. rspData' = Answer(Len(calls'))
    BY <2>6, Zenon
  <2>8. Repaired'
    BY <1>11, <2>7, Zenon DEF Repaired
  <2> QED BY <1>1, <2>1, <2>8 DEF Mending, CountersRest, InLoop
<1> QED BY <1>12, <1>13

\* What a Transceive receives makes good what was lost.
LEMMA TransceiveReceivedMended ==
    ASSUME LossesOnly, AnswersFit, CommandsFit, LInv, Locked, Mended, SeErrors,
           LinkReceive, UNCHANGED <<connected, calls, seVars>>, op = "Transceive"
    PROVE  Mending' /\ Repaired' /\ CountersRest'
<1>1. InLoop
  BY AwaitsAndLoops
<1>2. nextTransceiveState # "SEND_S_INTF_RST"
  BY <1>1 DEF Mended, Mending
<1>3. toHost.kind = "S" => toHost = S("WTX_REQ", << >>)
  BY <1>1, <1>2 DEF Locked, Talking, UnderWay
<1>4. CASE toHost = None /\ ReadFails
  BY <1>4, TalkSilenceMended
<1>5. CASE /\ toHost # None /\ toHost = seLast /\ toHost.kind = "I"
           /\ RecvIframe(toHost.seq, toHost.more, toHost.inf)
  BY <1>5, TalkAnswerMended
<1>6. CASE /\ toHost # None /\ toHost = seLast /\ toHost.kind = "R"
           /\ RecvRframe(toHost.seq, toHost.err)
  <2>1. CASE Acknowledges(toHost)
    <3>1. RecvRAck(toHost.seq)
      BY <1>6, <2>1 DEF RecvRframe, Acknowledges
    <3> QED BY <1>6, <2>1, <3>1, TalkAckMended
  <2>2. CASE ~Acknowledges(toHost)
    BY <1>6, <2>2, TalkErrorMended
  <2> QED BY <2>1, <2>2
<1>7. CASE toHost # None /\ toHost.kind = "S" /\ RecvSframe(toHost.type, toHost.inf)
  <2>1. RecvWtxReq
    BY <1>3, <1>7 DEF RecvSframe, S
  <2> QED BY <1>7, <2>1, TalkWtxMended
<1> QED BY <1>4, <1>5, <1>6, <1>7, ReadsWhatWasSent

LEMMA LinkReceiveMended ==
    ASSUME LossesOnly, AnswersFit, CommandsFit, LInv, Locked, Mended, SeErrors,
           LinkReceive, UNCHANGED <<connected, calls, seVars>>
    PROVE  Mended'
<1>1. SilencesCounted'
  BY LinkReceiveCounts
<1>2. op' = op /\ pc' \in {"send", "done"}
  BY AwaitsAndLoops
<1>3. CASE op = "Transceive"
  BY <1>1, <1>3, TransceiveReceivedMended DEF Mended
<1>4. CASE op # "Transceive"
  <2>1. Mending' /\ Repaired'
    BY <1>2, <1>4 DEF Mending, Repaired
  <2>2. CountersRest'
    BY <1>2, <1>4, OpenReceivedRests, AtrReceivedRests DEF CountersRest
  <2> QED BY <1>1, <2>1, <2>2 DEF Mended
<1> QED BY <1>3, <1>4

LEMMA MendedInit == LossesOnly => (LinkInit => SeErrors /\ Mended)
<1> SUFFICES ASSUME LossesOnly, LinkInit PROVE SeErrors /\ Mended
  OBVIOUS
<1>1. /\ pc = "idle" /\ op = "none" /\ ~connected /\ faults = 0 /\ wtxs = 0 /\ ~mute
      /\ timeoutCounter = 0 /\ seLast = None
  BY DEF LinkInit, Init
<1>2. SilencesCounted
  BY <1>1, FaultsAssumption DEF SilencesCounted, Silent, Owed, LossesOnly
<1> QED
  BY <1>1, <1>2, Kinds DEF Mended, CountersRest, Mending, Repaired, SeErrors, InLoop

LEMMA MendedNext ==
    ASSUME LossesOnly, AnswersFit, CommandsFit, LInv, Locked, SeErrors, Mended, [LinkNext]_linkVars
    PROVE  Mended'
<1>1. CASE HostStep
  BY <1>1, LinkSendMended, LinkReceiveMended, LinkWaitMended, OpenThenAtrMended, LinkReturnMended
  DEF HostStep
<1>2. CASE BusFault \/ SePowerLoss \/ SeGoesMute
  BY <1>2, FaultMended
<1> QED
  BY <1>1, <1>2, SeStepMended, LinkCallMended, HostCrashMended, StutterMended, Zenon DEF LinkNext

\* The recovery of ProcessResponse and DecodeFrame is complete: whatever frames are lost or
\* late and whenever the host's process dies, a Transceive that ends has the whole answer of its
\* command, as long as the losses are no more than each limit of the code allows for and the
\* answer fits the caller's buffer. No limit is reached, whichever exchanges the losses hit.
THEOREM LossesAreMadeGood ==
    LossesOnly /\ AnswersFit /\ CommandsFit => (LinkSpec => []Repaired)
<1>1. LossesOnly => NothingDamaged
  BY DEF LossesOnly, NothingDamaged
<1>2. ASSUME LossesOnly, AnswersFit, CommandsFit
      PROVE  LInv /\ Locked /\ SeErrors /\ Mended /\ [LinkNext]_linkVars => SeErrors' /\ Mended'
  BY <1>2, MendedNext, SeErrorsNext
<1>3. Mended => Repaired
  BY DEF Mended
<1>4. CASE LossesOnly /\ AnswersFit /\ CommandsFit
  BY <1>1, <1>2, <1>3, <1>4, MendedInit, LockedInvariant, LinkInvariant, PTL DEF LinkSpec
<1> QED BY <1>4

=============================================================================
