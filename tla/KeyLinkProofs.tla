---------------------------- MODULE KeyLinkProofs ----------------------------
(***************************************************************************)
(* KeyLink: type correctness, order, nothing accepted is lost, and the     *)
(* path of a key event implements the abstract stream, for every set of    *)
(* reports, number of requests, rounds, retransmissions and restarts.      *)
(* At the end: the receiver's engine recognises retransmissions.           *)
(***************************************************************************)
EXTENDS KeyLink, TLAPS

(* The link's own results, for the frames of KeyLink. *)
Link == INSTANCE PartsProofs WITH Frame <- LinkFrame, EmptyFrame <- NoFrame,
                                  Checksum <- Packet, Crc <- FrameCrc,
                                  Report <- LinkReport, NoKeys <- NoReport

(* A report made of a frame's packet. *)
MadeOf(r, f) == IsKeyEvent(f.pkt) /\ r = ReportOf(f)
Shown == InEndpoint \cup {screen}

(* A frame lies in the Rx FIFO until it is polled, with the end cause that  *)
(* makes the poll read it.                                                  *)
FifoHeld == rxFifo # NoFrame => rxTask = "idle" /\ rxEnd = "ENDOK"

(* A number belongs to one frame, and what has it is that frame or was made *)
(* of it.                                                                   *)
Numbered ==
    /\ txPc # "ready" => 0 < txFifo.id
    /\ rxFifo # NoFrame => 0 < rxFifo.id
    /\ rxFifo # NoFrame /\ rxFifo.id = txFifo.id => rxFifo = txFifo
    /\ \A r \in Shown : 0 < r.id /\ r.id = txFifo.id => MadeOf(r, txFifo)
    /\ \A r \in Shown : rxFifo # NoFrame /\ r.id = rxFifo.id => MadeOf(r, rxFifo)
    /\ \A r, s \in Shown : r.id = s.id => r = s

(* What is on its way of the event being sent was heard. *)
Heard ==
    /\ rxFifo # NoFrame /\ rxFifo.id = txFifo.id => heard
    /\ \A r \in Shown : 0 < r.id /\ r.id = txFifo.id => heard

(* Between the startup code of app_rx and its radio_init(). *)
Booting == rxPc = "boot" => InEndpoint = {} /\ screen = NoReport

AppTypeOK ==
    /\ seq \in Byte /\ cmd \in {"none", "key", "test"}
    /\ rxPc \in {"usb", "hid", "radio", "boot"}
    /\ last_pkt \in Packet /\ have_pkt \in BOOLEAN
    /\ owed \in SUBSET Nat
    /\ count \in [{"keys", "tests", "txRestarts", "rxRestarts"} -> Nat]

IInv ==
    /\ Link!RadioInv /\ HidTypeOK /\ AppTypeOK
    /\ FifoHeld /\ InOrder /\ Numbered /\ Heard /\ Booting /\ NothingAcceptedIsLost

(* Without test packets every frame is a key event of the host's. *)
OnlyKeys ==
    /\ txFifo # NoFrame => IsKeyEvent(txFifo.pkt)
    /\ rxFifo # NoFrame => IsKeyEvent(rxFifo.pkt)
-----------------------------------------------------------------------------
(* The constants KeyLink gives to Radio and UsbHid are what they ask for. *)
LEMMA Constants ==
    /\ NoFrame \in LinkFrame /\ FrameCrc \in [LinkFrame -> Packet]
    /\ MaxRounds \in Nat \ {0} /\ RetransCnt \in Nat
    /\ NoReport \in LinkReport /\ NoKeysRep \in Byte \X Byte
    /\ ZeroPacket \in Packet /\ ~IsKeyEvent(ZeroPacket)
<1>1. NoKeysRep \in Byte \X Byte
    BY DEF NoKeysRep, Byte
<1>2. ZeroPacket \in Packet /\ ~IsKeyEvent(ZeroPacket)
    BY DEF ZeroPacket, Packet, Byte, IsKeyEvent, KEY_EVENT_TYPE
<1>3. NoFrame \in LinkFrame /\ NoReport \in LinkReport
    BY <1>1, <1>2 DEF NoFrame, LinkFrame, NoReport, LinkReport
<1>4. FrameCrc \in [LinkFrame -> Packet]
    BY DEF FrameCrc, LinkFrame
<1> QED
    BY <1>1, <1>2, <1>3, <1>4, KeyLinkAssumption

LEMMA KeyPacketType ==
    ASSUME NEW r \in KeyReports, NEW d \in BOOLEAN, NEW s \in Byte
    PROVE  /\ KeyPacket(r, d, s) \in Packet /\ IsKeyEvent(KeyPacket(r, d, s))
           /\ RepOf(KeyPacket(r, d, s)) \in KeyReports \cup {NoKeysRep}
<1>1. r \in Byte \X Byte
    BY KeyLinkAssumption
<1> QED
    BY <1>1 DEF KeyPacket, Packet, Byte, IsKeyEvent, KEY_EVENT_TYPE, RepOf

LEMMA TestPacketType ==
    ASSUME NEW s \in Byte
    PROVE  TestPacket(s) \in Packet
<1>1. 255 - s \in Byte /\ (s * 3) % 256 \in Byte /\ (s + 85) % 256 \in Byte
    BY DEF Byte
<1> QED
    BY <1>1 DEF TestPacket, Packet

LEMMA ReportType ==
    ASSUME NEW f \in LinkFrame
    PROVE  /\ ReportOf(f) \in LinkReport /\ ReportOf(f).id = f.id
           /\ ReportOf(f).rep = RepOf(f.pkt)
BY Constants DEF LinkFrame, LinkReport, Packet, ReportOf, RepOf

LEMMA NextFrameType ==
    ASSUME NEW p \in Packet, txFifo \in LinkFrame
    PROVE  /\ NextFrame(p) \in LinkFrame \ {NoFrame}
           /\ NextFrame(p).id = txFifo.id + 1 /\ NextFrame(p).pkt = p
BY DEF NextFrame, LinkFrame, NoFrame

(* The types as PartsProofs and as KeyLink have them. *)
LEMMA SameTypes == Link!RadioTypeOK <=> RadioTypeOK
BY DEF Link!RadioTypeOK, RadioTypeOK, Link!CountersOK, CountersOK, Link!TxTypeOK, TxTypeOK,
       Link!RxTypeOK, RxTypeOK, Link!EndCause, EndCause, Link!Seqstat, Seqstat

LEMMA Types ==
    ASSUME IInv
    PROVE  /\ txFifo \in LinkFrame /\ rxFifo \in LinkFrame
           /\ seq \in Byte /\ txPc \in {"ready", "round", "air"}
           /\ rxTask \in {"idle", "listen"} /\ rxSem \in BOOLEAN
           /\ ok \in BOOLEAN /\ heard \in BOOLEAN
           /\ report_pending \in BOOLEAN /\ pktPresent \in BOOLEAN
           /\ pending_report \in LinkReport /\ usbf1 \in LinkReport /\ screen \in LinkReport
           /\ rxPc \in {"usb", "hid", "radio", "boot"} /\ owed \in SUBSET Nat
BY DEF IInv, Link!RadioInv, Link!RadioTypeOK, Link!TxTypeOK, Link!RxTypeOK, HidTypeOK, AppTypeOK

(* A request, the firmware, the engines and the air do to the radio what    *)
(* module Radio lets them do.                                               *)
LEMMA Requests ==
    ASSUME NEW p \in Packet, txFifo \in LinkFrame, RadioSend(NextFrame(p))
    PROVE  Link!Submit
<1>1. NextFrame(p) \in LinkFrame \ {NoFrame}
    BY NextFrameType
<1>2. Link!RadioSend(NextFrame(p))
    BY DEF RadioSend, Link!RadioSend, rxVars, Link!rxVars
<1> QED
    BY <1>1, <1>2 DEF Link!Submit

LEMMA SenderSteps == Sender => Link!Sender
<1>1. InLoop = Link!InLoop
    BY DEF InLoop, Link!InLoop
<1>2. CmdTx => Link!CmdTx
    BY <1>1 DEF CmdTx, Link!CmdTx, TaskAfterStart, Link!TaskAfterStart, EndAfterStart,
                Link!EndAfterStart, rxVars, Link!rxVars
<1>3. CmdTxAborts => Link!CmdTxAborts
    BY <1>1 DEF CmdTxAborts, Link!CmdTxAborts, rxVars, Link!rxVars
<1>4. RoundEnds => Link!RoundEnds
    BY DEF RoundEnds, Link!RoundEnds, IdleSeen, Link!IdleSeen, EndsWell, Link!EndsWell,
           RoundDone, Link!RoundDone, rxVars, Link!rxVars
<1>5. RadioSendReturns => Link!RadioSendReturns
    BY <1>1 DEF RadioSendReturns, Link!RadioSendReturns, TxArm, Link!TxArm, TaskAfterStart,
                Link!TaskAfterStart, EndAfterStart, Link!EndAfterStart, rxVars, Link!rxVars
<1> QED
    BY <1>2, <1>3, <1>4, <1>5 DEF Sender, Link!Sender

LEMMA AirSteps ==
    /\ AttemptLost => Link!AttemptLost
    /\ AttemptDamaged => Link!AttemptDamaged
    /\ AttemptHeard => Link!AttemptHeard
<1>1. (NotAcked <=> Link!NotAcked) /\ (Acked <=> Link!Acked)
    BY DEF NotAcked, Link!NotAcked, Acked, Link!Acked
<1>2. RxTaskEnds <=> Link!RxTaskEnds
    BY DEF RxTaskEnds, Link!RxTaskEnds
<1>3. RxTakes => Link!RxTakes
    BY <1>2 DEF RxTakes, Link!RxTakes, IsRetransmission, Link!IsRetransmission
<1> QED
    BY <1>1, <1>2, <1>3 DEF AttemptLost, Link!AttemptLost, AttemptDamaged, Link!AttemptDamaged,
       AttemptHeard, Link!AttemptHeard, rxVars, Link!rxVars

LEMMA OtherRadioSteps ==
    /\ TxListenEnds => Link!TxListenEnds
    /\ RadioInitTx => Link!RadioInitTx
    /\ RadioInitRx => Link!RadioInitRx
    /\ RadioRecvPoll => Link!RadioRecvPoll
<1> USE DEF TaskAfterStart, Link!TaskAfterStart, EndAfterStart, Link!EndAfterStart,
            LleReset, Link!LleReset, ReleaseSemaphores, Link!ReleaseSemaphores
<1>1. TxListenEnds => Link!TxListenEnds
    BY DEF TxListenEnds, Link!TxListenEnds, rxVars, Link!rxVars
<1>2. RadioInitTx => Link!RadioInitTx
    BY DEF RadioInitTx, Link!RadioInitTx, TxArm, Link!TxArm, rxVars, Link!rxVars
<1>3. RadioInitRx => Link!RadioInitRx
    BY DEF RadioInitRx, Link!RadioInitRx, RxArm, Link!RxArm, FreshSeqstat, Link!FreshSeqstat,
           txVars, Link!txVars
<1>4. RadioRecvPoll => Link!RadioRecvPoll
    BY DEF RadioRecvPoll, Link!RadioRecvPoll, RecvReady, Link!RecvReady, RxArm, Link!RxArm,
           txVars, Link!txVars
<1> QED
    BY <1>1, <1>2, <1>3, <1>4

LEMMA LinkStep ==
    ASSUME IInv, [Next]_vars
    PROVE  [Link!RadioNext]_(Link!radioVars)
<1> USE DEF Link!RadioNext, Link!Attempt, Link!radioVars, Link!txVars, Link!rxVars, linkVars
<1>0. txFifo \in LinkFrame /\ seq \in Byte
    BY Types
<1>1. ASSUME NEW r \in KeyReports, NEW d \in BOOLEAN, SendKey(r, d)
      PROVE  Link!RadioNext
    BY <1>0, <1>1, KeyPacketType, Requests DEF SendKey
<1>2. CASE SendTestPacket
    BY <1>0, <1>2, TestPacketType, Requests DEF SendTestPacket
<1>3. CASE TxStep
    BY <1>3, SenderSteps DEF TxStep
<1>4. CASE TxEngine
    BY <1>4, OtherRadioSteps DEF TxEngine
<1>5. CASE TxRestart
    BY <1>5, OtherRadioSteps DEF TxRestart
<1>6. CASE AirFails
    BY <1>6, AirSteps DEF AirFails
<1>7. CASE AirWorks
    BY <1>7, AirSteps DEF AirWorks
<1>8. CASE RxUsb \/ GetLastPacket
    BY <1>8 DEF RxUsb, GetLastPacket
<1>9. CASE RxHid
    BY <1>9 DEF RxHid
<1>10. CASE RxRadio
    BY <1>10, OtherRadioSteps DEF RxRadio
<1>11. CASE RxBoot
    BY <1>11, OtherRadioSteps DEF RxBoot
<1>12. CASE RxRestart
    BY <1>12 DEF RxRestart
<1>13. CASE HostStep
    BY <1>13 DEF HostStep
<1>14. CASE UNCHANGED vars
    BY <1>14 DEF vars
<1> QED
    BY <1>1, <1>2, <1>3, <1>4, <1>5, <1>6, <1>7, <1>8, <1>9, <1>10, <1>11, <1>12, <1>13,
       <1>14 DEF Next, RxLoop

LEMMA LinkInit == Init => Link!RadioInv
<1>1. Init => Link!RadioInit
    BY DEF Init, RadioInit, Link!RadioInit, FreshSeqstat, Link!FreshSeqstat
<1> QED
    BY <1>1, Constants, Link!RadioInitInv

LEMMA LinkInvStep ==
    ASSUME IInv, [Next]_vars
    PROVE  Link!RadioInv'
<1>1. Link!RadioInv
    BY DEF IInv
<1>2. Link!CountersOK' /\ Link!RoundCounted'
    BY <1>1, LinkStep, Constants, Link!RadioStepCounters DEF Link!RadioInv, Link!RadioTypeOK
<1>3. Link!TxTypeOK'
    BY <1>1, LinkStep, Constants, Link!RadioStepTx DEF Link!RadioInv, Link!RadioTypeOK
<1>4. Link!RxTypeOK'
    BY <1>1, LinkStep, Constants, Link!RadioStepRx DEF Link!RadioInv
<1>5. Link!EndcauseIsOwn'
    BY <1>1, LinkStep, Constants, Link!RadioStepEndcause DEF Link!RadioInv
<1> QED
    BY <1>2, <1>3, <1>4, <1>5 DEF Link!RadioInv, Link!RadioTypeOK

(* The keyboard endpoint keeps its types whoever drives it. *)
LEMMA EndpointTypes ==
    ASSUME HidTypeOK,
           \/ \E r \in LinkReport : HidSendReport(r)
           \/ HidPoll \/ HostTakes \/ HidReset \/ UNCHANGED endpointVars
    PROVE  HidTypeOK'
<1> USE DEF HidTypeOK
<1>1. CASE \E r \in LinkReport : HidSendReport(r)
    BY <1>1 DEF HidSendReport, WriteReport
<1>2. CASE HidPoll
    BY <1>2 DEF HidPoll, WriteReport
<1>3. CASE HostTakes
    BY <1>3 DEF HostTakes
<1>4. CASE HidReset
    BY <1>4, Constants DEF HidReset
<1>5. CASE UNCHANGED endpointVars
    BY <1>5 DEF endpointVars
<1> QED
    BY <1>1, <1>2, <1>3, <1>4, <1>5

(* What a call of radio_recv_poll() in main()'s loop leads to. *)
LEMMA PollCases ==
    ASSUME IInv, RxRadio
    PROVE  \/ /\ IsKeyEvent(rxFifo.pkt) /\ rxFifo # NoFrame /\ rxFifo' = NoFrame /\ ~report_pending
              /\ HidSendReport(ReportOf(rxFifo))
           \/ /\ ~IsKeyEvent(rxFifo.pkt) /\ rxFifo' = NoFrame /\ ~report_pending
              /\ UNCHANGED endpointVars
           \/ UNCHANGED endpointVars /\ rxFifo' = rxFifo
<1>1. CASE MayPollRadio /\ RecvReady /\ rxEnd = "ENDOK"
  <2>1. rxFifo' = NoFrame /\ ~report_pending /\ RecvHasPacket
      BY <1>1 DEF RxRadio, RadioRecvPoll, RxArm, MayPollRadio, hid_busy, RecvHasPacket
  <2>2. CASE IsKeyEvent(rxFifo.pkt)
    <3>1. rxFifo # NoFrame
        BY <2>2, Constants DEF NoFrame
    <3> QED
        BY <1>1, <2>1, <2>2, <3>1 DEF RxRadio, RecvBuf
  <2>3. CASE ~IsKeyEvent(rxFifo.pkt)
      BY <1>1, <2>1, <2>3 DEF RxRadio, RecvBuf
  <2> QED
      BY <2>2, <2>3
<1>2. CASE MayPollRadio /\ RecvReady /\ rxEnd # "ENDOK"
  <2>1. rxFifo = NoFrame
      BY <1>2 DEF IInv, FifoHeld
  <2> QED
      BY <1>2, <2>1 DEF RxRadio, RadioRecvPoll, RxArm, RecvHasPacket
<1>3. CASE ~MayPollRadio \/ ~RecvReady
    BY <1>3 DEF RxRadio, RadioRecvPoll, RecvHasPacket, linkVars
<1> QED
    BY <1>1, <1>2, <1>3

LEMMA AppTypesStep ==
    ASSUME IInv, [Next]_vars
    PROVE  HidTypeOK' /\ AppTypeOK'
<1>0. HidTypeOK /\ AppTypeOK /\ usbf1.id \in Nat /\ rxFifo.pkt \in Packet
    BY Types DEF IInv, LinkReport, LinkFrame
<1>1. ASSUME NEW r \in KeyReports, NEW d \in BOOLEAN, SendKey(r, d)
      PROVE  HidTypeOK' /\ AppTypeOK'
  <2>1. HidTypeOK'
      BY <1>0, <1>1, EndpointTypes DEF SendKey
  <2>2. AppTypeOK'
      BY <1>0, <1>1 DEF AppTypeOK, SendKey, rxAppVars, Byte
  <2> QED
      BY <2>1, <2>2
<1>2. CASE SendTestPacket
  <2>1. HidTypeOK'
      BY <1>0, <1>2, EndpointTypes DEF SendTestPacket
  <2>2. AppTypeOK'
      BY <1>0, <1>2 DEF AppTypeOK, SendTestPacket, rxAppVars, Byte
  <2> QED
      BY <2>1, <2>2
<1>3. CASE TxStep \/ TxEngine \/ AirFails
    BY <1>0, <1>3, EndpointTypes
    DEF AppTypeOK, TxStep, TxEngine, AirFails, txAppVars, rxAppVars, histVars
<1>4. CASE TxRestart
  <2>1. HidTypeOK'
      BY <1>0, <1>4, EndpointTypes DEF TxRestart
  <2>2. AppTypeOK'
      BY <1>0, <1>4 DEF AppTypeOK, TxRestart, rxAppVars, Byte
  <2> QED
      BY <2>1, <2>2
<1>5. CASE AirWorks
  <2>1. HidTypeOK'
      BY <1>0, <1>5, EndpointTypes DEF AirWorks
  <2>2. txFifo.id \in Nat
      BY Types DEF LinkFrame
  <2>3. AppTypeOK'
      BY <1>0, <1>5, <2>2 DEF AppTypeOK, AirWorks, txAppVars, rxAppVars
  <2> QED
      BY <2>1, <2>3
<1>6. CASE RxUsb \/ GetLastPacket
    BY <1>0, <1>6, EndpointTypes DEF AppTypeOK, RxUsb, GetLastPacket, txAppVars, histVars
<1>7. CASE RxHid
  <2>1. HidTypeOK'
      BY <1>0, <1>7, EndpointTypes DEF RxHid
  <2>2. AppTypeOK'
      BY <1>0, <1>7 DEF AppTypeOK, RxHid, txAppVars, histVars
  <2> QED
      BY <2>1, <2>2
<1>8. CASE RxRadio
  <2>1. HidTypeOK'
    <3>1. ReportOf(rxFifo) \in LinkReport
        BY Types, ReportType
    <3> QED
        BY <1>0, <1>8, <3>1, PollCases, EndpointTypes
  <2>2. AppTypeOK'
      BY <1>0, <1>8 DEF AppTypeOK, RxRadio, RecvBuf, txAppVars, histVars
  <2> QED
      BY <2>1, <2>2
<1>9. CASE RxRestart
  <2>1. HidTypeOK'
      BY <1>0, <1>9, EndpointTypes DEF RxRestart
  <2>2. last_pkt' \in Packet /\ have_pkt' \in BOOLEAN /\ owed' \in SUBSET Nat
      BY <1>0, <1>9, Constants DEF AppTypeOK, RxRestart
  <2>3. count' \in [{"keys", "tests", "txRestarts", "rxRestarts"} -> Nat]
      BY <1>0, <1>9 DEF AppTypeOK, RxRestart
  <2>4. AppTypeOK'
      BY <1>0, <1>9, <2>2, <2>3 DEF AppTypeOK, RxRestart, txAppVars
  <2> QED
      BY <2>1, <2>4
<1>10. CASE RxBoot
  <2>1. HidTypeOK'
      BY <1>0, <1>10, EndpointTypes DEF RxBoot
  <2>2. AppTypeOK'
      BY <1>0, <1>10 DEF AppTypeOK, RxBoot, txAppVars
  <2> QED
      BY <2>1, <2>2
<1>11. CASE HostStep
  <2>1. HidTypeOK'
      BY <1>0, <1>11, EndpointTypes DEF HostStep
  <2>2. AppTypeOK'
      BY <1>0, <1>11 DEF AppTypeOK, HostStep, txAppVars, rxAppVars
  <2> QED
      BY <2>1, <2>2
<1>12. CASE UNCHANGED vars
    BY <1>0, <1>12, EndpointTypes DEF AppTypeOK, vars, txAppVars, rxAppVars, histVars
<1> QED
    BY <1>1, <1>2, <1>3, <1>4, <1>5, <1>6, <1>7, <1>8, <1>9, <1>10, <1>11, <1>12
       DEF Next, RxLoop

(* The receiving engine takes a frame only when the last one was polled. *)
LEMMA FifoHeldStep ==
    ASSUME IInv, [Next]_vars
    PROVE  FifoHeld'
<1> USE DEF FifoHeld
<1>0. FifoHeld
    BY DEF IInv
<1>1. CASE AirFails
    BY <1>0, <1>1 DEF AirFails, AttemptLost, AttemptDamaged, RxTaskEnds, rxVars
<1>2. CASE AirWorks
    BY <1>2 DEF AirWorks, AttemptHeard, RxTakes, RxTaskEnds
<1>3. CASE RxRadio
    BY <1>0, <1>3 DEF RxRadio, RadioRecvPoll, RxArm, linkVars
<1>4. CASE RxBoot
    BY <1>4 DEF RxBoot, RadioInitRx, RxArm
<1>5. CASE UNCHANGED <<rxFifo, rxTask, rxEnd>>
    BY <1>0, <1>5
<1>6. ASSUME NEW r \in KeyReports, NEW d \in BOOLEAN, SendKey(r, d)
      PROVE  UNCHANGED <<rxFifo, rxTask, rxEnd>>
    BY <1>6 DEF SendKey, RadioSend, rxVars
<1>7. SendTestPacket \/ TxStep \/ TxEngine \/ TxRestart => UNCHANGED <<rxFifo, rxTask, rxEnd>>
    BY DEF SendTestPacket, RadioSend, TxStep, Sender, CmdTx, CmdTxAborts, RoundEnds,
           RadioSendReturns, TxEngine, TxListenEnds, TxRestart, RadioInitTx, rxVars
<1>8. RxUsb \/ GetLastPacket \/ RxHid \/ RxRestart \/ HostStep \/ UNCHANGED vars
          => UNCHANGED <<rxFifo, rxTask, rxEnd>>
    BY DEF RxUsb, GetLastPacket, RxHid, RxRestart, HostStep, vars, linkVars
<1> QED
    BY <1>1, <1>2, <1>3, <1>4, <1>5, <1>6, <1>7, <1>8 DEF Next, RxLoop

(* What the steps do to the reports and frames under way, and to nothing    *)
(* else the path's invariant speaks of.                                     *)
Path == InOrder /\ Numbered /\ Heard /\ Booting /\ NothingAcceptedIsLost

StaysPut ==
    /\ UNCHANGED <<txFifo, rxFifo, heard, endpointVars, owed>>
    /\ txPc' # "ready" => txPc # "ready"
    /\ rxPc' = "boot" => rxPc = "boot"

LEMMA QuietSteps ==
    ASSUME IInv,
           \/ TxStep \/ TxEngine \/ TxRestart \/ AirFails
           \/ RxUsb \/ GetLastPacket \/ UNCHANGED vars
    PROVE  StaysPut
<1> USE DEF StaysPut
<1>1. CASE TxStep
    BY <1>1 DEF TxStep, Sender, CmdTx, CmdTxAborts, RoundEnds, RadioSendReturns,
                rxVars, rxAppVars, histVars
<1>2. CASE TxEngine \/ TxRestart
    BY <1>2 DEF TxEngine, TxListenEnds, TxRestart, RadioInitTx, rxVars, rxAppVars, histVars
<1>3. CASE AirFails
    BY <1>3 DEF AirFails, AttemptLost, AttemptDamaged, NotAcked, rxVars, rxAppVars, histVars
<1>4. CASE RxUsb \/ GetLastPacket
    BY <1>4 DEF RxUsb, GetLastPacket, linkVars, histVars
<1>5. CASE UNCHANGED vars
    BY <1>5 DEF vars, linkVars, rxAppVars, histVars
<1> QED
    BY <1>1, <1>2, <1>3, <1>4, <1>5

LEMMA PathOf == IInv => Path
BY DEF IInv, Path

LEMMA PathQuiet ==
    ASSUME IInv, StaysPut
    PROVE  Path'
<1> USE DEF Path, StaysPut, endpointVars
<1>0. Path
    BY PathOf
<1>1. InEndpoint' = InEndpoint /\ InRadio' = InRadio /\ Shown' = Shown
    BY DEF InEndpoint, InRadio, Shown
<1>2. InOrder' /\ NothingAcceptedIsLost'
    BY <1>0, <1>1 DEF InOrder, NothingAcceptedIsLost
<1>3. Numbered' /\ Heard' /\ Booting'
    BY <1>0, <1>1 DEF Numbered, Heard, Booting
<1> QED
    BY <1>2, <1>3

(* A new number is larger than all there are. *)
LEMMA PathNewFrame ==
    ASSUME IInv, NEW p \in Packet, RadioSend(NextFrame(p)),
           UNCHANGED <<endpointVars, rxAppVars, owed>>
    PROVE  Path'
<1>0. Path
    BY PathOf
<1>1. /\ txFifo.id \in Nat /\ txFifo'.id = txFifo.id + 1 /\ rxFifo' = rxFifo
      /\ rxFifo.id \in Nat /\ usbf1.id \in Nat /\ pending_report.id \in Nat /\ screen.id \in Nat
    BY Types, NextFrameType DEF RadioSend, LinkFrame, LinkReport, rxVars
<1>2. InEndpoint' = InEndpoint /\ InRadio' = InRadio /\ Shown' = Shown /\ screen' = screen
    BY <1>1 DEF InEndpoint, InRadio, Shown, endpointVars
<1>3. \A r \in Shown : r.id \in Nat /\ r.id <= txFifo.id
    BY <1>0, <1>1 DEF Path, InOrder, Shown, InEndpoint
<1>4. InOrder'
    BY <1>0, <1>1, <1>2, <1>3 DEF Path, InOrder, Shown, endpointVars
<1>5. Numbered' /\ Heard'
    BY <1>0, <1>1, <1>2, <1>3 DEF Path, Numbered, Heard, InOrder
<1>6. Booting' /\ NothingAcceptedIsLost'
    BY <1>0, <1>2 DEF Path, Booting, NothingAcceptedIsLost, rxAppVars
<1> QED
    BY <1>4, <1>5, <1>6 DEF Path

(* The frame that is heard comes into an empty FIFO. *)
LEMMA PathHeard ==
    ASSUME IInv, AirWorks
    PROVE  Path'
<1>0. Path
    BY PathOf
<1>1. /\ txFifo' = txFifo /\ rxFifo' = txFifo /\ heard' = TRUE /\ rxPc' = rxPc
      /\ txPc' = txPc
      /\ UNCHANGED endpointVars
    BY DEF AirWorks, AttemptHeard, RxTakes, Acked, NotAcked, rxAppVars
<1>2. rxFifo = NoFrame
    BY DEF IInv, FifoHeld, AirWorks, AttemptHeard
<1>3. 0 < txFifo.id /\ txFifo.id \in Nat
  <2>1. txPc = "air"
      BY DEF IInv, Link!RadioInv, Link!EndcauseIsOwn, AirWorks, AttemptHeard
  <2> QED
      BY <1>0, <2>1, Types DEF Path, Numbered, LinkFrame
<1>4. InEndpoint' = InEndpoint /\ Shown' = Shown
    BY <1>1 DEF InEndpoint, Shown, endpointVars
<1>5. InOrder'
    BY <1>0, <1>1, <1>3, <1>4 DEF Path, InOrder, endpointVars
<1>6. Numbered' /\ Heard'
  <2>1. \A r \in Shown : r.id = txFifo.id => MadeOf(r, txFifo)
      BY <1>0, <1>3 DEF Path, Numbered
  <2>2. \A r \in Shown : MadeOf(r, txFifo) => MadeOf(r, rxFifo)'
      BY <1>1 DEF MadeOf
  <2>3. \A r \in Shown : MadeOf(r, txFifo) => MadeOf(r, txFifo)'
      BY <1>1 DEF MadeOf
  <2> QED
      BY <1>0, <1>1, <1>3, <1>4, <2>1, <2>2, <2>3 DEF Path, Numbered, Heard
<1>7. Booting'
    BY <1>0, <1>1, <1>4 DEF Path, Booting, endpointVars
<1>8. NothingAcceptedIsLost'
  <2>1. InRadio = {}
      BY <1>2, Constants DEF InRadio, NoFrame
  <2>2. \A i \in owed : \E r \in InEndpoint' : r.id = i
      BY <1>0, <1>4, <2>1 DEF Path, NothingAcceptedIsLost
  <2>3. IsKeyEvent(txFifo.pkt) => \E r \in InRadio' : r.id = txFifo.id
      BY <1>1, Types, ReportType DEF InRadio
  <2>4. owed' = IF ~heard /\ IsKeyEvent(txFifo.pkt) THEN owed \cup {txFifo.id} ELSE owed
      BY DEF AirWorks
  <2> QED
      BY <2>2, <2>3, <2>4 DEF NothingAcceptedIsLost
<1> QED
    BY <1>5, <1>6, <1>7, <1>8 DEF Path

(* hid_poll() moves a report inside the endpoint. *)
LEMMA PathRxHid ==
    ASSUME IInv, RxHid
    PROVE  Path'
<1>0. Path
    BY PathOf
<1>1. UNCHANGED <<txFifo, rxFifo, heard, owed, txPc, screen>> /\ rxPc' = "radio"
    BY DEF RxHid, HidPoll, linkVars, histVars
<1>2. InEndpoint' = InEndpoint /\ (pktPresent' /\ report_pending' => UNCHANGED endpointVars)
    BY DEF RxHid, HidPoll, EndpointFull, WriteReport, InEndpoint, endpointVars
<1>3. InRadio' = InRadio /\ Shown' = Shown
    BY <1>1, <1>2 DEF InRadio, Shown
<1>4. InOrder'
    BY <1>0, <1>1, <1>2, <1>3 DEF Path, InOrder, endpointVars
<1>5. Numbered' /\ Heard' /\ Booting' /\ NothingAcceptedIsLost'
    BY <1>0, <1>1, <1>2, <1>3 DEF Path, Numbered, Heard, Booting, NothingAcceptedIsLost
<1> QED
    BY <1>4, <1>5 DEF Path

(* hid_send_report(), with a free slot, takes over from the Rx FIFO. *)
LEMMA PathSubmitted ==
    ASSUME IInv, RxRadio, IsKeyEvent(rxFifo.pkt), rxFifo # NoFrame, rxFifo' = NoFrame,
           ~report_pending, HidSendReport(ReportOf(rxFifo))
    PROVE  Path' /\ InEndpoint' = InEndpoint \cup InRadio /\ InRadio' = {}
<1> DEFINE new == ReportOf(rxFifo)
<1>0. Path
    BY PathOf
<1>1. UNCHANGED <<txFifo, heard, owed, txPc, screen>> /\ rxPc' = "usb"
    BY DEF RxRadio, RadioRecvPoll, txVars, linkVars, histVars, HidSendReport
<1>2. /\ new.id = rxFifo.id /\ rxFifo.id \in Nat /\ txFifo.id \in Nat /\ screen.id \in Nat
      /\ 0 < rxFifo.id
    BY <1>0, Types, ReportType DEF LinkFrame, LinkReport, Path, Numbered
<1>3. /\ InEndpoint = (IF pktPresent THEN {usbf1} ELSE {})
      /\ InEndpoint' = InEndpoint \cup {new} /\ Shown' = Shown \cup {new}
      /\ pktPresent' /\ report_pending' => usbf1' = usbf1 /\ pktPresent /\ pending_report' = new
    BY <1>1 DEF InEndpoint, Shown, HidSendReport, EndpointFull, WriteReport
<1>4. InRadio = {new} /\ InRadio' = {}
    BY Constants DEF InRadio, NoFrame
<1>5. InOrder'
  <2>1. rxFifo'.id = 0
      BY DEF NoFrame
  <2>2. screen.id <= new.id /\ new.id <= txFifo.id /\ (pktPresent => usbf1.id <= new.id)
      BY <1>0, <1>2, <1>3 DEF Path, InOrder
  <2> QED
      BY <1>0, <1>1, <1>2, <1>3, <2>1, <2>2 DEF Path, InOrder
<1>6. Numbered'
  <2>1. \A r \in Shown : r.id = new.id => r = new
      BY <1>0, <1>2 DEF Path, Numbered, MadeOf
  <2>2. new.id = txFifo.id => MadeOf(new, txFifo)
      BY <1>0, <1>2 DEF Path, Numbered, MadeOf
  <2>3. \A r \in Shown' : 0 < r.id /\ r.id = txFifo.id => MadeOf(r, txFifo)
      BY <1>0, <1>3, <2>2 DEF Path, Numbered
  <2>4. \A r \in Shown' : MadeOf(r, txFifo) => MadeOf(r, txFifo)'
      BY <1>1 DEF MadeOf
  <2>5. \A r, s \in Shown' : r.id = s.id => r = s
      BY <1>0, <1>3, <2>1 DEF Path, Numbered
  <2> QED
      BY <1>0, <1>1, <2>3, <2>4, <2>5 DEF Path, Numbered
<1>7. Heard'
    BY <1>0, <1>1, <1>2, <1>3 DEF Path, Heard
<1>8. Booting'
    BY <1>1 DEF Booting
<1>9. NothingAcceptedIsLost'
    BY <1>0, <1>1, <1>3, <1>4 DEF Path, NothingAcceptedIsLost
<1> QED
    BY <1>3, <1>4, <1>5, <1>6, <1>7, <1>8, <1>9 DEF Path

(* The Rx FIFO is emptied of something that is no report. *)
LEMMA PathNoReport ==
    ASSUME IInv, ~IsKeyEvent(rxFifo.pkt) \/ owed' = {}, rxFifo' = NoFrame,
           UNCHANGED <<txFifo, heard, txPc, endpointVars>>, owed' \subseteq owed, rxPc' = "usb"
    PROVE  Path' /\ InEndpoint' = InEndpoint /\ InRadio' = {}
<1> USE DEF endpointVars
<1>0. Path
    BY PathOf
<1>1. InEndpoint' = InEndpoint /\ Shown' = Shown /\ screen' = screen
    BY DEF InEndpoint, Shown
<1>2. InRadio' = {}
    BY Constants DEF InRadio, NoFrame
<1>3. rxFifo'.id = 0 /\ txFifo.id \in Nat
    BY Types DEF NoFrame, LinkFrame
<1>4. InOrder'
    BY <1>0, <1>1, <1>3 DEF Path, InOrder
<1>5. Numbered'
  <2>1. \A r \in Shown : MadeOf(r, txFifo) => MadeOf(r, txFifo)'
      BY DEF MadeOf
  <2> QED
      BY <1>0, <1>1, <2>1 DEF Path, Numbered
<1>6. Heard' /\ Booting'
    BY <1>0, <1>1 DEF Path, Heard, Booting
<1>7. NothingAcceptedIsLost'
  <2>1. CASE owed' = {}
      BY <2>1 DEF NothingAcceptedIsLost
  <2>2. CASE ~IsKeyEvent(rxFifo.pkt)
      BY <1>0, <1>1, <2>2 DEF Path, NothingAcceptedIsLost, InRadio
  <2> QED
      BY <2>1, <2>2
<1> QED
    BY <1>1, <1>2, <1>4, <1>5, <1>6, <1>7 DEF Path

LEMMA PathRxRadio ==
    ASSUME IInv, RxRadio
    PROVE  /\ Path' /\ InEndpoint' \cup InRadio' = InEndpoint \cup InRadio
           /\ UNCHANGED <<txFifo, heard, txPc, ok, screen>>
<1>1. UNCHANGED <<txFifo, heard, owed, txPc, ok>> /\ rxPc' = "usb"
    BY DEF RxRadio, RadioRecvPoll, txVars, linkVars, histVars
<1>2. screen' = screen
    BY PollCases DEF HidSendReport, endpointVars
<1>3. CASE /\ IsKeyEvent(rxFifo.pkt) /\ rxFifo # NoFrame /\ rxFifo' = NoFrame
           /\ ~report_pending /\ HidSendReport(ReportOf(rxFifo))
    BY <1>1, <1>2, <1>3, PathSubmitted
<1>4. CASE ~IsKeyEvent(rxFifo.pkt) /\ rxFifo' = NoFrame /\ UNCHANGED endpointVars
  <2>1. InRadio = {}
      BY <1>4 DEF InRadio
  <2> QED
      BY <1>1, <1>2, <1>4, <2>1, PathNoReport
<1>5. CASE UNCHANGED endpointVars /\ rxFifo' = rxFifo
  <2>1. StaysPut
      BY <1>1, <1>5 DEF StaysPut
  <2>2. InEndpoint' = InEndpoint /\ InRadio' = InRadio
      BY <1>5 DEF InEndpoint, InRadio, endpointVars
  <2> QED
      BY <1>1, <1>2, <2>1, <2>2, PathQuiet
<1> QED
    BY <1>3, <1>4, <1>5, PollCases

(* A restart empties the endpoint; what the engine holds is still owed. *)
LEMMA PathRxRestart ==
    ASSUME IInv, RxRestart
    PROVE  Path'
<1>0. Path
    BY PathOf
<1>1. /\ UNCHANGED <<txFifo, rxFifo, heard, txPc>> /\ rxPc' = "boot"
      /\ screen' = NoReport /\ InEndpoint' = {} /\ ~pktPresent' /\ InRadio' = InRadio
      /\ owed' = owed \cap {rxFifo.id}
    BY DEF RxRestart, HidReset, linkVars, InEndpoint, InRadio
<1>2. Shown' = {NoReport} /\ NoReport.id = 0 /\ txFifo.id \in Nat /\ rxFifo.id \in Nat
    BY <1>1, Types DEF Shown, NoReport, LinkFrame
<1>3. InOrder'
    BY <1>0, <1>1, <1>2 DEF Path, InOrder
<1>4. Numbered' /\ Heard' /\ Booting'
    BY <1>0, <1>1, <1>2 DEF Path, Numbered, Heard, Booting
<1>5. NothingAcceptedIsLost'
  <2> SUFFICES ASSUME NEW i \in owed, i = rxFifo.id
               PROVE  \E r \in InRadio : r.id = i
      BY <1>1 DEF NothingAcceptedIsLost
  <2>1. PICK r \in InEndpoint \cup InRadio : r.id = i
      BY <1>0 DEF Path, NothingAcceptedIsLost
  <2>2. CASE r \in InRadio
      BY <2>1, <2>2
  <2>3. CASE r \in InEndpoint
    <3>1. 0 < rxFifo.id
        BY <1>0, <2>1, <2>3 DEF Path, InOrder
    <3>2. rxFifo # NoFrame
        BY <3>1 DEF NoFrame
    <3>3. IsKeyEvent(rxFifo.pkt)
        BY <1>0, <2>1, <2>3, <3>2 DEF Path, Numbered, Shown, MadeOf
    <3> QED
        BY <3>3, Types, ReportType DEF InRadio
  <2> QED
      BY <2>1, <2>2, <2>3
<1> QED
    BY <1>3, <1>4, <1>5 DEF Path

LEMMA PathRxBoot ==
    ASSUME IInv, RxBoot
    PROVE  Path' /\ InEndpoint' = InEndpoint /\ InRadio' = {}
BY PathNoReport DEF RxBoot, RadioInitRx, RxArm, txVars

(* The machine takes the oldest report. *)
LEMMA PathHost ==
    ASSUME IInv, HostStep
    PROVE  Path'
<1>0. Path
    BY PathOf
<1>1. /\ UNCHANGED <<txFifo, rxFifo, heard, txPc, rxPc, report_pending, pending_report, usbf1>>
      /\ pktPresent /\ ~pktPresent' /\ screen' = usbf1 /\ owed' = owed \ {usbf1.id}
    BY DEF HostStep, HostTakes, linkVars, rxAppVars
<1>2. /\ InEndpoint' = (IF report_pending THEN {pending_report} ELSE {})
      /\ InEndpoint = InEndpoint' \cup {usbf1} /\ InRadio' = InRadio
      /\ Shown' \subseteq Shown
    BY <1>1 DEF InEndpoint, Shown, InRadio
<1>3. InOrder'
    BY <1>0, <1>1, <1>2 DEF Path, InOrder
<1>4. Numbered'
  <2>1. \A r \in Shown : /\ MadeOf(r, txFifo) => MadeOf(r, txFifo)'
                         /\ MadeOf(r, rxFifo) => MadeOf(r, rxFifo)'
      BY <1>1 DEF MadeOf
  <2> QED
      BY <1>0, <1>1, <1>2, <2>1 DEF Path, Numbered
<1>5. Heard'
    BY <1>0, <1>1, <1>2 DEF Path, Heard
<1>6. Booting'
    BY <1>0, <1>1, <1>2 DEF Path, Booting
<1>7. NothingAcceptedIsLost'
    BY <1>0, <1>1, <1>2 DEF Path, NothingAcceptedIsLost
<1> QED
    BY <1>3, <1>4, <1>5, <1>6, <1>7 DEF Path

LEMMA PathStep ==
    ASSUME IInv, [Next]_vars
    PROVE  Path'
<1>0. txFifo \in LinkFrame /\ seq \in Byte
    BY Types
<1>1. ASSUME NEW r \in KeyReports, NEW d \in BOOLEAN, SendKey(r, d)
      PROVE  Path'
    BY <1>0, <1>1, KeyPacketType, PathNewFrame DEF SendKey
<1>2. CASE SendTestPacket
    BY <1>0, <1>2, TestPacketType, PathNewFrame DEF SendTestPacket
<1>3. CASE TxStep \/ TxEngine \/ TxRestart \/ AirFails \/ RxUsb \/ GetLastPacket \/ UNCHANGED vars
    BY <1>3, QuietSteps, PathQuiet
<1>4. CASE AirWorks
    BY <1>4, PathHeard
<1>5. CASE RxHid \/ RxRadio
    BY <1>5, PathRxHid, PathRxRadio
<1>6. CASE RxRestart \/ RxBoot
    BY <1>6, PathRxRestart, PathRxBoot
<1>7. CASE HostStep
    BY <1>7, PathHost
<1> QED
    BY <1>1, <1>2, <1>3, <1>4, <1>5, <1>6, <1>7 DEF Next, RxLoop

LEMMA InitInv == Init => IInv
<1> SUFFICES ASSUME Init
             PROVE  IInv
    OBVIOUS
<1> USE DEF Init, HidInit
<1>1. Link!RadioInv
    BY LinkInit
<1>2. HidTypeOK /\ AppTypeOK
  <2>1. HidTypeOK
      BY Constants DEF HidTypeOK
  <2>2. count \in [{"keys", "tests", "txRestarts", "rxRestarts"} -> Nat]
      OBVIOUS
  <2>3. seq \in Byte
      BY DEF Byte
  <2> QED
      BY <2>1, <2>2, <2>3, Constants DEF AppTypeOK
<1>3. txFifo = NoFrame /\ rxFifo = NoFrame /\ txPc = "ready" /\ NoFrame.id = 0
    BY DEF RadioInit, NoFrame
<1>4. InEndpoint = {} /\ Shown = {NoReport} /\ NoReport.id = 0
    BY DEF InEndpoint, Shown, NoReport
<1>5. InOrder
    BY <1>3, <1>4 DEF InOrder
<1>6. FifoHeld /\ Numbered /\ Heard /\ Booting /\ NothingAcceptedIsLost
    BY <1>3, <1>4 DEF FifoHeld, Numbered, Heard, Booting, NothingAcceptedIsLost
<1> QED
    BY <1>1, <1>2, <1>5, <1>6 DEF IInv

LEMMA Inductive == Spec => []IInv
<1>1. IInv /\ [Next]_vars => IInv'
    BY LinkInvStep, AppTypesStep, FifoHeldStep, PathStep DEF IInv, Path
<1> QED
    BY InitInv, <1>1, PTL DEF Spec

(* The state of both applications, both engines and the keyboard endpoint   *)
(* keeps its types, radio_send() its bound on rounds.                       *)
THEOREM TypeCorrect == Spec => []TypeOK
<1>1. IInv => TypeOK
    BY SameTypes DEF IInv, Link!RadioInv, AppTypeOK, TypeOK
<1> QED
    BY <1>1, Inductive, PTL

(* The FIFO of the engine, the waiting report, the endpoint and the screen  *)
(* hold events in the order of their radio_send().                          *)
THEOREM InOrderHolds == Spec => []InOrder
<1>1. IInv => InOrder
    BY DEF IInv
<1> QED
    BY <1>1, Inductive, PTL

(* Backpressure loses nothing: an event the engine took is in one of the    *)
(* three places until the machine takes it.                                 *)
THEOREM NothingAcceptedIsLostHolds == Spec => []NothingAcceptedIsLost
<1>1. IInv => NothingAcceptedIsLost
    BY DEF IInv
<1> QED
    BY <1>1, Inductive, PTL
-----------------------------------------------------------------------------
LEMMA OnlyKeysStep ==
    ASSUME MaxTests = 0, IInv, OnlyKeys, [Next]_vars
    PROVE  OnlyKeys'
<1>0. txFifo \in LinkFrame /\ seq \in Byte
    BY Types
<1>1. ASSUME NEW r \in KeyReports, NEW d \in BOOLEAN, SendKey(r, d)
      PROVE  OnlyKeys'
    BY <1>0, <1>1, KeyPacketType, NextFrameType DEF OnlyKeys, SendKey, RadioSend, rxVars
<1>2. CASE SendTestPacket
  <2>1. count.tests \in Nat
      BY DEF IInv, AppTypeOK
  <2> QED
      BY <1>2, <2>1 DEF SendTestPacket
<1>3. CASE TxStep \/ TxEngine \/ TxRestart \/ AirFails \/ RxUsb \/ GetLastPacket \/ UNCHANGED vars
    BY <1>3, QuietSteps DEF OnlyKeys, StaysPut
<1>4. CASE AirWorks
    BY <1>4 DEF OnlyKeys, AirWorks, AttemptHeard, RxTakes, Acked, NotAcked
<1>5. CASE RxHid \/ RxRestart \/ HostStep
    BY <1>5 DEF OnlyKeys, RxHid, RxRestart, HostStep, linkVars
<1>6. CASE RxRadio
    BY <1>6, PathRxRadio, PollCases DEF OnlyKeys
<1>7. CASE RxBoot
    BY <1>7 DEF OnlyKeys, RxBoot, RadioInitRx, RxArm, txVars
<1> QED
    BY <1>1, <1>2, <1>3, <1>4, <1>5, <1>6, <1>7 DEF Next, RxLoop

(* What the abstract stream sees of each kind of step. *)
StreamPipe == {r \in InEndpoint \cup InRadio : r.id > screen.id}
StreamVars == <<ReportOf(txFifo), txPc # "ready", heard, StreamPipe, screen,
                ok /\ txPc = "ready">>

LEMMA StreamInit == Init => Stream!Init
<1> SUFFICES ASSUME Init
             PROVE  Stream!Init
    OBVIOUS
<1>1. txFifo = NoFrame /\ txPc = "ready" /\ ok = FALSE /\ heard = FALSE
    BY DEF Init, RadioInit
<1>2. ReportOf(NoFrame) = NoReport
    BY DEF ReportOf, NoFrame, NoReport, RepOf, ZeroPacket
<1>3. screen = NoReport
    BY DEF Init, HidInit
<1>4. StreamPipe = {}
  <2>1. InEndpoint = {}
      BY DEF Init, HidInit, InEndpoint
  <2>2. InRadio = {}
      BY Constants DEF Init, RadioInit, InRadio, NoFrame
  <2> QED
      BY <2>1, <2>2 DEF StreamPipe
<1> QED
    BY <1>1, <1>2, <1>3, <1>4 DEF Stream!Init, StreamPipe, NoReport

(* Steps that leave the reports where they are. *)
LEMMA SamePipe ==
    ASSUME UNCHANGED <<rxFifo, endpointVars>>
    PROVE  StreamPipe' = StreamPipe /\ screen' = screen
BY DEF StreamPipe, InEndpoint, InRadio, endpointVars

LEMMA StreamSubmit ==
    ASSUME IInv, NEW r \in KeyReports, NEW d \in BOOLEAN, SendKey(r, d)
    PROVE  Stream!Next
<1> DEFINE p == KeyPacket(r, d, seq)
<1>1. p \in Packet /\ RepOf(p) \in KeyReports \cup {NoKeysRep}
    BY Types, KeyPacketType
<1>2. /\ txPc = "ready" /\ txPc' = "round" /\ ok' = FALSE /\ heard' = FALSE
      /\ txFifo' = NextFrame(p) /\ UNCHANGED <<rxFifo, endpointVars>>
    BY DEF SendKey, RadioSend, rxVars
<1>3. ReportOf(txFifo') = [id |-> ReportOf(txFifo).id + 1, rep |-> RepOf(p)]
    BY <1>1, <1>2, Types, NextFrameType DEF ReportOf
<1>4. Stream!Submit(RepOf(p))
    BY <1>2, <1>3, SamePipe DEF Stream!Submit, StreamPipe
<1> QED
    BY <1>1, <1>4 DEF Stream!Next

LEMMA StreamOutcome ==
    ASSUME IInv, TxStep
    PROVE  Stream!Next \/ UNCHANGED StreamVars
<1>1. UNCHANGED <<txFifo, heard, rxFifo, endpointVars>>
    BY DEF TxStep, Sender, CmdTx, CmdTxAborts, RoundEnds, RadioSendReturns, rxVars
<1>2. StreamPipe' = StreamPipe /\ screen' = screen
    BY <1>1, SamePipe
<1>3. CASE RadioSendReturns
  <2>1. txPc = "round" /\ txPc' = "ready" /\ ok' = ok /\ ok \in BOOLEAN /\ (ok => heard)
      BY <1>3, Types DEF RadioSendReturns, IInv, Link!RadioInv, Link!EndcauseIsOwn
  <2>2. (ok' /\ txPc' = "ready") \in (IF heard THEN BOOLEAN ELSE {FALSE})
      BY <2>1
  <2>3. Stream!Outcome
      BY <1>1, <1>2, <2>1, <2>2 DEF Stream!Outcome, StreamPipe
  <2> QED
      BY <2>3 DEF Stream!Next
<1>4. CASE CmdTx \/ CmdTxAborts \/ RoundEnds
  <2>1. txPc # "ready" /\ txPc' # "ready"
      BY <1>4 DEF CmdTx, CmdTxAborts, RoundEnds
  <2> QED
      BY <1>1, <1>2, <2>1 DEF StreamVars
<1> QED
    BY <1>3, <1>4 DEF TxStep, Sender

LEMMA StreamSenderRestart ==
    ASSUME TxRestart
    PROVE  Stream!Next
<1>1. /\ txPc = "ready" /\ txPc' = "ready" /\ ok' = FALSE
      /\ UNCHANGED <<txFifo, heard, rxFifo, endpointVars>>
    BY DEF TxRestart, RadioInitTx, rxVars
<1>2. Stream!SenderRestart
    BY <1>1, SamePipe DEF Stream!SenderRestart, StreamPipe
<1> QED
    BY <1>2 DEF Stream!Next

(* A frame is accepted once; after that it is in the pipe or shown. *)
LEMMA StreamAccept ==
    ASSUME IInv, OnlyKeys, AirWorks
    PROVE  Stream!Next \/ UNCHANGED StreamVars
<1> DEFINE r == ReportOf(txFifo)
<1>0. Path
    BY PathOf
<1>1. /\ txFifo' = txFifo /\ rxFifo' = txFifo /\ heard' = TRUE /\ ok' = ok
      /\ txPc' = txPc /\ UNCHANGED endpointVars
    BY DEF AirWorks, AttemptHeard, RxTakes, Acked, NotAcked
<1>2. txPc = "air" /\ rxFifo = NoFrame
    BY DEF IInv, Link!RadioInv, Link!EndcauseIsOwn, FifoHeld, AirWorks, AttemptHeard
<1>3. 0 < txFifo.id /\ txFifo.id \in Nat /\ r.id = txFifo.id
    BY <1>0, <1>2, Types, ReportType DEF Path, Numbered, LinkFrame
<1>4. InRadio = {}
    BY <1>2, Constants DEF InRadio, NoFrame
<1>5. InRadio' = {r}
  <2>1. txFifo # NoFrame
      BY <1>3 DEF NoFrame
  <2> QED
      BY <1>1, <2>1 DEF InRadio, OnlyKeys
<1>6. InEndpoint' = InEndpoint /\ screen' = screen
    BY <1>1 DEF InEndpoint, endpointVars
<1>7. screen.id <= txFifo.id /\ screen.id \in Nat
    BY <1>0, Types DEF Path, InOrder, LinkReport
<1>8. CASE screen.id # txFifo.id
  <2>1. StreamPipe' = StreamPipe \cup {r}
      BY <1>3, <1>4, <1>5, <1>6, <1>7, <1>8 DEF StreamPipe
  <2>2. Stream!Accept
      BY <1>1, <1>2, <1>3, <1>6, <1>8, <2>1 DEF Stream!Accept, StreamPipe
  <2> QED
      BY <2>2 DEF Stream!Next
<1>9. CASE screen.id = txFifo.id
  <2>1. heard
      BY <1>0, <1>3, <1>9 DEF Path, Heard, Shown
  <2>2. StreamPipe' = StreamPipe
      BY <1>3, <1>4, <1>5, <1>6, <1>9 DEF StreamPipe
  <2> QED
      BY <1>1, <1>2, <1>6, <2>1, <2>2, Types DEF StreamVars
<1> QED
    BY <1>8, <1>9

(* A restart of app_rx: what the engine holds was in the pipe, or repeats   *)
(* the event shown last; radio_init() then drops it.                        *)
LEMMA StreamRxRestart ==
    ASSUME IInv, RxRestart
    PROVE  Stream!Next
<1>0. Path
    BY PathOf
<1>1. /\ UNCHANGED <<txFifo, heard, txPc, ok, rxFifo>>
      /\ InEndpoint' = {} /\ InRadio' = InRadio /\ screen' = NoReport
    BY DEF RxRestart, HidReset, linkVars, InEndpoint, InRadio
<1>2. StreamPipe' \subseteq StreamPipe \cup {screen}
  <2> SUFFICES ASSUME NEW r \in InRadio
               PROVE  r.id > screen.id \/ r = screen
      BY <1>1 DEF StreamPipe
  <2>1. r = ReportOf(rxFifo) /\ IsKeyEvent(rxFifo.pkt) /\ rxFifo # NoFrame /\ r.id = rxFifo.id
      BY Types, ReportType, Constants DEF InRadio, NoFrame
  <2>2. screen.id <= r.id /\ screen.id \in Nat /\ r.id \in Nat
      BY <1>0, <2>1, Types DEF Path, InOrder, LinkFrame, LinkReport
  <2>3. screen.id = r.id => screen = r
      BY <1>0, <2>1 DEF Path, Numbered, Shown, MadeOf
  <2> QED
      BY <2>2, <2>3
<1>3. Stream!Restart
    BY <1>1, <1>2 DEF Stream!Restart, StreamPipe, NoReport
<1> QED
    BY <1>3 DEF Stream!Next

LEMMA StreamRxBoot ==
    ASSUME IInv, RxBoot
    PROVE  Stream!Next
<1>1. /\ UNCHANGED <<txFifo, heard, txPc, ok, screen>>
      /\ InEndpoint' = InEndpoint /\ InRadio' = {}
    BY PathRxBoot DEF RxBoot, RadioInitRx, txVars, endpointVars
<1>2. InEndpoint = {} /\ screen = NoReport
    BY DEF IInv, Booting, RxBoot
<1>3. StreamPipe' = {}
    BY <1>1, <1>2 DEF StreamPipe
<1>4. Stream!Restart
    BY <1>1, <1>2, <1>3 DEF Stream!Restart, StreamPipe, NoReport
<1> QED
    BY <1>4 DEF Stream!Next

(* The machine sees the oldest event, or the last one again. *)
LEMMA StreamShow ==
    ASSUME IInv, HostStep
    PROVE  Stream!Next \/ UNCHANGED StreamVars
<1>0. Path
    BY PathOf
<1>1. /\ UNCHANGED <<txFifo, heard, txPc, ok>> /\ InRadio' = InRadio
      /\ pktPresent /\ screen' = usbf1
    BY DEF HostStep, HostTakes, linkVars, InRadio
<1>2. /\ InEndpoint' = (IF report_pending THEN {pending_report} ELSE {})
      /\ InEndpoint = InEndpoint' \cup {usbf1}
    BY DEF HostStep, HostTakes, InEndpoint
<1>3. \A r \in InEndpoint \cup InRadio : r.id \in Nat /\ usbf1.id <= r.id
  <2>1. \A r \in InEndpoint : r.id \in Nat /\ usbf1.id <= r.id
      BY <1>0, <1>1, <1>2, Types DEF Path, InOrder, LinkReport
  <2>2. \A r \in InRadio : rxFifo # NoFrame /\ r.id = rxFifo.id /\ r.id \in Nat
      BY Types, ReportType, Constants DEF InRadio, NoFrame, LinkFrame
  <2>3. \A r \in InRadio : usbf1.id <= r.id
      BY <1>0, <1>2, <2>2 DEF Path, InOrder
  <2> QED
      BY <2>1, <2>2, <2>3
<1>4. \A r \in InEndpoint \cup InRadio : r.id = usbf1.id => r = usbf1
  <2>1. \A r \in InEndpoint : r.id = usbf1.id => r = usbf1
      BY <1>0, <1>2 DEF Path, Numbered, Shown
  <2>2. ASSUME NEW r \in InRadio, r.id = usbf1.id
        PROVE  r = usbf1
    <3>1. r = ReportOf(rxFifo) /\ rxFifo # NoFrame /\ r.id = rxFifo.id
        BY Types, ReportType, Constants DEF InRadio, NoFrame
    <3> QED
        BY <1>0, <1>2, <2>2, <3>1 DEF Path, Numbered, Shown, MadeOf
  <2> QED
      BY <2>1, <2>2
<1>5. StreamPipe' = StreamPipe \ {usbf1}
  <2>1. screen.id <= usbf1.id /\ screen.id \in Nat /\ usbf1.id \in Nat
      BY <1>0, <1>2, Types DEF Path, InOrder, LinkReport
  <2> QED
      BY <1>1, <1>2, <1>3, <1>4, <2>1 DEF StreamPipe
<1>6. CASE usbf1.id > screen.id
  <2>1. usbf1 \in StreamPipe /\ \A f \in StreamPipe : usbf1.id <= f.id
      BY <1>2, <1>3, <1>6 DEF StreamPipe
  <2>2. Stream!Show
      BY <1>1, <1>5, <2>1 DEF Stream!Show, StreamPipe
  <2> QED
      BY <2>2 DEF Stream!Next
<1>7. CASE ~(usbf1.id > screen.id)
  <2>1. usbf1.id = screen.id
      BY <1>0, <1>2, <1>7, Types DEF Path, InOrder, LinkReport
  <2>2. usbf1 = screen
      BY <1>0, <1>2, <2>1 DEF Path, Numbered, Shown
  <2>3. StreamPipe' = StreamPipe
      BY <1>5, <1>7 DEF StreamPipe
  <2> QED
      BY <1>1, <2>2, <2>3 DEF StreamVars
<1> QED
    BY <1>6, <1>7

LEMMA StreamStep ==
    ASSUME MaxTests = 0, IInv, OnlyKeys, [Next]_vars
    PROVE  Stream!Next \/ UNCHANGED StreamVars
<1>1. ASSUME NEW r \in KeyReports, NEW d \in BOOLEAN, SendKey(r, d)
      PROVE  Stream!Next
    BY <1>1, StreamSubmit
<1>2. ~SendTestPacket
    BY DEF SendTestPacket, IInv, AppTypeOK
<1>3. CASE TxEngine \/ AirFails \/ RxUsb \/ GetLastPacket \/ UNCHANGED vars
  <2>1. UNCHANGED <<txFifo, heard, rxFifo, endpointVars>>
      BY <1>3, QuietSteps DEF StaysPut
  <2>2. UNCHANGED <<txPc, ok>>
      BY <1>3 DEF TxEngine, TxListenEnds, AirFails, AttemptLost, AttemptDamaged, NotAcked,
                  RxUsb, GetLastPacket, vars, linkVars
  <2> QED
      BY <2>1, <2>2, SamePipe DEF StreamVars
<1>4. CASE TxStep
    BY <1>4, StreamOutcome
<1>5. CASE TxRestart
    BY <1>5, StreamSenderRestart
<1>6. CASE AirWorks
    BY <1>6, StreamAccept
<1>7. CASE RxHid
  <2>1. UNCHANGED <<txFifo, heard, txPc, ok, screen>> /\ InRadio' = InRadio
      BY <1>7 DEF RxHid, HidPoll, linkVars, InRadio
  <2>2. InEndpoint' = InEndpoint
      BY <1>7 DEF RxHid, HidPoll, EndpointFull, WriteReport, InEndpoint
  <2> QED
      BY <2>1, <2>2 DEF StreamVars, StreamPipe
<1>8. CASE RxRadio
    BY <1>8, PathRxRadio DEF StreamVars, StreamPipe
<1>9. CASE RxRestart \/ RxBoot
    BY <1>9, StreamRxRestart, StreamRxBoot
<1>10. CASE HostStep
    BY <1>10, StreamShow
<1> QED
    BY <1>1, <1>2, <1>3, <1>4, <1>5, <1>6, <1>7, <1>8, <1>9, <1>10 DEF Next, RxLoop

(* The whole path, both dongles with their radios and their restarts,       *)
(* behaves as the abstract stream of key events: events appear in order,    *)
(* each at most once between two restarts of app_rx, and an acknowledged    *)
(* one was accepted; a restart of app_rx may show the last event once more, *)
(* never an older one.  The host sends no test packets: they share the link *)
(* but stand for no event.                                                  *)
THEOREM ImplementsStreamHolds ==
    ASSUME MaxTests = 0
    PROVE  Spec => ImplementsStream
<1>1. Init => OnlyKeys
    BY DEF Init, RadioInit, OnlyKeys
<1>2. OnlyKeys /\ IInv /\ [Next]_vars => OnlyKeys'
    BY OnlyKeysStep
<1>3. OnlyKeys /\ IInv /\ [Next]_vars => [Stream!Next]_(Stream!vars)
    BY StreamStep DEF StreamVars, StreamPipe, Stream!vars
<1> QED
    BY Inductive, StreamInit, <1>1, <1>2, <1>3, PTL DEF Spec, ImplementsStream, Stream!Spec
-----------------------------------------------------------------------------
(* Retransmissions.  The n-th packet of a run, and what tells two of them   *)
(* apart: a key event's counter, a test packet's first byte.  The one test  *)
(* packet that has the type of a key event, the second, is the key event    *)
(* <<254, 3>> of the 87th.                                                  *)
Told(n, p) ==
    \/ \E r \in KeyReports, d \in BOOLEAN : p = KeyPacket(r, d, n - 1)
    \/ 0 < MaxTests /\ p = TestPacket(n - 1)

NoLookalike == MaxTests = 0 \/ <<254, 3>> \notin KeyReports

LEMMA ToldApart ==
    ASSUME NoLookalike, NEW n \in 1..256, NEW m \in 1..256, NEW p, Told(n, p), Told(m, p)
    PROVE  n = m
<1>1. MaxTests \in Nat  BY KeyLinkAssumption
<1>2. ASSUME NEW i \in 1..256, NEW j \in 1..256,
             NEW r \in KeyReports, NEW d \in BOOLEAN,
             KeyPacket(r, d, i - 1) = TestPacket(j - 1)
      PROVE  r = <<254, 3>>
  <2>1. j - 1 = 1  BY <1>2 DEF KeyPacket, TestPacket, KEY_EVENT_TYPE
  <2>2. r = <<255 - 1, (1 * 3) % 256>>  BY <1>2, <2>1 DEF KeyPacket, TestPacket
  <2> QED BY <2>2
<1>3. CASE (\E r \in KeyReports, d \in BOOLEAN : p = KeyPacket(r, d, n - 1))
           /\ (\E r \in KeyReports, d \in BOOLEAN : p = KeyPacket(r, d, m - 1))
  BY <1>3 DEF KeyPacket
<1>4. CASE p = TestPacket(n - 1) /\ p = TestPacket(m - 1)
  BY <1>4 DEF TestPacket
<1>5. MaxTests = 0 \/ <<254, 3>> \notin KeyReports
  BY DEF NoLookalike
<1>6. CASE 0 < MaxTests
  <2>1. ASSUME NEW i \in 1..256, NEW j \in 1..256,
               \E r \in KeyReports, d \in BOOLEAN : p = KeyPacket(r, d, i - 1),
               p = TestPacket(j - 1)
        PROVE  FALSE
    <3>1. <<254, 3>> \notin KeyReports  BY <1>1, <1>5, <1>6
    <3>2. PICK r \in KeyReports, d \in BOOLEAN : p = KeyPacket(r, d, i - 1)  BY <2>1
    <3>3. KeyPacket(r, d, i - 1) = TestPacket(j - 1)  BY <2>1, <3>2
    <3> QED BY <1>2, <3>1, <3>3
  <2> QED BY <1>3, <1>4, <2>1 DEF Told
<1>7. CASE ~(0 < MaxTests)
  BY <1>3, <1>7 DEF Told
<1> QED BY <1>6, <1>7

Counted ==
    /\ txFifo.id = count.keys + count.tests
    /\ count.keys <= MaxKeys /\ count.tests <= MaxTests
    /\ seq = txFifo.id % 256
    /\ 0 < txFifo.id => Told(txFifo.id, txFifo.pkt)
    /\ rxPc # "boot"

(* The last frame the receiver's engine took is this radio_send()'s, and    *)
(* until its acknowledgment arrives both sides have one sequence number; or *)
(* it is an earlier one's.                                                  *)
Classed ==
    /\ rxSeqstat.valid /\ ~heard => \E n \in 1..(txFifo.id - 1) : Told(n, rxSeqstat.crc)
    /\ heard => rxSeqstat.valid /\ rxSeqstat.crc = txFifo.pkt /\ 0 < txFifo.id
    /\ heard /\ txPc # "ready" /\ ~ok /\ ~(txPc = "air" /\ txTask = "idle" /\ txEnd = "ENDOK")
          => rxSeqstat.seq = txSeq
    /\ txPc = "air" => ~ok

Undisturbed ==
    /\ MaxTxRestarts = 0 /\ MaxRxRestarts = 0
    /\ MaxKeys + MaxTests <= 256 /\ NoLookalike

LEMMA CountedStep ==
    ASSUME Undisturbed, IInv, Counted, [Next]_vars PROVE Counted'
<1> USE DEF Counted
<1>0. /\ txFifo \in LinkFrame /\ seq \in Byte /\ txFifo.id \in Nat
      /\ count \in [{"keys", "tests", "txRestarts", "rxRestarts"} -> Nat]
      /\ {MaxKeys, MaxTests, MaxTxRestarts, MaxRxRestarts} \subseteq Nat
  BY Types, KeyLinkAssumption DEF LinkFrame, IInv, AppTypeOK
<1>1. ASSUME NEW p, RadioSend(NextFrame(p)), seq' = (seq + 1) % 256, rxPc' = rxPc,
             count'.keys + count'.tests = txFifo.id + 1,
             count'.keys <= MaxKeys, count'.tests <= MaxTests, Told(txFifo.id + 1, p)
      PROVE  Counted'
  <2>1. txFifo' = [id |-> txFifo.id + 1, pkt |-> p]  BY <1>1 DEF RadioSend, NextFrame
  <2>2. txFifo'.id = txFifo.id + 1 /\ txFifo'.pkt = p  BY <2>1
  <2>3. ((txFifo.id % 256) + 1) % 256 = (txFifo.id + 1) % 256  BY <1>0
  <2> QED BY <1>1, <2>2, <2>3
<1>a. txFifo.id + 1 <= 256 => seq = (txFifo.id + 1) - 1
  BY <1>0
<1>2. ASSUME NEW r \in KeyReports, NEW d \in BOOLEAN, SendKey(r, d) PROVE Counted'
  <2>1. count' = [count EXCEPT !.keys = @ + 1] /\ count.keys < MaxKeys  BY <1>2 DEF SendKey
  <2>2. count'.keys = count.keys + 1 /\ count'.tests = count.tests  BY <1>0, <2>1
  <2>3. txFifo.id + 1 <= 256  BY <1>0, <2>1 DEF Undisturbed
  <2>4. Told(txFifo.id + 1, KeyPacket(r, d, seq))  BY <1>a, <2>3 DEF Told
  <2>5. RadioSend(NextFrame(KeyPacket(r, d, seq))) /\ seq' = (seq + 1) % 256 /\ rxPc' = rxPc
    BY <1>2 DEF SendKey, rxAppVars
  <2> QED BY <1>0, <1>1, <2>1, <2>2, <2>4, <2>5
<1>3. CASE SendTestPacket
  <2>1. count' = [count EXCEPT !.tests = @ + 1] /\ count.tests < MaxTests  BY <1>3 DEF SendTestPacket
  <2>2. count'.tests = count.tests + 1 /\ count'.keys = count.keys  BY <1>0, <2>1
  <2>3. txFifo.id + 1 <= 256 /\ 0 < MaxTests  BY <1>0, <2>1 DEF Undisturbed
  <2>4. Told(txFifo.id + 1, TestPacket(seq))  BY <1>a, <2>3 DEF Told
  <2>5. RadioSend(NextFrame(TestPacket(seq))) /\ seq' = (seq + 1) % 256 /\ rxPc' = rxPc
    BY <1>3 DEF SendTestPacket, rxAppVars
  <2> QED BY <1>0, <1>1, <2>1, <2>2, <2>4, <2>5
<1>4. ~TxRestart /\ ~RxRestart
  BY <1>0 DEF TxRestart, RxRestart, Undisturbed
<1> USE DEF linkVars, txAppVars, rxAppVars, histVars, txVars, rxVars
<1>5. CASE TxStep
  BY <1>5 DEF TxStep, Sender, CmdTx, CmdTxAborts, RoundEnds, RadioSendReturns
<1>6. CASE TxEngine
  BY <1>6 DEF TxEngine, TxListenEnds
<1>7. CASE AirFails
  BY <1>7 DEF AirFails, AttemptLost, AttemptDamaged, NotAcked
<1>8. CASE AirWorks
  BY <1>8 DEF AirWorks, AttemptHeard, Acked, NotAcked
<1>9. CASE RxUsb \/ GetLastPacket \/ RxHid \/ HostStep
  BY <1>9 DEF RxUsb, GetLastPacket, RxHid, HostStep
<1>10. CASE RxRadio
  BY <1>10 DEF RxRadio, RadioRecvPoll
<1>11. CASE RxBoot
  BY <1>11 DEF RxBoot
<1>12. CASE UNCHANGED vars
  BY <1>12 DEF vars
<1> QED
  BY <1>2, <1>3, <1>4, <1>5, <1>6, <1>7, <1>8, <1>9, <1>10, <1>11, <1>12 DEF Next, RxLoop

LEMMA ClassedStep ==
    ASSUME Undisturbed, IInv, Counted, Classed, [Next]_vars PROVE Classed'
<1> USE DEF Classed
<1>0. /\ txFifo \in LinkFrame /\ txFifo.id \in Nat /\ FrameCrc[txFifo] = txFifo.pkt
      /\ txPc \in {"ready", "round", "air"} /\ ok \in BOOLEAN /\ heard \in BOOLEAN
      /\ txTask = "send" => txPc = "air"
      /\ txPc # "ready" => 0 < txFifo.id
  BY Types DEF LinkFrame, FrameCrc, IInv, Numbered, Link!RadioInv, Link!EndcauseIsOwn
<1>1. ~TxRestart /\ ~RxRestart /\ ~RxBoot
  BY KeyLinkAssumption DEF TxRestart, RxRestart, RxBoot, Undisturbed, Counted, IInv, AppTypeOK
<1>2. ASSUME NEW p \in Packet, RadioSend(NextFrame(p)) PROVE Classed'
  <2>1. /\ txFifo'.id = txFifo.id + 1 /\ ~heard' /\ txPc' = "round"
        /\ UNCHANGED rxSeqstat
    BY <1>0, <1>2, NextFrameType DEF RadioSend, rxVars
  <2>2. ASSUME rxSeqstat.valid PROVE \E n \in 1..txFifo.id : Told(n, rxSeqstat.crc)
    <3>1. CASE heard
      BY <1>0, <3>1 DEF Counted
    <3>2. CASE ~heard
      BY <1>0, <2>2, <3>2
    <3> QED BY <3>1, <3>2
  <2> QED BY <1>0, <2>1, <2>2
<1>3. ASSUME NEW r \in KeyReports, NEW d \in BOOLEAN, SendKey(r, d) PROVE Classed'
  BY <1>2, <1>3, Types, KeyPacketType DEF SendKey
<1>4. CASE SendTestPacket
  BY <1>2, <1>4, Types, TestPacketType DEF SendTestPacket
<1>5. CASE TxStep
  <2>1. UNCHANGED <<txFifo, rxSeqstat, heard>>
    BY <1>5 DEF TxStep, Sender, CmdTx, CmdTxAborts, RoundEnds, RadioSendReturns, rxVars
  <2>2. CASE CmdTx \/ CmdTxAborts
    <3>1. txPc = "round" /\ ~ok /\ txPc' = "air" /\ UNCHANGED <<ok, txSeq>>
      BY <2>2 DEF CmdTx, CmdTxAborts, InLoop
    <3> QED BY <2>1, <3>1
  <2>3. CASE RoundEnds
    <3>1. /\ txPc = "air" /\ txTask = "idle" /\ txPc' = "round" /\ ok' = (txEnd = "ENDOK")
          /\ UNCHANGED txSeq
      BY <2>3 DEF RoundEnds, IdleSeen, EndsWell
    <3> QED BY <2>1, <3>1
  <2>4. CASE RadioSendReturns
    <3>1. txPc' = "ready"
      BY <2>4 DEF RadioSendReturns
    <3> QED BY <2>1, <3>1
  <2> QED BY <1>5, <2>2, <2>3, <2>4 DEF TxStep, Sender
<1>6. CASE TxEngine
  <2>1. /\ txTask = "listen" /\ txEnd' = "NOSYNC"
        /\ UNCHANGED <<txFifo, rxSeqstat, heard, txPc, ok, txSeq>>
    BY <1>6 DEF TxEngine, TxListenEnds, rxVars
  <2> QED BY <2>1
<1>7. CASE AirFails
  <2>1. /\ txTask = "send"
        /\ UNCHANGED <<txFifo, rxSeqstat, heard, txPc, ok, txSeq>>
    BY <1>7 DEF AirFails, AttemptLost, AttemptDamaged, NotAcked, rxVars
  <2> QED BY <2>1
<1>8. CASE AirWorks
  <2>1. /\ txTask = "send" /\ heard' /\ UNCHANGED <<txFifo, txPc, ok>>
        /\ rxSeqstat' = [valid |-> TRUE, seq |-> txSeq, crc |-> FrameCrc[txFifo]]
        /\ (txTask' = "idle" /\ txEnd' = "ENDOK") \/ txSeq' = txSeq
    BY <1>8 DEF AirWorks, AttemptHeard, RxTakes, Acked, NotAcked
  <2>2. rxSeqstat'.valid /\ rxSeqstat'.seq = txSeq /\ rxSeqstat'.crc = txFifo.pkt
    BY <1>0, <2>1
  <2> QED BY <1>0, <2>1, <2>2
<1> USE DEF linkVars
<1>9. CASE RxUsb \/ GetLastPacket \/ RxHid \/ HostStep
  BY <1>9 DEF RxUsb, GetLastPacket, RxHid, HostStep
<1>10. CASE RxRadio
  BY <1>10 DEF RxRadio, RadioRecvPoll, txVars
<1>11. CASE UNCHANGED vars
  BY <1>11 DEF vars
<1> QED
  BY <1>1, <1>3, <1>4, <1>5, <1>6, <1>7, <1>8, <1>9, <1>10, <1>11 DEF Next, RxLoop

LEMMA RecognisedStep ==
    ASSUME Undisturbed, IInv, Counted, Classed, AirWorks PROVE rxIgn' = heard
<1>0. /\ txFifo \in LinkFrame /\ txFifo.id \in Nat /\ FrameCrc[txFifo] = txFifo.pkt
      /\ heard \in BOOLEAN /\ txTask = "send" /\ txPc = "air" /\ ~ok
      /\ rxIgn' = IsRetransmission(txSeq, txFifo.pkt)
  BY Types DEF LinkFrame, FrameCrc, IInv, Link!RadioInv, Link!EndcauseIsOwn, Classed,
               AirWorks, AttemptHeard, RxTakes
<1>1. 0 < txFifo.id /\ txFifo.id \in 1..256 /\ Told(txFifo.id, txFifo.pkt)
  <2>1. 0 < txFifo.id
    BY <1>0 DEF IInv, Numbered
  <2>2. txFifo.id = count.keys + count.tests /\ count.keys <= MaxKeys /\ count.tests <= MaxTests
    BY DEF Counted
  <2>3. {count.keys, count.tests, MaxKeys, MaxTests} \subseteq Nat
    BY KeyLinkAssumption DEF IInv, AppTypeOK
  <2>4. txFifo.id <= 256
    BY <2>2, <2>3 DEF Undisturbed
  <2> QED
    BY <1>0, <2>1, <2>4 DEF Counted
<1>2. CASE heard
  BY <1>0, <1>2 DEF Classed, IsRetransmission
<1>3. CASE ~heard
  <2>1. SUFFICES ASSUME rxSeqstat.valid, rxSeqstat.crc = txFifo.pkt PROVE FALSE
    BY <1>0, <1>3 DEF IsRetransmission
  <2>2. PICK n \in 1..(txFifo.id - 1) : Told(n, rxSeqstat.crc)
    BY <1>3, <2>1 DEF Classed
  <2>3. n \in 1..256 /\ n # txFifo.id
    BY <1>1
  <2> QED
    BY <1>1, <2>1, <2>2, <2>3, ToldApart DEF Undisturbed
<1> QED BY <1>0, <1>2, <1>3

(* While neither dongle restarts, and for as many packets as the counter    *)
(* tells apart, the receiver's engine classes a frame as a retransmission   *)
(* exactly when it already took this radio_send()'s packet.                 *)
THEOREM RetransmissionsRecognisedHolds ==
    ASSUME Undisturbed
    PROVE  Spec => RetransmissionsRecognised
<1>1. Init => Counted /\ Classed
  <2> SUFFICES ASSUME Init PROVE Counted /\ Classed
    OBVIOUS
  <2>1. /\ txFifo.id = 0 /\ seq = 0 /\ rxPc = "usb" /\ count.keys = 0 /\ count.tests = 0
    BY DEF Init, RadioInit, NoFrame
  <2>2. ~rxSeqstat.valid /\ ~heard /\ txPc = "ready"
    BY DEF Init, RadioInit, FreshSeqstat
  <2> QED
    BY <2>1, <2>2, KeyLinkAssumption DEF Counted, Classed
<1>2. IInv /\ Counted /\ Classed /\ [Next]_vars => Counted' /\ Classed'
  BY CountedStep, ClassedStep
<1>3. IInv /\ Counted /\ Classed /\ [Next]_vars => [AirWorks => rxIgn' = heard]_vars
  BY RecognisedStep
<1> QED
  BY Inductive, <1>1, <1>2, <1>3, PTL DEF Spec, RetransmissionsRecognised
=============================================================================
