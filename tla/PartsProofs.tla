----------------------------- MODULE PartsProofs -----------------------------
(***************************************************************************)
(* Radio and UsbHid, the two parts KeyLink is made of.  Radio: type        *)
(* correctness, and radio_send()'s answer is never a stale ENDCAUSE, for   *)
(* every set of frames, number of rounds and of retransmissions.  UsbHid:  *)
(* type correctness, and the endpoint implements the two-slot queue, for   *)
(* every set of reports.                                                   *)
(***************************************************************************)
EXTENDS Radio, UsbHid, SequenceTheorems, TLAPS
-----------------------------------------------------------------------------
(* Radio. *)

(* Why AckedWasHeard is kept: while radio_send() waits, no listening task   *)
(* can run, so the ENDCAUSE it finds is one its own CMD_TX left behind, and *)
(* of those only an acknowledgment leaves TASK_ENDOK.                       *)
EndcauseIsOwn ==
    /\ txTask = "send" => txPc = "air"
    /\ txPc = "air" => txTask # "listen"
    /\ txPc = "air" /\ txTask = "idle" /\ txEnd = "ENDOK" => heard
    /\ ok => heard

(* A round in the air is one the loop head let through. *)
RoundCounted == txPc = "air" => round < MaxRounds

RadioInv == RadioTypeOK /\ RoundCounted /\ EndcauseIsOwn

LEMMA FreshSeqstatType == FreshSeqstat \in Seqstat
BY RadioAssumption DEF FreshSeqstat, Seqstat

LEMMA RadioInitInv == RadioInit => RadioInv
<1> SUFFICES ASSUME RadioInit
             PROVE  RadioInv
    OBVIOUS
<1>1. CountersOK /\ RoundCounted
    BY RadioAssumption DEF RadioInit, CountersOK, RoundCounted
<1>2. TxTypeOK /\ RxTypeOK
    BY RadioAssumption, FreshSeqstatType DEF RadioInit, TxTypeOK, RxTypeOK, EndCause
<1>3. EndcauseIsOwn
    BY DEF RadioInit, EndcauseIsOwn
<1> QED
    BY <1>1, <1>2, <1>3 DEF RadioInv, RadioTypeOK

LEMMA RadioStepCounters ==
    ASSUME CountersOK, RoundCounted, [RadioNext]_radioVars
    PROVE  CountersOK' /\ RoundCounted'
<1> USE RadioAssumption DEF CountersOK, RoundCounted
<1>1. CASE Submit
    BY <1>1 DEF Submit, RadioSend
<1>2. CASE CmdTx \/ CmdTxAborts
    BY <1>2 DEF CmdTx, CmdTxAborts, InLoop
<1>3. CASE RoundEnds
    BY <1>3 DEF RoundEnds, RoundDone
<1>4. CASE RadioSendReturns \/ TxListenEnds
    BY <1>4 DEF RadioSendReturns, TxListenEnds
<1>5. CASE AttemptLost \/ AttemptDamaged
    BY <1>5 DEF AttemptLost, AttemptDamaged, NotAcked
<1>6. CASE AttemptHeard
    BY <1>6 DEF AttemptHeard, Acked, NotAcked
<1>7. CASE RadioRecvPoll \/ RadioInitRx
    BY <1>7 DEF RadioRecvPoll, RadioInitRx, txVars
<1>8. CASE RadioInitTx
    BY <1>8 DEF RadioInitTx
<1>9. CASE UNCHANGED radioVars
    BY <1>9 DEF radioVars, txVars
<1> QED
    BY <1>1, <1>2, <1>3, <1>4, <1>5, <1>6, <1>7, <1>8, <1>9
       DEF RadioNext, Sender, Attempt

LEMMA RadioStepTx ==
    ASSUME TxTypeOK, [RadioNext]_radioVars
    PROVE  TxTypeOK'
<1> USE DEF TxTypeOK, EndCause
<1>1. CASE Submit
    BY <1>1 DEF Submit, RadioSend
<1>2. CASE CmdTx \/ CmdTxAborts
    BY <1>2 DEF CmdTx, CmdTxAborts, TaskAfterStart, EndAfterStart
<1>3. CASE RoundEnds
    BY <1>3 DEF RoundEnds, EndsWell
<1>4. CASE RadioSendReturns \/ TxListenEnds
    BY <1>4 DEF RadioSendReturns, TxListenEnds, TxArm, TaskAfterStart, EndAfterStart
<1>5. CASE AttemptLost \/ AttemptDamaged
    BY <1>5 DEF AttemptLost, AttemptDamaged, NotAcked
<1>6. CASE AttemptHeard
    BY <1>6 DEF AttemptHeard, RxTakes, Acked, NotAcked
<1>7. CASE RadioRecvPoll \/ RadioInitRx
    BY <1>7 DEF RadioRecvPoll, RadioInitRx, txVars
<1>8. CASE RadioInitTx
    BY <1>8 DEF RadioInitTx, TxArm, TaskAfterStart, EndAfterStart
<1>9. CASE UNCHANGED radioVars
    BY <1>9 DEF radioVars, txVars
<1> QED
    BY <1>1, <1>2, <1>3, <1>4, <1>5, <1>6, <1>7, <1>8, <1>9
       DEF RadioNext, Sender, Attempt

LEMMA RadioStepRx ==
    ASSUME RadioTypeOK, [RadioNext]_radioVars
    PROVE  RxTypeOK'
<1> USE DEF RxTypeOK, EndCause
<1>1. RxTypeOK /\ TxTypeOK /\ txSeq \in 0..3
    BY DEF RadioTypeOK, CountersOK
<1>2. CASE Submit \/ Sender \/ TxListenEnds \/ AttemptLost \/ RadioInitTx
    BY <1>1, <1>2 DEF Submit, RadioSend, Sender, CmdTx, CmdTxAborts, RoundEnds,
                      RadioSendReturns, TxListenEnds, AttemptLost, RadioInitTx, rxVars
<1>3. CASE AttemptDamaged
    BY <1>1, <1>3 DEF AttemptDamaged, RxTaskEnds
<1>4. CASE AttemptHeard
  <2>1. RxTakes
      BY <1>4 DEF AttemptHeard
  <2>2. rxSeqstat' \in Seqstat
    <3>1. Crc[txFifo] \in Checksum
        BY <1>1, RadioAssumption DEF TxTypeOK
    <3> QED
        BY <1>1, <2>1, <3>1 DEF RxTakes, Seqstat
  <2>3. rxIgn' \in BOOLEAN
      BY <1>1, <2>1 DEF RxTakes, IsRetransmission, Seqstat
  <2> QED
      BY <1>1, <2>1, <2>2, <2>3 DEF RxTakes, RxTaskEnds, TxTypeOK
<1>5. CASE RadioRecvPoll
    BY <1>1, <1>5, RadioAssumption DEF RadioRecvPoll, RxArm, TaskAfterStart, EndAfterStart
<1>6. CASE RadioInitRx
    BY <1>1, <1>6, RadioAssumption, FreshSeqstatType
       DEF RadioInitRx, RxArm, TaskAfterStart, EndAfterStart
<1>7. CASE UNCHANGED radioVars
    BY <1>1, <1>7 DEF radioVars, rxVars
<1> QED
    BY <1>2, <1>3, <1>4, <1>5, <1>6, <1>7 DEF RadioNext, Attempt

LEMMA RadioStepEndcause ==
    RadioTypeOK /\ EndcauseIsOwn /\ [RadioNext]_radioVars => EndcauseIsOwn'
<1> SUFFICES ASSUME RadioTypeOK, EndcauseIsOwn, [RadioNext]_radioVars
             PROVE  EndcauseIsOwn'
    OBVIOUS
<1> USE DEF EndcauseIsOwn
<1>1. CASE Submit
    BY <1>1 DEF Submit, RadioSend
<1>2. CASE CmdTx \/ CmdTxAborts
    BY <1>2 DEF CmdTx, CmdTxAborts, InLoop, TaskAfterStart, EndAfterStart
<1>3. CASE RoundEnds
    BY <1>3 DEF RoundEnds, EndsWell, IdleSeen, RadioTypeOK, TxTypeOK
<1>4. CASE RadioSendReturns
    BY <1>4 DEF RadioSendReturns, TxArm, TaskAfterStart
<1>5. CASE TxListenEnds
    BY <1>5 DEF TxListenEnds
<1>6. CASE AttemptLost \/ AttemptDamaged
    BY <1>6 DEF AttemptLost, AttemptDamaged, NotAcked
<1>7. CASE AttemptHeard
    BY <1>7 DEF AttemptHeard, RxTakes, Acked, NotAcked
<1>8. CASE RadioRecvPoll \/ RadioInitRx
    BY <1>8 DEF RadioRecvPoll, RadioInitRx, txVars
<1>9. CASE RadioInitTx
    BY <1>9 DEF RadioInitTx, TxArm, TaskAfterStart
<1>10. CASE UNCHANGED radioVars
    BY <1>10 DEF radioVars, txVars
<1> QED
    BY <1>1, <1>2, <1>3, <1>4, <1>5, <1>6, <1>7, <1>8, <1>9, <1>10
       DEF RadioNext, Sender, Attempt

LEMMA RadioInvariance == RadioSpec => []RadioInv
<1>1. RadioInv /\ [RadioNext]_radioVars => RadioInv'
    BY RadioStepCounters, RadioStepTx, RadioStepRx, RadioStepEndcause
       DEF RadioInv, RadioTypeOK
<1> QED
    BY RadioInitInv, <1>1, PTL DEF RadioSpec

(* Every value of the link stays in its range; in particular radio_send()   *)
(* never does more than RADIO_SEND_MAX_ROUNDS rounds.                       *)
THEOREM RadioTypeCorrect == RadioSpec => []RadioTypeOK
<1>1. RadioInv => RadioTypeOK
    BY DEF RadioInv
<1> QED
    BY RadioInvariance, <1>1, PTL

(* radio_send() returns 1 only for a packet the receiver's engine took,     *)
(* whatever restarts, losses and aborted commands came before.              *)
THEOREM AckedWasHeardHolds == RadioSpec => []AckedWasHeard
<1>1. RadioInv => AckedWasHeard
    BY DEF RadioInv, EndcauseIsOwn, AckedWasHeard
<1> QED
    BY RadioInvariance, <1>1, PTL
-----------------------------------------------------------------------------
(* UsbHid. *)

LEMMA HidStepType == HidTypeOK /\ [HidNext]_hidVars => HidTypeOK'
<1> SUFFICES ASSUME HidTypeOK, [HidNext]_hidVars
             PROVE  HidTypeOK'
    OBVIOUS
<1> USE DEF HidTypeOK
<1>1. CASE Caller
    BY <1>1 DEF Caller, HidSendReport, WriteReport
<1>2. CASE HidPoll
    BY <1>2 DEF HidPoll, WriteReport
<1>3. CASE HostTakes
    BY <1>3 DEF HostTakes
<1>4. CASE UNCHANGED hidVars
    BY <1>4 DEF hidVars
<1> QED
    BY <1>1, <1>2, <1>3, <1>4 DEF HidNext

(* Both slots and the host's screen only ever hold whole reports. *)
THEOREM HidTypeCorrect == HidSpec => []HidTypeOK
<1>1. HidInit => HidTypeOK
    BY NoKeysAssumption DEF HidInit, HidTypeOK
<1> QED
    BY <1>1, HidStepType, PTL DEF HidSpec

(* The endpoint's two slots written as one sequence. *)
LEMMA SlotsConcat ==
    ASSUME NEW x \in Report, NEW y \in Report
    PROVE  /\ <<x>> \o <<y>> = <<x, y>>
           /\ <<x>> \o <<>> = <<x>>
           /\ <<>> \o <<y>> = <<y>>
           /\ <<>> \o <<>> = <<>>
<1>1. <<>> \in Seq(Report) /\ <<x>> \in Seq(Report) /\ <<y>> \in Seq(Report)
    OBVIOUS
<1>2. <<x>> \o <<y>> = <<x, y>>
  <2>1. <<x>> \o <<y>> \in Seq(Report) /\ <<x, y>> \in Seq(Report)
      OBVIOUS
  <2>2. Len(<<x>> \o <<y>>) = 2 /\ Len(<<x, y>>) = 2
      BY <1>1
  <2>3. (<<x>> \o <<y>>)[1] = x /\ (<<x>> \o <<y>>)[2] = y
      BY <1>1
  <2>4. \A i \in 1..2 : (<<x>> \o <<y>>)[i] = <<x, y>>[i]
      BY <2>3
  <2> QED
      BY <2>1, <2>2, <2>4, SeqEqual
<1> QED
    BY <1>1, <1>2, ConcatEmptySeq

(* hid_send_report() appends, given that its caller looked at hid_busy(). *)
LEMMA CallerSubmits ==
    ASSUME HidTypeOK, Caller
    PROVE  \E r \in Report : RQ!Submit(r)
<1>1. PICK r \in Report : HidSendReport(r)
    BY DEF Caller
<1>2. ~report_pending /\ screen' = screen
    BY <1>1 DEF Caller, hid_busy, HidSendReport
<1>3. CASE pktPresent
  <2>1. Queued = <<usbf1>> /\ Queued' = <<usbf1, r>>
      BY <1>1, <1>2, <1>3, SlotsConcat DEF Queued, HidSendReport, EndpointFull, HidTypeOK
  <2> QED
      BY <1>2, <2>1 DEF RQ!Submit, RQ!Capacity, HidTypeOK
<1>4. CASE ~pktPresent
  <2>1. Queued = <<>> /\ Queued' = <<r>>
      BY <1>1, <1>2, <1>4 DEF Queued, HidSendReport, EndpointFull, WriteReport, HidTypeOK
  <2> QED
      BY <1>2, <2>1 DEF RQ!Submit, RQ!Capacity, HidTypeOK
<1> QED
    BY <1>3, <1>4

(* hid_poll() moves a report inside the queue. *)
LEMMA PollStutters ==
    ASSUME HidTypeOK, HidPoll
    PROVE  UNCHANGED <<Queued, screen>>
<1>1. CASE report_pending /\ ~pktPresent
  <2>1. /\ report_pending' = FALSE /\ pktPresent' = TRUE
        /\ usbf1' = pending_report /\ screen' = screen
      BY <1>1 DEF HidPoll, EndpointFull, WriteReport
  <2> QED
      BY <1>1, <2>1 DEF Queued, HidTypeOK
<1>2. CASE ~(report_pending /\ ~pktPresent)
    BY <1>2 DEF HidPoll, EndpointFull, Queued
<1> QED
    BY <1>1, <1>2

(* The host takes from the front. *)
LEMMA HostTakesFront ==
    ASSUME HidTypeOK, HostTakes
    PROVE  RQ!Take
<1>1. pktPresent /\ ~pktPresent' /\ screen' = usbf1
    BY DEF HostTakes
<1>2. CASE report_pending
  <2>1. Queued = <<usbf1, pending_report>> /\ Queued' = <<pending_report>>
      BY <1>1, <1>2, SlotsConcat DEF Queued, HostTakes, HidTypeOK
  <2> QED
      BY <1>1, <2>1 DEF RQ!Take, HidTypeOK
<1>3. CASE ~report_pending
  <2>1. Queued = <<usbf1>> /\ Queued' = <<>>
      BY <1>1, <1>3 DEF Queued, HostTakes, HidTypeOK
  <2> QED
      BY <1>1, <2>1 DEF RQ!Take, HidTypeOK
<1> QED
    BY <1>2, <1>3

(* Reports leave the endpoint in the order hid_send_report() was given them,*)
(* none dropped and none repeated.                                          *)
THEOREM HidImplementsQueue == HidSpec => ImplementsQueue
<1>1. HidInit => RQ!Init
    BY DEF HidInit, RQ!Init, Queued
<1>2. HidTypeOK /\ [HidNext]_hidVars => [RQ!Next]_(RQ!vars)
  <2> SUFFICES ASSUME HidTypeOK, [HidNext]_hidVars
               PROVE  [RQ!Next]_(RQ!vars)
      OBVIOUS
  <2>1. CASE Caller
      BY <2>1, CallerSubmits DEF RQ!Next
  <2>2. CASE HidPoll
      BY <2>2, PollStutters DEF RQ!vars
  <2>3. CASE HostTakes
      BY <2>3, HostTakesFront DEF RQ!Next
  <2>4. CASE UNCHANGED hidVars
      BY <2>4 DEF hidVars, RQ!vars, Queued
  <2> QED
      BY <2>1, <2>2, <2>3, <2>4 DEF HidNext
<1> QED
    BY <1>1, <1>2, HidTypeCorrect, PTL DEF HidSpec, ImplementsQueue, RQ!Spec
=============================================================================
