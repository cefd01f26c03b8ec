-------------------------------- MODULE Radio --------------------------------
(***************************************************************************)
(* The point-to-point link: firmware/app_common/radio.c running on both    *)
(* dongles, the Link Layer Engine (LLE) each of them drives in Auto Mode   *)
(* and the air between.  The engine and the air are not code: they are     *)
(* modelled from the register values radio.c writes and from the user's    *)
(* guide the repository keeps in references/ (SWRU283B 23.3, 23.9.2).      *)
(*                                                                         *)
(* One attempt (data frame, turnaround, acknowledgment) is one step: the   *)
(* receiving task ends only after its acknowledgment is out, and the       *)
(* sender gives up PRF_SEARCH_TIME = 50 us later, so no frame or ack is    *)
(* ever in flight between two steps; either may be lost or damaged.        *)
(*                                                                         *)
(* Assumed: two different packets never share a CRC-16, and the engine     *)
(* picks a command up before the CPU next reads LLESTAT or RFST.           *)
(***************************************************************************)
EXTENDS Naturals

CONSTANTS Frame,        (* what one radio_send() puts in the Tx FIFO       *)
          EmptyFrame,   (* what reading an empty Rx FIFO returns: zeros    *)
          Checksum,     (* CRC values                                      *)
          Crc,          (* the CRC of each frame                           *)
          MaxRounds,    (* RADIO_SEND_MAX_ROUNDS                           *)
          RetransCnt    (* PRF_RETRANS_CNT, retransmissions of one task    *)

ASSUME RadioAssumption ==
    /\ EmptyFrame \in Frame
    /\ Crc \in [Frame -> Checksum]
    /\ MaxRounds \in Nat \ {0}
    /\ RetransCnt \in Nat

(* The sending dongle. *)
VARIABLES txPc,      (* radio_send(): "ready" outside, "round" at the loop *)
                     (* head, "air" in wait_idle() after CMD_TX            *)
          round,     (* rounds done by this radio_send()                   *)
          ok,        (* its outcome so far; its return value when "ready"  *)
          txTask,    (* the engine: "idle", "listen" or "send"             *)
          txEnd,     (* PRF_ENDCAUSE                                       *)
          txSem,     (* SEMAPHORE0/1 are free                              *)
          txFifo,    (* the committed packet                               *)
          txSeq,     (* PRF_ADDR_ENTRY0_SEQSTAT.SEQ, mod 4                 *)
          retrans    (* retransmissions done by the running task           *)

(* The receiving dongle. *)
VARIABLES rxTask,    (* the engine: "idle" or "listen"                     *)
          rxEnd,     (* PRF_ENDCAUSE                                       *)
          rxSem,     (* SEMAPHORE0/1 are free                              *)
          rxFifo,    (* the frame in the Rx FIFO, EmptyFrame if none       *)
          rxSeqstat, (* SEQSTAT.VALID, SEQ and LASTCRC of the last frame   *)
          rxIgn      (* the engine classed rxFifo as a retransmission      *)

(* History: the receiver's engine took the packet of this radio_send(). *)
VARIABLE heard

txVars == <<txPc, round, ok, txTask, txEnd, txSem, txFifo, txSeq, retrans>>
rxVars == <<rxTask, rxEnd, rxSem, rxFifo, rxSeqstat, rxIgn>>
radioVars == <<txVars, rxVars, heard>>

Seqstat == [valid : BOOLEAN, seq : 0..3, crc : Checksum]
EndCause == {"ENDOK", "MAXRT", "NOSYNC", "ABORT", "SEM", "NONE"}
-----------------------------------------------------------------------------
(* Starting a task takes the semaphores; without them it ends at once with *)
(* TASKERR_SEM and no radio operation.                                     *)
TaskAfterStart(sem, task) == IF sem THEN task ELSE "idle"
EndAfterStart(sem, end) == IF sem THEN end ELSE "SEM"

(* LLECTRL = 0 then 1: whatever task was running is gone. *)
LleReset(task) == "idle"

(* Faulty variant: radio_init() without its two SEMAPHORE writes. *)
SemaphoresUntouched(sem) == sem

(* SEMAPHORE0 = SEMAPHORE1 = 1: free, whoever held them. *)
ReleaseSemaphores(sem) == TRUE

(* radio_arm_rx(), each role: wait_idle() has returned. *)
TxArm(sem) ==
    /\ txTask' = TaskAfterStart(sem, "listen")
    /\ txEnd' = EndAfterStart(sem, txEnd)
    /\ txSem' = FALSE

RxArm(sem) ==
    /\ rxFifo' = EmptyFrame
    /\ rxIgn' = FALSE
    /\ rxTask' = TaskAfterStart(sem, "listen")
    /\ rxEnd' = EndAfterStart(sem, rxEnd)
    /\ rxSem' = FALSE

FreshSeqstat == [valid |-> FALSE, seq |-> 0, crc |-> Crc[EmptyFrame]]

(* After a hardware reset and radio_init() on both dongles. *)
RadioInit ==
    /\ txPc = "ready" /\ round = 0 /\ ok = FALSE
    /\ txTask = "listen" /\ txEnd = "NONE" /\ txSem = FALSE
    /\ txFifo = EmptyFrame /\ txSeq = 0 /\ retrans = 0
    /\ rxTask = "listen" /\ rxEnd = "NONE" /\ rxSem = FALSE
    /\ rxFifo = EmptyFrame /\ rxSeqstat = FreshSeqstat /\ rxIgn = FALSE
    /\ heard = FALSE

(* radio_init() run again by an APP_RESTART: the engine may be anywhere. *)
RadioInitTx ==
    /\ txPc = "ready"
    /\ LleReset(txTask) = "idle"
    /\ TxArm(ReleaseSemaphores(txSem))
    /\ txSeq' = 0
    /\ ok' = FALSE /\ round' = 0
    /\ UNCHANGED <<txPc, txFifo, retrans, rxVars, heard>>

RadioInitRx ==
    /\ LleReset(rxTask) = "idle"
    /\ RxArm(ReleaseSemaphores(rxSem))
    /\ rxSeqstat' = FreshSeqstat
    /\ UNCHANGED <<txVars, heard>>
-----------------------------------------------------------------------------
(* radio_send(buf): reset the Tx FIFO, write and commit the packet. *)
RadioSend(f) ==
    /\ txPc = "ready"
    /\ txFifo' = f
    /\ txPc' = "round" /\ round' = 0 /\ ok' = FALSE
    /\ heard' = FALSE
    /\ UNCHANGED <<txTask, txEnd, txSem, txSeq, retrans, rxVars>>

(* Faulty variant: one round too many. *)
InLoopOffByOne == round <= MaxRounds /\ ~ok

InLoop == round < MaxRounds /\ ~ok

(* RFST = CMD_TX.  radio_send() does not wait for its own 50 us listening  *)
(* task to end first; ending it gives the semaphores back.                 *)
CmdTx ==
    /\ txPc = "round" /\ InLoop
    /\ txPc' = "air"
    /\ LET sem == txSem \/ txTask = "listen" IN
           /\ txTask' = TaskAfterStart(sem, "send")
           /\ txEnd' = EndAfterStart(sem, txEnd)
    /\ txSem' = FALSE
    /\ retrans' = 0
    /\ UNCHANGED <<round, ok, txFifo, txSeq, rxVars, heard>>

(* The same CMD_TX when the engine takes it only as the end of the running *)
(* task (TASK_ABORT): the guide leaves open which of the two happens.      *)
CmdTxAborts ==
    /\ txPc = "round" /\ InLoop /\ txTask = "listen"
    /\ txPc' = "air"
    /\ txTask' = "idle" /\ txEnd' = "ABORT" /\ txSem' = TRUE
    /\ UNCHANGED <<round, ok, txFifo, txSeq, retrans, rxVars, heard>>

(* Faulty variants: ENDCAUSE read without waiting for the task's end; any   *)
(* end but TASK_MAXRT taken for a success; a round that is not counted.     *)
NoWait == TRUE
NotMaxrt(end) == end # "MAXRT"
RoundNotCounted == round

(* wait_idle() leaves its loop. *)
IdleSeen == txTask = "idle"
EndsWell(end) == end = "ENDOK"
RoundDone == round + 1

(* wait_idle() returns: one more round done, good iff TASK_ENDOK. *)
RoundEnds ==
    /\ txPc = "air" /\ IdleSeen
    /\ ok' = EndsWell(txEnd)
    /\ round' = RoundDone
    /\ txPc' = "round"
    /\ UNCHANGED <<txTask, txEnd, txSem, txFifo, txSeq, retrans, rxVars, heard>>

(* The loop is over: listen again, return ok. *)
RadioSendReturns ==
    /\ txPc = "round" /\ ~InLoop
    /\ TxArm(txSem)
    /\ txPc' = "ready"
    /\ UNCHANGED <<round, ok, txFifo, txSeq, retrans, rxVars, heard>>

(* The sender's listening task gives up: PRF_SEARCH_TIME is 50 us there. *)
TxListenEnds ==
    /\ txTask = "listen"
    /\ txTask' = "idle" /\ txEnd' = "NOSYNC" /\ txSem' = TRUE
    /\ UNCHANGED <<txPc, round, ok, txFifo, txSeq, retrans, rxVars, heard>>
-----------------------------------------------------------------------------
(* One attempt of the sending task, as its engine sees it. *)
NotAcked ==
    /\ IF retrans = RetransCnt
       THEN /\ txTask' = "idle" /\ txEnd' = "MAXRT" /\ txSem' = TRUE
            /\ UNCHANGED retrans
       ELSE /\ retrans' = retrans + 1
            /\ UNCHANGED <<txTask, txEnd, txSem>>
    /\ UNCHANGED <<txPc, round, ok, txFifo, txSeq>>

Acked ==
    /\ txTask' = "idle" /\ txEnd' = "ENDOK" /\ txSem' = TRUE
    /\ txSeq' = (txSeq + 1) % 4
    /\ UNCHANGED <<txPc, round, ok, txFifo, retrans>>

(* The receiving task ends with TASK_ENDOK after any frame (REPEAT = 0). *)
RxTaskEnds == rxTask' = "idle" /\ rxEnd' = "ENDOK" /\ rxSem' = TRUE

(* The receiver is not listening, or the frame does not reach it. *)
AttemptLost ==
    /\ txTask = "send"
    /\ NotAcked
    /\ UNCHANGED <<rxVars, heard>>

(* A damaged frame is flushed (AUTOFLUSH_CRC), not acknowledged. *)
AttemptDamaged ==
    /\ txTask = "send" /\ rxTask = "listen"
    /\ NotAcked
    /\ RxTaskEnds
    /\ UNCHANGED <<rxFifo, rxSeqstat, rxIgn, heard>>

(* A frame with the sequence number and CRC of the previous one is classed *)
(* as a retransmission; it is kept all the same (AUTOFLUSH_IGN = 0) and    *)
(* acknowledged all the same.                                              *)
IsRetransmission(seq, crc) ==
    rxSeqstat.valid /\ rxSeqstat.seq = seq /\ rxSeqstat.crc = crc

RxTakes ==
    /\ RxTaskEnds
    /\ rxFifo' = txFifo
    /\ rxIgn' = IsRetransmission(txSeq, Crc[txFifo])
    /\ rxSeqstat' = [valid |-> TRUE, seq |-> txSeq, crc |-> Crc[txFifo]]
    /\ heard' = TRUE

AttemptHeard ==
    /\ txTask = "send" /\ rxTask = "listen"
    /\ RxTakes
    /\ \/ Acked
       \/ NotAcked             \* the acknowledgment is lost

Attempt == AttemptLost \/ AttemptDamaged \/ AttemptHeard
-----------------------------------------------------------------------------
(* radio_recv_poll(): nothing while the task runs; otherwise, if it ended  *)
(* with TASK_ENDOK, PKT_LEN bytes are read from the Rx FIFO whether or not *)
(* it holds a frame; in every case the receiver is armed again.  rx_armed  *)
(* is 1 whenever the call starts: every return path arms.                  *)
RecvReady == rxTask = "idle"
RecvHasPacket == RecvReady /\ rxEnd = "ENDOK"
RecvBuf == rxFifo

RadioRecvPoll ==
    /\ IF RecvReady THEN RxArm(rxSem) ELSE UNCHANGED <<rxTask, rxEnd, rxSem, rxFifo, rxIgn>>
    /\ UNCHANGED <<txVars, rxSeqstat, heard>>
-----------------------------------------------------------------------------
(* The link on its own: the sender's application submits any frame, each   *)
(* application may restart at any time it runs, the receiver's polls.      *)
Sender == CmdTx \/ CmdTxAborts \/ RoundEnds \/ RadioSendReturns
Submit == \E f \in Frame \ {EmptyFrame} : RadioSend(f)

RadioNext ==
    \/ Submit
    \/ Sender
    \/ TxListenEnds
    \/ Attempt
    \/ RadioRecvPoll
    \/ RadioInitTx
    \/ RadioInitRx

RadioSpec == RadioInit /\ [][RadioNext]_radioVars

(* The CPUs run, the sender's engine makes its attempts and its short      *)
(* listening task times out.  The air owes nothing.                        *)
RadioFairness ==
    /\ WF_radioVars(Sender)
    /\ WF_radioVars(TxListenEnds)
    /\ WF_radioVars(Attempt)
    /\ WF_radioVars(RadioRecvPoll)

RadioFairSpec == RadioSpec /\ RadioFairness
-----------------------------------------------------------------------------
CountersOK ==
    /\ round \in 0..MaxRounds
    /\ txSeq \in 0..3
    /\ retrans \in 0..RetransCnt

TxTypeOK ==
    /\ txPc \in {"ready", "round", "air"}
    /\ ok \in BOOLEAN
    /\ txTask \in {"idle", "listen", "send"}
    /\ txEnd \in EndCause
    /\ txSem \in BOOLEAN
    /\ txFifo \in Frame
    /\ heard \in BOOLEAN

RxTypeOK ==
    /\ rxTask \in {"idle", "listen"}
    /\ rxEnd \in EndCause
    /\ rxSem \in BOOLEAN
    /\ rxFifo \in Frame
    /\ rxSeqstat \in Seqstat
    /\ rxIgn \in BOOLEAN

RadioTypeOK == CountersOK /\ TxTypeOK /\ RxTypeOK

(* app_tx/main.c:89, "ack = RX got the packet": when radio_send() returns  *)
(* 1 the receiver's engine took this very packet; no stale ENDCAUSE of an  *)
(* earlier task, of the listening task in between or of an aborted CMD_TX  *)
(* is ever read as success.                                                *)
AckedWasHeard == txPc = "ready" /\ ok => heard

(* radio.c:151-173: a restart of either application, at any moment, leaves *)
(* the receiver able to listen; a task aborted with its semaphores held    *)
(* would silence it for good, a task left running would hang radio_init(). *)
RxListensAgain == []<>(rxTask = "listen")

(* radio.c:318-325: radio_send() blocks, but every call returns, whatever  *)
(* the air does to its attempts.                                           *)
SendReturns == (txPc # "ready") ~> (txPc = "ready")
=============================================================================
