------------------------------- MODULE KeyLink -------------------------------
(***************************************************************************)
(* The whole path of a key event: the host's SEND_KEY, app_tx, the radio   *)
(* link, app_rx's main loop, its keyboard endpoint and the machine it is   *)
(* plugged into.  Composes Radio and UsbHid with the two main.c files.     *)
(*                                                                         *)
(* A frame carries a number of its own (the n-th radio_send() of the run)  *)
(* beside the packet bytes, and so does a report made from it: history     *)
(* only, no step of the firmware reads it.                                 *)
(***************************************************************************)
EXTENDS Naturals, Sequences

CONSTANTS KeyReports,      (* the <<modifier, keycode>> pairs hosts send   *)
          MaxRounds,       (* RADIO_SEND_MAX_ROUNDS                        *)
          RetransCnt,      (* PRF_RETRANS_CNT                              *)
          MaxKeys,         (* bound: SEND_KEY requests                     *)
          MaxTests,        (* bound: SEND_TEST_PACKET requests             *)
          MaxTxRestarts,   (* bound: APP_RESTART of the sending dongle     *)
          MaxRxRestarts    (* bound: APP_RESTART of the receiving dongle   *)

Byte == 0..255

ASSUME KeyLinkAssumption ==
    /\ KeyReports \subseteq Byte \X Byte
    /\ MaxRounds \in Nat \ {0}
    /\ RetransCnt \in Nat
    /\ {MaxKeys, MaxTests, MaxTxRestarts, MaxRxRestarts} \subseteq Nat
-----------------------------------------------------------------------------
(* The five packet bytes.  Bytes 1 and 2 are only ever used as a pair, of  *)
(* byte 3 only whether it is zero.                                         *)
KEY_EVENT_TYPE == 1
Packet == [type : Byte, rep : Byte \X Byte, down : BOOLEAN, tail : Byte]

ZeroPacket == [type |-> 0, rep |-> <<0, 0>>, down |-> FALSE, tail |-> 0]

(* Faulty variant: no counter in the packet. *)
UncountedKeyPacket(r, d, s) ==
    [type |-> KEY_EVENT_TYPE, rep |-> r, down |-> d, tail |-> 0]

(* app_tx, SEND_KEY. *)
KeyPacket(r, d, s) ==
    [type |-> KEY_EVENT_TYPE, rep |-> r, down |-> d, tail |-> s]

(* app_tx, SEND_TEST_PACKET: s, s ^ 0xFF, 3s, s ^ 0x5A, s + 0x55. *)
TestPacket(s) ==
    [type |-> s, rep |-> <<255 - s, (s * 3) % 256>>, down |-> s # 90,
     tail |-> (s + 85) % 256]

(* app_rx: a packet of the key type becomes a report, key up is all zero. *)
NoKeysRep == <<0, 0>>
IsKeyEvent(p) == p.type = KEY_EVENT_TYPE
RepOf(p) == IF p.down THEN p.rep ELSE NoKeysRep

LinkFrame == [id : Nat, pkt : Packet]
NoFrame == [id |-> 0, pkt |-> ZeroPacket]
FrameCrc == [f \in LinkFrame |-> f.pkt]
LinkReport == [id : Nat, rep : Byte \X Byte]
NoReport == [id |-> 0, rep |-> NoKeysRep]
ReportOf(f) == [id |-> f.id, rep |-> RepOf(f.pkt)]
-----------------------------------------------------------------------------
VARIABLES txPc, round, ok, txTask, txEnd, txSem, txFifo, txSeq, retrans
VARIABLES rxTask, rxEnd, rxSem, rxFifo, rxSeqstat, rxIgn, heard
VARIABLES report_pending, pending_report, pktPresent, usbf1, screen

(* The two main.c files. *)
VARIABLES seq,             (* app_tx: the 8-bit counter put in packets     *)
          cmd,             (* app_tx: the vendor request served last       *)
          rxPc,            (* app_rx: the call main() makes next, or "boot" *)
          last_pkt,        (* app_rx: the last packet polled               *)
          have_pkt         (* app_rx: GET_LAST_PACKET has not read it yet  *)

(* History and bounds. *)
VARIABLES owed,            (* key events the receiver's engine accepted,   *)
                           (* neither shown nor wiped by a restart         *)
          count            (* requests made so far, by kind                *)

INSTANCE Radio WITH Frame <- LinkFrame, EmptyFrame <- NoFrame,
                    Checksum <- Packet, Crc <- FrameCrc
INSTANCE UsbHid WITH Report <- LinkReport, NoKeys <- NoReport

txAppVars == <<seq, cmd>>
rxAppVars == <<rxPc, last_pkt, have_pkt>>
histVars == <<owed, count>>
endpointVars == <<report_pending, pending_report, pktPresent, usbf1, screen>>
linkVars == <<txPc, round, ok, txTask, txEnd, txSem, txFifo, txSeq, retrans,
              rxTask, rxEnd, rxSem, rxFifo, rxSeqstat, rxIgn, heard>>
vars == <<linkVars, endpointVars, txAppVars, rxAppVars, histVars>>

Init ==
    /\ RadioInit
    /\ HidInit
    /\ seq = 0 /\ cmd = "none"
    /\ rxPc = "usb" /\ last_pkt = ZeroPacket /\ have_pkt = FALSE
    /\ owed = {}
    /\ count = [keys |-> 0, tests |-> 0, txRestarts |-> 0, rxRestarts |-> 0]
-----------------------------------------------------------------------------
(* app_tx: usb_vendor_request() up to the call of radio_send(). *)
NextFrame(p) == [id |-> txFifo.id + 1, pkt |-> p]

SendKey(r, d) ==
    /\ count.keys < MaxKeys
    /\ count' = [count EXCEPT !.keys = @ + 1]
    /\ RadioSend(NextFrame(KeyPacket(r, d, seq)))
    /\ cmd' = "key"
    /\ seq' = (seq + 1) % 256
    /\ UNCHANGED <<endpointVars, rxAppVars, owed>>

SendTestPacket ==
    /\ count.tests < MaxTests
    /\ count' = [count EXCEPT !.tests = @ + 1]
    /\ RadioSend(NextFrame(TestPacket(seq)))
    /\ cmd' = "test"
    /\ seq' = (seq + 1) % 256
    /\ UNCHANGED <<endpointVars, rxAppVars, owed>>

(* radio_send() runs, returns, and the handler returns with it: for        *)
(* SEND_KEY the status stage acks if ok, stalls otherwise.                 *)
TxStep ==
    /\ Sender
    /\ UNCHANGED <<endpointVars, txAppVars, rxAppVars, histVars>>

TxEngine ==
    /\ TxListenEnds
    /\ UNCHANGED <<endpointVars, txAppVars, rxAppVars, histVars>>

(* APP_RESTART of the sending dongle, from usb_core_poll(). *)
TxRestart ==
    /\ count.txRestarts < MaxTxRestarts
    /\ count' = [count EXCEPT !.txRestarts = @ + 1]
    /\ RadioInitTx
    /\ seq' = 0 /\ cmd' = "none"
    /\ UNCHANGED <<endpointVars, rxAppVars, owed>>
-----------------------------------------------------------------------------
(* The air.  A key event counts as owed from its first acceptance on. *)
AirFails ==
    /\ AttemptLost \/ AttemptDamaged
    /\ UNCHANGED <<endpointVars, txAppVars, rxAppVars, histVars>>

AirWorks ==
    /\ AttemptHeard
    /\ owed' = IF ~heard /\ IsKeyEvent(txFifo.pkt) THEN owed \cup {txFifo.id} ELSE owed
    /\ UNCHANGED <<endpointVars, txAppVars, rxAppVars, count>>
-----------------------------------------------------------------------------
(* app_rx: main()'s loop.  usb_core_poll() with no request waiting. *)
RxUsb ==
    /\ rxPc = "usb" /\ rxPc' = "hid"
    /\ UNCHANGED <<linkVars, endpointVars, txAppVars, last_pkt, have_pkt, histVars>>

(* usb_core_poll() serving GET_LAST_PACKET. *)
GetLastPacket ==
    /\ rxPc = "usb" /\ rxPc' = "hid"
    /\ have_pkt' = FALSE
    /\ UNCHANGED <<linkVars, endpointVars, txAppVars, last_pkt, histVars>>

RxHid ==
    /\ rxPc = "hid" /\ rxPc' = "radio"
    /\ HidPoll
    /\ UNCHANGED <<linkVars, txAppVars, last_pkt, have_pkt, histVars>>

(* Faulty variant: no backpressure. *)
PollsAlways == TRUE

(* The radio is polled only while no report waits (backpressure). *)
MayPollRadio == ~hid_busy

RxRadio ==
    /\ rxPc = "radio" /\ rxPc' = "usb"
    /\ IF MayPollRadio
       THEN /\ RadioRecvPoll
            /\ IF RecvHasPacket
               THEN /\ last_pkt' = RecvBuf.pkt /\ have_pkt' = TRUE
                    /\ IF IsKeyEvent(RecvBuf.pkt)
                       THEN HidSendReport(ReportOf(RecvBuf))
                       ELSE UNCHANGED endpointVars
               ELSE UNCHANGED <<last_pkt, have_pkt, endpointVars>>
       ELSE UNCHANGED <<linkVars, endpointVars, last_pkt, have_pkt>>
    /\ UNCHANGED <<txAppVars, histVars>>

(* APP_RESTART from usb_core_poll(): the startup code clears the statics   *)
(* and USBCTRL=0 takes the keyboard off the bus, but the engine goes on    *)
(* listening, and acknowledging, until radio_init() resets it.             *)
RxRestart ==
    /\ rxPc = "usb" /\ rxPc' = "boot"
    /\ count.rxRestarts < MaxRxRestarts
    /\ count' = [count EXCEPT !.rxRestarts = @ + 1]
    /\ HidReset
    /\ last_pkt' = ZeroPacket /\ have_pkt' = FALSE
    /\ owed' = owed \cap {rxFifo.id}
    /\ UNCHANGED <<linkVars, txAppVars>>

RxBoot ==
    /\ rxPc = "boot" /\ rxPc' = "usb"
    /\ RadioInitRx
    /\ owed' = {}
    /\ UNCHANGED <<endpointVars, txAppVars, last_pkt, have_pkt, count>>

(* The machine polls the keyboard. *)
HostStep ==
    /\ HostTakes
    /\ owed' = owed \ {usbf1.id}
    /\ UNCHANGED <<linkVars, txAppVars, rxAppVars, count>>
-----------------------------------------------------------------------------
RxLoop == RxUsb \/ RxHid \/ RxRadio \/ RxBoot

Next ==
    \/ \E r \in KeyReports, d \in BOOLEAN : SendKey(r, d)
    \/ SendTestPacket
    \/ TxStep
    \/ TxEngine
    \/ TxRestart
    \/ AirFails
    \/ AirWorks
    \/ RxLoop
    \/ GetLastPacket
    \/ RxRestart
    \/ HostStep

Spec == Init /\ [][Next]_vars

(* Both CPUs run, the sender's engine attempts and times out, the machine  *)
(* is awake and polls the interrupt endpoint.                              *)
Fairness ==
    /\ WF_vars(TxStep)
    /\ WF_vars(TxEngine)
    /\ WF_vars(AirFails \/ AirWorks)
    /\ WF_vars(RxLoop)
    /\ WF_vars(HostStep)

FairSpec == Spec /\ Fairness
-----------------------------------------------------------------------------
TypeOK ==
    /\ RadioTypeOK
    /\ HidTypeOK
    /\ seq \in Byte
    /\ cmd \in {"none", "key", "test"}
    /\ rxPc \in {"usb", "hid", "radio", "boot"}
    /\ last_pkt \in Packet
    /\ have_pkt \in BOOLEAN
    /\ owed \in SUBSET Nat
    /\ count \in [{"keys", "tests", "txRestarts", "rxRestarts"} -> Nat]

(* The reports on their way in app_rx: waiting in the keyboard endpoint, or *)
(* still a packet in the Rx FIFO.                                           *)
InEndpoint == (IF pktPresent THEN {usbf1} ELSE {})
                  \cup (IF report_pending THEN {pending_report} ELSE {})
InRadio == IF IsKeyEvent(rxFifo.pkt) THEN {ReportOf(rxFifo)} ELSE {}

(* Every stage holds older events than the one before it, so the machine    *)
(* sees them in the order they were sent (usb_hid.c:34-39: none reordered), *)
(* and no report was ever made from anything but a frame that was sent: the *)
(* zeros that radio_recv_poll() reads after a damaged frame are not one.    *)
InOrder ==
    /\ \A r \in InEndpoint : 0 < r.id /\ screen.id <= r.id
    /\ pktPresent /\ report_pending => usbf1.id <= pending_report.id
    /\ \A r \in InEndpoint \cup {screen} :
           rxFifo # NoFrame => r.id <= rxFifo.id
    /\ screen.id <= txFifo.id /\ rxFifo.id <= txFifo.id
    /\ \A r \in InEndpoint : r.id <= txFifo.id

(* main.c:165-171 of app_rx: backpressure paces reports "instead of dropped":*)
(* a key event the receiver's engine accepted, and may have acknowledged,   *)
(* sits in the Rx FIFO, the waiting slot or the endpoint FIFO until the     *)
(* machine takes it; only a restart of app_rx can wipe it.                  *)
NothingAcceptedIsLost ==
    \A i \in owed : \E r \in InEndpoint \cup InRadio : r.id = i

(* radio.c:313-316: a frame the engine takes is classed as a retransmission *)
(* exactly when the receiver already had this radio_send()'s packet, whether*)
(* the repetition is the engine's or a later round's.  Two equal key events *)
(* after a failed send share the SEQ; the counter in byte 4 of the packet   *)
(* tells them apart.  Holds while neither dongle restarts, for the 256      *)
(* packets the counter numbers and but for one pair: a test packet whose    *)
(* counter is 1 equals the 87th packet if that is the key event <<254, 3>>. *)
RetransmissionsRecognised == [][AirWorks => rxIgn' = heard]_vars

(* app_rx/main.c:165-171, reports "paced instead of dropped": unless app_rx  *)
(* restarts, every key event its engine accepted, hence every SEND_KEY the  *)
(* sender's host sees acknowledged, does reach the machine's keyboard.      *)
DeliveredIsShown == []<>(owed = {})

(* The path as the abstract event stream. *)
Stream == INSTANCE KeyStream
    WITH Rep <- KeyReports \cup {NoKeysRep},
         NoKeys <- NoKeysRep,
         current <- ReportOf(txFifo),
         busy <- txPc # "ready",
         accepted <- heard,
         pipe <- {r \in InEndpoint \cup InRadio : r.id > screen.id},
         screen <- screen,
         delivered <- ok /\ txPc = "ready"

(* What a host program may rely on: events appear in order, each at most    *)
(* once between two restarts of app_rx, and an acknowledged one was         *)
(* accepted.  A restart of app_rx may lose events and may show the last one *)
(* shown once more, its retransmission being new to a receiver that has     *)
(* forgotten the sequence number; no restart invents events, reorders them  *)
(* or brings an older one back (key events only, no test packets).          *)
ImplementsStream == Stream!Spec
=============================================================================
