------------------------------- MODULE UsbHid -------------------------------
(***************************************************************************)
(* The boot-keyboard endpoint of app_rx: firmware/app_rx/src/usb_hid.c and *)
(* the EP1 IN FIFO of the USB controller it drives.  Reports are opaque    *)
(* here; what matters is where each of them is.                            *)
(*                                                                         *)
(* The CPU is one thread and the only interleaving is with the host, whose *)
(* IN transaction empties the FIFO and clears PKT_PRESENT at any moment.   *)
(* Each function reads that flag once, so one action per call is as fine   *)
(* as the interleaving gets.                                               *)
(***************************************************************************)
EXTENDS Naturals, Sequences

CONSTANTS Report,         (* 8-byte reports                                *)
          NoKeys          (* the all-zero report                           *)

ASSUME NoKeysAssumption == NoKeys \in Report

VARIABLES report_pending, (* a report waits in RAM                         *)
          pending_report, (* that report                                   *)
          pktPresent,     (* USBCSIL.PKT_PRESENT: EP1 FIFO holds a report  *)
          usbf1,          (* the report in the EP1 FIFO                    *)
          screen          (* the last report the host took                 *)

hidVars == <<report_pending, pending_report, pktPresent, usbf1, screen>>

(* After the C startup code cleared the statics and USBCTRL=0 emptied the  *)
(* FIFOs; the host side forgets its keys when the device goes away.        *)
HidInit ==
    /\ report_pending = FALSE
    /\ pending_report = NoKeys
    /\ pktPresent = FALSE
    /\ usbf1 = NoKeys
    /\ screen = NoKeys

hid_busy == report_pending

(* The same state reached by a restart: the startup code and USBCTRL=0. *)
HidReset ==
    /\ report_pending' = FALSE
    /\ pending_report' = NoKeys
    /\ pktPresent' = FALSE
    /\ usbf1' = NoKeys
    /\ screen' = NoKeys

(* Faulty variants: the flag sent for the report; the FIFO refilled without *)
(* a look at PKT_PRESENT; a report dropped on its way to the FIFO; a report *)
(* never moved there.                                                       *)
WriteFlag(r) == usbf1' = report_pending /\ pktPresent' = TRUE
NeverFull == FALSE
HidPollDrops ==
    /\ report_pending' = FALSE
    /\ UNCHANGED <<pending_report, pktPresent, usbf1, screen>>
HidPollIdles ==
    UNCHANGED <<report_pending, pending_report, pktPresent, usbf1, screen>>

(* USBCSIL & PKT_PRESENT *)
EndpointFull == pktPresent

(* hid_write_report: fill the FIFO, raise INPKT_RDY. *)
WriteReport(r) == usbf1' = r /\ pktPresent' = TRUE

(* hid_send_report: the report goes to the FIFO, or waits if it is full. *)
HidSendReport(r) ==
    /\ IF EndpointFull
       THEN /\ pending_report' = r
            /\ report_pending' = TRUE
            /\ UNCHANGED <<pktPresent, usbf1>>
       ELSE /\ WriteReport(r)
            /\ UNCHANGED <<report_pending, pending_report>>
    /\ UNCHANGED screen

(* hid_poll: the waiting report moves once the FIFO is free. *)
HidPoll ==
    IF report_pending /\ ~EndpointFull
    THEN /\ report_pending' = FALSE
         /\ WriteReport(pending_report)
         /\ UNCHANGED <<pending_report, screen>>
    ELSE UNCHANGED <<report_pending, pending_report, pktPresent, usbf1, screen>>

(* The host's interrupt-IN transaction, every bInterval = 10 ms. *)
HostTakes ==
    /\ pktPresent
    /\ screen' = usbf1
    /\ pktPresent' = FALSE
    /\ UNCHANGED <<report_pending, pending_report, usbf1>>

(* The endpoint on its own: its caller respects hid_busy() as main() does. *)
Caller == ~hid_busy /\ \E r \in Report : HidSendReport(r)

HidNext == Caller \/ HidPoll \/ HostTakes

HidSpec == HidInit /\ [][HidNext]_hidVars

(* main() polls for ever and the host polls the endpoint for ever. *)
HidFairSpec == HidSpec /\ WF_hidVars(HidPoll) /\ WF_hidVars(HostTakes)
-----------------------------------------------------------------------------
HidTypeOK ==
    /\ report_pending \in BOOLEAN
    /\ pending_report \in Report
    /\ pktPresent \in BOOLEAN
    /\ usbf1 \in Report
    /\ screen \in Report

(* The reports in the endpoint, oldest first. *)
Queued == (IF pktPresent THEN <<usbf1>> ELSE <<>>)
             \o (IF report_pending THEN <<pending_report>> ELSE <<>>)

RQ == INSTANCE ReportQueue WITH queue <- Queued

(* usb_hid.c:34-39: every report is an event, "none may be dropped or       *)
(* reordered": FIFO slot plus waiting slot behave as one queue of two.      *)
ImplementsQueue == RQ!Spec

(* usb_hid.c:34-39, hid_busy() "stays true until hid_poll() hands it to the *)
(* FIFO": a waiting report does reach the FIFO and then the host, so the    *)
(* caller that stops reading the radio meanwhile is released.               *)
WaitingReportMoves ==
    \A r \in Report : (report_pending /\ pending_report = r) ~> (screen = r)

=============================================================================
