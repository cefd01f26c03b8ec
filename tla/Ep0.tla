-------------------------------- MODULE Ep0 --------------------------------
(***************************************************************************)
(* Control transfers of the applications: app_common/usb_core.c with the   *)
(* handlers of both main.c files, endpoint 0 of the USB controller, one    *)
(* host at a time and the emergency watchdog.                              *)
(*                                                                         *)
(* The firmware serves a request in one blocking call: usb_ep0_recv() and  *)
(* usb_ep0_send() wait for the host, SEND_KEY waits for the radio in the   *)
(* middle of its transfer, and only usb_core_poll() feeds the watchdog.    *)
(* The controller's part is modelled from SWRU283B 21.5-21.6, which the    *)
(* repository keeps in references/; the host's from the USB standard and   *)
(* the scripts in tools/.                                                  *)
(***************************************************************************)
EXTENDS Naturals

CONSTANTS Get,          (* IN requests                                     *)
          GetLen,       (* bytes of the answer to each, all of them asked  *)
          PacketLen,    (* bMaxPacketSize0: 32                             *)
          MaxAbandoned  (* bound: transfers dropped by a dying script      *)

NoData == {"softReset", "appRestart", "set", "sendTestPacket", "unknown"}
OutData == {"sendKey", "setReport"}
Request == NoData \cup OutData \cup Get

ASSUME Ep0Assumption ==
    /\ Get \cap (NoData \cup OutData \cup {"none", "data"}) = {}
    /\ GetLen \in [Get -> Nat]
    /\ PacketLen \in Nat \ {0} /\ MaxAbandoned \in Nat
-----------------------------------------------------------------------------
(* The firmware. *)
VARIABLES cpu,     (* "init", "poll" in the main loop, "recv" and "send"   *)
                   (* in usb_ep0_recv() and usb_ep0_send(), "radio" in     *)
                   (* radio_send(), "spin" in SOFT_RESET's endless loop,   *)
                   (* or "boot": reset, now the bootloader runs            *)
          job,     (* the request being served                             *)
          left,    (* usb_ep0_send(): bytes after the packet in the FIFO   *)
          full     (* its chunk == 32                                      *)

(* Endpoint 0: USBCS0 and the FIFO. *)
VARIABLES out,     (* what OUTPKT_RDY announces: a setup packet, "data" of *)
                   (* a data stage, or "none"                              *)
          inRdy,   (* INPKT_RDY                                            *)
          inLen,   (* bytes in the FIFO then                               *)
          dataEnd, (* DATA_END                                             *)
          stall,   (* SEND_STALL                                           *)
          ep       (* "idle", "tx" or "rx"                                 *)

(* The host. *)
VARIABLES xfer,    (* the request of the last transfer started             *)
          stage,   (* its stage, or "over"                                 *)
          want,    (* IN bytes it still waits for                          *)
          said     (* how it ended, as the script sees it                  *)

(* History. *)
VARIABLES mine,    (* job is the transfer the host is in                   *)
          done,    (* the firmware has carried the host's request out      *)
          acked,   (* radio_send() returned 1 for it                       *)
          abandoned, (* transfers dropped by the host                      *)
          cut        (* a transfer with OUT data ended under its handler   *)

cpuVars == <<cpu, job, left, full>>
epVars == <<out, inRdy, inLen, dataEnd, stall, ep>>
hostVars == <<xfer, stage, want, said>>
history == <<mine, done, acked, abandoned, cut>>
vars == <<cpuVars, epVars, hostVars, history>>

Init ==
    /\ cpu = "init" /\ job = "set" /\ left = 0 /\ full = FALSE
    /\ out = "none" /\ inRdy = FALSE /\ inLen = 0 /\ dataEnd = FALSE
    /\ stall = FALSE /\ ep = "idle"
    /\ xfer = "set" /\ stage = "over" /\ want = 0 /\ said = "error"
    /\ mine = FALSE /\ done = FALSE /\ acked = FALSE
    /\ abandoned = 0 /\ cut = FALSE

Active == stage # "over"

(* The controller is reset or disconnected: the host's transfer fails.     *)
Disconnect ==
    /\ out' = "none" /\ inRdy' = FALSE /\ dataEnd' = FALSE /\ stall' = FALSE /\ ep' = "idle"
    /\ stage' = "over" /\ said' = IF Active THEN "error" ELSE said
    /\ mine' = FALSE
    /\ UNCHANGED <<inLen, xfer, want>>

(* usb_core_init(): USBCTRL = 0, then connected anew, the watchdog armed.  *)
UsbCoreInit ==
    /\ cpu = "init"
    /\ cpu' = "poll"
    /\ Disconnect
    /\ UNCHANGED <<job, left, full, done, acked, abandoned, cut>>
-----------------------------------------------------------------------------
(* The helpers, on a request whose setup packet has been read.              *)
Ack ==
    /\ out' = "none" /\ dataEnd' = TRUE
    /\ UNCHANGED <<inRdy, inLen, stall, ep>>

Stall ==
    /\ out' = "none" /\ stall' = TRUE
    /\ UNCHANGED <<inRdy, inLen, dataEnd, ep>>

(* One packet of usb_ep0_send(), n bytes to go; an empty one follows a full *)
(* last one, and only a short one has DATA_END.  Faulty variants: no split; *)
(* no empty packet; DATA_END already with the full one.                     *)
Unsplit(n) == n
Chunk(n) == IF n > PacketLen THEN PacketLen ELSE n
EndsWhenEmpty(n) == n > PacketLen
MoreFollow(n) == Chunk(n) = PacketLen
NoneLeft(n) == n <= PacketLen
LastPacket(n) == Chunk(n) # PacketLen

Load(n) ==
    /\ inRdy' = TRUE /\ inLen' = Chunk(n)
    /\ left' = n - Chunk(n) /\ full' = MoreFollow(n)
    /\ dataEnd' = LastPacket(n)

(* usb_ep0_recv() consumes the setup packet first.  Faulty variant: not.    *)
SetupLeft(req) == req
SetupConsumed(req) == "none"

(* The work of the request is done: its transfer's if the host is still in it. *)
CarriedOut(own) == done' = (done \/ own)

(* usb_core_poll() finds OUTPKT_RDY and takes what is there for a setup     *)
(* packet, whatever it is.                                                  *)
Taken == IF out = "data" THEN Request ELSE {out}
Own == Active /\ out # "data"

Serve(req) ==
    /\ cpu = "poll" /\ out # "none" /\ req \in Taken
    /\ job' = req
    /\ mine' = Own
    /\ UNCHANGED <<hostVars, acked, abandoned, cut>>

(* SOFT_RESET, APP_RESTART, SEND_TEST_PACKET and the requests that are only *)
(* acknowledged.                                                            *)
AfterAck == [softReset |-> "spin", appRestart |-> "init", set |-> "poll", sendTestPacket |-> "radio"]

ServeNoData ==
    \E req \in NoData \ {"unknown"} :
        /\ Serve(req)
        /\ Ack
        /\ cpu' = AfterAck[req]
        /\ CarriedOut(Own)
        /\ UNCHANGED <<left, full>>

ServeUnknown ==
    /\ Serve("unknown")
    /\ Stall
    /\ UNCHANGED <<cpu, left, full, done>>

ServeIn ==
    \E req \in Get :
        /\ Serve(req)
        /\ out' = "none" /\ ep' = "tx"
        /\ Load(GetLen[req])
        /\ cpu' = "send"
        /\ CarriedOut(Own)
        /\ UNCHANGED stall

ServeOut ==
    \E req \in OutData :
        /\ Serve(req)
        /\ out' = SetupConsumed(out) /\ ep' = "rx"
        /\ cpu' = "recv"
        /\ UNCHANGED <<inRdy, inLen, dataEnd, stall, left, full, done>>

(* usb_ep0_recv() returns, with whatever OUTPKT_RDY announced. *)
Received == cpu = "recv" /\ out # "none"

ReceiveKey ==
    /\ Received /\ job = "sendKey"
    /\ cpu' = "radio"
    /\ UNCHANGED <<job, left, full, epVars, hostVars, history>>

ReceiveReport ==
    /\ Received /\ job = "setReport"
    /\ Ack
    /\ cpu' = "poll"
    /\ CarriedOut(mine)
    /\ UNCHANGED <<job, left, full, hostVars, mine, acked, abandoned, cut>>

(* radio_send() returns; SEND_KEY ends the transfer it left open with the   *)
(* outcome.  Faulty variant: acknowledged in any case.                      *)
AlwaysSucceeds(ok) == TRUE
Succeeds(ok) == ok

RadioReturns ==
    /\ cpu = "radio"
    /\ cpu' = "poll"
    /\ \E ok \in BOOLEAN :
           /\ acked' = IF mine /\ job = "sendKey" THEN ok ELSE acked
           /\ IF job = "sendTestPacket" THEN UNCHANGED <<epVars, done>>
              ELSE IF Succeeds(ok) THEN Ack /\ CarriedOut(mine)
              ELSE Stall /\ UNCHANGED done
    /\ UNCHANGED <<job, left, full, hostVars, mine, abandoned, cut>>

(* usb_ep0_send(): INPKT_RDY is low again. *)
SendNext ==
    /\ cpu = "send" /\ ~inRdy
    /\ IF full THEN Load(left) /\ UNCHANGED cpu
       ELSE cpu' = "poll" /\ UNCHANGED <<inRdy, inLen, dataEnd, left, full>>
    /\ UNCHANGED <<job, out, stall, ep, hostVars, history>>
-----------------------------------------------------------------------------
(* The host.  A setup packet is always accepted; the transfer it ends, if   *)
(* any, is flushed.  Whether a STALL that nobody fetched survives is left   *)
(* open by the guide.                                                       *)
HostSetup ==
    /\ ~Active /\ cpu # "boot"
    /\ \E req \in Request :
           /\ xfer' = req /\ out' = req
           /\ want' = IF req \in Get THEN GetLen[req] ELSE 0
           /\ stage' = IF req \in NoData THEN "status" ELSE "data"
    /\ said' = "none"
    /\ ep' = "idle" /\ dataEnd' = FALSE /\ inRdy' = FALSE
    /\ stall' \in {stall, FALSE}
    /\ mine' = FALSE /\ done' = FALSE /\ acked' = FALSE
    /\ UNCHANGED <<cpuVars, inLen, abandoned, cut>>

UnderHandler == xfer \in OutData /\ (out = xfer \/ (mine /\ cpu \in {"recv", "radio"}))
Ends(outcome) == stage' = "over" /\ said' = outcome /\ mine' = FALSE

(* A STALL handshake: sent by the firmware, or by the controller for a data *)
(* token after DATA_END (SWRU283B 21.6.1).                                  *)
EndedEarly == stage = "data" /\ dataEnd /\ ~inRdy /\ out = "none"
HostStalled ==
    /\ Active /\ (stall \/ EndedEarly)
    /\ Ends("stall")
    /\ stall' = FALSE
    /\ cut' = (cut \/ UnderHandler)
    /\ UNCHANGED <<cpuVars, out, inRdy, inLen, dataEnd, ep, xfer, want, done, acked, abandoned>>

CanOut == stage = "data" /\ xfer \in OutData /\ ep = "rx" /\ out = "none"
HostOut ==
    /\ CanOut /\ ~stall
    /\ out' = "data" /\ stage' = "status"
    /\ UNCHANGED <<cpuVars, inRdy, inLen, dataEnd, stall, ep, xfer, want, said, history>>

CanIn == stage = "data" /\ xfer \in Get /\ ep = "tx" /\ inRdy
HostIn ==
    /\ CanIn /\ ~stall
    /\ inRdy' = FALSE
    /\ want' = want - inLen
    /\ stage' = IF inLen < PacketLen \/ want' = 0 THEN "status" ELSE "data"
    /\ UNCHANGED <<cpuVars, out, inLen, dataEnd, stall, ep, xfer, said, history>>

(* DATA_END starts the status stage; it clears an empty packet not fetched. *)
CanStatus == stage = "status" /\ dataEnd /\ out = "none"
HostStatus ==
    /\ CanStatus /\ ~stall
    /\ Ends("ok")
    /\ dataEnd' = FALSE /\ inRdy' = FALSE /\ ep' = "idle"
    /\ UNCHANGED <<cpuVars, out, inLen, stall, xfer, want, done, acked, abandoned, cut>>

(* The script dies, or its transfer times out because the firmware waits    *)
(* for something that does not come.                                        *)
Drop ==
    /\ Active
    /\ Ends("error")
    /\ cut' = (cut \/ UnderHandler)
    /\ UNCHANGED <<cpuVars, epVars, xfer, want, done, acked>>

Abandon ==
    /\ abandoned < MaxAbandoned
    /\ abandoned' = abandoned + 1
    /\ Drop

Waiting == (cpu = "recv" /\ out = "none") \/ (cpu = "send" /\ inRdy)
Starved == cpu = "spin" \/ (Waiting /\ ~(CanOut \/ CanIn \/ CanStatus))

Timeout == Starved /\ Drop /\ UNCHANGED abandoned
-----------------------------------------------------------------------------
(* About a second after the last usb_core_poll(): a host that has something *)
(* to do is quicker than that, and so is radio_send() (radio.c:322-325).    *)
(* Faulty variant: the waiting loops of endpoint 0 feed the watchdog too.   *)
FedWhileWaiting == cpu = "spin"
Unfed == Starved

WatchdogFires ==
    /\ Unfed
    /\ cpu' = "boot"
    /\ Disconnect
    /\ UNCHANGED <<job, left, full, done, acked, abandoned, cut>>

(* jump_to_app.py, or a flashed application. *)
BootloaderJumps ==
    /\ cpu = "boot"
    /\ cpu' = "init"
    /\ UNCHANGED <<job, left, full, epVars, hostVars, history>>
-----------------------------------------------------------------------------
Firmware ==
    \/ UsbCoreInit
    \/ ServeNoData
    \/ ServeUnknown
    \/ ServeIn
    \/ ServeOut
    \/ ReceiveKey
    \/ ReceiveReport
    \/ RadioReturns
    \/ SendNext

HostGoesOn == HostStalled \/ HostOut \/ HostIn \/ HostStatus

Next ==
    \/ Firmware
    \/ HostGoesOn
    \/ HostSetup
    \/ Abandon
    \/ Timeout
    \/ WatchdogFires
    \/ BootloaderJumps

Spec == Init /\ [][Next]_vars

(* The CPU runs, a host goes on with its transfer, the watchdog fires.      *)
Fairness == WF_vars(Firmware) /\ WF_vars(HostGoesOn) /\ WF_vars(WatchdogFires)
FairSpec == Spec /\ Fairness
-----------------------------------------------------------------------------
TypeOK ==
    /\ cpu \in {"init", "poll", "recv", "send", "radio", "spin", "boot"}
    /\ job \in Request /\ left \in Nat /\ full \in BOOLEAN
    /\ out \in Request \cup {"none", "data"}
    /\ inRdy \in BOOLEAN /\ inLen \in 0..PacketLen /\ dataEnd \in BOOLEAN
    /\ stall \in BOOLEAN /\ ep \in {"idle", "tx", "rx"}
    /\ xfer \in Request /\ stage \in {"data", "status", "over"}
    /\ want \in Nat /\ said \in {"none", "ok", "stall", "error"}
    /\ mine \in BOOLEAN /\ done \in BOOLEAN /\ acked \in BOOLEAN
    /\ abandoned \in 0..MaxAbandoned /\ cut \in BOOLEAN

(* app_tx/main.c:88-90, "ack = RX got the packet": whatever transfers the   *)
(* host dropped before, a SEND_KEY that ends well is one radio_send()       *)
(* returned 1 for, never the late end of an earlier one.                    *)
KeyOkMeansAcked == said = "ok" /\ xfer = "sendKey" => acked

(* usb_core.h:51-58: a request reported done was carried out, a SOFT_RESET  *)
(* in particular.  An OUT transfer dropped earlier breaks this: its handler *)
(* may end by acknowledging the next request's setup packet unread.         *)
SuccessMeansDone == said = "ok" => done \/ cut

(* usb_core.c:145-151: the byte SEND_KEY takes for down or up is its data   *)
(* stage's and never part of a setup packet, its own or, unless an OUT      *)
(* transfer was dropped, another's.                                         *)
KeysAreAsked == Received /\ job = "sendKey" => out = "data" \/ cut

(* TODO.md:3-9, "spontaneous reboots": the watchdog ends the application    *)
(* only after a SOFT_RESET or a dropped transfer, never in the middle of    *)
(* one the host goes on with.                                               *)
NoSpontaneousReset == [][cpu' = "boot" /\ cpu # "boot" => cpu = "spin" \/ abandoned > 0]_vars

(* usb_core.c:38-45: the application comes back to usb_core_poll() or the   *)
(* bootloader listens, whatever the host drops, and every transfer ends.    *)
AnswersAgain == []<>(cpu \in {"poll", "boot"}) /\ (Active ~> ~Active)

=============================================================================
