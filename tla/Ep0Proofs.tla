----------------------------- MODULE Ep0Proofs -----------------------------
(***************************************************************************)
(* Proofs about Ep0 for every set of IN requests, every length of their    *)
(* answers and any number of dropped transfers: the invariant IInv is      *)
(* inductive and gives the type invariant, the three safety invariants and *)
(* the action property about the watchdog.                                 *)
(***************************************************************************)
EXTENDS Ep0, TLAPS

(* TypeOK in two parts. *)
Numbers ==
    /\ left \in Nat /\ inLen \in 0..PacketLen
    /\ want \in Nat /\ abandoned \in 0..MaxAbandoned
Names ==
    /\ cpu \in {"init", "poll", "recv", "send", "radio", "spin", "boot"}
    /\ job \in Request /\ full \in BOOLEAN
    /\ out \in Request \cup {"none", "data"}
    /\ inRdy \in BOOLEAN /\ dataEnd \in BOOLEAN
    /\ stall \in BOOLEAN /\ ep \in {"idle", "tx", "rx"}
    /\ xfer \in Request /\ stage \in {"data", "status", "over"}
    /\ said \in {"none", "ok", "stall", "error"}
    /\ mine \in BOOLEAN /\ done \in BOOLEAN /\ acked \in BOOLEAN
    /\ cut \in BOOLEAN

(* Which requests a waiting handler can be serving. *)
Jobs ==
    /\ cpu = "send" => job \in Get
    /\ cpu = "recv" => job \in OutData
    /\ cpu = "radio" => job \in {"sendKey", "sendTestPacket"}

(* Whose transfer the endpoint's state belongs to. *)
Owner ==
    /\ Active => said = "none"
    /\ mine => (Active /\ job = xfer /\ out \notin Request)
    /\ (Active /\ out \in Request) => (xfer = out /\ ep = "idle")
    /\ (Active /\ ep # "idle") => mine
    /\ (xfer \in OutData \cup Get /\ stage = "status") => mine
    /\ (mine /\ xfer \in OutData /\ stage = "data") => cpu = "recv"
    /\ (mine /\ xfer \in Get) => done
    /\ out = "data" => (cpu \in {"recv", "radio"} /\ job \in OutData)
    /\ (mine /\ out = "data") => stage # "data"

(* A transfer ends well only by its own handler's DATA_END. *)
OwnEnd ==
    /\ (out \in Request /\ (cpu = "send" => ~inRdy)) => ~dataEnd
    /\ (mine /\ dataEnd) => done
    /\ (mine /\ dataEnd /\ xfer = "sendKey") => acked
    /\ (mine /\ dataEnd /\ job \in OutData) => cpu \notin {"recv", "radio"}

(* What is out of step was left behind by a transfer with OUT data. *)
CutShort ==
    /\ (cpu \in {"recv", "radio"} /\ job \in OutData /\ ~mine) => cut
    /\ (~Active /\ out \in OutData) => cut
    /\ (Active /\ ~mine /\ out # xfer) => cut

(* The host still waits for what the handler still has to send. *)
Counted ==
    /\ (Active /\ out \in Get) => want = GetLen[out]
    /\ (Active /\ ep = "tx" /\ inRdy) => want = left + inLen
    /\ (Active /\ ep = "tx" /\ ~inRdy) => want = left

(* While the host has dropped no transfer, the running application waits    *)
(* only in the transfer the host is in, for something the host can do.      *)
Sending ==
    (cpu = "send" /\ (inRdy \/ full)) =>
        /\ mine /\ ep = "tx" /\ out = "none"
        /\ dataEnd <=> ~full
        /\ full => inLen = PacketLen
        /\ (stage = "status" /\ inRdy) => dataEnd
        /\ (stage = "status" /\ ~inRdy /\ full) => left = 0
InStep ==
    /\ ~Active => out = "none"
    /\ cpu = "recv" => (mine /\ (out = "none" => (stage = "data" /\ ep = "rx")))
    /\ (cpu = "radio" /\ job = "sendKey") => mine
    /\ stall => (Active /\ cpu = "poll" /\ out = "none")
    /\ Sending
Undisturbed == (abandoned = 0 /\ cpu \in {"poll", "recv", "send", "radio"}) => InStep

Results == KeyOkMeansAcked /\ SuccessMeansDone /\ KeysAreAsked
IInv == Numbers /\ Names /\ Jobs /\ Owner /\ OwnEnd /\ CutShort /\ Counted /\ Undisturbed /\ Results
-----------------------------------------------------------------------------
LEMMA InitInv == Init => IInv
<1> SUFFICES ASSUME Init PROVE IInv
    OBVIOUS
<1>0. Numbers
    BY Ep0Assumption DEF Init, Numbers
<1>1. Names
    BY DEF Init, Names, Request, NoData
<1>2. Jobs /\ Owner /\ OwnEnd /\ CutShort /\ Counted
    BY Ep0Assumption DEF Init, Jobs, Owner, OwnEnd, CutShort, Counted, Active,
       Request, NoData, OutData
<1>3. Undisturbed /\ Results
    BY DEF Init, Undisturbed, Results, KeyOkMeansAcked, SuccessMeansDone,
       KeysAreAsked, Received
<1> QED
    BY <1>0, <1>1, <1>2, <1>3 DEF IInv

(* The controller loses everything that could be out of step.              *)
LEMMA Disconnected ==
    ASSUME IInv, Disconnect, cpu' \in {"poll", "boot"},
           UNCHANGED <<job, left, full, done, acked, abandoned, cut>>
    PROVE  IInv'
<1> USE DEF IInv, Disconnect
<1>1. Numbers'
    BY DEF Numbers
<1>2. Names'
    BY DEF Names
<1>3. Jobs'
    BY DEF Jobs
<1>4. Owner'
    BY Ep0Assumption DEF Names, Owner, Active, Request, NoData, OutData
<1>5. OwnEnd'
    BY DEF OwnEnd
<1>6. CutShort'
    BY DEF CutShort, Active, OutData
<1>7. Counted'
    BY DEF Counted, Active
<1>8. Undisturbed'
    BY DEF Undisturbed, InStep, Sending
<1>9. Results'
    BY DEF Results, KeyOkMeansAcked, SuccessMeansDone, KeysAreAsked, Received
<1> QED
    BY <1>1, <1>2, <1>3, <1>4, <1>5, <1>6, <1>7, <1>8, <1>9

LEMMA UsbCoreInitStep ==
    ASSUME IInv, UsbCoreInit PROVE IInv'
    BY Disconnected DEF UsbCoreInit

LEMMA WatchdogFiresStep ==
    ASSUME IInv, WatchdogFires PROVE IInv'
    BY Disconnected DEF WatchdogFires

(* usb_core_poll() reads a setup packet only: "data" waits for a handler.   *)
LEMMA Served ==
    ASSUME IInv, NEW req, Serve(req)
    PROVE  /\ cpu = "poll" /\ job' = req /\ out = req /\ req \in Request
           /\ (mine' <=> Active) /\ (Active => (xfer = req /\ ~mine))
           /\ UNCHANGED <<xfer, stage, want, said, acked, abandoned, cut>>
    BY Ep0Assumption DEF IInv, Serve, Taken, Own, Owner, Request, NoData,
       OutData, hostVars, Names

-----------------------------------------------------------------------------
LEMMA ServeNoDataStep ==
    ASSUME IInv, ServeNoData PROVE IInv'
<1> USE DEF IInv
<1>1. Numbers'
    BY DEF Numbers, ServeNoData, Serve, Ack, hostVars
<1>2. Names'
    BY DEF Names, NoData, ServeNoData, Serve, Taken, Own, Ack, AfterAck,
       CarriedOut, hostVars
<1>3. Jobs'
    BY DEF Jobs, NoData, ServeNoData, Serve, AfterAck
<1>4. Owner'
    BY Ep0Assumption DEF Names, Owner, Request, NoData, OutData, Active,
       ServeNoData, Serve, Taken, Own, Ack, hostVars
<1>5. OwnEnd'
    BY Ep0Assumption DEF Names, Owner, OwnEnd, Request, NoData, OutData,
       ServeNoData, Serve, Taken, Own, Ack, CarriedOut, hostVars
<1>6. CutShort'
    BY Ep0Assumption, Served
       DEF ServeNoData, Ack, AfterAck, CutShort, Active, NoData, OutData
<1>7. Counted'
    BY Ep0Assumption DEF Counted, Active, ServeNoData, Serve, Ack, hostVars
<1>8. Undisturbed'
    BY DEF Undisturbed, InStep, Sending, NoData, ServeNoData, Serve, Ack,
       AfterAck
<1>9. Results'
    BY DEF Names, Results, KeyOkMeansAcked, SuccessMeansDone, KeysAreAsked,
       NoData, ServeNoData, Serve, CarriedOut, hostVars
<1> QED
    BY <1>1, <1>2, <1>3, <1>4, <1>5, <1>6, <1>7, <1>8, <1>9

LEMMA ServeUnknownStep ==
    ASSUME IInv, ServeUnknown PROVE IInv'
<1> USE DEF IInv
<1>1. Numbers'
    BY DEF Numbers, ServeUnknown, Serve, Stall, hostVars
<1>2. Names'
    BY DEF Names, ServeUnknown, Serve, Taken, Own, Stall, hostVars
<1>3. Jobs'
    BY DEF Jobs, ServeUnknown, Serve
<1>4. Owner'
    BY Ep0Assumption DEF Names, Owner, Request, NoData, OutData, Active,
       ServeUnknown, Serve, Taken, Own, Stall, hostVars
<1>5. OwnEnd'
    BY DEF Names, Owner, OwnEnd, ServeUnknown, Serve, Stall
<1>6. CutShort'
    BY Served DEF ServeUnknown, Stall, CutShort, Active, OutData
<1>7. Counted'
    BY Ep0Assumption DEF Counted, Active, ServeUnknown, Serve, Stall, hostVars
<1>8. Undisturbed'
    BY DEF Undisturbed, InStep, Sending, Active, ServeUnknown, Serve, Stall,
       hostVars
<1>9. Results'
    BY DEF Results, KeyOkMeansAcked, SuccessMeansDone, KeysAreAsked,
       ServeUnknown, Serve, hostVars
<1> QED
    BY <1>1, <1>2, <1>3, <1>4, <1>5, <1>6, <1>7, <1>8, <1>9

LEMMA ServeInStep ==
    ASSUME IInv, ServeIn PROVE IInv'
<1> USE DEF IInv
<1>1. Numbers'
    BY Ep0Assumption DEF Numbers, ServeIn, Serve, Load, Chunk, hostVars
<1>2. Names'
    BY DEF Names, ServeIn, Serve, Taken, Own, Load, MoreFollow, LastPacket,
       CarriedOut, hostVars
<1>3. Jobs'
    BY DEF Jobs, ServeIn, Serve
<1>4. Owner'
  <2>1. PICK req \in Get :
            /\ Serve(req) /\ out' = "none" /\ ep' = "tx"
            /\ cpu' = "send" /\ (done' <=> (done \/ Own))
    BY DEF ServeIn, CarriedOut
  <2>2. mine' => done'
    BY <2>1, Served DEF Own, Serve
  <2>3. req \notin OutData /\ "none" \notin Request
    BY Ep0Assumption DEF Request, NoData, OutData
  <2> QED
    BY <2>1, <2>2, <2>3, Served DEF Owner, Active
<1>5. OwnEnd'
    BY Ep0Assumption DEF Names, Owner, OwnEnd, OutData, ServeIn, Serve, Taken,
       Own, Load, CarriedOut, hostVars
<1>6. CutShort'
    BY Served DEF ServeIn, CutShort, Active, OutData
<1>7. Counted'
    BY Ep0Assumption DEF Owner, Counted, Active, ServeIn, Serve, Taken, Load,
       Chunk, hostVars
<1>8. Undisturbed'
  <2>1. PICK req \in Get :
            /\ Serve(req) /\ out' = "none" /\ ep' = "tx"
            /\ Load(GetLen[req]) /\ cpu' = "send" /\ UNCHANGED stall
    BY DEF ServeIn
  <2>2. SUFFICES ASSUME abandoned = 0 PROVE InStep'
    BY <2>1, Served DEF Undisturbed
  <2>3. InStep /\ out # "none" /\ Active
    BY <2>1, <2>2 DEF Undisturbed, InStep, Serve
  <2>4. ~stall'
    BY <2>1, <2>3 DEF InStep
  <2>5. mine' /\ Active' /\ stage' # "status"
    BY <2>1, <2>3, Served DEF Owner, Active
  <2>6. Sending'
    BY <2>1, <2>5 DEF Sending, Load, MoreFollow, LastPacket
  <2> QED
    BY <2>1, <2>4, <2>5, <2>6 DEF InStep
<1>9. Results'
    BY DEF Names, Results, KeyOkMeansAcked, SuccessMeansDone, KeysAreAsked,
       Received, ServeIn, Serve, CarriedOut, hostVars
<1> QED
    BY <1>1, <1>2, <1>3, <1>4, <1>5, <1>6, <1>7, <1>8, <1>9

LEMMA ServeOutStep ==
    ASSUME IInv, ServeOut PROVE IInv'
<1> USE DEF IInv
<1>1. Numbers'
    BY DEF Numbers, ServeOut, Serve, hostVars
<1>2. Names'
    BY DEF Names, ServeOut, Serve, Taken, Own, SetupConsumed, hostVars
<1>3. Jobs'
    BY DEF Jobs, ServeOut, Serve
<1>4. Owner'
    BY Ep0Assumption, Served
       DEF ServeOut, SetupConsumed, Owner, Names, Active, Request, NoData, OutData
<1>5. OwnEnd'
    BY DEF Names, Owner, OwnEnd, ServeOut, Serve
<1>6. CutShort'
    BY Served DEF ServeOut, SetupConsumed, CutShort, Active
<1>7. Counted'
    BY Ep0Assumption DEF Counted, ServeOut, SetupConsumed
<1>8. Undisturbed'
  <2>1. PICK req \in OutData :
            /\ Serve(req) /\ out' = "none" /\ ep' = "rx"
            /\ cpu' = "recv" /\ UNCHANGED stall
    BY DEF ServeOut, SetupConsumed
  <2>2. SUFFICES ASSUME abandoned = 0 PROVE InStep'
    BY <2>1, Served DEF Undisturbed
  <2>3. InStep /\ out # "none" /\ Active
    BY <2>1, <2>2 DEF Undisturbed, InStep, Serve
  <2>4. ~stall'
    BY <2>1, <2>3 DEF InStep
  <2>5. mine' /\ Active' /\ stage' = "data"
    BY <2>1, <2>3, Served DEF Owner, Active, Names
  <2> QED
    BY <2>1, <2>4, <2>5 DEF InStep, Sending
<1>9. Results'
    BY DEF Results, KeyOkMeansAcked, SuccessMeansDone, KeysAreAsked, Received,
       ServeOut, Serve, SetupConsumed, hostVars
<1> QED
    BY <1>1, <1>2, <1>3, <1>4, <1>5, <1>6, <1>7, <1>8, <1>9

-----------------------------------------------------------------------------
LEMMA ReceiveKeyStep ==
    ASSUME IInv, ReceiveKey PROVE IInv'
<1> USE DEF IInv
<1>1. Numbers'
    BY DEF Numbers, ReceiveKey, epVars, hostVars, history
<1>2. Names'
    BY DEF Names, ReceiveKey, epVars, hostVars, history
<1>3. Jobs'
    BY DEF Jobs, ReceiveKey
<1>4. Owner'
    BY DEF Names, Owner, Received, Active, ReceiveKey, epVars, hostVars,
       history
<1>5. OwnEnd'
    BY DEF OwnEnd, Received, ReceiveKey, epVars, hostVars, history
<1>6. CutShort'
    BY DEF CutShort, Received, Active, ReceiveKey, epVars, hostVars, history
<1>7. Counted'
    BY DEF Counted, Active, ReceiveKey, epVars, hostVars
<1>8. Undisturbed'
    BY DEF Undisturbed, InStep, Sending, Received, Active, ReceiveKey, epVars,
       hostVars, history
<1>9. Results'
    BY DEF Results, KeyOkMeansAcked, SuccessMeansDone, KeysAreAsked,
       ReceiveKey, epVars, hostVars, history
<1> QED
    BY <1>1, <1>2, <1>3, <1>4, <1>5, <1>6, <1>7, <1>8, <1>9

LEMMA ReceiveReportStep ==
    ASSUME IInv, ReceiveReport PROVE IInv'
<1> USE DEF IInv
<1>1. Numbers'
    BY DEF Numbers, ReceiveReport, Ack, hostVars
<1>2. Names'
    BY DEF Names, ReceiveReport, Ack, CarriedOut, hostVars
<1>3. Jobs'
    BY DEF Jobs, ReceiveReport
<1>4. Owner'
    BY Ep0Assumption DEF Names, Owner, Received, Request, NoData, OutData,
       Active, ReceiveReport, Ack, hostVars
<1>5. OwnEnd'
    BY Ep0Assumption DEF Names, Owner, OwnEnd, Request, NoData, OutData,
       ReceiveReport, Ack, CarriedOut, hostVars
<1>6. CutShort'
    BY DEF CutShort, Received, OutData, ReceiveReport, Ack
<1>7. Counted'
    BY Ep0Assumption DEF Counted, Active, ReceiveReport, Ack, hostVars
<1>8. Undisturbed'
    BY DEF Undisturbed, InStep, Sending, Received, ReceiveReport, Ack
<1>9. Results'
    BY DEF Names, Results, KeyOkMeansAcked, SuccessMeansDone, KeysAreAsked,
       ReceiveReport, CarriedOut, hostVars
<1> QED
    BY <1>1, <1>2, <1>3, <1>4, <1>5, <1>6, <1>7, <1>8, <1>9

LEMMA RadioReturnsStep ==
    ASSUME IInv, RadioReturns PROVE IInv'
<1> USE DEF IInv
<1>1. Numbers'
    BY DEF Numbers, RadioReturns, Ack, Stall, epVars, hostVars
<1>2. Names'
  <2>1. PICK ok \in BOOLEAN :
            /\ acked' = IF mine /\ job = "sendKey" THEN ok ELSE acked
            /\ IF job = "sendTestPacket" THEN UNCHANGED <<epVars, done>>
               ELSE IF Succeeds(ok) THEN Ack /\ CarriedOut(mine)
               ELSE Stall /\ UNCHANGED done
    BY DEF RadioReturns
  <2>2. acked' \in BOOLEAN
    BY <2>1 DEF Names
  <2>3. done' \in BOOLEAN
    BY <2>1 DEF Names, CarriedOut
  <2>4. /\ out' \in Request \cup {"none", "data"} /\ dataEnd' \in BOOLEAN
        /\ stall' \in BOOLEAN /\ inRdy' = inRdy /\ ep' = ep
    BY <2>1 DEF Names, Ack, Stall, epVars
  <2>5. cpu' = "poll" /\ UNCHANGED <<job, full, xfer, stage, said, mine, cut>>
    BY DEF RadioReturns, hostVars
  <2> QED
    BY <2>2, <2>3, <2>4, <2>5 DEF Names
<1>3. Jobs'
    BY DEF Jobs, RadioReturns
<1>4. Owner'
    BY Ep0Assumption DEF Owner, Request, NoData, OutData, Active,
       RadioReturns, Succeeds, Ack, Stall, CarriedOut, epVars, hostVars
<1>5. OwnEnd'
    BY Ep0Assumption DEF Owner, OwnEnd, Request, NoData, OutData,
       RadioReturns, Succeeds, Ack, Stall, CarriedOut, epVars, hostVars
<1>6. CutShort'
    BY DEF Jobs, Owner, CutShort, OutData, Active, RadioReturns, epVars,
       hostVars
<1>7. Counted'
    BY Ep0Assumption DEF Counted, Active, RadioReturns, Ack, Stall, epVars,
       hostVars
<1>8. Undisturbed'
    BY DEF Jobs, Owner, Undisturbed, InStep, Sending, Active, RadioReturns,
       Ack, Stall, epVars, hostVars
<1>9. Results'
    BY DEF Owner, Results, KeyOkMeansAcked, SuccessMeansDone, KeysAreAsked,
       Received, RadioReturns, Succeeds, CarriedOut, hostVars
<1> QED
    BY <1>1, <1>2, <1>3, <1>4, <1>5, <1>6, <1>7, <1>8, <1>9

LEMMA SendNextStep ==
    ASSUME IInv, SendNext PROVE IInv'
<1> USE DEF IInv
<1>1. Numbers'
    BY Ep0Assumption DEF Numbers, SendNext, Load, Chunk, hostVars, history
<1>2. Names'
  <2>1. cpu' \in {cpu, "poll"}
    BY DEF SendNext
  <2>2. inRdy' \in BOOLEAN /\ dataEnd' \in BOOLEAN /\ full' \in BOOLEAN
    BY DEF SendNext, Load, MoreFollow, LastPacket, Names
  <2>3. UNCHANGED <<job, out, stall, ep, xfer, stage, said, mine, done, acked, cut>>
    BY DEF SendNext, hostVars, history
  <2> QED
    BY <2>1, <2>2, <2>3 DEF Names
<1>3. Jobs'
    BY DEF Jobs, SendNext
<1>4. Owner'
    BY DEF Owner, Active, SendNext, hostVars, history
<1>5. OwnEnd'
    BY Ep0Assumption DEF Jobs, Owner, OwnEnd, OutData, SendNext, Load,
       hostVars, history
<1>6. CutShort'
    BY DEF CutShort, Active, SendNext, hostVars, history
<1>7. Counted'
    BY Ep0Assumption DEF Numbers, Counted, Active, SendNext, Load, Chunk,
       hostVars
<1>8. Undisturbed'
    BY Ep0Assumption DEF Names, Undisturbed, InStep, Sending, Active,
       SendNext, Load, Chunk, MoreFollow, LastPacket, hostVars, history
<1>9. Results'
    BY DEF Results, KeyOkMeansAcked, SuccessMeansDone, KeysAreAsked, Received,
       SendNext, hostVars, history
<1> QED
    BY <1>1, <1>2, <1>3, <1>4, <1>5, <1>6, <1>7, <1>8, <1>9

-----------------------------------------------------------------------------
LEMMA HostSetupStep ==
    ASSUME IInv, HostSetup PROVE IInv'
<1> USE DEF IInv
<1>1. Numbers'
    BY Ep0Assumption DEF Numbers, HostSetup, cpuVars
<1>2. Names'
    BY DEF Names, HostSetup, cpuVars
<1>3. Jobs'
    BY DEF Jobs, HostSetup, cpuVars
<1>4. Owner'
    BY Ep0Assumption DEF Owner, Request, NoData, OutData, HostSetup
<1>5. OwnEnd'
    BY DEF OwnEnd, HostSetup
<1>6. CutShort'
    BY DEF Owner, CutShort, Active, HostSetup, cpuVars
<1>7. Counted'
    BY DEF Counted, HostSetup
<1>8. Undisturbed'
  <2>1. SUFFICES ASSUME abandoned = 0, cpu \in {"poll", "recv", "send", "radio"}
        PROVE  InStep'
    BY DEF HostSetup, Undisturbed, cpuVars
  <2>2. InStep /\ ~mine /\ ~stall
    BY <2>1 DEF HostSetup, Undisturbed, InStep, Owner
  <2>3. cpu \in {"poll", "send", "radio"} /\ (cpu = "radio" => job # "sendKey")
    BY <2>1, <2>2 DEF InStep
  <2>4. cpu = "send" => ~full
    BY <2>2 DEF InStep, Sending
  <2>5. Active' /\ ~inRdy' /\ UNCHANGED <<cpu, job, full>>
    BY DEF HostSetup, Active, cpuVars
  <2>6. ~stall'
    BY <2>2 DEF HostSetup, Names
  <2> QED
    BY <2>3, <2>4, <2>5, <2>6 DEF InStep, Sending
<1>9. Results'
    BY DEF Jobs, Owner, CutShort, Results, KeyOkMeansAcked, SuccessMeansDone,
       KeysAreAsked, Received, HostSetup, cpuVars
<1> QED
    BY <1>1, <1>2, <1>3, <1>4, <1>5, <1>6, <1>7, <1>8, <1>9

LEMMA HostStalledStep ==
    ASSUME IInv, HostStalled PROVE IInv'
<1> USE DEF IInv
<1>1. Numbers'
    BY DEF Numbers, HostStalled, cpuVars
<1>2. Names'
    BY DEF Names, HostStalled, EndedEarly, Ends, UnderHandler, cpuVars
<1>3. Jobs'
    BY DEF Jobs, HostStalled, cpuVars
<1>4. Owner'
    BY DEF Owner, Active, HostStalled, Ends, cpuVars
<1>5. OwnEnd'
    BY DEF OwnEnd, HostStalled, Ends, cpuVars
<1>6. CutShort'
    BY DEF Names, Owner, CutShort, OutData, Active, HostStalled, EndedEarly,
       Ends, UnderHandler, cpuVars
<1>7. Counted'
    BY DEF Counted, HostStalled, cpuVars
<1>8. Undisturbed'
    BY DEF Jobs, OwnEnd, Undisturbed, InStep, Sending, OutData, HostStalled,
       EndedEarly, cpuVars
<1>9. Results'
    BY DEF Names, Results, KeyOkMeansAcked, SuccessMeansDone, KeysAreAsked,
       Received, HostStalled, Ends, cpuVars
<1> QED
    BY <1>1, <1>2, <1>3, <1>4, <1>5, <1>6, <1>7, <1>8, <1>9

LEMMA HostOutStep ==
    ASSUME IInv, HostOut PROVE IInv'
<1> USE DEF IInv
<1>1. Numbers'
    BY DEF Numbers, HostOut, cpuVars, history
<1>2. Names'
    BY DEF Names, HostOut, cpuVars, history
<1>3. Jobs'
    BY DEF Jobs, HostOut, cpuVars
<1>4. Owner'
    BY Ep0Assumption DEF Owner, Request, NoData, OutData, Active, HostOut,
       CanOut, cpuVars, history
<1>5. OwnEnd'
    BY DEF Owner, OwnEnd, Active, HostOut, CanOut
<1>6. CutShort'
    BY DEF Owner, CutShort, Active, HostOut, CanOut, history
<1>7. Counted'
    BY Ep0Assumption DEF Counted, HostOut, CanOut
<1>8. Undisturbed'
    BY DEF Undisturbed, InStep, Sending, Active, HostOut, CanOut, cpuVars,
       history
<1>9. Results'
    BY DEF Results, KeyOkMeansAcked, SuccessMeansDone, KeysAreAsked, HostOut,
       history
<1> QED
    BY <1>1, <1>2, <1>3, <1>4, <1>5, <1>6, <1>7, <1>8, <1>9

LEMMA HostInStep ==
    ASSUME IInv, HostIn PROVE IInv'
<1> USE DEF IInv
<1>1. Numbers'
    BY DEF Numbers, Counted, Active, HostIn, CanIn, cpuVars, history
<1>2. Names'
  <2>1. stage' \in {"data", "status", "over"} /\ inRdy' \in BOOLEAN
    BY DEF HostIn
  <2>2. UNCHANGED <<cpu, job, full, out, dataEnd, stall, ep, xfer, said, mine,
                    done, acked, cut>>
    BY DEF HostIn, cpuVars, history
  <2> QED
    BY <2>1, <2>2 DEF Names
<1>3. Jobs'
    BY DEF Jobs, HostIn, cpuVars
<1>4. Owner'
    BY DEF Owner, Active, HostIn, CanIn, cpuVars, history
<1>5. OwnEnd'
    BY DEF Owner, OwnEnd, Active, HostIn, CanIn, cpuVars, history
<1>6. CutShort'
    BY DEF CutShort, Active, HostIn, CanIn, cpuVars, history
<1>7. Counted'
    BY Ep0Assumption DEF Numbers, Names, Owner, Counted, Active, HostIn,
       CanIn, cpuVars
<1>8. Undisturbed'
    BY DEF Numbers, Counted, Undisturbed, InStep, Sending, Active, HostIn,
       CanIn, cpuVars, history
<1>9. Results'
    BY DEF Results, KeyOkMeansAcked, SuccessMeansDone, KeysAreAsked, Received,
       HostIn, cpuVars, history
<1> QED
    BY <1>1, <1>2, <1>3, <1>4, <1>5, <1>6, <1>7, <1>8, <1>9

LEMMA HostStatusStep ==
    ASSUME IInv, HostStatus PROVE IInv'
<1> USE DEF IInv
<1>1. Numbers'
    BY DEF Numbers, HostStatus, cpuVars
<1>2. Names'
    BY DEF Names, HostStatus, CanStatus, Ends, cpuVars
<1>3. Jobs'
    BY DEF Jobs, HostStatus, cpuVars
<1>4. Owner'
    BY DEF Owner, Active, HostStatus, CanStatus, Ends
<1>5. OwnEnd'
    BY DEF OwnEnd, HostStatus
<1>6. CutShort'
    BY DEF OwnEnd, CutShort, OutData, Active, HostStatus, CanStatus, Ends,
       cpuVars
<1>7. Counted'
    BY DEF Counted, Active, HostStatus, Ends
<1>8. Undisturbed'
    BY DEF OwnEnd, Undisturbed, InStep, Sending, OutData, HostStatus,
       CanStatus, cpuVars
<1>9. Results'
    BY DEF Names, Owner, OwnEnd, CutShort, Results, KeyOkMeansAcked,
       SuccessMeansDone, KeysAreAsked, Received, Request, NoData, Active,
       HostStatus, CanStatus
<1> QED
    BY <1>1, <1>2, <1>3, <1>4, <1>5, <1>6, <1>7, <1>8, <1>9

(* A dropped transfer with OUT data is remembered in cut.                   *)
LEMMA Dropped ==
    ASSUME IInv, Drop
    PROVE  /\ Names' /\ Jobs' /\ Owner' /\ OwnEnd' /\ CutShort' /\ Counted'
           /\ Results'
<1> USE DEF IInv
<1>1. Names'
    BY DEF Names, Drop, Ends, UnderHandler, cpuVars, epVars
<1>2. Jobs'
    BY DEF Jobs, Drop, cpuVars
<1>3. Owner'
    BY DEF Owner, Active, Drop, Ends, cpuVars, epVars
<1>4. OwnEnd'
    BY DEF OwnEnd, Drop, Ends, cpuVars, epVars
<1>5. CutShort'
    BY DEF Drop, Ends, UnderHandler, CutShort, Owner, Names, OutData, Active,
       cpuVars, epVars
<1>6. Counted'
    BY DEF Counted, Drop, cpuVars, epVars
<1>7. Results'
    BY DEF Names, Results, KeyOkMeansAcked, SuccessMeansDone, KeysAreAsked,
       Received, Drop, Ends, cpuVars, epVars
<1> QED
    BY <1>1, <1>2, <1>3, <1>4, <1>5, <1>6, <1>7

LEMMA AbandonStep ==
    ASSUME IInv, Abandon PROVE IInv'
<1> USE DEF IInv
<1>1. Numbers'
    BY Ep0Assumption DEF Numbers, Abandon, Drop, cpuVars, epVars
<1>2. Undisturbed'
    BY DEF Numbers, Undisturbed, Abandon
<1> QED
    BY <1>1, <1>2, Dropped DEF Abandon

(* In a transfer the host goes on with, nobody waits for what cannot come.  *)
LEMMA OnlySpinStarves ==
    ASSUME IInv, abandoned = 0, Starved PROVE cpu = "spin"
<1> USE DEF IInv
<1>1. SUFFICES ASSUME Waiting, ~(CanOut \/ CanIn \/ CanStatus) PROVE FALSE
    BY DEF Starved
<1>2. InStep
    BY <1>1 DEF Undisturbed, Waiting
<1>3. CASE cpu = "recv" /\ out = "none"
    BY <1>1, <1>2, <1>3 DEF InStep, Owner, Jobs, CanOut
<1>4. CASE cpu = "send" /\ inRdy
  <2>1. mine /\ ep = "tx" /\ out = "none" /\ (stage = "status" => dataEnd)
    BY <1>2, <1>4 DEF InStep, Sending
  <2>2. xfer \in Get /\ stage \in {"data", "status"}
    BY <2>1, <1>4 DEF Owner, Jobs, Active, Names
  <2> QED
    BY <1>1, <1>4, <2>1, <2>2 DEF CanIn, CanStatus
<1> QED
    BY <1>1, <1>3, <1>4 DEF Waiting

LEMMA TimeoutStep ==
    ASSUME IInv, Timeout PROVE IInv'
<1> USE DEF IInv
<1>1. Numbers'
    BY DEF Numbers, Timeout, Drop, cpuVars, epVars
<1>2. Undisturbed'
    BY OnlySpinStarves DEF Timeout, Drop, Undisturbed, cpuVars
<1> QED
    BY <1>1, <1>2, Dropped DEF Timeout

LEMMA BootloaderJumpsStep ==
    ASSUME IInv, BootloaderJumps PROVE IInv'
<1> USE DEF IInv
<1>1. Numbers'
    BY DEF Numbers, BootloaderJumps, epVars, hostVars, history
<1>2. Names'
    BY DEF Names, BootloaderJumps, epVars, hostVars, history
<1>3. Jobs'
    BY DEF Jobs, BootloaderJumps
<1>4. Owner'
    BY DEF Owner, Active, BootloaderJumps, epVars, hostVars, history
<1>5. OwnEnd'
    BY DEF OwnEnd, BootloaderJumps, epVars, hostVars, history
<1>6. CutShort'
    BY DEF CutShort, Active, BootloaderJumps, epVars, hostVars, history
<1>7. Counted'
    BY DEF Counted, Active, BootloaderJumps, epVars, hostVars
<1>8. Undisturbed'
    BY DEF Undisturbed, BootloaderJumps
<1>9. Results'
    BY DEF Results, KeyOkMeansAcked, SuccessMeansDone, KeysAreAsked, Received,
       BootloaderJumps, hostVars, history
<1> QED
    BY <1>1, <1>2, <1>3, <1>4, <1>5, <1>6, <1>7, <1>8, <1>9

-----------------------------------------------------------------------------
LEMMA Unchanged ==
    ASSUME IInv, UNCHANGED vars PROVE IInv'
<1> USE DEF IInv, vars, cpuVars, epVars, hostVars, history
<1>1. Numbers' /\ Names'
    BY DEF Numbers, Names
<1>2. Jobs' /\ Owner' /\ OwnEnd' /\ CutShort' /\ Counted'
    BY DEF Jobs, Owner, OwnEnd, CutShort, Counted, Active
<1>3. Undisturbed' /\ Results'
    BY DEF Undisturbed, InStep, Sending, Results, KeyOkMeansAcked,
       SuccessMeansDone, KeysAreAsked, Received, Active
<1> QED
    BY <1>1, <1>2, <1>3

(* Every step of the firmware, the host and the watchdog keeps IInv.        *)
THEOREM Invariance == Spec => []IInv
<1>1. ASSUME IInv, [Next]_vars PROVE IInv'
  <2>1. CASE Firmware
    BY <1>1, <2>1, UsbCoreInitStep, ServeNoDataStep, ServeUnknownStep,
       ServeInStep, ServeOutStep, ReceiveKeyStep, ReceiveReportStep,
       RadioReturnsStep, SendNextStep DEF Firmware
  <2>2. CASE HostGoesOn
    BY <1>1, <2>2, HostStalledStep, HostOutStep, HostInStep, HostStatusStep
       DEF HostGoesOn
  <2>3. CASE HostSetup \/ Abandon \/ Timeout \/ WatchdogFires \/ BootloaderJumps
    BY <1>1, <2>3, HostSetupStep, AbandonStep, TimeoutStep, WatchdogFiresStep,
       BootloaderJumpsStep
  <2>4. CASE UNCHANGED vars
    BY <1>1, <2>4, Unchanged
  <2> QED
    BY <1>1, <2>1, <2>2, <2>3, <2>4 DEF Next
<1> QED
    BY <1>1, InitInv, PTL DEF Spec

(* The values of all registers and variables, for every packet size and     *)
(* every length of the answers.                                             *)
THEOREM TypeCorrect == Spec => []TypeOK
<1>1. IInv => TypeOK
    BY DEF IInv, Numbers, Names, TypeOK
<1> QED
    BY <1>1, Invariance, PTL

(* A SEND_KEY that ends well was acknowledged by the receiver in its own    *)
(* transfer, whatever transfers the host dropped before.                    *)
THEOREM KeyOkMeansAckedHolds == Spec => []KeyOkMeansAcked
<1>1. IInv => KeyOkMeansAcked
    BY DEF IInv, Results
<1> QED
    BY <1>1, Invariance, PTL

(* A request reported done was carried out, unless a transfer with OUT data *)
(* was cut under its handler before.                                        *)
THEOREM SuccessMeansDoneHolds == Spec => []SuccessMeansDone
<1>1. IInv => SuccessMeansDone
    BY DEF IInv, Results
<1> QED
    BY <1>1, Invariance, PTL

(* SEND_KEY takes its byte from a data stage, unless one was cut before.    *)
THEOREM KeysAreAskedHolds == Spec => []KeysAreAsked
<1>1. IInv => KeysAreAsked
    BY DEF IInv, Results
<1> QED
    BY <1>1, Invariance, PTL

(* The watchdog never ends an application whose host drops no transfer,     *)
(* except by SOFT_RESET: usb_ep0_send() and usb_ep0_recv() always end.      *)
THEOREM NoSpontaneousResetHolds == Spec => NoSpontaneousReset
<1>1. ASSUME IInv, [Next]_vars, cpu' = "boot", cpu # "boot"
      PROVE  cpu = "spin" \/ abandoned > 0
  <2>1. WatchdogFires
    <3>1. ~ServeNoData
      BY <1>1 DEF ServeNoData, AfterAck, NoData
    <3>2. ~Firmware
      BY <1>1, <3>1 DEF Firmware, UsbCoreInit, ServeUnknown, ServeIn, ServeOut,
         ReceiveKey, ReceiveReport, RadioReturns, SendNext
    <3>3. ~HostGoesOn /\ ~HostSetup
      BY <1>1 DEF HostGoesOn, HostStalled, HostOut, HostIn, HostStatus, HostSetup,
         cpuVars
    <3>4. ~Abandon /\ ~Timeout /\ ~BootloaderJumps /\ ~UNCHANGED vars
      BY <1>1 DEF Abandon, Timeout, Drop, BootloaderJumps, vars, cpuVars
    <3> QED
      BY <1>1, <3>2, <3>3, <3>4 DEF Next
  <2>2. Starved
    BY <2>1 DEF WatchdogFires, Unfed
  <2>3. abandoned = 0 => cpu = "spin"
    BY <1>1, <2>2, OnlySpinStarves
  <2> QED
    BY <1>1, <2>3 DEF IInv, Numbers
<1>2. IInv /\ [Next]_vars => [cpu' = "boot" /\ cpu # "boot" => cpu = "spin" \/ abandoned > 0]_vars
    BY <1>1
<1> QED
    BY <1>2, Invariance, PTL DEF Spec, NoSpontaneousReset
=============================================================================
