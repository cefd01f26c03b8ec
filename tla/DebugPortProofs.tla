--------------------------- MODULE DebugPortProofs ---------------------------
(***************************************************************************)
(* DebugPort: type correctness, no contention on DD, and the driver with   *)
(* the chip implements DebugCommands, for every set of requests, values of *)
(* a byte and patience of the driver.                                      *)
(***************************************************************************)
EXTENDS DebugPort, SequenceTheorems, TLAPS

(* What the driver sends of a call. *)
Wire(r) == <<r.op>> \o r.args

(* Of the bytes w, s have crossed the wire and t have not. *)
InTransit(s, t, w) ==
    /\ Len(s) + Len(t) = Len(w)
    /\ \A i \in 1..Len(s) : s[i] = w[i]
    /\ \A i \in 1..Len(t) : t[i] = w[Len(s) + i]

Busy == {"write", "turn", "wait", "read"}
Attached == {"idle"} \cup Busy

(* Where the program is in a call. *)
Calls ==
    /\ pc \in Busy => req \in Request
    /\ pc \notin Busy => req = NoRequest
    /\ pc \in Busy /\ req \in Resumes => ~stopped
    /\ pc = "write" /\ req \in Instructs => stopped
    /\ pc = "write" => left # <<>>
    /\ pc \in {"write", "turn", "wait"} => got = <<>>
    /\ pc \in {"write", "turn"} => waits = 0
    /\ pc = "wait" => waits < MaxWait
    /\ pc = "read" => Len(got) <= Gets[req.op]

(* What the driver believes, ... *)
Believes ==
    /\ pc \in Attached \cup {"init"} => cc_active
    /\ pc \in {"write", "turn", "wait"} => inDebugMode
    /\ pc \in {"none", "init"} => ~inDebugMode

(* ... and the pins it drives. *)
Directions ==
    /\ pc \in {"init", "idle", "write"} => (ddIsOutput => dd = "OUT")
    /\ pc = "turn" => ddIsOutput /\ dd = "OUT"
    /\ pc \in {"wait", "read"} => ~ddIsOutput /\ dd = "IN"
    /\ pc \in {"let", "pulled", "over"} => dd = "IN"
    /\ pc = "let" => rstLatch = Low

(* The chip is where the driver believes it to be, as long as it is there  *)
(* and the driver has not given it up.                                     *)
Quiet == inbox = <<>> /\ reply = <<>>
Taking == reply = <<>> /\ done = NoRequest /\ InTransit(inbox, left, Wire(req))
Giving ==
    /\ inbox = <<>> /\ done = req
    /\ Len(answer) = Gives[req.op] /\ InTransit(got, reply, answer)
    /\ pc = "read" => ready
Halted == stopped => (cpu = "halted" \/ (pc = "write" /\ req \in Halts))
Together ==
    /\ pc = "init" => ~debug /\ Quiet
    /\ pc \in Attached => debug
    /\ pc = "idle" /\ inDebugMode => Quiet
    /\ pc = "write" => Taking
    /\ pc \in {"turn", "wait", "read"} /\ inDebugMode => Giving
    /\ pc \in Attached /\ inDebugMode => Halted

IInv == TypeOK /\ Calls /\ Believes /\ Directions /\ (~gone => Together)
-----------------------------------------------------------------------------
(* Both sides of the wire count the same bytes. *)
LEMMA SameTables ==
    ASSUME NEW o \in Op
    PROVE  /\ Sends[o] \in Nat /\ Takes[o] = Sends[o]
           /\ Gets[o] \in {1, 2} /\ Gives[o] = Gets[o]
<1>1. Op = {"exit", "getConfig", "setConfig", "exec", "exec2", "exec3", "getChipID",
            "getPC", "getStatus", "step", "resume", "halt", "chipErase"}
    BY DEF Op, Sends
<1>2. Sends[o] \in Nat /\ Takes[o] = Sends[o]
    BY <1>1 DEF Op, Sends, Takes
<1>3. Gets[o] \in {1, 2} /\ Gives[o] = Gets[o]
    BY <1>1 DEF Op, Gets, Gives
<1> QED
    BY <1>2, <1>3

(* A byte crosses the wire. *)
LEMMA Crosses ==
    ASSUME NEW S, NEW s \in Seq(S), NEW t \in Seq(S), NEW w \in Seq(S),
           t # <<>>, InTransit(s, t, w)
    PROVE  InTransit(Append(s, Head(t)), Tail(t), w)
<1> DEFINE s1 == Append(s, Head(t))
           t1 == Tail(t)
<1>1. Len(t) >= 1 /\ Head(t) = t[1] /\ Len(s1) = Len(s) + 1 /\ Len(t1) = Len(t) - 1
    BY HeadTailProperties, AppendProperties, EmptySeq
<1>2. \A i \in 1..Len(s1) : s1[i] = w[i]
  <2> SUFFICES ASSUME NEW i \in 1..Len(s1)
               PROVE  s1[i] = w[i]
      OBVIOUS
  <2>1. CASE i \in 1..Len(s)
      BY <2>1, AppendProperties DEF InTransit
  <2>2. CASE i = Len(s) + 1
      BY <1>1, <2>2, AppendProperties DEF InTransit
  <2> QED
      BY <1>1, <2>1, <2>2
<1>3. \A i \in 1..Len(t1) : t1[i] = w[Len(s1) + i]
  <2> SUFFICES ASSUME NEW i \in 1..Len(t1)
               PROVE  t1[i] = w[Len(s1) + i]
      OBVIOUS
  <2>1. t1[i] = t[i + 1] /\ i + 1 \in 1..Len(t)
      BY <1>1, HeadTailProperties
  <2>2. t[i + 1] = w[Len(s) + (i + 1)]
      BY <2>1 DEF InTransit
  <2> QED
      BY <1>1, <2>1, <2>2
<1>4. Len(s1) + Len(t1) = Len(w)
    BY <1>1 DEF InTransit
<1> QED
    BY <1>2, <1>3, <1>4 DEF InTransit

(* All of them have. *)
LEMMA Arrived ==
    ASSUME NEW S, NEW s \in Seq(S), NEW w \in Seq(S), InTransit(s, <<>>, w)
    PROVE  s = w
BY SeqEqual, EmptySeq DEF InTransit

(* What is sent of a call is read back as the call. *)
LEMMA WireOf ==
    ASSUME NEW r \in Request
    PROVE  /\ r.op \in Op /\ r.args \in Seq(Byte)
           /\ Wire(r) \in Seq(Byte \cup Op) /\ Len(Wire(r)) = 1 + Sends[r.op]
           /\ Wire(r) # <<>> /\ Head(Wire(r)) = r.op /\ Asked(Wire(r)) = r
<1>1. /\ r \in [op : Op, args : Seq(Byte)] /\ Len(r.args) = Sends[r.op]
    BY DebugPortAssumption
<1>2. <<r.op>> \in Seq(Byte \cup Op) /\ r.args \in Seq(Byte \cup Op)
    BY <1>1
<1>3. /\ Wire(r) \in Seq(Byte \cup Op) /\ Len(Wire(r)) = 1 + Len(r.args)
      /\ Wire(r)[1] = r.op
      /\ \A i \in 1..Len(r.args) : Wire(r)[1 + i] = r.args[i]
    BY <1>2, ConcatProperties DEF Wire
<1>4. Wire(r) # <<>> /\ Head(Wire(r)) = r.op
    BY <1>1, <1>3, EmptySeq
<1>5. /\ Tail(Wire(r)) \in Seq(Byte \cup Op) /\ Len(Tail(Wire(r))) = Len(r.args)
      /\ \A i \in 1..Len(r.args) : Tail(Wire(r))[i] = r.args[i]
    BY <1>2, <1>3, <1>4, HeadTailProperties
<1>6. Tail(Wire(r)) = r.args
    BY <1>2, <1>5, SeqEqual
<1> QED
    BY <1>1, <1>3, <1>4, <1>6 DEF Asked

(* A byte written to a chip that is there, and the last one of a command. *)
LEMMA ByteTaken ==
    ASSUME IInv, cc_write, ~gone
    PROVE  /\ InTransit(Append(inbox, Head(left)), left', Wire(req))
           /\ \/ /\ pc' = "write" /\ left' # <<>> /\ inbox' = Append(inbox, Head(left))
                 /\ UNCHANGED <<cpu, reply, ready, history>>
              \/ pc' = "turn" /\ left' = <<>> /\ Does(req)
<1> DEFINE b == Append(inbox, Head(left))
<1>1. /\ req \in Request /\ left # <<>> /\ debug /\ InTransit(inbox, left, Wire(req))
      /\ inbox \in Seq(Byte \cup Op) /\ left \in Seq(Byte \cup Op)
      /\ dd' = "OUT" /\ left' = Tail(left)
    BY DEF IInv, TypeOK, Calls, Directions, Together, Taking, Attached, Busy, cc_write, cc_setDDDirection
<1>2. Wire(req) \in Seq(Byte \cup Op)
    BY <1>1, WireOf
<1>3. InTransit(b, left', Wire(req))
    BY <1>1, <1>2, Crosses
<1>4. b \in Seq(Byte \cup Op) /\ Len(b) = Len(inbox) + 1 /\ left' \in Seq(Byte \cup Op)
    BY <1>1, HeadTailProperties, AppendProperties
<1>5. b # <<>> /\ Head(b) = req.op
  <2>1. Len(b) >= 1 /\ b[1] = Wire(req)[1]
      BY <1>1, <1>3, <1>4 DEF InTransit
  <2> QED
    <3>1. Head(b) = b[1] /\ Wire(req)[1] = Head(Wire(req))
        OBVIOUS
    <3> QED
        BY <1>1, <1>4, <2>1, <3>1, WireOf, EmptySeq
<1>6. Complete(b) <=> left' = <<>>
  <2>1. Complete(b) <=> Len(b) = Len(Wire(req))
      BY <1>1, <1>5, WireOf, SameTables DEF Complete
  <2>2. Len(b) + Len(left') = Len(Wire(req))
      BY <1>3 DEF InTransit
  <2> QED
      BY <1>2, <1>4, <2>1, <2>2, EmptySeq
<1>7. left' = <<>> => Asked(b) = req
    BY <1>1, <1>2, <1>3, <1>4, Arrived, WireOf
<1>8. Takes1(Head(left)) /\ pc' = IF left' = <<>> THEN "turn" ELSE "write"
    BY <1>1 DEF cc_write
<1> QED
    BY <1>3, <1>6, <1>7, <1>8 DEF Takes1

(* What the chip does with it. *)
LEMMA DoesType ==
    ASSUME NEW r \in Request, Does(r), TypeOK
    PROVE  /\ done' \in Request /\ cpu' \in {"running", "halted", "reset"}
           /\ answer' \in Seq(Byte) /\ Len(answer') = Gives[r.op] /\ Len(answer') >= 1
           /\ reply' = answer' /\ ready' \in BOOLEAN /\ inbox' = <<>>
<1>1. Gives[r.op] \in Nat /\ Gives[r.op] >= 1
    BY WireOf, SameTables
<1>2. answer' \in [1..Gives[r.op] -> Byte]
    BY DEF Does, Strings
<1>3. answer' \in Seq(Byte) /\ Len(answer') = Gives[r.op]
    BY <1>1, <1>2
<1> QED
    BY <1>1, <1>3 DEF Does, TypeOK

(* The byte read is a byte. *)
LEMMA ShiftedType ==
    ASSUME TypeOK
    PROVE  Shifted \subseteq Byte
BY DebugPortAssumption, HeadTailProperties DEF TypeOK, Shifted, ChipDrives

LEMMA TypeStep ==
    ASSUME IInv, [Next]_vars
    PROVE  TypeOK'
<1> USE DEF TypeOK
<1>0. TypeOK
    BY DEF IInv
<1>a. /\ MaxWait \in Nat /\ 0 \in 0..MaxWait /\ Low \in Byte
      /\ <<>> \in Seq(Byte) /\ <<>> \in Seq(Byte \cup Op)
    BY DebugPortAssumption
<1>1. CASE cc_init
  <2>1. cpu' \in {"running", "halted", "reset"} /\ debug' \in BOOLEAN
    <3>1. CASE gone'
        BY <1>0, <1>1, <3>1 DEF cc_init, LetRun
    <3>2. CASE ~gone'
        BY <1>1, <3>2 DEF cc_init
    <3> QED
        BY <3>1, <3>2
  <2>2. inbox' \in Seq(Byte \cup Op) /\ reply' \in Seq(Byte) /\ ready' \in BOOLEAN
    <3>1. CASE gone'
        BY <1>0, <1>1, <3>1 DEF cc_init, wire
    <3>2. CASE ~gone'
        BY <1>a, <1>1, <3>2 DEF cc_init
    <3> QED
        BY <3>1, <3>2
  <2> QED
      BY <1>a, <1>1, <2>1, <2>2 DEF cc_init, Forget
<1>2. CASE cc_enter
    BY <1>0, <1>a, <1>2 DEF cc_enter, command, history, wire
<1>3. ASSUME NEW r \in Request, Call(r)
      PROVE  TypeOK'
  <2>1. <<r.op>> \o r.args \in Seq(Byte \cup Op)
      BY WireOf DEF Wire
  <2>2. [i \in 1..Gets[r.op] |-> Low] \in Seq(Byte)
    <3>1. Gets[r.op] \in Nat
        BY WireOf, SameTables
    <3>2. [i \in 1..Gets[r.op] |-> Low] \in [1..Gets[r.op] -> Byte]
        BY <1>a
    <3> QED
        BY <3>1, <3>2
  <2> QED
    <3>1. stopped' \in BOOLEAN
        BY <1>0, <1>3 DEF Call
    <3>2. CASE cc_active /\ inDebugMode
        BY <1>0, <1>a, <1>3, <2>1, <3>1, <3>2 DEF Call, statics, pins, chip, wire
    <3>3. CASE ~(cc_active /\ inDebugMode)
        BY <1>0, <1>a, <1>3, <2>2, <3>1, <3>3 DEF Call, statics, pins, chip, wire
    <3> QED
        BY <3>2, <3>3
<1>4. CASE cc_write
  <2>1. req \in Request /\ left # <<>>
      BY <1>4 DEF cc_write, IInv, Calls, Busy
  <2>2. Head(left) \in Byte \cup Op /\ left' \in Seq(Byte \cup Op)
      BY <1>0, <1>a, <1>4, <2>1, HeadTailProperties DEF cc_write
  <2>3. /\ inbox' \in Seq(Byte \cup Op) /\ reply' \in Seq(Byte) /\ answer' \in Seq(Byte)
        /\ ready' \in BOOLEAN /\ done' \in Request \cup {NoRequest}
        /\ cpu' \in {"running", "halted", "reset"}
    <3>1. CASE gone
        BY <1>0, <1>a, <1>4, <3>1 DEF cc_write, wire, history
    <3>2. CASE ~gone /\ left' # <<>>
      <4>1. /\ inbox' = Append(inbox, Head(left))
            /\ UNCHANGED <<cpu, reply, ready, done, answer>>
          BY <1>4, <3>2, ByteTaken DEF history
      <4> QED
          BY <1>0, <2>2, <4>1, AppendProperties
    <3>3. CASE ~gone /\ left' = <<>>
      <4>1. Does(req)
          BY <1>4, <3>3, ByteTaken
      <4> QED
          BY <1>0, <1>a, <2>1, <4>1, DoesType
    <3> QED
        BY <1>0, <1>a, <3>1, <3>2, <3>3
  <2> QED
      BY <1>0, <1>a, <1>4, <2>2, <2>3 DEF cc_write, cc_setDDDirection
<1>5. CASE cc_switchRead
    BY <1>0, <1>a, <1>5 DEF cc_switchRead, cc_setDDDirection, command, chip, wire, history
<1>6. CASE Poll
  <2>1. waits' \in 0..MaxWait
      BY <1>0, <1>a, <1>6 DEF Poll, IInv, Calls
  <2> QED
    <3>1. inDebugMode' \in BOOLEAN /\ pc' \in {"wait", "read"}
      <4>1. PICK level \in Level :
               IF level = Low THEN pc' = "read" /\ UNCHANGED <<waits, inDebugMode>>
               ELSE /\ inDebugMode' = (waits' < MaxWait)
                    /\ pc' = IF inDebugMode' THEN "wait" ELSE "read"
          BY <1>6 DEF Poll
      <4>2. CASE level = Low
          BY <1>0, <4>1, <4>2
      <4>3. CASE level # Low
          BY <4>1, <4>3
      <4> QED
          BY <4>2, <4>3
    <3> QED
        BY <1>0, <1>6, <2>1, <3>1 DEF Poll, pins, chip, wire, history
<1>7. CASE cc_read
  <2>1. got' \in Seq(Byte)
      BY <1>0, <1>a, <1>7, ShiftedType, AppendProperties DEF cc_read
  <2>2. reply' \in Seq(Byte)
      BY <1>0, <1>a, <1>7, HeadTailProperties DEF cc_read, ChipDrives
  <2> QED
      BY <1>0, <1>a, <1>7, <2>1, <2>2 DEF cc_read, cc_setDDDirection, history
<1>8. CASE cc_switchWrite
    BY <1>0, <1>a, <1>8 DEF cc_switchWrite, cc_setDDDirection, chip, wire, history
<1>9. CASE cc_setActive
    BY <1>0, <1>a, <1>9 DEF cc_setActive, command, chip, wire, history
<1>10. CASE cc_reset
  <2>1. CASE UNCHANGED <<debug, cpu, wire>>
      BY <1>0, <1>10, <2>1 DEF cc_reset, command, statics, wire, history
  <2>2. CASE debug' = FALSE /\ cpu' = "reset" /\ inbox' = <<>> /\ reply' = <<>> /\ ready' = FALSE
      BY <1>0, <1>a, <1>10, <2>2 DEF cc_reset, command, statics, history
  <2> QED
      BY <1>10, <2>1, <2>2 DEF cc_reset, PulledLow
<1>11. CASE cc_reset_end
    BY <1>0, <1>a, <1>11 DEF cc_reset_end, LetRun, command, statics, wire, history
<1>12. CASE Quit
    BY <1>0, <1>a, <1>12 DEF Quit, Forget, pins, chip, wire
<1>13. CASE Unplug
    BY <1>0, <1>a, <1>13 DEF Unplug, LetRun, command, statics, pins, wire, history
<1>14. CASE Ready
    BY <1>0, <1>a, <1>14 DEF Ready, command, statics, pins, history
<1>15. CASE UNCHANGED vars
    BY <1>0, <1>a, <1>15 DEF vars, command, statics, pins, chip, wire, history
<1> QED
    BY <1>1, <1>2, <1>3, <1>4, <1>5, <1>6, <1>7, <1>8, <1>9, <1>10, <1>11, <1>12, <1>13,
       <1>14, <1>15 DEF Next

(* The driver's own state needs nothing of the chip. *)
LEMMA DriverStep ==
    ASSUME IInv, [Next]_vars
    PROVE  Calls' /\ Believes' /\ Directions'
<1> USE DEF Calls, Believes, Directions, Busy, Attached
<1>0. TypeOK /\ Calls /\ Believes /\ Directions
    BY DEF IInv
<1>a. MaxWait \in Nat \ {0} /\ NoRequest \notin Request
    BY DebugPortAssumption
<1>1. CASE cc_init
    BY <1>0, <1>1 DEF cc_init, Forget
<1>2. CASE cc_enter
    BY <1>0, <1>2 DEF cc_enter, command
<1>3. ASSUME NEW r \in Request, Call(r)
      PROVE  Calls' /\ Believes' /\ Directions'
  <2>1. <<r.op>> \o r.args # <<>>
      BY WireOf DEF Wire
  <2>2. CASE cc_active /\ inDebugMode
    <3>1. (r \in Resumes => ~stopped') /\ (r \in Instructs => stopped')
        BY <1>3 DEF Call, Halts, Resumes, Instructs, Of
    <3> QED
        BY <1>0, <1>a, <1>3, <2>1, <2>2, <3>1 DEF Call, statics, pins
  <2>3. CASE ~(cc_active /\ inDebugMode)
      BY <1>0, <1>a, <1>3, <2>3 DEF Call, statics, pins
  <2> QED
      BY <2>2, <2>3
<1>4. CASE cc_write
    BY <1>0, <1>4 DEF cc_write, cc_setDDDirection
<1>5. CASE cc_switchRead
  <2>1. ddIsOutput' = FALSE /\ dd' = "IN"
      BY <1>0, <1>5 DEF cc_switchRead, cc_setDDDirection
  <2>2. pc = "turn" /\ pc' = "wait" /\ waits' < MaxWait
      BY <1>0, <1>a, <1>5 DEF cc_switchRead, command
  <2> QED
      BY <1>0, <1>5, <2>1, <2>2 DEF cc_switchRead, command
<1>6. CASE Poll
  <2>1. PICK level \in Level :
           IF level = Low THEN pc' = "read" /\ UNCHANGED <<waits, inDebugMode>>
           ELSE /\ waits' = waits + 1 /\ inDebugMode' = (waits' < MaxWait)
                /\ pc' = IF inDebugMode' THEN "wait" ELSE "read"
      BY <1>6 DEF Poll
  <2>2. /\ pc = "wait" /\ req \in Request /\ got = <<>> /\ Len(got) <= Gets[req.op]
        /\ cc_active /\ ~ddIsOutput /\ dd = "IN" /\ (req \in Resumes => ~stopped)
      BY <1>0, <1>6, WireOf, SameTables, EmptySeq DEF Poll
  <2>3. UNCHANGED <<req, left, got, result, cc_active, ddIsOutput, dd, rst, rstLatch, stopped>>
      BY <1>6 DEF Poll, pins
  <2>4. CASE level = Low
      BY <1>0, <2>1, <2>2, <2>3, <2>4
  <2>5. CASE level # Low /\ waits' < MaxWait
      BY <2>1, <2>2, <2>3, <2>5
  <2>6. CASE level # Low /\ ~(waits' < MaxWait)
      BY <2>1, <2>2, <2>3, <2>6
  <2> QED
      BY <2>4, <2>5, <2>6
<1>7. CASE cc_read
  <2>1. Len(got') = Len(got) + 1 /\ Gets[req.op] \in Nat /\ Len(got) \in Nat
    <3>1. PICK b \in Byte : got' = Append(got, b)
        BY <1>0, <1>7, ShiftedType DEF cc_read
    <3>2. got \in Seq(Byte)
        BY <1>0 DEF TypeOK
    <3>3. Gets[req.op] \in Nat
        BY <1>0, <1>7, WireOf, SameTables DEF cc_read
    <3> QED
        BY <3>1, <3>2, <3>3, AppendProperties, LenProperties
  <2>2. Len(got') <= Gets[req.op]
      BY <1>7, <2>1 DEF cc_read
  <2> QED
      BY <1>0, <1>7, <2>2 DEF cc_read, cc_setDDDirection
<1>8. CASE cc_switchWrite
    BY <1>0, <1>8 DEF cc_switchWrite, cc_setDDDirection
<1>9. CASE cc_setActive
    BY <1>0, <1>9 DEF cc_setActive, command
<1>10. CASE cc_reset
    BY <1>0, <1>10 DEF cc_reset, command, statics
<1>11. CASE cc_reset_end
    BY <1>0, <1>11 DEF cc_reset_end, command, statics
<1>12. CASE Quit
    BY <1>0, <1>12 DEF Quit, Forget, pins
<1>13. CASE Unplug
    BY <1>0, <1>13 DEF Unplug, command, statics, pins
<1>14. CASE Ready
    BY <1>0, <1>14 DEF Ready, command, statics, pins
<1>15. CASE UNCHANGED vars
    BY <1>0, <1>15 DEF vars, command, statics, pins
<1> QED
    BY <1>1, <1>2, <1>3, <1>4, <1>5, <1>6, <1>7, <1>8, <1>9, <1>10, <1>11, <1>12, <1>13,
       <1>14, <1>15 DEF Next

(* In debug mode the chip is where the driver believes it to be. *)
LEMMA TogetherStep ==
    ASSUME IInv, [Next]_vars, ~gone'
    PROVE  Together'
<1> USE DEF Together, Quiet, Busy, Attached
<1>0. TypeOK /\ Calls /\ Believes /\ Directions /\ (~gone => Together)
    BY DEF IInv
<1>1. CASE cc_init
    BY <1>1 DEF cc_init
<1>2. CASE cc_enter
    BY <1>0, <1>2 DEF cc_enter, Halted, wire
<1>3. ASSUME NEW r \in Request, Call(r)
      PROVE  Together'
  <2>1. /\ ~gone /\ pc = "idle" /\ debug /\ debug' = debug /\ cpu' = cpu
        /\ inbox' = inbox /\ reply' = reply /\ done' = NoRequest
      BY <1>0, <1>3 DEF Call, chip, wire
  <2>2. /\ pc' \in {"idle", "write"} /\ inDebugMode' = inDebugMode
        /\ inDebugMode => Quiet /\ Halted
      BY <1>0, <1>3, <2>1 DEF Call, statics
  <2>3. CASE pc' = "write"
    <3>1. inDebugMode /\ req' = r /\ left' = Wire(r)
        BY <1>3, <2>1, <2>3 DEF Call, Wire
    <3>2. Taking'
        BY <2>1, <2>2, <3>1, WireOf, EmptySeq DEF Taking, InTransit
    <3>3. stopped' => cpu = "halted" \/ r \in Halts
        BY <1>3, <2>1, <2>2, <3>1 DEF Call, Halted
    <3> QED
        BY <2>1, <2>3, <3>1, <3>2, <3>3 DEF Halted
  <2>4. CASE pc' = "idle"
    <3>1. ~inDebugMode
        BY <1>0, <1>3, <2>4 DEF Call, Believes
    <3> QED
        BY <2>1, <2>2, <2>4, <3>1
  <2> QED
      BY <2>2, <2>3, <2>4
<1>4. CASE cc_write
  <2>1. /\ ~gone /\ pc = "write" /\ debug /\ debug' = debug /\ stopped' = stopped
        /\ req \in Request /\ req' = req /\ got = <<>> /\ got' = got /\ Taking /\ Halted
        /\ inDebugMode
      BY <1>0, <1>4 DEF cc_write, Calls, Believes
  <2>2. CASE left' # <<>>
    <3>1. pc' = "write" /\ Taking'
        BY <2>1, <2>2, <1>4, ByteTaken DEF Taking, history
    <3>2. cpu' = cpu
        BY <2>1, <2>2, <1>4, ByteTaken
    <3> QED
        BY <2>1, <3>1, <3>2 DEF Halted
  <2>3. CASE left' = <<>>
    <3>1. pc' = "turn" /\ Does(req)
        BY <2>1, <2>3, <1>4, ByteTaken
    <3>2. /\ done' = req /\ inbox' = <<>> /\ reply' = answer' /\ answer' \in Seq(Byte)
          /\ Len(answer') = Gives[req.op]
        BY <1>0, <2>1, <3>1, DoesType DEF Does
    <3>3. InTransit(<<>>, answer', answer')
        BY <3>2, EmptySeq DEF InTransit
    <3>4. Giving'
        BY <2>1, <3>1, <3>2, <3>3 DEF Giving
    <3>5. stopped => cpu' = "halted"
      <4>1. CASE req.op = "halt"
          BY <3>1, <4>1 DEF Does
      <4>2. CASE req.op # "halt"
        <5>1. stopped => cpu = "halted" /\ req.op \notin {"exit", "resume"}
            BY <1>0, <2>1, <4>2 DEF Calls, Halted, Halts, Resumes, Of
        <5> QED
            BY <3>1, <4>2, <5>1 DEF Does
      <4> QED
          BY <4>1, <4>2
    <3> QED
        BY <2>1, <3>1, <3>4, <3>5 DEF Halted
  <2> QED
      BY <2>2, <2>3
<1>5. CASE cc_switchRead
    BY <1>0, <1>5 DEF cc_switchRead, Believes, Giving, Halted, command, chip, wire, history
<1>6. CASE Poll
  <2>1. /\ ~gone /\ pc = "wait" /\ debug /\ Giving /\ Halted /\ inDebugMode /\ got = <<>>
        /\ req \in Request /\ pc' \in {"wait", "read"}
        /\ UNCHANGED <<req, got, stopped, debug, cpu, inbox, reply, ready, done, answer>>
      BY <1>0, <1>6 DEF Poll, Calls, Believes, chip, wire, history
  <2>2. ChipDrives
    <3>1. reply \in Seq(Byte) /\ Len(reply) >= 1
      <4>1. Gives[req.op] >= 1 /\ Gives[req.op] \in Nat
          BY <2>1, WireOf, SameTables
      <4>2. Len(got) + Len(reply) = Gives[req.op] /\ Len(got) = 0
          BY <2>1, EmptySeq DEF Giving, InTransit
      <4> QED
          BY <1>0, <4>1, <4>2, LenProperties DEF TypeOK
    <3> QED
        BY <2>1, <3>1, EmptySeq DEF ChipDrives
  <2>3. pc' = "read" /\ inDebugMode' => ready
      BY <1>6, <2>1, <2>2, DebugPortAssumption DEF Poll, Level
  <2> QED
      BY <2>1, <2>3 DEF Giving, Halted
<1>7. CASE cc_read
  <2>1. /\ ~gone /\ pc = "read" /\ debug /\ pc' = pc /\ inDebugMode' = inDebugMode
        /\ (inDebugMode => Giving /\ Halted) /\ req \in Request
        /\ UNCHANGED <<req, stopped, debug, cpu, inbox, ready, done, answer>>
      BY <1>0, <1>7 DEF cc_read, Calls, history
  <2>2. CASE ~inDebugMode
      BY <2>1, <2>2
  <2>3. CASE inDebugMode
    <3>1. reply # <<>>
        BY <1>0, <1>7, <2>1, <2>3, EmptySeq, WireOf, SameTables, LenProperties
        DEF Giving, InTransit, TypeOK, cc_read
    <3>2. ChipDrives /\ ready /\ got' = Append(got, Head(reply)) /\ reply' = Tail(reply)
        BY <1>7, <2>1, <2>3, <3>1 DEF cc_read, ChipDrives, Shifted, Giving
    <3>3. InTransit(got', reply', answer)
        BY <1>0, <2>1, <2>3, <3>1, <3>2, Crosses DEF Giving, TypeOK
    <3> QED
        BY <2>1, <2>3, <3>2, <3>3 DEF Giving, Halted
  <2> QED
      BY <2>2, <2>3
<1>8. CASE cc_switchWrite
  <2>1. /\ ~gone /\ pc = "read" /\ debug /\ pc' = "idle" /\ (inDebugMode => Giving /\ Halted)
        /\ inDebugMode' => inDebugMode
        /\ req \in Request /\ Len(got) = Gets[req.op]
        /\ UNCHANGED <<stopped, debug, cpu, inbox, reply>>
      BY <1>0, <1>8 DEF cc_switchWrite, Calls, chip, wire
  <2>2. inDebugMode => reply = <<>>
      BY <1>0, <2>1, EmptySeq, WireOf, SameTables, LenProperties DEF Giving, InTransit, TypeOK
  <2> QED
      BY <2>1, <2>2 DEF Giving, Halted
<1>9. CASE cc_setActive
    BY <1>9 DEF cc_setActive
<1>10. CASE cc_reset
    BY <1>10 DEF cc_reset
<1>11. CASE cc_reset_end
    BY <1>11 DEF cc_reset_end
<1>12. CASE Quit
    BY <1>12 DEF Quit
<1>13. CASE Unplug
    BY <1>13 DEF Unplug
<1>14. CASE Ready
    BY <1>0, <1>14 DEF Ready, Taking, Giving, Halted, command, statics, pins, history
<1>15. CASE UNCHANGED vars
    BY <1>0, <1>15 DEF Taking, Giving, Halted, vars, command, statics, pins, chip, wire, history
<1> QED
    BY <1>1, <1>2, <1>3, <1>4, <1>5, <1>6, <1>7, <1>8, <1>9, <1>10, <1>11, <1>12, <1>13,
       <1>14, <1>15 DEF Next

LEMMA Inductive == Spec => []IInv
<1>1. Init => IInv
  <2> SUFFICES ASSUME Init
               PROVE  IInv
      OBVIOUS
  <2>1. TypeOK
    <3>1. /\ MaxWait \in Nat /\ 0 \in 0..MaxWait /\ Low \in Byte
          /\ <<>> \in Seq(Byte) /\ <<>> \in Seq(Byte \cup Op)
        BY DebugPortAssumption
    <3> QED
        BY <3>1 DEF Init, TypeOK
  <2>2. Calls /\ Believes /\ Directions
      BY DEF Init, Calls, Believes, Directions, Busy, Attached
  <2>3. Together
      BY DEF Init, Together, Attached, Busy
  <2> QED
      BY <2>1, <2>2, <2>3 DEF IInv
<1>2. IInv /\ [Next]_vars => IInv'
    BY TypeStep, DriverStep, TogetherStep DEF IInv
<1> QED
    BY <1>1, <1>2, PTL DEF Spec

(* The driver's statics, its pins and the bytes on the wire keep their types. *)
THEOREM TypeCorrect == Spec => []TypeOK
<1>1. IInv => TypeOK
    BY DEF IInv
<1> QED
    BY <1>1, Inductive, PTL

(* While the driver counts on debug mode, it never drives DD against the    *)
(* chip, but for the moment before cc_switchRead() turns the pin.           *)
THEOREM NoContentionHolds == Spec => []NoContention
<1>1. IInv => NoContention
  <2> SUFFICES ASSUME IInv, inDebugMode, pc # "turn", HostDrives, ChipDrives
               PROVE  FALSE
      BY DEF NoContention
  <2>1. pc \in {"idle", "write"}
      BY DEF IInv, TypeOK, Believes, Directions, HostDrives
  <2>2. Together
      BY DEF IInv, ChipDrives
  <2> QED
      BY <2>1, <2>2 DEF Together, Quiet, Taking, ChipDrives
<1> QED
    BY <1>1, Inductive, PTL
-----------------------------------------------------------------------------
(* The byte that completes a command is the one at which the chip serves    *)
(* the call; the others are not seen.                                       *)
LEMMA LastByteServes ==
    ASSUME IInv, cc_write
    PROVE  Commands!Serve \/ UNCHANGED Commands!vars
<1>1. /\ pc = "write" /\ pc' \in {"write", "turn"} /\ inDebugMode
      /\ UNCHANGED <<req, gone, result>> /\ req \in Request /\ TypeOK
    BY DEF cc_write, IInv, Calls, Believes, Busy
<1>2. Port = "open" /\ Port' = "open"
    BY <1>1 DEF Port
<1>3. CASE gone
    BY <1>1, <1>2, <1>3 DEF cc_write, Commands!vars, history
<1>4. CASE ~gone /\ left' # <<>>
    BY <1>1, <1>2, <1>4, ByteTaken DEF Commands!vars, history
<1>5. CASE ~gone /\ left' = <<>>
  <2>1. Does(req) /\ Together
      BY <1>5, ByteTaken DEF IInv
  <2>2. done = NoRequest /\ Halted
      BY <1>1, <2>1 DEF Together, Taking, Attached, Busy
  <2>3. req \in Instructs => cpu = "halted"
    <3>1. req \in Instructs => req \notin Halts
        BY DEF Instructs, Halts, Of
    <3>2. req \in Instructs => stopped
        BY <1>1 DEF IInv, Calls
    <3> QED
        BY <2>2, <3>1, <3>2 DEF Halted
  <2>4. cpu' = Commands!Changes(req)
      BY <1>1, <2>1 DEF Does, Commands!Changes, Halts, Resumes, Of
  <2>5. answer' \in Strings(Gives[req.op]) /\ done' = req
      BY <2>1 DEF Does
  <2> QED
      BY <1>1, <1>2, <1>5, <2>2, <2>3, <2>4, <2>5, DebugPortAssumption DEF Commands!Serve
<1> QED
    BY <1>3, <1>4, <1>5

(* What cc_read() returns is the answer, or nobody answered. *)
LEMMA CallReturns ==
    ASSUME IInv, cc_switchWrite
    PROVE  Commands!Answered \/ Commands!Unanswered \/ Commands!Unnoticed
<1>1. /\ pc = "read" /\ pc' = "idle" /\ result' = got /\ req' = NoRequest
      /\ req \in Request /\ Len(got) = Gets[req.op] /\ got \in Seq(Byte)
      /\ inDebugMode' = (inDebugMode /\ req.op # "exit")
      /\ UNCHANGED <<cpu, gone, done, answer>> /\ TypeOK
    BY DEF cc_switchWrite, IInv, TypeOK, Calls, Busy, chip, history
<1>2. Commands!Return
    BY <1>1, DebugPortAssumption DEF Commands!Return
<1>3. got \in Strings(Gets[req.op])
    BY <1>1, LenProperties DEF Strings
<1>4. CASE ~inDebugMode
  <2>1. Port' = "shut"
      BY <1>1, <1>4 DEF Port
  <2> QED
      BY <1>1, <1>2, <1>3, <2>1 DEF Commands!Unanswered
<1>5. CASE inDebugMode
  <2>1. Port' = Commands!Closes(req)
    <3>1. CASE req.op = "exit"
        BY <1>1, <3>1 DEF Port, Commands!Closes, Of
    <3>2. CASE req.op # "exit"
        BY <1>1, <1>5, <3>2 DEF Port, Commands!Closes, Of
    <3> QED
        BY <3>1, <3>2
  <2>2. CASE gone
      BY <1>1, <1>2, <1>3, <2>1, <2>2 DEF Commands!Unnoticed
  <2>3. CASE ~gone
    <3>1. Giving
        BY <1>1, <1>5, <2>3 DEF IInv, Together
    <3>2. reply = <<>>
        BY <1>1, <3>1, WireOf, SameTables, EmptySeq, LenProperties DEF Giving, InTransit, TypeOK
    <3>3. got = answer
        BY <1>1, <3>1, <3>2, Arrived DEF Giving, TypeOK
    <3> QED
        BY <1>1, <1>2, <2>1, <3>1, <3>3 DEF Commands!Answered, Giving
  <2> QED
      BY <2>2, <2>3
<1> QED
    BY <1>4, <1>5

LEMMA StepIsCommand ==
    ASSUME IInv, [Next]_vars
    PROVE  [Commands!Next]_(Commands!vars)
<1>0. TypeOK /\ Calls /\ Believes /\ Directions /\ (~gone => Together)
    BY DEF IInv
<1>a. NoRequest \notin Request
    BY DebugPortAssumption
<1> USE DEF Port, Commands!vars
<1>1. CASE cc_init
  <2>1. Commands!Attach
      BY <1>1 DEF cc_init, Forget, LetRun, Commands!Attach, Commands!LetGo, Commands!Idle
  <2> QED
      BY <2>1 DEF Commands!Next
<1>2. CASE cc_enter
  <2>1. Commands!Enter
      BY <1>2 DEF cc_enter, command, history, Commands!Enter
  <2> QED
      BY <2>1 DEF Commands!Next
<1>3. ASSUME NEW r \in Request, Call(r)
      PROVE  [Commands!Next]_(Commands!vars)
  <2>1. CASE inDebugMode
    <3>1. Commands!Ask(r)
        BY <1>0, <1>3, <2>1 DEF Call, Calls, Believes, Busy, Attached, statics, chip, Commands!Ask
    <3> QED
        BY <3>1 DEF Commands!Next
  <2>2. CASE ~inDebugMode
    <3>1. Commands!Refuse(r)
        BY <1>0, <1>3, <2>2 DEF Call, statics, chip, Commands!Refuse
    <3> QED
        BY <3>1 DEF Commands!Next
  <2> QED
      BY <2>1, <2>2
<1>4. CASE cc_write
    BY <1>4, LastByteServes DEF Commands!Next
<1>5. CASE cc_switchRead
    BY <1>5 DEF cc_switchRead, command, chip, history
<1>6. CASE Poll
    BY <1>6 DEF Poll, chip, history
<1>7. CASE cc_read
    BY <1>7 DEF cc_read, history
<1>8. CASE cc_switchWrite
    BY <1>8, CallReturns DEF Commands!Next
<1>9. CASE cc_setActive
  <2>1. Commands!Release
      BY <1>0, <1>9 DEF cc_setActive, Calls, Busy, command, chip, history, Commands!Release
  <2> QED
      BY <2>1 DEF Commands!Next
<1>10. CASE cc_reset
  <2>1. Commands!Pull
      BY <1>0, <1>10 DEF cc_reset, PulledLow, Directions, command, history, Commands!Pull
  <2> QED
      BY <2>1 DEF Commands!Next
<1>11. CASE cc_reset_end
  <2>1. Commands!Restart
      BY <1>11 DEF cc_reset_end, LetRun, command, history, Commands!Restart, Commands!LetGo
  <2> QED
      BY <2>1 DEF Commands!Next
<1>12. CASE Quit
  <2>1. Commands!Quit
      BY <1>12 DEF Quit, Forget, chip, Commands!Quit, Commands!Idle
  <2> QED
      BY <2>1 DEF Commands!Next
<1>13. CASE Unplug
  <2>1. Commands!Unplug
      BY <1>0, <1>13 DEF Unplug, LetRun, TypeOK, command, statics, history, Commands!Unplug, Commands!LetGo
  <2> QED
      BY <2>1 DEF Commands!Next
<1>14. CASE Ready
    BY <1>14 DEF Ready, command, statics, history
<1>15. CASE UNCHANGED vars
    BY <1>15 DEF vars, command, statics, chip, history
<1> QED
    BY <1>1, <1>2, <1>3, <1>4, <1>5, <1>6, <1>7, <1>8, <1>9, <1>10, <1>11, <1>12, <1>13,
       <1>14, <1>15 DEF Next

(* A call of the driver runs its command on the chip at most once, with its *)
(* own parameters and on a halted CPU where it needs one, and returns the   *)
(* answer of that command unless the chip is gone or was given up.          *)
THEOREM ImplementsCommandsHolds == Spec => ImplementsCommands
<1>1. Init => Commands!Init
    BY DEF Init, Commands!Init, Port
<1>2. IInv /\ [Next]_vars => [Commands!Next]_(Commands!vars)
    BY StepIsCommand
<1> QED
    BY <1>1, <1>2, Inductive, PTL DEF Spec, ImplementsCommands, Commands!Spec
=============================================================================
