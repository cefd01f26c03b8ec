------------------------------ MODULE DebugPort ------------------------------
(***************************************************************************)
(* The debug port: the driver CCDebugger.c with its three pins, and the    *)
(* debug interface of the chip as the driver takes it to be.  DD is one    *)
(* wire for both directions; neither side tells the other when it turns.   *)
(*                                                                         *)
(* Eight clocks of DC are one step.  A byte is a value or the name of a    *)
(* command.  Between two groups of eight clocks a program may be stopped   *)
(* (Ctrl-C), which leaves the pins as they are, or the clip come off.      *)
(***************************************************************************)
EXTENDS Naturals, Sequences

CONSTANTS Request,      (* [op, args], what the program may call           *)
          NoRequest,
          Byte,         (* values of a byte, Low and High among them       *)
          Low, High,    (* all zeros, all ones                             *)
          MaxWait       (* maxWaitCycles, 250                              *)

(* Parameters cc_write() sends after the command, bytes cc_read() fetches. *)
Sends == [exit |-> 0, getConfig |-> 0, setConfig |-> 1, exec |-> 1, exec2 |-> 2, exec3 |-> 3,
          getChipID |-> 0, getPC |-> 0, getStatus |-> 0, step |-> 0, resume |-> 0,
          halt |-> 0, chipErase |-> 0]
(* Faulty variant: one byte of the chip's identity. *)
GetsOne == [o \in DOMAIN Sends |-> 1]
Gets == [exit |-> 1, getConfig |-> 1, setConfig |-> 1, exec |-> 1, exec2 |-> 1, exec3 |-> 1,
         getChipID |-> 2, getPC |-> 2, getStatus |-> 1, step |-> 1, resume |-> 1,
         halt |-> 1, chipErase |-> 1]
Op == DOMAIN Sends

(* The chip's side of the same table, by the data sheet. *)
Takes == [o \in Op |-> CASE o = "exec2" -> 2 [] o = "exec3" -> 3
                         [] o \in {"exec", "setConfig"} -> 1 [] OTHER -> 0]
Gives == [o \in Op |-> IF o \in {"getChipID", "getPC"} THEN 2 ELSE 1]

ASSUME DebugPortAssumption ==
    /\ MaxWait \in Nat \ {0} /\ NoRequest \notin Request
    /\ {Low, High} \subseteq Byte /\ Low # High
    /\ Request \subseteq {r \in [op : Op, args : Seq(Byte)] : Len(r.args) = Sends[r.op]}

Strings(n) == [1..n -> Byte]
Of(ops) == {r \in Request : r.op \in ops}
Resumes == Of({"exit", "resume"})
Halts == Of({"halt"})
Instructs == Of({"exec", "exec2", "exec3", "step"})

VARIABLES pc,           (* where the program is                            *)
          req,          (* the call being made                             *)
          left,         (* bytes cc_write() has still to send              *)
          waits,        (* groups of eight clocks spent waiting            *)
          got,          (* bytes read                                      *)
          result,       (* what the last call returned                     *)
          cc_active, inDebugMode, ddIsOutput,
          dd,           (* pin mode of DD, "IN" or "OUT"                   *)
          rst, rstLatch, (* pin mode of RST, and the level it drives       *)
          stopped,      (* the program knows the CPU halted                *)
          gone, debug, cpu, (* the chip: clip off, debug mode, its CPU     *)
          inbox,        (* bytes of a command so far                       *)
          done,         (* the request it did last, since the call began   *)
          answer,       (* its answer                                      *)
          reply,        (* bytes of it not yet clocked out                 *)
          ready         (* it holds DD low: the answer may be read         *)

command == <<req, left, waits, got, result>>
statics == <<cc_active, inDebugMode, ddIsOutput>>
pins == <<dd, rst, rstLatch>>
wire == <<inbox, reply, ready>>
history == <<done, answer>>
chip == <<gone, debug, cpu, wire>>
vars == <<pc, command, statics, pins, stopped, chip, history>>

Init ==
    /\ pc = "none" /\ req = NoRequest /\ left = <<>> /\ waits = 0 /\ got = <<>> /\ result = <<>>
    /\ cc_active = FALSE /\ inDebugMode = FALSE /\ ddIsOutput = FALSE
    /\ dd = "IN" /\ rst = "IN" /\ rstLatch = Low /\ stopped = FALSE
    /\ gone = FALSE /\ debug = FALSE /\ cpu = "running"
    /\ inbox = <<>> /\ reply = <<>> /\ ready = FALSE
    /\ done = NoRequest /\ answer = <<>>
-----------------------------------------------------------------------------
HostDrives == dd = "OUT"
ChipDrives == ~gone /\ debug /\ reply # <<>>

(* cc_setDDDirection(): nothing when ddIsOutput says so already. *)
cc_setDDDirection(d) ==
    /\ ddIsOutput' = (d = "OUT")
    /\ dd' = IF ddIsOutput' = ddIsOutput THEN dd ELSE d

(* What DD reads: nobody there, anything. *)
Level == IF ~ChipDrives THEN {Low, High} ELSE IF ready THEN {Low} ELSE {High}
Shifted == IF ~ChipDrives THEN Byte ELSE IF ready THEN {Head(reply)} ELSE {High}

(* RST low: out of debug mode, whatever was under way is forgotten. *)
LetRun(c) == IF c = "reset" THEN "running" ELSE c
PulledLow ==
    IF gone THEN UNCHANGED <<debug, cpu, wire>>
            ELSE debug' = FALSE /\ cpu' = "reset" /\ inbox' = <<>> /\ reply' = <<>> /\ ready' = FALSE

Forget == req' = NoRequest /\ left' = <<>> /\ waits' = 0 /\ got' = <<>> /\ result' = <<>>
              /\ done' = NoRequest /\ answer' = <<>>

(* A program starts and calls cc_init(): DD is an output although           *)
(* ddIsOutput says input, so its last line changes nothing.                 *)
cc_init ==
    /\ pc = "none" /\ pc' = "init"
    /\ cc_active' = TRUE /\ inDebugMode' = FALSE /\ ddIsOutput' = FALSE
    /\ dd' = "OUT" /\ rst' = "OUT" /\ rstLatch' = Low /\ stopped' = FALSE
    /\ gone' \in BOOLEAN
    /\ IF gone' THEN cpu' = LetRun(cpu) /\ UNCHANGED <<debug, wire>>
                ELSE debug' = FALSE /\ cpu' = "reset"
                     /\ inbox' = <<>> /\ reply' = <<>> /\ ready' = FALSE
    /\ Forget

(* Two clocks while RST is low, then RST high: debug mode, CPU halted. *)
cc_enter ==
    /\ pc = "init" /\ pc' = "idle"
    /\ rstLatch' = High /\ inDebugMode' = TRUE /\ stopped' = TRUE
    /\ IF gone THEN UNCHANGED <<debug, cpu>> ELSE debug' = TRUE /\ cpu' = "halted"
    /\ UNCHANGED <<command, cc_active, ddIsOutput, dd, rst, gone, wire, history>>

(* A function of the driver is called; an instruction only when the program *)
(* knows the CPU halted.  Out of debug mode it returns 0.                   *)
Call(r) ==
    /\ pc = "idle" /\ (r \in Instructs => stopped)
    /\ done' = NoRequest /\ answer' = <<>>
    /\ IF cc_active /\ inDebugMode
       THEN /\ pc' = "write" /\ req' = r /\ left' = <<r.op>> \o r.args
            /\ waits' = 0 /\ got' = <<>> /\ result' = <<>>
       ELSE /\ result' = [i \in 1..Gets[r.op] |-> Low]
            /\ UNCHANGED <<pc, req, left, waits, got>>
    /\ stopped' = IF r \in Halts THEN TRUE ELSE IF r \in Resumes THEN FALSE ELSE stopped
    /\ UNCHANGED <<statics, pins, chip>>

(* The chip has all the bytes of a command. *)
Complete(b) == b # <<>> /\ Len(b) = 1 + Takes[Head(b)]
Asked(b) == [op |-> Head(b), args |-> Tail(b)]
Does(r) ==
    /\ done' = r
    /\ cpu' = IF r.op = "halt" THEN "halted" ELSE IF r.op \in {"exit", "resume"} THEN "running" ELSE cpu
    /\ answer' \in Strings(Gives[r.op]) /\ reply' = answer'
    /\ ready' \in BOOLEAN /\ inbox' = <<>>

Takes1(b) ==
    IF Complete(Append(inbox, b)) THEN Does(Asked(Append(inbox, b)))
    ELSE inbox' = Append(inbox, b) /\ UNCHANGED <<cpu, reply, ready, history>>

(* cc_write(), one byte. *)
cc_write ==
    /\ pc = "write"
    /\ cc_setDDDirection("OUT")
    /\ left' = Tail(left)
    /\ pc' = IF left' = <<>> THEN "turn" ELSE "write"
    /\ IF ~gone /\ debug /\ dd' = "OUT" THEN Takes1(Head(left))
                                        ELSE UNCHANGED <<cpu, wire, history>>
    /\ UNCHANGED <<req, waits, got, result, cc_active, inDebugMode, rst, rstLatch, stopped, gone, debug>>

(* Faulty variant: the answer is read without waiting for it. *)
ReadAtOnce ==
    /\ pc = "turn" /\ pc' = "read"
    /\ cc_setDDDirection("IN")
    /\ UNCHANGED <<command, cc_active, inDebugMode, rst, rstLatch, stopped, chip, history>>

(* cc_switchRead(): DD becomes an input ... *)
cc_switchRead ==
    /\ pc = "turn" /\ pc' = "wait"
    /\ cc_setDDDirection("IN")
    /\ UNCHANGED <<command, cc_active, inDebugMode, rst, rstLatch, stopped, chip, history>>

(* ... and is looked at until it is low; after maxWaitCycles groups of      *)
(* eight clocks the chip is lost, but the caller goes on to cc_read().      *)
Poll ==
    /\ pc = "wait"
    /\ \E level \in Level :
          IF level = Low THEN pc' = "read" /\ UNCHANGED <<waits, inDebugMode>>
          ELSE /\ waits' = waits + 1
               /\ inDebugMode' = (waits' < MaxWait)
               /\ pc' = IF inDebugMode' THEN "wait" ELSE "read"
    /\ UNCHANGED <<req, left, got, result, cc_active, ddIsOutput, pins, stopped, chip, history>>

(* cc_read(): a byte, whoever drives. *)
cc_read ==
    /\ pc = "read" /\ Len(got) < Gets[req.op]
    /\ cc_setDDDirection("IN")
    /\ \E b \in Shifted : got' = Append(got, b)
    /\ reply' = IF ChipDrives /\ ready THEN Tail(reply) ELSE reply
    /\ UNCHANGED <<pc, req, left, waits, result, cc_active, inDebugMode, rst, rstLatch, stopped,
                   gone, debug, cpu, inbox, ready, history>>

(* cc_switchWrite() and the return; cc_exit() leaves debug mode. *)
cc_switchWrite ==
    /\ pc = "read" /\ Len(got) = Gets[req.op] /\ pc' = "idle"
    /\ cc_setDDDirection("OUT")
    /\ result' = got /\ req' = NoRequest /\ got' = <<>> /\ waits' = 0
    /\ inDebugMode' = (inDebugMode /\ req.op # "exit")
    /\ UNCHANGED <<left, cc_active, rst, rstLatch, stopped, chip, history>>

(* cc_setActive(false): cc_active is cleared first, so cc_exit() returns at *)
(* once; then inputs, and the latches low.                                  *)
cc_setActive ==
    /\ pc = "idle" /\ pc' = "let"
    /\ cc_active' = FALSE
    /\ dd' = "IN" /\ rst' = "IN" /\ rstLatch' = Low
    /\ UNCHANGED <<command, inDebugMode, ddIsOutput, stopped, chip, history>>

(* cc_reset(): RST an output, which drives what its latch holds ... *)
cc_reset ==
    /\ pc = "let" /\ pc' = "pulled"
    /\ dd' = "IN" /\ rst' = "OUT"
    /\ IF rstLatch = Low THEN PulledLow ELSE UNCHANGED <<debug, cpu, wire>>
    /\ UNCHANGED <<command, statics, rstLatch, stopped, gone, history>>

(* ... then an input: the pinMode(pinRST, LOW) already makes it one. *)
cc_reset_end ==
    /\ pc = "pulled" /\ pc' = "over"
    /\ rst' = "IN" /\ cpu' = LetRun(cpu)
    /\ UNCHANGED <<command, statics, dd, rstLatch, stopped, gone, debug, wire, history>>

(* The program ends or is stopped: its memory goes, the pins stay. *)
Quit ==
    /\ pc # "none" /\ pc' = "none"
    /\ Forget /\ stopped' = FALSE
    /\ cc_active' = FALSE /\ inDebugMode' = FALSE /\ ddIsOutput' = FALSE
    /\ UNCHANGED <<pins, chip>>

(* The clip comes off and stays off until the next program. *)
Unplug ==
    /\ pc # "none" /\ ~gone /\ gone' = TRUE
    /\ cpu' = LetRun(cpu)
    /\ UNCHANGED <<pc, command, statics, pins, stopped, debug, wire, history>>

(* The chip pulls DD low: its answer is there. *)
Ready ==
    /\ reply # <<>> /\ ~ready /\ ready' = TRUE
    /\ UNCHANGED <<pc, command, statics, pins, stopped, gone, debug, cpu, inbox, reply, history>>

Next ==
    \/ cc_init \/ cc_enter \/ \E r \in Request : Call(r)
    \/ cc_write \/ cc_switchRead \/ Poll \/ cc_read \/ cc_switchWrite
    \/ cc_setActive \/ cc_reset \/ cc_reset_end
    \/ Quit \/ Unplug \/ Ready

Spec == Init /\ [][Next]_vars
-----------------------------------------------------------------------------
TypeOK ==
    /\ pc \in {"none", "init", "idle", "write", "turn", "wait", "read", "let", "pulled", "over"}
    /\ req \in Request \cup {NoRequest}
    /\ left \in Seq(Byte \cup Op) /\ got \in Seq(Byte) /\ result \in Seq(Byte)
    /\ waits \in 0..MaxWait
    /\ cc_active \in BOOLEAN /\ inDebugMode \in BOOLEAN /\ ddIsOutput \in BOOLEAN
    /\ stopped \in BOOLEAN /\ gone \in BOOLEAN /\ debug \in BOOLEAN /\ ready \in BOOLEAN
    /\ dd \in {"IN", "OUT"} /\ rst \in {"IN", "OUT"} /\ rstLatch \in {Low, High}
    /\ cpu \in {"running", "halted", "reset"}
    /\ inbox \in Seq(Byte \cup Op) /\ reply \in Seq(Byte) /\ answer \in Seq(Byte)
    /\ done \in Request \cup {NoRequest}

(* The host and the chip never drive DD at once, except for the moment      *)
(* between the last bit of a command and the turn of the pin: not when a    *)
(* command is sent, not while its answer is waited for and read, not when   *)
(* the pin is turned back.  (Without debug mode they may: once the chip is  *)
(* given up, cc_switchWrite() drives against a chip that is only slow, and  *)
(* a program stopped at the turn leaves the pin an output.)                 *)
NoContention == inDebugMode /\ pc # "turn" => ~(HostDrives /\ ChipDrives)

(* The driver and the chip together do what the tools expect of a call.     *)
Port ==
    CASE pc = "none" -> "closed" [] pc = "init" -> "reset"
      [] pc = "idle" -> (IF inDebugMode THEN "open" ELSE "shut")
      [] pc \in {"write", "turn", "wait", "read"} -> "open"
      [] pc = "let" -> "released" [] pc = "pulled" -> "pulled" [] pc = "over" -> "restarted"

Commands == INSTANCE DebugCommands WITH
    Answers <- [r \in Request |-> Strings(Gives[r.op])],
    Reads <- [r \in Request |-> Strings(Gets[r.op])],
    Refusal <- [r \in Request |-> [i \in 1..Gets[r.op] |-> Low]],
    Exits <- Of({"exit"}),
    port <- Port, call <- req, served <- done

ImplementsCommands == Commands!Spec
=============================================================================
