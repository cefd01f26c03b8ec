---------------------------- MODULE DebugCommands ----------------------------
(***************************************************************************)
(* What the tools in firmware/debug expect of their driver, CCDebugger.c:  *)
(* a call runs its command on the chip, once and with its parameters, and  *)
(* returns what the chip answered, unless the chip is gone or was given up *)
(* as not answering.  After that nothing reaches the chip until the next   *)
(* program.                                                                *)
(***************************************************************************)
CONSTANTS Request,      (* commands with their parameters                  *)
          NoRequest,
          Answers,      (* what the chip may answer to each                *)
          Reads,        (* what a call may read when nobody answers        *)
          Refusal,      (* what a call returns that sends nothing          *)
          Halts, Resumes, (* requests that stop the CPU, that start it     *)
          Exits,        (* requests after which the driver is done         *)
          Instructs     (* requests that need a halted CPU                 *)

VARIABLES port,         (* "closed", "reset", "open", "shut", "released",  *)
                        (* "pulled" or "restarted"                         *)
          cpu,          (* "running", "halted" or "reset"                  *)
          gone,         (* the clip is off                                 *)
          call,         (* the request being made                          *)
          served,       (* the request the chip has done for it            *)
          answer,       (* what the chip answered                          *)
          result        (* what the last call returned                     *)

vars == <<port, cpu, gone, call, served, answer, result>>

Idle == call' = NoRequest /\ served' = NoRequest /\ answer' = <<>> /\ result' = <<>>

Init ==
    /\ port = "closed" /\ cpu = "running" /\ gone = FALSE
    /\ call = NoRequest /\ served = NoRequest /\ answer = <<>> /\ result = <<>>

(* A chip whose reset line is let go runs. *)
LetGo(c) == IF c = "reset" THEN "running" ELSE c
Changes(r) == IF r \in Halts THEN "halted" ELSE IF r \in Resumes THEN "running" ELSE cpu

(* A program starts, the clip is on or not, and holds the chip in reset. *)
Attach ==
    /\ port = "closed" /\ port' = "reset"
    /\ gone' \in BOOLEAN
    /\ cpu' = IF gone' THEN LetGo(cpu) ELSE "reset"
    /\ Idle

Enter ==
    /\ port = "reset" /\ port' = "open"
    /\ cpu' = IF gone THEN cpu ELSE "halted"
    /\ UNCHANGED <<gone, call, served, answer, result>>

Ask(r) ==
    /\ port = "open" /\ call = NoRequest
    /\ call' = r /\ served' = NoRequest /\ answer' = <<>> /\ result' = <<>>
    /\ UNCHANGED <<port, cpu, gone>>

(* Once, and an instruction only on a halted CPU. *)
Serve ==
    /\ call # NoRequest /\ served = NoRequest /\ ~gone
    /\ call \in Instructs => cpu = "halted"
    /\ served' = call /\ cpu' = Changes(call)
    /\ answer' \in Answers[call]
    /\ UNCHANGED <<port, gone, call, result>>

Return == call # NoRequest /\ call' = NoRequest
Closes(r) == IF r \in Exits THEN "shut" ELSE "open"

Answered ==
    /\ Return /\ served = call /\ result' = answer
    /\ port' = Closes(call)
    /\ UNCHANGED <<cpu, gone, served, answer>>

(* Nobody there, or no answer in time. *)
Unanswered ==
    /\ Return /\ result' \in Reads[call]
    /\ port' = "shut"
    /\ UNCHANGED <<cpu, gone, served, answer>>

Unnoticed ==
    /\ Return /\ gone /\ result' \in Reads[call]
    /\ port' = Closes(call)
    /\ UNCHANGED <<cpu, gone, served, answer>>

Refuse(r) ==
    /\ port = "shut"
    /\ result' = Refusal[r] /\ served' = NoRequest /\ answer' = <<>>
    /\ UNCHANGED <<port, cpu, gone, call>>

Unplug ==
    /\ port # "closed" /\ ~gone
    /\ gone' = TRUE /\ cpu' = LetGo(cpu)
    /\ UNCHANGED <<port, call, served, answer, result>>

(* The pins are let go: that alone changes nothing in the chip. *)
Release ==
    /\ port \in {"open", "shut"} /\ call = NoRequest
    /\ port' = "released"
    /\ UNCHANGED <<cpu, gone, call, served, answer, result>>

(* A reset that needs no debug mode. *)
Pull ==
    /\ port = "released" /\ port' = "pulled"
    /\ cpu' = IF gone THEN cpu ELSE "reset"
    /\ UNCHANGED <<gone, call, served, answer, result>>

Restart ==
    /\ port = "pulled" /\ port' = "restarted"
    /\ cpu' = LetGo(cpu)
    /\ UNCHANGED <<gone, call, served, answer, result>>

(* The program ends, or is stopped anywhere. *)
Quit == port' = "closed" /\ Idle /\ UNCHANGED <<cpu, gone>>

Next ==
    \/ Attach \/ Enter
    \/ \E r \in Request : Ask(r) \/ Refuse(r)
    \/ Serve \/ Answered \/ Unanswered \/ Unnoticed
    \/ Unplug \/ Release \/ Pull \/ Restart \/ Quit

Spec == Init /\ [][Next]_vars
=============================================================================
