------------------------------- MODULE Forward -------------------------------
(***************************************************************************)
(* keyboard_forward.py: a keyboard's events, read from the kernel, sent    *)
(* one SEND_KEY each through the two dongles (KeyStream) to another        *)
(* machine.  The loop waits for every transfer, so events pile up in the   *)
(* kernel's buffer while the receiving side holds the sender back.         *)
(***************************************************************************)
EXTENDS Naturals, Sequences, FiniteSets

CONSTANTS Keys,         (* keys of the keyboard                            *)
          KEY_MAP, MODIFIER_KEYS, EXIT_COMBO, (* sets of them              *)
          BufferLen,    (* events the kernel keeps for a reader            *)
          MaxStrokes, MaxRuns, MaxRestarts  (* bounds                      *)

NoKey == "none"

ASSUME ForwardAssumption ==
    /\ KEY_MAP \cup MODIFIER_KEYS \cup EXIT_COMBO \subseteq Keys /\ NoKey \notin Keys
    /\ KEY_MAP \cap MODIFIER_KEYS = {} /\ EXIT_COMBO # {}
    /\ BufferLen \in Nat \ {0, 1}
    /\ {MaxStrokes, MaxRuns, MaxRestarts} \subseteq Nat

Rep == (SUBSET MODIFIER_KEYS) \X (KEY_MAP \cup {NoKey})
NoKeys == <<{}, NoKey>>
SYN_DROPPED == [key |-> NoKey, state |-> "dropped"]

VARIABLES fingers,      (* keys held on the keyboard                       *)
          buffer,       (* events the kernel keeps for the script          *)
          script,       (* "off", "read" (read_loop) or "send"             *)
          held, pressed_mod, (* the loop's                                 *)
          code,         (* key of the event it read last                   *)
          stale,        (* its handle of the dongle no longer works        *)
          why,          (* what went wrong since the last SEND_KEY began:  *)
                        (* why a key may stay down on the other machine    *)
          count         (* strokes, runs and restarts so far               *)
VARIABLES current, busy, accepted, pipe, screen, delivered

Stream == INSTANCE KeyStream

loopVars == <<held, pressed_mod, code>>
streamVars == <<current, busy, accepted, pipe, screen, delivered>>
vars == <<fingers, buffer, script, loopVars, stale, why, count, streamVars>>

Init ==
    /\ fingers = {} /\ buffer = <<>> /\ script = "off"
    /\ held = {} /\ pressed_mod = {} /\ code = NoKey /\ stale = FALSE
    /\ why = {}
    /\ count = [strokes |-> 0, runs |-> 0, restarts |-> 0]
    /\ Stream!Init
-----------------------------------------------------------------------------
(* The keyboard and the kernel: with the buffer full everything in it goes, *)
(* the reader gets a mark and the newest event.  Without a reader that has  *)
(* grabbed the keyboard, nobody keeps the event.                            *)
Kept(e) == IF script = "off" THEN <<>>
           ELSE IF Len(buffer) < BufferLen THEN Append(buffer, e) ELSE <<SYN_DROPPED, e>>

Stroke(k, state) ==
    /\ count.strokes < MaxStrokes
    /\ count' = [count EXCEPT !.strokes = @ + 1]
    /\ (state = "down") = (k \notin fingers)
    /\ fingers' = IF state = "up" THEN fingers \ {k} ELSE fingers \cup {k}
    /\ buffer' = Kept([key |-> k, state |-> state])
    /\ UNCHANGED <<script, loopVars, stale, why, streamVars>>

(* main() up to the loop; held and pressed_mod begin empty whatever is held. *)
Start ==
    /\ script = "off" /\ script' = "read"
    /\ count.runs < MaxRuns /\ count' = [count EXCEPT !.runs = @ + 1]
    /\ held' = {} /\ pressed_mod' = {} /\ code' = NoKey /\ stale' = FALSE
    /\ UNCHANGED <<fingers, buffer, why, streamVars>>

(* The script is over, what it had not read is nobody's. *)
Ends(reasons) == script' = "off" /\ buffer' = <<>> /\ why' = why \cup reasons

(* One round of the loop. *)
Down(e) == e.state \in {"down", "hold"}
HeldAfter(e) == IF Down(e) THEN held \cup {e.key} ELSE held \ {e.key}
Quits(e) == EXIT_COMBO \subseteq HeldAfter(e)
(* History: a key sent down before another one completes the combination. *)
LeftDown(e) == IF current.rep[2] \in {NoKey, e.key} THEN {} ELSE {"combination"}
IsModifier(e) == e.key \in MODIFIER_KEYS
(* Faulty variant: a key that comes up under a modifier is not sent. *)
SentUnmodified(e) == e.state # "hold" /\ e.key \in KEY_MAP /\ (Down(e) \/ pressed_mod = {})
Sent(e) == e.state # "hold" /\ e.key \in KEY_MAP
ReportOf(e) == IF Down(e) THEN <<pressed_mod, e.key>> ELSE NoKeys

(* The mark is no EV_KEY event: the loop goes on as if nothing was lost. *)
ReadDropped ==
    /\ script = "read" /\ buffer # <<>> /\ Head(buffer) = SYN_DROPPED
    /\ buffer' = Tail(buffer) /\ why' = why \cup {"dropped"}
    /\ UNCHANGED <<fingers, script, loopVars, stale, count, streamVars>>

Read ==
    /\ script = "read" /\ buffer # <<>> /\ Head(buffer) # SYN_DROPPED
    /\ UNCHANGED <<fingers, stale, count>>
    /\ LET e == Head(buffer) IN
       /\ held' = HeldAfter(e) /\ code' = e.key
       /\ \/ Quits(e) /\ Ends(LeftDown(e)) /\ UNCHANGED <<pressed_mod, streamVars>>
          \/ /\ ~Quits(e) /\ ~Sent(e)
             /\ pressed_mod' = IF ~IsModifier(e) \/ e.state = "hold" THEN pressed_mod
                               ELSE IF Down(e) THEN pressed_mod \cup {e.key} ELSE pressed_mod \ {e.key}
             /\ buffer' = Tail(buffer)
             /\ UNCHANGED <<script, why, streamVars>>
          \/ /\ ~Quits(e) /\ Sent(e) /\ ~stale
             /\ Stream!Submit(ReportOf(e))
             /\ script' = "send" /\ why' = {} /\ buffer' = Tail(buffer)
             /\ UNCHANGED pressed_mod
          \/ ~Quits(e) /\ Sent(e) /\ stale /\ Ends({"failure"}) /\ UNCHANGED <<pressed_mod, streamVars>>

(* ctrl_transfer() returns, or raises on a STALL ... *)
Transferred ==
    /\ Stream!Outcome
    /\ IF script # "send" THEN UNCHANGED <<script, buffer, why>>
       ELSE IF delivered' THEN script' = "read" /\ UNCHANGED <<buffer, why>>
       ELSE Ends({"failure"})
    /\ UNCHANGED <<fingers, loopVars, stale, count>>

(* ... or after a second; the dongle goes on sending. *)
TransferTimeout ==
    /\ script = "send" /\ Ends({"failure"})
    /\ UNCHANGED <<fingers, loopVars, stale, count, streamVars>>

(* Ctrl+C at the terminal that runs the script. *)
Kill ==
    /\ script # "off" /\ Ends({"killed"})
    /\ UNCHANGED <<fingers, loopVars, stale, count, streamVars>>
-----------------------------------------------------------------------------
(* The dongles and the machine behind them. *)
Deliver ==
    /\ Stream!Accept \/ Stream!Show
    /\ UNCHANGED <<fingers, buffer, script, loopVars, stale, why, count>>

Restart ==
    /\ count.restarts < MaxRestarts
    /\ count' = [count EXCEPT !.restarts = @ + 1]
    /\ \/ Stream!Restart /\ why' = why \cup {"restart"} /\ UNCHANGED stale
       \/ Stream!SenderRestart /\ stale' = TRUE /\ UNCHANGED why
    /\ UNCHANGED <<fingers, buffer, script, loopVars>>

Next ==
    \/ \E k \in Keys, state \in {"down", "up", "hold"} : Stroke(k, state)
    \/ Start \/ ReadDropped \/ Read \/ Transferred \/ TransferTimeout \/ Kill
    \/ Deliver \/ Restart

Spec == Init /\ [][Next]_vars
-----------------------------------------------------------------------------
TypeOK ==
    /\ fingers \subseteq Keys /\ held \subseteq Keys
    /\ pressed_mod \subseteq MODIFIER_KEYS
    /\ Len(buffer) <= BufferLen
    /\ script \in {"off", "read", "send"}
    /\ why \subseteq {"combination", "failure", "killed", "dropped", "restart"}
    /\ current.rep \in Rep /\ screen.rep \in Rep

(* When nothing is under way, a key down on the other machine is down on    *)
(* the keyboard, unless since its SEND_KEY began a transfer failed or timed *)
(* out, the script was killed, the kernel dropped events, the receiving     *)
(* dongle restarted, or the exit combination was completed by another key.  *)
Settled == buffer = <<>> /\ script # "send" /\ ~busy /\ pipe = {}
StaysDownForAReason ==
    Settled /\ why = {} => screen.rep[2] \in fingers \cup {NoKey}
=============================================================================
