------------------------------ MODULE KeyStream ------------------------------
(***************************************************************************)
(* What the two dongles together promise: key events submitted one at a    *)
(* time on one side appear in that order, each at most once, as the        *)
(* keyboard state of the machine on the other side, as long as the         *)
(* receiving dongle does not restart.  An event reported as delivered has  *)
(* been accepted by the receiving dongle.  Over a restart events accepted  *)
(* and not yet shown may be lost, and the one shown last may be shown once *)
(* more: the dongle no longer knows its sequence number.  Nothing older    *)
(* comes back, and nothing appears that was not submitted.                 *)
(*                                                                         *)
(* An event is a record [id, rep]: its number in submission order and the  *)
(* report it stands for.  The pipe is a set because ids already order it;  *)
(* repeating the report shown last changes nothing the machine sees, so a  *)
(* repetition is a stuttering step here.                                   *)
(***************************************************************************)
EXTENDS Naturals

CONSTANTS Rep,          (* keyboard reports                                *)
          NoKeys        (* the report with no key down                     *)

VARIABLES current,      (* the event being sent, or the last one           *)
          busy,         (* its sender still waits for the outcome          *)
          accepted,     (* the receiving dongle has it                     *)
          pipe,         (* events accepted and not yet shown               *)
          screen,       (* the event shown last                            *)
          delivered     (* the last outcome told the sender: delivered     *)

vars == <<current, busy, accepted, pipe, screen, delivered>>

Event == [id : Nat, rep : Rep]

Init ==
    /\ current = [id |-> 0, rep |-> NoKeys]
    /\ busy = FALSE /\ accepted = FALSE /\ delivered = FALSE
    /\ pipe = {}
    /\ screen = [id |-> 0, rep |-> NoKeys]

Submit(r) ==
    /\ ~busy
    /\ current' = [id |-> current.id + 1, rep |-> r]
    /\ busy' = TRUE /\ accepted' = FALSE /\ delivered' = FALSE
    /\ UNCHANGED <<pipe, screen>>

(* Accepting again what is already in the pipe, or shown, changes nothing.  *)
Accept ==
    /\ busy /\ screen.id # current.id
    /\ accepted' = TRUE
    /\ pipe' = pipe \cup {current}
    /\ UNCHANGED <<current, busy, screen, delivered>>

(* The outcome: delivered only if accepted; a failure proves nothing. *)
Outcome ==
    /\ busy
    /\ busy' = FALSE
    /\ delivered' \in (IF accepted THEN BOOLEAN ELSE {FALSE})
    /\ UNCHANGED <<current, accepted, pipe, screen>>

Show ==
    \E e \in pipe :
        /\ \A f \in pipe : e.id <= f.id
        /\ screen' = e
        /\ pipe' = pipe \ {e}
        /\ UNCHANGED <<current, busy, accepted, delivered>>

(* The receiving dongle restarts: what it held may go, the machine sees its *)
(* keyboard unplugged and lets every key go.  A repetition of the event     *)
(* shown last may have been in the pipe, and Accept takes another one that  *)
(* is still being sent: either shows the event again.                       *)
Restart ==
    /\ pipe' \in SUBSET (pipe \cup {screen})
    /\ screen' = [id |-> 0, rep |-> NoKeys]
    /\ UNCHANGED <<current, busy, accepted, delivered>>

(* The sending dongle restarts between two events. *)
SenderRestart ==
    /\ ~busy
    /\ delivered' = FALSE
    /\ UNCHANGED <<current, busy, accepted, pipe, screen>>

Next ==
    \/ \E r \in Rep : Submit(r)
    \/ Accept
    \/ Outcome
    \/ Show
    \/ Restart
    \/ SenderRestart

Spec == Init /\ [][Next]_vars

=============================================================================
