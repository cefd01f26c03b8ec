---------------------------- MODULE ForwardProofs ----------------------------
(***************************************************************************)
(* Forward: for every keyboard, exit combination and buffer length, any    *)
(* number of strokes, runs and restarts, a key that stays down on the      *)
(* other machine has a reason; and the script uses the dongles only as     *)
(* KeyStream allows.                                                       *)
(***************************************************************************)
EXTENDS Forward, TLAPS

Key == Keys \cup {NoKey}
KeyEvent == [key : Keys, state : {"down", "up", "hold"}]
Marked == \E i \in 1..Len(buffer) : buffer[i] = SYN_DROPPED
Mentions(k) == \E i \in 1..Len(buffer) : buffer[i].key = k

(* The last event kept for a key says where the key is. *)
LastEvent(i) == buffer[i] # SYN_DROPPED /\ \A j \in 1..Len(buffer) : j > i => buffer[j].key # buffer[i].key
Honest == \A i \in 1..Len(buffer) : LastEvent(i) => (Down(buffer[i]) <=> buffer[i].key \in fingers)

(* The script has the key of the report being shown in held, the            *)
(* combination never whole.                                                 *)
Open == script # "off" => ~(EXIT_COMBO \subseteq held)
InHeld == why = {} /\ current.rep[2] # NoKey => script # "off" /\ current.rep[2] \in held

(* Where the buffer says nothing of it, that key is down. *)
OnKeyboard ==
    why = {} /\ current.rep[2] # NoKey /\ ~Marked /\ ~Mentions(current.rep[2])
        => current.rep[2] \in fingers

(* The dongles: what is on its way lies between what is shown and what was  *)
(* submitted; a number belongs to one event.                                *)
OnTheWay == pipe \cup {screen}
Between == \A e \in pipe : screen.id <= e.id /\ e.id <= current.id
Numbered ==
    /\ \A e, f \in OnTheWay \cup {current} : e.id = f.id => e = f
    /\ \A e \in OnTheWay \cup {current} : e.id = 0 => e.rep = NoKeys
Waits == why = {} /\ busy => script = "send"
Arrives ==
    /\ why = {} /\ ~busy => accepted \/ current.id = 0
    /\ why = {} /\ accepted => current \in OnTheWay

Shapes ==
    /\ current \in Stream!Event /\ screen \in Stream!Event /\ pipe \subseteq Stream!Event
    /\ screen.id <= current.id
    /\ busy \in BOOLEAN /\ accepted \in BOOLEAN

Kernel == buffer \in Seq(KeyEvent \cup {SYN_DROPPED}) /\ Len(buffer) <= BufferLen
Loop ==
    /\ fingers \subseteq Keys /\ held \subseteq Keys /\ pressed_mod \subseteq MODIFIER_KEYS
    /\ script \in {"off", "read", "send"}
    /\ why \subseteq {"combination", "failure", "killed", "dropped", "restart"}

TypeInv == Kernel /\ Loop /\ Shapes

Heard == Honest /\ Open /\ InHeld /\ OnKeyboard
Answered == Waits /\ Arrives

IInv == TypeInv /\ Heard /\ Between /\ Numbered /\ Answered
-----------------------------------------------------------------------------
(* The reports the script sends. *)
LEMMA NoKeysReport == NoKeys \in Rep
BY DEF Rep, NoKeys

LEMMA SentReport ==
    ASSUME TypeInv, NEW e \in KeyEvent, Sent(e) PROVE ReportOf(e) \in Rep
BY NoKeysReport DEF TypeInv, Kernel, Loop, Rep, ReportOf, Sent

(* The buffer after a keystroke, and after its first event is read. *)
LEMMA BufferGrows ==
    ASSUME TypeInv, NEW e \in KeyEvent, buffer' = Kept(e)
    PROVE  /\ buffer' \in Seq(KeyEvent \cup {SYN_DROPPED}) /\ Len(buffer') <= BufferLen
           /\ script # "off" => buffer'[Len(buffer')] = e /\ Len(buffer') >= 1
           /\ script = "off" => buffer' = <<>>
           /\ \/ \E i \in 1..Len(buffer') : buffer'[i] = SYN_DROPPED
              \/ script = "off"
              \/ Len(buffer') = Len(buffer) + 1 /\ \A i \in 1..Len(buffer) : buffer'[i] = buffer[i]
           /\ \A i \in 1..Len(buffer') :
                  \/ i = Len(buffer')
                  \/ buffer'[i] = SYN_DROPPED
                  \/ Len(buffer') = Len(buffer) + 1 /\ i \in 1..Len(buffer) /\ buffer'[i] = buffer[i]
<1>1. CASE script = "off"
  BY <1>1, ForwardAssumption DEF Kept
<1>2. CASE script # "off" /\ Len(buffer) < BufferLen
  <2>1. buffer' = Append(buffer, e)  BY <1>2 DEF Kept
  <2> QED BY <1>2, <2>1, ForwardAssumption DEF TypeInv, Kernel, Loop
<1>3. CASE script # "off" /\ ~(Len(buffer) < BufferLen)
  <2>1. buffer' = <<SYN_DROPPED, e>>  BY <1>3 DEF Kept
  <2>2. Len(buffer') = 2 /\ buffer'[1] = SYN_DROPPED /\ buffer'[2] = e  BY <2>1
  <2>3. buffer' \in Seq(KeyEvent \cup {SYN_DROPPED})  BY <2>1
  <2>4. 2 <= BufferLen  BY ForwardAssumption
  <2> QED BY <1>3, <2>2, <2>3, <2>4
<1> QED BY <1>1, <1>2, <1>3

LEMMA BufferRead ==
    ASSUME TypeInv, buffer # <<>>, buffer' = Tail(buffer)
    PROVE  /\ Len(buffer) \in Nat \ {0} /\ Head(buffer) = buffer[1]
           /\ Head(buffer) \in KeyEvent \cup {SYN_DROPPED}
           /\ buffer' \in Seq(KeyEvent \cup {SYN_DROPPED})
           /\ Len(buffer') = Len(buffer) - 1
           /\ \A i \in 1..Len(buffer') : i + 1 \in 1..Len(buffer) /\ buffer'[i] = buffer[i + 1]
BY DEF TypeInv, Kernel, Loop

LEMMA TypeInit == ASSUME Init PROVE TypeInv
<1>1. Shapes
  <2>1. current = [id |-> 0, rep |-> NoKeys] /\ screen = current /\ pipe = {}
    BY DEF Init, Stream!Init
  <2>2. busy \in BOOLEAN /\ accepted \in BOOLEAN  BY Zenon DEF Init, Stream!Init
  <2>3. current \in Stream!Event /\ current.id = 0  BY <2>1, NoKeysReport DEF Stream!Event
  <2> QED BY <2>1, <2>2, <2>3 DEF Shapes
<1>2. buffer = <<>>  BY DEF Init
<1>3. buffer \in Seq(KeyEvent \cup {SYN_DROPPED}) /\ Len(buffer) = 0  BY <1>2
<1> QED BY <1>1, <1>3, ForwardAssumption DEF Init, TypeInv, Kernel, Loop

(* The dongles: what is on its way stays in order, whatever they do. *)
LEMMA ShapesStep ==
    ASSUME Shapes, Between, [Stream!Next]_(Stream!vars) PROVE Shapes'
<1> USE NoKeysReport DEF Shapes, Stream!Event
<1>1. ASSUME NEW r \in Rep, Stream!Submit(r) PROVE Shapes'
  <2>1. current' = [id |-> current.id + 1, rep |-> r] /\ screen' = screen /\ pipe' = pipe
    BY <1>1 DEF Stream!Submit
  <2>2. current.id \in Nat /\ screen.id \in Nat /\ screen.id <= current.id  OBVIOUS
  <2>3. current' \in [id : Nat, rep : Rep] /\ current'.id = current.id + 1  BY <2>1, <2>2
  <2>4. busy' \in BOOLEAN /\ accepted' \in BOOLEAN  BY <1>1, Zenon DEF Stream!Submit
  <2>5. screen'.id <= current'.id  BY <2>1, <2>2, <2>3
  <2> QED BY <2>1, <2>3, <2>4, <2>5
<1>2. ASSUME Stream!Accept PROVE Shapes'
  BY <1>2 DEF Stream!Accept
<1>3. ASSUME Stream!Outcome PROVE Shapes'
  BY <1>3 DEF Stream!Outcome
<1>4. ASSUME Stream!Show PROVE Shapes'
  BY <1>4 DEF Stream!Show, Between
<1>5. ASSUME Stream!Restart PROVE Shapes'
  BY <1>5 DEF Stream!Restart
<1>6. ASSUME Stream!SenderRestart PROVE Shapes'
  BY <1>6 DEF Stream!SenderRestart
<1>7. ASSUME UNCHANGED Stream!vars PROVE Shapes'
  BY <1>7 DEF Stream!vars
<1> QED BY <1>1, <1>2, <1>3, <1>4, <1>5, <1>6, <1>7 DEF Stream!Next

LEMMA BetweenStep ==
    ASSUME Shapes, Between, [Stream!Next]_(Stream!vars) PROVE Between'
<1> USE DEF Shapes, Stream!Event, Between
<1>1. ASSUME NEW r \in Rep, Stream!Submit(r) PROVE Between'
  BY <1>1 DEF Stream!Submit
<1>2. ASSUME Stream!Accept PROVE Between'
  BY <1>2 DEF Stream!Accept
<1>3. ASSUME Stream!Outcome PROVE Between'
  BY <1>3 DEF Stream!Outcome
<1>4. ASSUME Stream!Show PROVE Between'
  BY <1>4 DEF Stream!Show
<1>5. ASSUME Stream!Restart PROVE Between'
  BY <1>5 DEF Stream!Restart
<1>6. ASSUME Stream!SenderRestart PROVE Between'
  BY <1>6 DEF Stream!SenderRestart
<1>7. ASSUME UNCHANGED Stream!vars PROVE Between'
  BY <1>7 DEF Stream!vars
<1> QED BY <1>1, <1>2, <1>3, <1>4, <1>5, <1>6, <1>7 DEF Stream!Next

LEMMA NumberedStep ==
    ASSUME Shapes, Between, Numbered, [Stream!Next]_(Stream!vars) PROVE Numbered'
<1> USE DEF Shapes, Stream!Event, Numbered, OnTheWay
<1>1. ASSUME NEW r \in Rep, Stream!Submit(r) PROVE Numbered'
  BY <1>1 DEF Stream!Submit, Between
<1>2. ASSUME Stream!Accept PROVE Numbered'
  BY <1>2 DEF Stream!Accept
<1>3. ASSUME Stream!Outcome PROVE Numbered'
  BY <1>3 DEF Stream!Outcome
<1>4. ASSUME Stream!Show PROVE Numbered'
  BY <1>4 DEF Stream!Show
<1>5. ASSUME Stream!Restart PROVE Numbered'
  BY <1>5 DEF Stream!Restart
<1>6. ASSUME Stream!SenderRestart PROVE Numbered'
  BY <1>6 DEF Stream!SenderRestart
<1>7. ASSUME UNCHANGED Stream!vars PROVE Numbered'
  BY <1>7 DEF Stream!vars
<1> QED BY <1>1, <1>2, <1>3, <1>4, <1>5, <1>6, <1>7 DEF Stream!Next
-----------------------------------------------------------------------------
(* The four ways a round of the loop goes. *)
Round(e) ==
    /\ script = "read" /\ buffer # <<>> /\ e = Head(buffer) /\ e # SYN_DROPPED
    /\ held' = HeldAfter(e) /\ UNCHANGED <<fingers, stale, count>>
Quit(e) == Round(e) /\ Quits(e) /\ Ends(LeftDown(e)) /\ UNCHANGED streamVars /\ UNCHANGED pressed_mod
Passed(e) ==
    /\ Round(e) /\ ~Quits(e) /\ ~Sent(e) /\ buffer' = Tail(buffer)
    /\ pressed_mod' \subseteq pressed_mod \cup {e.key} /\ (pressed_mod' # pressed_mod => IsModifier(e))
    /\ UNCHANGED <<script, why, streamVars>>
Forwarded(e) ==
    /\ Round(e) /\ ~Quits(e) /\ Sent(e) /\ buffer' = Tail(buffer)
    /\ Stream!Submit(ReportOf(e)) /\ script' = "send" /\ why' = {} /\ UNCHANGED pressed_mod
Failed(e) == Round(e) /\ Ends({"failure"}) /\ UNCHANGED streamVars /\ UNCHANGED pressed_mod

LEMMA ReadCases ==
    ASSUME TypeInv, Read
    PROVE  \E e \in KeyEvent : Quit(e) \/ Passed(e) \/ Forwarded(e) \/ Failed(e)
<1> DEFINE e == Head(buffer)
<1>1. e \in KeyEvent
  <2>1. buffer \in Seq(KeyEvent \cup {SYN_DROPPED}) /\ buffer # <<>> /\ e # SYN_DROPPED
    BY DEF Read, TypeInv, Kernel
  <2> QED BY <2>1
<1>2. Round(e)  BY DEF Read, Round
<1>3. \/ Quits(e) /\ Ends(LeftDown(e)) /\ UNCHANGED <<pressed_mod, streamVars>>
      \/ /\ ~Quits(e) /\ ~Sent(e)
         /\ pressed_mod' = IF ~IsModifier(e) \/ e.state = "hold" THEN pressed_mod
                           ELSE IF Down(e) THEN pressed_mod \cup {e.key} ELSE pressed_mod \ {e.key}
         /\ buffer' = Tail(buffer)
         /\ UNCHANGED <<script, why, streamVars>>
      \/ /\ ~Quits(e) /\ Sent(e)
         /\ Stream!Submit(ReportOf(e))
         /\ script' = "send" /\ why' = {} /\ buffer' = Tail(buffer)
         /\ UNCHANGED pressed_mod
      \/ Ends({"failure"}) /\ UNCHANGED <<pressed_mod, streamVars>>
  BY Zenon DEF Read
<1> HIDE DEF e
<1> QED BY <1>1, <1>2, <1>3 DEF Quit, Passed, Forwarded, Failed

(* Every step of Forward is a step of the dongles or none. *)
LEMMA StreamStep ==
    ASSUME TypeInv, [Next]_vars PROVE [Stream!Next]_(Stream!vars)
<1> USE DEF streamVars, Stream!vars
<1>1. ASSUME NEW k \in Keys, NEW state \in {"down", "up", "hold"}, Stroke(k, state)
      PROVE  UNCHANGED Stream!vars
  BY <1>1 DEF Stroke
<1>2. CASE Start  BY <1>2 DEF Start
<1>3. CASE ReadDropped  BY <1>3 DEF ReadDropped
<1>4. CASE Read
  <2>1. PICK e \in KeyEvent : Quit(e) \/ Passed(e) \/ Forwarded(e) \/ Failed(e)  BY <1>4, ReadCases
  <2>2. CASE Forwarded(e)
    <3>1. Sent(e) /\ Stream!Submit(ReportOf(e))  BY <2>2 DEF Forwarded
    <3>2. ReportOf(e) \in Rep  BY <3>1, SentReport
    <3> QED BY <3>1, <3>2 DEF Stream!Next
  <2>3. CASE ~Forwarded(e)  BY <2>1, <2>3 DEF Quit, Passed, Failed
  <2> QED BY <2>2, <2>3
<1>5. CASE Transferred  BY <1>5 DEF Transferred, Stream!Next
<1>6. CASE TransferTimeout \/ Kill  BY <1>6 DEF TransferTimeout, Kill
<1>7. CASE Deliver  BY <1>7 DEF Deliver, Stream!Next
<1>8. CASE Restart  BY <1>8 DEF Restart, Stream!Next
<1>9. CASE UNCHANGED vars  BY <1>9 DEF vars
<1> QED BY <1>1, <1>2, <1>3, <1>4, <1>5, <1>6, <1>7, <1>8, <1>9 DEF Next

LEMMA TypeStep ==
    ASSUME TypeInv, Between, [Next]_vars PROVE TypeInv'
<1>a. Shapes'
  BY StreamStep, ShapesStep DEF TypeInv
<1> SUFFICES Kernel' /\ Loop'
  BY <1>a DEF TypeInv
<1>b. Kernel /\ Loop  BY DEF TypeInv
<1>c. ASSUME buffer' = <<>> PROVE Kernel'
  <2>1. Len(buffer') = 0 /\ buffer' \in Seq(KeyEvent \cup {SYN_DROPPED})  BY <1>c
  <2> QED BY <2>1, ForwardAssumption DEF Kernel
<1>d. ASSUME buffer # <<>>, buffer' = Tail(buffer) PROVE Kernel'
  <2>1. /\ buffer' \in Seq(KeyEvent \cup {SYN_DROPPED})
        /\ Len(buffer) \in Nat /\ Len(buffer') = Len(buffer) - 1
    BY <1>d, BufferRead
  <2> QED BY <2>1, <1>b, ForwardAssumption DEF Kernel
<1>e. ASSUME buffer' = buffer PROVE Kernel'
  BY <1>e, <1>b DEF Kernel
<1>1. ASSUME NEW k \in Keys, NEW state \in {"down", "up", "hold"}, Stroke(k, state)
      PROVE  Kernel' /\ Loop'
  <2>1. [key |-> k, state |-> state] \in KeyEvent  BY DEF KeyEvent
  <2>2. Kernel'  BY <1>1, <2>1, BufferGrows DEF Stroke, Kernel
  <2>3. Loop'  BY <1>1, <1>b DEF Loop, Stroke, loopVars
  <2> QED BY <2>2, <2>3
<1>2. CASE Start
  <2>1. Loop'  BY <1>2, <1>b DEF Loop, Start
  <2>2. Kernel'  BY <1>2, <1>e DEF Start
  <2> QED BY <2>1, <2>2
<1>3. CASE ReadDropped
  <2>1. Loop'  BY <1>3, <1>b DEF Loop, ReadDropped, loopVars
  <2>2. Kernel'  BY <1>3, <1>d DEF ReadDropped
  <2> QED BY <2>1, <2>2
<1>4. CASE Read
  <2>1. PICK e \in KeyEvent : Quit(e) \/ Passed(e) \/ Forwarded(e) \/ Failed(e)  BY <1>4, ReadCases
  <2>2. Kernel'
    BY <2>1, <1>c, <1>d DEF Quit, Passed, Forwarded, Failed, Round, Ends
  <2>3. e.key \in Keys  BY DEF KeyEvent
  <2>4. held' \subseteq Keys /\ fingers' \subseteq Keys
    BY <2>1, <2>3, <1>b DEF Loop, Quit, Passed, Forwarded, Failed, Round, HeldAfter
  <2>5. pressed_mod' \subseteq MODIFIER_KEYS
    BY <2>1, <1>b DEF Loop, Quit, Passed, Forwarded, Failed, IsModifier
  <2>6. script' \in {"off", "read", "send"}
    BY <2>1, <1>b DEF Loop, Quit, Passed, Forwarded, Failed, Ends
  <2>7. why' \subseteq {"combination", "failure", "killed", "dropped", "restart"}
    BY <2>1, <1>b DEF Loop, Quit, Passed, Forwarded, Failed, Ends, LeftDown
  <2> QED BY <2>2, <2>4, <2>5, <2>6, <2>7 DEF Loop
<1>5. CASE Transferred
  <2>1. Loop'  BY <1>5, <1>b DEF Loop, Transferred, loopVars, Ends
  <2>2. Kernel'  BY <1>5, <1>c, <1>e DEF Transferred, Ends
  <2> QED BY <2>1, <2>2
<1>6. CASE TransferTimeout \/ Kill
  <2>1. Loop'  BY <1>6, <1>b DEF Loop, TransferTimeout, Kill, loopVars, Ends
  <2>2. Kernel'  BY <1>6, <1>c DEF TransferTimeout, Kill, Ends
  <2> QED BY <2>1, <2>2
<1>7. CASE Deliver
  <2>1. Loop'  BY <1>7, <1>b DEF Loop, Deliver, loopVars
  <2>2. Kernel'  BY <1>7, <1>e DEF Deliver
  <2> QED BY <2>1, <2>2
<1>8. CASE Restart
  <2>1. Loop'  BY <1>8, <1>b DEF Loop, Restart, loopVars
  <2>2. Kernel'  BY <1>8, <1>e DEF Restart
  <2> QED BY <2>1, <2>2
<1>9. CASE UNCHANGED vars
  <2>1. Loop'  BY <1>9, <1>b DEF Loop, vars, loopVars
  <2>2. Kernel'  BY <1>9, <1>e DEF vars
  <2> QED BY <2>1, <2>2
<1> QED BY <1>1, <1>2, <1>3, <1>4, <1>5, <1>6, <1>7, <1>8, <1>9 DEF Next
-----------------------------------------------------------------------------
(* The loop: what the buffer and held say of the key being shown. *)
LEMMA HonestTail ==
    ASSUME TypeInv, Honest, buffer # <<>>, buffer' = Tail(buffer), fingers' = fingers
    PROVE  Honest'
<1> USE BufferRead
<1> SUFFICES ASSUME NEW i \in 1..Len(buffer'), LastEvent(i)'
             PROVE  Down(buffer'[i]) <=> buffer'[i].key \in fingers'
  BY Zenon DEF Honest, Down
<1>1. i + 1 \in 1..Len(buffer) /\ buffer'[i] = buffer[i + 1]  OBVIOUS
<1>2. ASSUME NEW j \in 1..Len(buffer), j > i + 1 PROVE buffer[j].key # buffer[i + 1].key
  <2>1. j - 1 \in 1..Len(buffer') /\ j - 1 > i /\ buffer'[j - 1] = buffer[(j - 1) + 1]  BY <1>2
  <2>2. (j - 1) + 1 = j  OBVIOUS
  <2>3. buffer'[j - 1].key # buffer'[i].key  BY <2>1 DEF LastEvent
  <2> QED BY <1>1, <2>1, <2>2, <2>3
<1>3. LastEvent(i + 1)  BY <1>1, <1>2 DEF LastEvent
<1> QED BY <1>1, <1>3 DEF Honest

(* A step that reads nothing, or the one that ends the script. *)
LEMMA HeardIdle ==
    ASSUME Heard, why \subseteq why', UNCHANGED <<fingers, held, current>>,
           \/ buffer' = buffer /\ (script' = "off" <=> script = "off")
           \/ buffer' = <<>> /\ why' # {} /\ script' = "off"
    PROVE  Heard'
<1>1. CASE buffer' = buffer /\ (script' = "off" <=> script = "off")
  <2>1. Honest' /\ Open'  BY <1>1 DEF Heard, Honest, Open, LastEvent, Down
  <2>2. InHeld' /\ OnKeyboard'  BY <1>1 DEF Heard, InHeld, OnKeyboard, Marked, Mentions
  <2> QED BY <2>1, <2>2 DEF Heard
<1>2. CASE buffer' = <<>> /\ why' # {} /\ script' = "off"
  <2>1. Honest'  BY <1>2 DEF Honest
  <2>2. Open' /\ InHeld' /\ OnKeyboard'  BY <1>2 DEF Open, InHeld, OnKeyboard
  <2> QED BY <2>1, <2>2 DEF Heard
<1> QED BY <1>1, <1>2

LEMMA HeardStroke ==
    ASSUME TypeInv, Heard, NEW k \in Keys, NEW state \in {"down", "up", "hold"}, Stroke(k, state)
    PROVE  Heard'
<1> DEFINE e == [key |-> k, state |-> state]
<1>1. e \in KeyEvent /\ e.key = k /\ e.state = state  BY DEF KeyEvent
<1>2. fingers' = IF state = "up" THEN fingers \ {k} ELSE fingers \cup {k}  BY DEF Stroke
<1>3. buffer' = Kept(e) /\ UNCHANGED <<script, held, why, current>>
  BY DEF Stroke, loopVars, streamVars
<1> HIDE DEF e
<1>4. Honest'
  <2> SUFFICES ASSUME NEW i \in 1..Len(buffer'), LastEvent(i)'
               PROVE  Down(buffer'[i]) <=> buffer'[i].key \in fingers'
    BY Zenon DEF Honest, Down
  <2>1. script # "off" /\ buffer'[Len(buffer')] = e /\ Len(buffer') \in Nat \ {0}
    BY <1>1, <1>3, BufferGrows
  <2>2. CASE i = Len(buffer')
    BY <2>1, <2>2, <1>1, <1>2 DEF Down
  <2>3. CASE i # Len(buffer')
    <3>1. buffer'[i] # SYN_DROPPED /\ \A j \in 1..Len(buffer') : j > i => buffer'[j].key # buffer'[i].key
      BY DEF LastEvent
    <3>2. Len(buffer') = Len(buffer) + 1 /\ i \in 1..Len(buffer) /\ buffer'[i] = buffer[i]
      BY <2>3, <3>1, <1>1, <1>3, BufferGrows
    <3>3. \A j \in 1..Len(buffer) : buffer'[j] = buffer[j]
      <4>1. CASE \E j \in 1..Len(buffer') : buffer'[j] = SYN_DROPPED /\ buffer' = <<SYN_DROPPED, e>>
        <5>1. Len(buffer') = 2  BY <4>1
        <5>2. buffer'[1] = SYN_DROPPED  BY <4>1
        <5> QED BY <5>1, <5>2, <2>3, <3>1
      <4>2. CASE buffer' = Append(buffer, e)
        BY <4>2 DEF TypeInv, Kernel
      <4> QED BY <4>1, <4>2, <1>3, <2>1 DEF Kept
    <3>4. buffer'[i].key # k  BY <2>1, <2>3, <3>1, <1>1
    <3>5. LastEvent(i)  BY <3>1, <3>2, <3>3 DEF LastEvent
    <3>6. Down(buffer[i]) <=> buffer[i].key \in fingers  BY <3>2, <3>5 DEF Heard, Honest
    <3> QED BY <3>2, <3>4, <3>6, <1>2
  <2> QED BY <2>2, <2>3
<1>5. Open' /\ InHeld'  BY <1>3 DEF Heard, Open, InHeld
<1>6. OnKeyboard'
  <2> SUFFICES ASSUME why' = {}, current'.rep[2] # NoKey, ~Marked', ~Mentions(current.rep[2])'
               PROVE  current'.rep[2] \in fingers'
    BY DEF OnKeyboard, Mentions
  <2> DEFINE c == current.rep[2]
  <2>1. why = {} /\ c # NoKey /\ script # "off"  BY <1>3 DEF Heard, InHeld
  <2>2. Len(buffer') \in 1..Len(buffer') /\ buffer'[Len(buffer')] = e  BY <2>1, <1>1, <1>3, BufferGrows
  <2>3. c # k  BY <2>2, <1>1, <1>3 DEF Mentions
  <2>4. Len(buffer') = Len(buffer) + 1 /\ \A i \in 1..Len(buffer) : buffer'[i] = buffer[i]
    BY <2>1, <1>1, <1>3, BufferGrows DEF Marked
  <2>5. Len(buffer) \in Nat  BY DEF TypeInv, Kernel
  <2>6. ~Marked  BY <2>4, <2>5 DEF Marked
  <2>7. ~Mentions(c)  BY <2>4, <2>5, <1>3 DEF Mentions
  <2>8. c \in fingers  BY <2>1, <2>6, <2>7 DEF Heard, OnKeyboard
  <2> QED BY <2>3, <2>8, <1>2, <1>3
<1> QED BY <1>4, <1>5, <1>6 DEF Heard

LEMMA HeardRead ==
    ASSUME TypeInv, Heard, NEW e \in KeyEvent,
           Quit(e) \/ Passed(e) \/ Forwarded(e) \/ Failed(e)
    PROVE  Heard'
<1> DEFINE c == current.rep[2]
<1>1. Round(e)  BY DEF Quit, Passed, Forwarded, Failed
<1>2. /\ buffer # <<>> /\ e = buffer[1] /\ Len(buffer) \in Nat \ {0} /\ e # SYN_DROPPED
      /\ e.key # NoKey /\ e.state \in {"down", "up", "hold"}
  BY <1>1, ForwardAssumption DEF Round, TypeInv, Kernel, KeyEvent
<1>3. c \in KEY_MAP \cup {NoKey}
  BY DEF TypeInv, Shapes, Stream!Event, Rep
<1>4. ASSUME buffer' = Tail(buffer), NEW k, k = e.key, ~Mentions(k)'
      PROVE  Down(e) <=> k \in fingers
  <2>1. ASSUME NEW j \in 1..Len(buffer), j > 1 PROVE buffer[j].key # k
    <3>1. j - 1 \in 1..Len(buffer') /\ buffer'[j - 1] = buffer[(j - 1) + 1] /\ (j - 1) + 1 = j
      BY <1>2, <1>4, <2>1, BufferRead
    <3> QED BY <1>4, <3>1 DEF Mentions
  <2>2. 1 \in 1..Len(buffer)  BY <1>2
  <2>3. LastEvent(1)  BY <1>2, <1>4, <2>1, <2>2 DEF LastEvent
  <2> QED BY <1>2, <1>4, <2>2, <2>3 DEF Heard, Honest
<1>5. CASE Quit(e)
  <2>1. /\ script' = "off" /\ buffer' = <<>> /\ why' = why \cup LeftDown(e) /\ current' = current
        /\ held' = HeldAfter(e) /\ EXIT_COMBO \subseteq HeldAfter(e) /\ script = "read"
    BY <1>5 DEF Quit, Round, Ends, Quits, streamVars
  <2>2. ASSUME why' = {}, c # NoKey PROVE FALSE
    <3>1. why = {} /\ c = e.key  BY <2>1, <2>2 DEF LeftDown
    <3>2. e.key \in held /\ ~(EXIT_COMBO \subseteq held)
      BY <3>1, <2>1, <2>2 DEF Heard, InHeld, Open
    <3>3. HeldAfter(e) \subseteq held  BY <3>2 DEF HeldAfter
    <3> QED BY <2>1, <3>2, <3>3
  <2>3. Honest'  BY <2>1 DEF Honest
  <2> QED BY <2>1, <2>2, <2>3 DEF Heard, Open, InHeld, OnKeyboard
<1>6. CASE Passed(e)
  <2>1. /\ buffer' = Tail(buffer) /\ current' = current /\ script' = script /\ why' = why
        /\ fingers' = fingers /\ held' = HeldAfter(e) /\ ~(EXIT_COMBO \subseteq HeldAfter(e))
        /\ script = "read" /\ ~Sent(e)
    BY <1>6 DEF Passed, Round, Quits, streamVars
  <2>2. Honest'  BY <2>1, <1>2, HonestTail DEF Heard
  <2>3. Open'  BY <2>1 DEF Open
  <2>4. InHeld'
    <3> SUFFICES ASSUME why = {}, c # NoKey PROVE c \in HeldAfter(e)
      BY <2>1 DEF InHeld
    <3>1. c \in held /\ c \in KEY_MAP  BY <1>3 DEF Heard, InHeld
    <3>2. c = e.key => Down(e)  BY <2>1, <3>1, <1>2 DEF Sent, Down
    <3> QED BY <3>1, <3>2 DEF HeldAfter
  <2>5. OnKeyboard'
    <3> SUFFICES ASSUME why = {}, c # NoKey, ~Marked', ~Mentions(c)' PROVE c \in fingers
      BY <2>1 DEF OnKeyboard, Mentions
    <3>1. CASE c = e.key
      <4>1. Down(e)  BY <2>1, <3>1, <1>2, <1>3 DEF Sent, Down
      <4> QED BY <1>4, <2>1, <3>1, <4>1
    <3>2. CASE c # e.key
      <4>1. \A i \in 1..Len(buffer) : i = 1 \/ (i - 1 \in 1..Len(buffer') /\ buffer[i] = buffer'[i - 1])
        <5> TAKE i \in 1..Len(buffer)
        <5>1. CASE i # 1
          <6>1. i - 1 \in 1..Len(buffer') /\ (i - 1) + 1 = i  BY <5>1, <1>2, <2>1, BufferRead
          <6> QED BY <6>1, <1>2, <2>1, BufferRead
        <5> QED BY <5>1
      <4>2. ~Marked  BY <4>1, <1>2 DEF Marked
      <4>3. ~Mentions(c)  BY <4>1, <3>2, <1>2, <2>1 DEF Mentions
      <4> QED BY <4>2, <4>3 DEF Heard, OnKeyboard
    <3> QED BY <3>1, <3>2
  <2> QED BY <2>2, <2>3, <2>4, <2>5 DEF Heard
<1>7. CASE Forwarded(e)
  <2>1. /\ buffer' = Tail(buffer) /\ current'.rep = ReportOf(e) /\ script' = "send"
        /\ fingers' = fingers /\ held' = HeldAfter(e) /\ ~(EXIT_COMBO \subseteq HeldAfter(e))
    BY <1>7 DEF Forwarded, Round, Quits, Stream!Submit
  <2>2. Honest'  BY <2>1, <1>2, HonestTail DEF Heard
  <2>3. Open'  BY <2>1 DEF Open
  <2>4. current'.rep[2] # NoKey => Down(e) /\ current'.rep[2] = e.key
    BY <2>1 DEF ReportOf, NoKeys
  <2>5. InHeld'  BY <2>1, <2>4 DEF InHeld, HeldAfter
  <2>6. OnKeyboard'
    <3> SUFFICES ASSUME current'.rep[2] # NoKey, ~Mentions(e.key)' PROVE e.key \in fingers'
      BY <2>4 DEF OnKeyboard, Mentions
    <3> QED BY <1>4, <2>1, <2>4
  <2> QED BY <2>2, <2>3, <2>5, <2>6 DEF Heard
<1>8. CASE Failed(e)
  <2>1. script' = "off" /\ buffer' = <<>> /\ why' # {}  BY <1>8 DEF Failed, Ends
  <2>2. Honest'  BY <2>1 DEF Honest
  <2> QED BY <2>1, <2>2 DEF Heard, Open, InHeld, OnKeyboard
<1> QED BY <1>5, <1>6, <1>7, <1>8

LEMMA HeardStep ==
    ASSUME TypeInv, Heard, [Next]_vars PROVE Heard'
<1> USE DEF loopVars, streamVars
<1>1. ASSUME NEW k \in Keys, NEW state \in {"down", "up", "hold"}, Stroke(k, state)
      PROVE  Heard'
  BY <1>1, HeardStroke
<1>2. CASE Start
  <2>1. Honest'  BY <1>2 DEF Start, Heard, Honest, LastEvent, Down
  <2>2. Open'  BY <1>2, ForwardAssumption DEF Start, Open
  <2>3. InHeld' /\ OnKeyboard'  BY <1>2 DEF Start, Heard, InHeld, OnKeyboard, Marked, Mentions
  <2> QED BY <2>1, <2>2, <2>3 DEF Heard
<1>3. CASE ReadDropped
  <2>1. Honest'  BY <1>3, HonestTail DEF ReadDropped, Heard
  <2> QED BY <1>3, <2>1 DEF ReadDropped, Heard, Open, InHeld, OnKeyboard
<1>4. CASE Read
  BY <1>4, ReadCases, HeardRead
<1>5. CASE Transferred
  BY <1>5, HeardIdle DEF Transferred, Ends, Stream!Outcome
<1>6. CASE TransferTimeout \/ Kill
  BY <1>6, HeardIdle DEF TransferTimeout, Kill, Ends
<1>7. CASE Deliver
  BY <1>7, HeardIdle DEF Deliver, Stream!Accept, Stream!Show
<1>8. CASE Restart
  BY <1>8, HeardIdle DEF Restart, Stream!Restart, Stream!SenderRestart
<1>9. CASE UNCHANGED vars
  BY <1>9, HeardIdle DEF vars
<1> QED BY <1>1, <1>2, <1>3, <1>4, <1>5, <1>6, <1>7, <1>8, <1>9 DEF Next
-----------------------------------------------------------------------------
(* The transfer: the loop waits for its answer, and only then reads on. *)
LEMMA AnsweredStep ==
    ASSUME TypeInv, Between, Numbered, Answered, [Next]_vars PROVE Answered'
<1> USE DEF loopVars, streamVars, Answered, Waits, Arrives, OnTheWay
<1>1. ASSUME NEW k \in Keys, NEW state \in {"down", "up", "hold"}, Stroke(k, state)
      PROVE  Answered'
  BY <1>1 DEF Stroke
<1>2. CASE Start  BY <1>2 DEF Start
<1>3. CASE ReadDropped  BY <1>3 DEF ReadDropped
<1>4. CASE Read
  <2>1. PICK e \in KeyEvent : Quit(e) \/ Passed(e) \/ Forwarded(e) \/ Failed(e)  BY <1>4, ReadCases
  <2>2. script = "read"  BY <1>4 DEF Read
  <2>3. CASE Forwarded(e)  BY <2>3 DEF Forwarded, Stream!Submit
  <2>4. CASE Quit(e)  BY <2>2, <2>4 DEF Quit, Ends
  <2>5. CASE Passed(e)  BY <2>5 DEF Passed
  <2>6. CASE Failed(e)  BY <2>6 DEF Failed, Ends
  <2> QED BY <2>1, <2>3, <2>4, <2>5, <2>6
<1>5. CASE Transferred
  <2>1. /\ busy /\ ~busy' /\ UNCHANGED <<current, accepted, pipe, screen>>
        /\ delivered' => accepted
    BY <1>5 DEF Transferred, Stream!Outcome
  <2>2. why \subseteq why' /\ (script = "send" /\ ~delivered' => why' # {})
    BY <1>5 DEF Transferred, Ends
  <2> QED BY <2>1, <2>2
<1>6. CASE TransferTimeout \/ Kill  BY <1>6 DEF TransferTimeout, Kill, Ends
<1>7. CASE Deliver
  <2>1. CASE Stream!Accept  BY <1>7, <2>1 DEF Deliver, Stream!Accept
  <2>2. CASE Stream!Show
    <3>1. PICK e \in pipe : screen' = e /\ pipe' = pipe \ {e}  BY <2>2 DEF Stream!Show
    <3>2. e.id \in Nat /\ screen.id \in Nat /\ current.id \in Nat
      BY DEF TypeInv, Shapes, Stream!Event
    <3>3. screen = current => e = current  BY <3>2 DEF Between, Numbered
    <3>4. UNCHANGED <<current, busy, accepted, why, script>>  BY <1>7, <2>2 DEF Deliver, Stream!Show
    <3> QED BY <3>1, <3>3, <3>4
  <2> QED BY <1>7, <2>1, <2>2 DEF Deliver
<1>8. CASE Restart  BY <1>8 DEF Restart, Stream!Restart, Stream!SenderRestart
<1>9. CASE UNCHANGED vars  BY <1>9 DEF vars
<1> QED BY <1>1, <1>2, <1>3, <1>4, <1>5, <1>6, <1>7, <1>8, <1>9 DEF Next
-----------------------------------------------------------------------------
LEMMA Invariance == Spec => []IInv
<1>1. Init => IInv
  <2>1. ASSUME Init PROVE IInv
    <3>1. TypeInv  BY <2>1, TypeInit
    <3>2. Heard
      BY <2>1 DEF Init, Stream!Init, Heard, Honest, Open, InHeld, OnKeyboard, NoKeys
    <3>3. Between /\ Numbered
      BY <2>1 DEF Init, Stream!Init, Between, Numbered, OnTheWay
    <3>4. Answered
      BY <2>1 DEF Init, Stream!Init, Answered, Waits, Arrives, OnTheWay
    <3> QED BY <3>1, <3>2, <3>3, <3>4 DEF IInv
  <2> QED BY <2>1
<1>2. IInv /\ [Next]_vars => IInv'
  <2>1. ASSUME IInv, [Next]_vars PROVE IInv'
    <3>1. TypeInv'  BY <2>1, TypeStep DEF IInv
    <3>2. Heard'  BY <2>1, HeardStep DEF IInv
    <3>3. [Stream!Next]_(Stream!vars) /\ Shapes  BY <2>1, StreamStep DEF IInv, TypeInv
    <3>4. Between'  BY <2>1, <3>3, BetweenStep DEF IInv
    <3>5. Numbered'  BY <2>1, <3>3, NumberedStep DEF IInv
    <3>6. Answered'  BY <2>1, AnsweredStep DEF IInv
    <3> QED BY <3>1, <3>2, <3>4, <3>5, <3>6 DEF IInv
  <2> QED BY <2>1
<1> QED BY <1>1, <1>2, PTL DEF Spec

(* The state Forward's type invariant speaks of. *)
THEOREM TypeCorrect == Spec => []TypeOK
<1>1. IInv => TypeOK
  BY DEF IInv, TypeInv, Kernel, Loop, Shapes, Stream!Event, TypeOK
<1> QED BY <1>1, Invariance, PTL

(* keyboard_forward.py:read_loop(): once everything read has been sent and  *)
(* shown, the one key that can be down on the other machine is down on the  *)
(* keyboard, unless a transfer failed, the script was killed or ended by    *)
(* the combination over that key, the kernel dropped events, or the         *)
(* receiving dongle restarted.                                              *)
THEOREM StaysDownHasAReason == Spec => []StaysDownForAReason
<1>1. IInv => StaysDownForAReason
  <2> SUFFICES ASSUME IInv, Settled, why = {} PROVE screen.rep[2] \in fingers \cup {NoKey}
    BY DEF StaysDownForAReason
  <2>1. buffer = <<>> /\ ~busy /\ pipe = {}  BY DEF Settled
  <2>2. screen.id \in Nat /\ current.id \in Nat /\ screen.id <= current.id
    BY DEF IInv, TypeInv, Shapes, Stream!Event
  <2>3. screen = current
    BY <2>1, <2>2 DEF IInv, Answered, Arrives, OnTheWay, Numbered
  <2>4. ~Marked /\ ~Mentions(current.rep[2])  BY <2>1 DEF Marked, Mentions
  <2> QED BY <2>3, <2>4 DEF IInv, Heard, OnKeyboard
<1> QED BY <1>1, Invariance, PTL

(* The script asks of the dongles only what KeyStream allows, one event at  *)
(* a time, whatever the keyboard, the script's runs and the restarts do: so *)
(* its keys are shown in the order they were sent, each at most once while  *)
(* the receiving dongle does not restart.                                   *)
THEOREM ForwardUsesStream == Spec => Stream!Spec
<1>1. Init => Stream!Init  BY DEF Init
<1>2. IInv /\ [Next]_vars => [Stream!Next]_(Stream!vars)  BY StreamStep DEF IInv
<1> QED BY <1>1, <1>2, Invariance, PTL DEF Spec, Stream!Spec
=============================================================================
