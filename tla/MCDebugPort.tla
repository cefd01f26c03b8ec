----------------------------- MODULE MCDebugPort -----------------------------
(* DebugPort with two values of a byte, every function of the driver, and   *)
(* parameters that tell their order; a program waits twice (250 times).     *)
EXTENDS DebugPort

Plain == {[op |-> o, args |-> <<>>] : o \in {p \in Op : Sends[p] = 0}}
With == {[op |-> "setConfig", args |-> <<High>>],
         [op |-> "exec", args |-> <<Low>>],
         [op |-> "exec2", args |-> <<Low, High>>],
         [op |-> "exec3", args |-> <<High, Low, Low>>],
         [op |-> "exec3", args |-> <<Low, Low, High>>]}
MCRequest == Plain \cup With
=============================================================================
