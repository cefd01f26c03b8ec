----------------------------- MODULE ReportQueue -----------------------------
(***************************************************************************)
(* What the keyboard endpoint of app_rx promises its caller and the host   *)
(* it is plugged into: reports form one queue, the caller appends, the     *)
(* host takes from the front, nothing is dropped, repeated or reordered    *)
(* (firmware/app_rx/src/usb_hid.c:34-39).  Two reports fit: one in the     *)
(* endpoint FIFO, one waiting in RAM.                                      *)
(***************************************************************************)
EXTENDS Naturals, Sequences

CONSTANTS Report,        (* the reports the caller may submit              *)
          NoKeys         (* what the host shows before the first report    *)

Capacity == 2

VARIABLES queue,         (* reports submitted and not yet taken            *)
          screen         (* the last report the host took                  *)

vars == <<queue, screen>>

Init == queue = <<>> /\ screen = NoKeys

Submit(r) ==
    /\ Len(queue) < Capacity
    /\ queue' = Append(queue, r)
    /\ UNCHANGED screen

Take ==
    /\ queue # <<>>
    /\ screen' = Head(queue)
    /\ queue' = Tail(queue)

Next == Take \/ \E r \in Report : Submit(r)

Spec == Init /\ [][Next]_vars

TypeOK == queue \in Seq(Report) /\ Len(queue) <= Capacity /\ screen \in Report

=============================================================================
