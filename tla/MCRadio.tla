------------------------------- MODULE MCRadio -------------------------------
(* Radio with two packets of different CRC; the bounds on rounds and        *)
(* retransmissions are set in the configuration.                            *)
EXTENDS Radio

CONSTANTS zeros, p1, p2

MCFrame == {zeros, p1, p2}
MCCrc == [f \in MCFrame |-> f]

=============================================================================
