------------------------------- MODULE MCEp0 -------------------------------
(* Ep0 with answers of one byte, of exactly one packet (GET_APP_DUMP) and   *)
(* of one packet and a bit (app_rx's configuration descriptor).             *)
EXTENDS Ep0

MCGetLen == [getLastResetCause |-> 1, getAppDump |-> 32, getConfiguration |-> 34]
MCGet == DOMAIN MCGetLen

=============================================================================
