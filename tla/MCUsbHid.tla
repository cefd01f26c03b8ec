------------------------------ MODULE MCUsbHid ------------------------------
(* UsbHid on three distinct reports: enough for two in the endpoint, one on *)
(* the host's screen and none equal to another.                             *)
EXTENDS UsbHid

CONSTANTS none, down, up, other

MCReport == {none, down, up, other}

=============================================================================
