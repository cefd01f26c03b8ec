------------------------------ MODULE MCForward ------------------------------
(* Forward with the keys of the exit combination, one more that is sent and *)
(* a buffer of two events (the kernel keeps at least 64 with their marks).  *)
EXTENDS Forward
=============================================================================
