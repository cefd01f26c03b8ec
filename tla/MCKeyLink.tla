------------------------------ MODULE MCKeyLink ------------------------------
(* KeyLink on one key: with down and up there are two distinct reports, and *)
(* with the counter in each packet every frame of a run differs.            *)
EXTENDS KeyLink

OneKey == {<<2, 4>>}

=============================================================================
