---------------------------- MODULE MCBootUpdate ----------------------------
(* BootUpdate with the real page, chunk and packet sizes: a bootloader that *)
(* fills page 0 except for its last byte, five chunks.                      *)
EXTENDS BootUpdate

(* Up to the last byte of page 0, one word beyond it, across the boundary   *)
(* from below, and beyond the page.                                         *)
MCOtherWrites == {<<1008, 16>>, <<1008, 20>>, <<900, 252>>, <<767, 252>>, <<1024, 4>>}

(* A length of more than one byte. *)
MCLongWrites == {<<1020, 260>>}

=============================================================================
