------------------------------ MODULE FlashFile ------------------------------
(***************************************************************************)
(* Bootloader with the hex file itself: what flash() makes of its records  *)
(* before it sends anything, and what is then in flash, byte by byte.      *)
(***************************************************************************)
EXTENDS Bootloader, HexImage

CONSTANT File           (* the records                                     *)

Record == [type : 0..255, addr : 0..65535, bytes : Seq(0..255)]

(* The addresses are those of the scripts' dictionary. *)
ASSUME FlashFileAssumption == File \in Seq(Record) /\ Addresses = DOMAIN parse_ihx(File)

(* data, without what lies below APP_BASE, and full. *)
Contents == LET data == parse_ihx(File) IN [a \in Kept |-> data[a]]
Full == [a \in MinAddr..MaxAddr |-> ByteOf(Contents, a)]

(* What flash holds at an address of the image; nothing is known of other   *)
(* contents.                                                                *)
CellAt(a) == <<(a - MinAddr) \div MAX_CHUNK + 1, a \div PAGE_SIZE>>
FlashByte(a) ==
    CASE cell[CellAt(a)] = "new" -> Full[a]
      [] cell[CellAt(a)] = "erased" -> Blank
      [] OTHER -> -1

(* flash_firmware.py:111-155: when FLASH_FINISHED of a flash_firmware.py    *)
(* run starts the application, every address of the image holds the byte    *)
(* of the last record that speaks of it, or 0xFF where none does: in        *)
(* whatever order the records come, with gaps, overlaps, bytes that belong  *)
(* to the bootloader and records after the end record, as long as the image *)
(* ends within the flash.                                                   *)
Requested(a) == IF a < APP_BASE THEN Blank ELSE FileByte(File, a)
FinishedIsFile ==
    mode = "app" /\ via = "flash" => \A a \in MinAddr..MaxAddr : FlashByte(a) = Requested(a)
=============================================================================
