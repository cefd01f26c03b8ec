----------------------------- MODULE BootUpdate -----------------------------
(***************************************************************************)
(* Rewriting the bootloader itself over USB: tools/update_bootloader.py    *)
(* with dump_app.py and the disposable program it loads,                   *)
(* bootloader/src/bootloader_updater.asm.                                  *)
(*                                                                         *)
(* The way is: back up the application, load the updater over it, erase    *)
(* and write page 0 from there, read it back, reset, restore.  Between the *)
(* erase and the reset the dongle has no bootloader, so everything hangs   *)
(* on when the reset happens.  Page 0 is kept per piece, what one          *)
(* WRITE_STAGE1_CHUNK covers; piece 0 is the rest of the page.  Loading    *)
(* and restoring are one flash() each: module Bootloader says what happens *)
(* inside.                                                                 *)
(***************************************************************************)
EXTENDS Integers, FiniteSets

CONSTANTS ImageTop,      (* highest address of the bootloader's hex file   *)
          PAGE_LEN,
          MAX_CHUNK,
          PacketLen,     (* endpoint 0 packets: 32 bytes                   *)
          SetupLen,      (* and setup packets: 8                           *)
          OtherWrites,   (* <<address, length>> of WRITE_STAGE1_CHUNKs     *)
                         (* another host program may send                  *)
          MaxKills,      (* bound: scripts killed between two transfers    *)
          MaxDataKills,  (* bound: scripts killed in a data stage          *)
          MaxCuts,       (* bound: power cuts and external resets          *)
          MaxBad,        (* bound: flash operations that do not take       *)
          MaxDeclines,   (* bound: reboots declined at the prompt          *)
          MaxOthers      (* bound: requests of other programs              *)

ASSUME BootUpdateAssumption ==
    /\ {ImageTop, MaxKills, MaxDataKills, MaxCuts, MaxBad, MaxDeclines, MaxOthers} \subseteq Nat
    /\ {PAGE_LEN, MAX_CHUNK, PacketLen, SetupLen} \subseteq Nat \ {0}
    /\ ImageTop < PAGE_LEN /\ PAGE_LEN % 4 = 0
    /\ MAX_CHUNK % 4 = 0 /\ MAX_CHUNK < 256
    /\ OtherWrites \subseteq Nat \X Nat
-----------------------------------------------------------------------------
(* write_and_verify(): whole flash words only. *)
ContentLen == ImageTop - (ImageTop % 4) + 4

NChunks == (ContentLen + MAX_CHUNK - 1) \div MAX_CHUNK
ChunkAddr(c) == (c - 1) * MAX_CHUNK
ChunkLen(c) == IF c < NChunks THEN MAX_CHUNK ELSE ContentLen - ChunkAddr(c)

Piece == 0..NChunks
All(v) == [p \in Piece |-> v]
Image == [All("new") EXCEPT ![0] = "erased"]

(* chk_write_stage1 on the bytes r3, r4 of the address and r5 of the length.*)
(* Faulty variants: any carry refused; only the high byte looked at.        *)
RefusesAnyCarry(addr, len) == addr \div 256 < 4 /\ (addr \div 256 = 3 => (addr % 256) + (len % 256) < 256)
HighByteOnly(addr, len) == addr \div 256 < 4
Accepts(addr, len) ==
    /\ addr \div 256 < 4
    /\ addr \div 256 = 3 => (addr % 256) + (len % 256) <= 256

(* do_flash_write writes wLength >> 2 words from word wValue >> 2.          *)
WordsInPage0(addr, len) == addr \div 4 + len \div 4 <= PAGE_LEN \div 4
-----------------------------------------------------------------------------
VARIABLES mode,       (* what the dongle runs: "boot", "app", "updater",   *)
                      (* "half" an application, or "dead": nothing at all  *)
          busy,       (* the updater: "poll", "recv" in the data loop,     *)
                      (* "erase", "write", or "reset" with WDCTL set       *)
          page0, area,(* the flash: the bootloader's page, by pieces, and  *)
                      (* the application area                              *)
          ownPage,    (* the updater's own page is untouched               *)
          remain,     (* r7, data bytes still to come, mod 256             *)
          target,     (* the chunk being received or written               *)
          clean       (* every byte received so far is the chunk's         *)

VARIABLES step,       (* where update_bootloader.py is                     *)
          idx, sent,  (* next chunk; bytes of it already on the wire       *)
          backup,     (* dump_path is not None                             *)
          said,       (* what the last run ended with                      *)
          dump,       (* the file app_dump.ihx                             *)
          declined,   (* the user went on knowing there is no backup       *)
          count       (* faults so far, by kind                            *)

devVars == <<mode, busy, page0, area, ownPage, remain, target, clean>>
hostVars == <<step, idx, sent, backup, said, dump, declined>>
vars == <<devVars, hostVars, count>>

Init ==
    /\ mode \in {"app", "boot"} /\ busy = "poll"
    /\ page0 = All("old") /\ area \in {"app", "foreign"} /\ ownPage = TRUE
    /\ remain = 0 /\ target = 0 /\ clean = TRUE
    /\ step = "none" /\ idx = 0 /\ sent = 0 /\ backup = FALSE /\ said = "nothing"
    /\ dump = "none" /\ declined = FALSE
    /\ count = [kills |-> 0, dataKills |-> 0, cuts |-> 0, bad |-> 0, declines |-> 0, others |-> 0]

Counted(kind, bound) ==
    /\ count[kind] < bound
    /\ count' = [count EXCEPT ![kind] = @ + 1]

Exit(outcome) == step' = "none" /\ said' = outcome
-----------------------------------------------------------------------------
(* update_bootloader.py up to the updater. *)
RunScript ==
    /\ step = "none"
    /\ step' = "preflight" /\ backup' = FALSE
    /\ UNCHANGED <<devVars, idx, sent, said, dump, declined, count>>

(* can_dump().  Faulty variant: whatever has the PID is taken for an app.   *)
AnyAppRuns == mode = "app"
OwnAppRuns == mode = "app" /\ area = "app"

(* preflight_and_maybe_dump: a backup is offered only while one of this     *)
(* repository's applications answers; else the user is warned.              *)
Preflight ==
    /\ step = "preflight"
    /\ \/ OwnAppRuns /\ step' = "dump" /\ UNCHANGED declined
       \/ step' = "find" /\ declined' = (declined \/ dump # "app")
    /\ UNCHANGED <<devVars, idx, sent, backup, said, dump, count>>

(* dump(): the file is written after the last transfer. *)
Dump ==
    /\ step = "dump" /\ OwnAppRuns
    /\ dump' = area /\ backup' = TRUE
    /\ step' = "find"
    /\ UNCHANGED <<devVars, idx, sent, said, declined, count>>

(* find_bootloader() sees the bootloader, or resets an application; it does *)
(* not look for the updater.                                                *)
FindBootloader ==
    /\ step \in {"find", "findNew"} /\ busy # "reset"
    /\ IF mode = "boot" \/ OwnAppRuns
       THEN /\ mode' = "boot" /\ UNCHANGED said
            /\ step' = IF step = "find" THEN "load" ELSE "restore"
       ELSE Exit("notFound") /\ UNCHANGED mode
    /\ UNCHANGED <<busy, page0, area, ownPage, remain, target, clean, idx, sent, backup, dump, declined, count>>

(* flash() of bootloader_updater.ihx or of the backup. *)
FlashBegins ==
    /\ step \in {"load", "restore"} /\ mode = "boot"
    /\ area' = "half"
    /\ step' = IF step = "load" THEN "loading" ELSE "restoring"
    /\ UNCHANGED <<mode, busy, page0, ownPage, remain, target, clean,
                   idx, sent, backup, said, dump, declined, count>>

FlashEnds ==
    /\ step \in {"loading", "restoring"} /\ mode = "boot"
    /\ IF step = "loading"
       THEN area' = "updater" /\ mode' = "updater" /\ ownPage' = TRUE /\ step' = "start" /\ UNCHANGED said
       ELSE area' = dump /\ mode' = "app" /\ Exit("restored") /\ UNCHANGED ownPage
    /\ busy' = "poll"
    /\ UNCHANGED <<page0, remain, target, clean, idx, sent, backup, dump, declined, count>>
-----------------------------------------------------------------------------
(* write_and_verify() and the updater's usb_poll(). *)
Asks(s) == step = s /\ mode = "updater" /\ busy = "poll"

(* find_device, then set_configuration and FLASH_STARTED. *)
Start ==
    /\ step = "start"
    /\ IF mode = "updater"
       THEN busy = "poll" /\ step' = "erase" /\ UNCHANGED said
       ELSE Exit("notFound")
    /\ UNCHANGED <<devVars, idx, sent, backup, dump, declined, count>>

EraseStage1 ==
    /\ Asks("erase")
    /\ busy' = "erase"
    /\ step' = "write" /\ idx' = 1
    /\ UNCHANGED <<mode, page0, area, ownPage, remain, target, clean,
                   sent, backup, said, dump, declined, count>>

WriteStage1 ==
    /\ Asks("write")
    /\ IF Accepts(ChunkAddr(idx), ChunkLen(idx))
       THEN /\ busy' = "recv" /\ target' = idx /\ clean' = TRUE
            /\ remain' = ChunkLen(idx) % 256
            /\ step' = "data" /\ sent' = 0 /\ UNCHANGED said
       ELSE Exit("exception") /\ UNCHANGED <<busy, target, clean, remain, sent>>
    /\ UNCHANGED <<mode, page0, area, ownPage, idx, backup, dump, declined, count>>

(* recv_wait.  Faulty variant: a counter that is not the 8-bit register r7. *)
CountDownWide(r, n) == r - n
CountDown(r, n) == (r - n) % 256

Receive(n) ==
    /\ busy = "recv"
    /\ remain' = CountDown(remain, n)
    /\ busy' = IF remain' = 0 THEN "write" ELSE "recv"
    /\ UNCHANGED <<mode, page0, area, ownPage, target>>

DataPacket ==
    /\ step = "data"
    /\ LET left == ChunkLen(idx) - sent
           n == IF left < PacketLen THEN left ELSE PacketLen
       IN /\ Receive(n)
          /\ IF n < left
             THEN sent' = sent + n /\ UNCHANGED <<step, idx>>
             ELSE /\ sent' = 0 /\ idx' = idx + 1
                  /\ step' = IF idx < NChunks THEN "write" ELSE "read"
    /\ UNCHANGED <<clean, backup, said, dump, declined, count>>

(* A setup packet of a later request, read_bootloader.py's say, taken for   *)
(* data after the script died in a data stage.                              *)
Swallow ==
    /\ step # "data" /\ Receive(SetupLen)
    /\ clean' = FALSE
    /\ UNCHANGED <<hostVars, count>>

(* do_flash_erase and do_flash_write, which may fail to take. *)
Takes == UNCHANGED count
Fails == Counted("bad", MaxBad)

EraseDone ==
    /\ busy = "erase"
    /\ busy' = "poll"
    /\ \/ Takes /\ page0' = All("erased")
       \/ Fails /\ page0' = All("torn")
    /\ UNCHANGED <<mode, area, ownPage, remain, target, clean, hostVars>>

WriteDone ==
    /\ busy = "write"
    /\ busy' = "poll"
    /\ LET whole == clean /\ page0[target] = "erased" /\ ChunkLen(target) % 4 = 0
       IN \/ Takes /\ page0' = [page0 EXCEPT ![target] = IF whole THEN "new" ELSE "torn"]
          \/ Fails /\ page0' = [page0 EXCEPT ![target] = "torn"]
    /\ ownPage' = (ownPage /\ WordsInPage0(ChunkAddr(target), ChunkLen(target)))
    /\ UNCHANGED <<mode, area, remain, target, clean, hostVars>>

(* The whole page is read back.  Faulty variant: only the first piece.      *)
FirstPieceOnly == page0[1] = "new"
Verified == page0 = Image

ReadBack ==
    /\ Asks("read")
    /\ IF Verified THEN step' = "ask" /\ UNCHANGED said ELSE Exit("mismatch")
    /\ UNCHANGED <<devVars, idx, sent, backup, dump, declined, count>>

(* The prompt: reboot, reboot and restore, or neither. *)
Answer ==
    /\ step = "ask"
    /\ \/ step' = "reset" /\ UNCHANGED <<said, count>>
       \/ backup /\ step' = "resetRestore" /\ UNCHANGED <<said, count>>
       \/ Counted("declines", MaxDeclines) /\ Exit("noReset")
    /\ UNCHANGED <<devVars, idx, sent, backup, dump, declined>>

(* handle_reset_stage1: acknowledged, then the watchdog is armed. *)
ResetStage1 ==
    /\ Asks("reset") \/ Asks("resetRestore")
    /\ busy' = "reset"
    /\ IF step = "reset" THEN Exit("reset") ELSE step' = "findNew" /\ UNCHANGED said
    /\ UNCHANGED <<mode, page0, area, ownPage, remain, target, clean,
                   idx, sent, backup, dump, declined, count>>

(* By hand, as the last message of the script says. *)
ResetByHand ==
    /\ step = "none" /\ said = "noReset"
    /\ mode = "updater" /\ busy = "poll"
    /\ busy' = "reset"
    /\ UNCHANGED <<mode, page0, area, ownPage, remain, target, clean, hostVars, count>>
-----------------------------------------------------------------------------
(* Resets. *)
PageBoots == page0 \in {All("old"), Image}

WatchdogFires ==
    /\ busy = "reset"
    /\ busy' = "poll"
    /\ mode' = IF PageBoots THEN "boot" ELSE "dead"
    /\ UNCHANGED <<page0, area, ownPage, remain, target, clean, hostVars, count>>

(* Power-on goes straight to the application area, an external reset to the *)
(* window.  A flash operation cut short is torn; a script in mid-transfer   *)
(* fails, one that is looking for a dongle goes on looking.                 *)
PowerOnTo == IF area \in {"updater", "half"} THEN area ELSE "app"

Interrupt ==
    /\ Counted("cuts", MaxCuts)
    /\ page0' = IF busy = "erase" THEN All("torn")
                ELSE IF busy = "write" THEN [page0 EXCEPT ![target] = "torn"] ELSE page0
    /\ mode' \in IF page0' \in {All("old"), Image} THEN {"boot", PowerOnTo} ELSE {"dead"}
    /\ busy' = "poll"
    /\ IF step \in {"none", "preflight", "find", "start", "findNew"}
       THEN UNCHANGED <<step, said>>
       ELSE Exit("exception")
    /\ UNCHANGED <<area, ownPage, remain, target, clean, idx, sent, backup, dump, declined>>

(* The script is killed, while it writes the dump file perhaps. *)
Kill ==
    /\ step # "none"
    /\ IF step = "data" THEN Counted("dataKills", MaxDataKills) ELSE Counted("kills", MaxKills)
    /\ dump' \in IF step = "dump" THEN {dump, "torn"} ELSE {dump}
    /\ Exit("killed")
    /\ UNCHANGED <<devVars, idx, sent, backup, declined>>

(* Another program's WRITE_STAGE1_CHUNK. *)
OtherHostWrites ==
    /\ mode = "updater" /\ busy = "poll" /\ step = "none"
    /\ Counted("others", MaxOthers)
    /\ \E w \in OtherWrites :
           IF Accepts(w[1], w[2])
           THEN page0' = All("torn") /\ ownPage' = (ownPage /\ WordsInPage0(w[1], w[2]))
           ELSE UNCHANGED <<page0, ownPage>>
    /\ UNCHANGED <<mode, busy, area, remain, target, clean, hostVars>>
-----------------------------------------------------------------------------
Script ==
    \/ Preflight
    \/ Dump
    \/ FindBootloader
    \/ FlashBegins
    \/ FlashEnds
    \/ Start
    \/ EraseStage1
    \/ WriteStage1
    \/ DataPacket
    \/ ReadBack
    \/ Answer
    \/ ResetStage1

Chip == EraseDone \/ WriteDone \/ WatchdogFires

Next ==
    \/ RunScript
    \/ Script
    \/ Chip
    \/ Swallow
    \/ ResetByHand
    \/ Interrupt
    \/ Kill
    \/ OtherHostWrites

Spec == Init /\ [][Next]_vars

(* The chip runs, a script that is not killed goes on, and the user runs    *)
(* it again.                                                                *)
Fairness == WF_vars(RunScript) /\ WF_vars(Script) /\ WF_vars(Chip)
FairSpec == Spec /\ Fairness
-----------------------------------------------------------------------------
Page0 == [Piece -> {"old", "erased", "new", "torn"}]
FaultCounts == [kills : Nat, dataKills : Nat, cuts : Nat, bad : Nat, declines : Nat, others : Nat]
Steps == {"none", "preflight", "dump", "find", "load", "loading", "start", "erase", "write", "data",
          "read", "ask", "reset", "resetRestore", "findNew", "restore", "restoring"}
Outcomes == {"nothing", "notFound", "exception", "mismatch", "noReset", "reset", "restored", "killed"}

Names ==
    /\ mode \in {"boot", "app", "updater", "half", "dead"}
    /\ busy \in {"poll", "recv", "erase", "write", "reset"}
    /\ area \in {"app", "foreign", "updater", "half"}
    /\ step \in Steps /\ said \in Outcomes
    /\ dump \in {"none", "app", "foreign", "torn"}
Numbers ==
    /\ remain \in 0..255 /\ target \in Piece
    /\ idx \in Nat /\ sent \in Nat

TypeOK ==
    /\ Names
    /\ Numbers
    /\ page0 \in Page0 /\ count \in FaultCounts
    /\ ownPage \in BOOLEAN /\ clean \in BOOLEAN /\ backup \in BOOLEAN /\ declined \in BOOLEAN

(* update_bootloader.py:10-12 and 165, "reset is the point of no return":   *)
(* whatever flash operation fails and wherever the script dies, only losing *)
(* power or another program's write leaves a dongle that cannot boot: the   *)
(* reset is never sent to a page that is not the whole image.               *)
OnlyPowerLossBricks == mode = "dead" => count.cuts > 0 \/ count.others > 0

(* update_bootloader.py:4-7, "this is the last chance to save it": unless   *)
(* the user goes on without a backup, the application is in the flash or in *)
(* the dump file at every moment, over any number of runs.                  *)
AppIsKept == ~declined => area \in {"app", "foreign"} \/ dump = "app"

(* bootloader_updater.asm:301-304: no WRITE_STAGE1_CHUNK gets out of page   *)
(* 0, into the page the updater runs from, "so a buggy host can never       *)
(* target the wrong page".                                                  *)
StaysInPage0 == ownPage

(* update_bootloader.py:1-18: without faults a run on one of this           *)
(* repository's dongles ends with the new bootloader in place, and if the   *)
(* user chose so, with the application restored and running.                *)
NoFault == \A k \in DOMAIN count : count[k] = 0
Updated == page0 = Image /\ mode \in {"boot", "app"}
Restored == page0 = Image /\ OwnAppRuns
UpdateCompletes ==
    [](NoFault /\ ~(mode = "app" /\ area = "foreign")) =>
        <>Updated /\ (step = "resetRestore" ~> Restored)
=============================================================================
