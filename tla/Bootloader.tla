----------------------------- MODULE Bootloader -----------------------------
(***************************************************************************)
(* Rewriting the application area over USB: firmware/bootloader/src/       *)
(* bootloader.asm and the two host scripts that talk to it,                *)
(* tools/flash_firmware.py and tools/jump_to_app.py, with the things that  *)
(* happen to a dongle meanwhile: a script that dies, a reset, power lost.  *)
(*                                                                         *)
(* Flash contents are tracked per cell, the part of one WRITE_CHUNK that   *)
(* lies in one page; a word that was not erased before it is written, or   *)
(* whose operation was cut short, is "torn".  Requests are atomic except   *)
(* where the code is not: both flash operations run after the host has its *)
(* acknowledgment, and the data stage of WRITE_CHUNK is a loop of its own  *)
(* that takes any packet on endpoint 0 for data.                           *)
(***************************************************************************)
EXTENDS Integers, FiniteSetsExt

CONSTANTS Addresses,     (* where the hex file has a byte                  *)
          PAGE_SIZE,
          FLASH_PAGES,   (* pages of the chip                              *)
          MAX_CHUNK,     (* data bytes of one WRITE_CHUNK                  *)
          PacketLen,     (* endpoint 0 packets: 32 bytes                   *)
          SetupLen,      (* and setup packets: 8                           *)
          Stale,         (* what the counters may hold after a restart     *)
          MaxKills,      (* bound: scripts killed between two transfers    *)
          MaxDataKills,  (* bound: scripts killed in a data stage          *)
          MaxResets,     (* bound: external resets                         *)
          MaxCuts,       (* bound: power cuts                              *)
          MaxJumps       (* bound: runs of jump_to_app.py                  *)

APP_BASE == PAGE_SIZE    (* page 0 is the bootloader itself                *)

Wrap16 == 65536          (* the counters are two bytes                     *)
Word16 == 0..(Wrap16 - 1)

FLASH_END == FLASH_PAGES * PAGE_SIZE

ASSUME BootloaderAssumption ==
    /\ {MaxKills, MaxDataKills, MaxResets, MaxCuts, MaxJumps} \subseteq Nat
    /\ {PAGE_SIZE, FLASH_PAGES, MAX_CHUNK, PacketLen, SetupLen} \subseteq Nat \ {0}
    /\ PAGE_SIZE % 4 = 0 /\ MAX_CHUNK % 4 = 0 /\ MAX_CHUNK < 256
    /\ FLASH_PAGES <= 256 /\ FLASH_END <= Wrap16
    /\ Addresses \subseteq Nat
    /\ \E last \in Addresses : APP_BASE <= last /\ \A a \in Addresses : a <= last
    /\ Stale # {} /\ Stale \subseteq Word16
-----------------------------------------------------------------------------
(* flash(): what parse_ihx() found, bytes below APP_BASE left out, both     *)
(* ends aligned to flash words.                                             *)

(* Faulty variants: the safety filter gone; the last page not erased. *)
Unfiltered == Addresses
ShortOfLast(last) == last - 1

Kept == {a \in Addresses : a >= APP_BASE}
MinAddr == Min(Kept) - (Min(Kept) % 4)
MaxAddr == Max(Kept) - (Max(Kept) % 4) + 3
FullLen == MaxAddr - MinAddr + 1

(* What FLASH_STARTED declares.  Faulty variant: the length before padding. *)
UnpaddedLen == Max(Kept) - Min(Kept) + 1
DeclaredLen == FullLen

FirstPage == MinAddr \div PAGE_SIZE
LastPage == MaxAddr \div PAGE_SIZE
LastErased(last) == last
PagesToErase == FirstPage..LastErased(LastPage)

NChunks == (FullLen + MAX_CHUNK - 1) \div MAX_CHUNK
Chunk == 1..NChunks
ChunkAddr(c) == MinAddr + (c - 1) * MAX_CHUNK
ChunkLen(c) == IF c < NChunks THEN MAX_CHUNK ELSE FullLen - (c - 1) * MAX_CHUNK

(* The part of a chunk that lies in a page. *)
Part == [x \in Chunk \X (FirstPage..LastPage) |->
            {a \in ChunkAddr(x[1])..(ChunkAddr(x[1]) + ChunkLen(x[1]) - 1) : a \div PAGE_SIZE = x[2]}]
Cell == {x \in DOMAIN Part : x[2] < FLASH_PAGES /\ Part[x] # {}}

(* No script checks that the file ends within the chip's flash. *)
Fits == LastPage < FLASH_PAGES
-----------------------------------------------------------------------------
VARIABLES mode,       (* the dongle: "window" in usb_poll(), "recv" in the *)
                      (* data loop, "erase" or "write" in the RAM routine, *)
                      (* "status" while FLASH_FINISHED's answer is taken,  *)
                      (* "app" after the jump to APP_BASE                  *)
          expected,   (* EXPECTED_LEN                                      *)
          written,    (* WRITTEN_LEN                                       *)
          remain,     (* r7, data bytes still to come, mod 256             *)
          target,     (* chunk or page the current request names           *)
          clean,      (* every byte received so far is the chunk's         *)
          cell,       (* contents of the application area                  *)
          page0,      (* contents of the bootloader's page are intact      *)
          via         (* "power", or whose FLASH_FINISHED was the last     *)

VARIABLES script,     (* the script that runs: "none", "flash" or "jump"   *)
          step,       (* its next transfer                                 *)
          idx,        (* next page or chunk                                *)
          sent        (* bytes of the chunk already on the wire            *)

VARIABLE count        (* faults so far, by kind                            *)

devVars == <<mode, expected, written, remain, target, clean, cell, page0, via>>
hostVars == <<script, step, idx, sent>>
vars == <<devVars, hostVars, count>>

AllAre(v) == \A x \in Cell : cell[x] = v
Whole == AllAre("old") \/ AllAre("new")

(* A dongle that runs some complete application. *)
Init ==
    /\ mode = "app" /\ via = "power"
    /\ expected \in Stale /\ written \in Stale
    /\ remain = 0 /\ target = 0 /\ clean = TRUE
    /\ cell = [x \in Cell |-> "old"] /\ page0 = TRUE
    /\ script = "none" /\ step = "conf" /\ idx = 0 /\ sent = 0
    /\ count = [kills |-> 0, dataKills |-> 0, resets |-> 0, cuts |-> 0, jumps |-> 0]
-----------------------------------------------------------------------------
(* The scripts. *)
Counted(kind, bound) ==
    /\ count[kind] < bound
    /\ count' = [count EXCEPT ![kind] = @ + 1]

Begin(s) ==
    /\ script = "none" /\ mode # "app"
    /\ script' = s /\ step' = IF s = "flash" THEN "conf" ELSE "start"
    /\ idx' = 0 /\ sent' = 0

(* flash_firmware.py: find_bootloader() sees the bootloader on the bus. *)
RunFlash ==
    /\ Begin("flash")
    /\ UNCHANGED <<devVars, count>>

(* find_bootloader() sees an application and resets it: SOFT_RESET, then    *)
(* the watchdog.  A half-written application does not answer.  The window   *)
(* opens with whatever the application left in internal RAM.                *)
SoftReset ==
    /\ mode = "app" /\ Whole /\ script = "none"
    /\ mode' = "window"
    /\ expected' \in Stale /\ written' \in Stale
    /\ UNCHANGED <<remain, target, clean, cell, page0, via, hostVars, count>>

RunJump ==
    /\ Begin("jump")
    /\ Counted("jumps", MaxJumps)
    /\ UNCHANGED devVars

(* The script is gone: an exception, Ctrl-C, the cable of the host. *)
ScriptEnds == script' = "none" /\ UNCHANGED <<step, idx, sent>>

Kill ==
    /\ script # "none"
    /\ IF step = "data" THEN Counted("dataKills", MaxDataKills) ELSE Counted("kills", MaxKills)
    /\ ScriptEnds
    /\ UNCHANGED devVars
-----------------------------------------------------------------------------
(* usb_poll() serves a request.  set_configuration() changes nothing here. *)
Asks(s) == script # "none" /\ step = s

SetConfiguration ==
    /\ Asks("conf") /\ mode = "window"
    /\ step' = "start"
    /\ UNCHANGED <<devVars, script, idx, sent, count>>

(* FLASH_STARTED is through: flash() goes on to erase, jump_to_app.py,      *)
(* which declares zero bytes, to finish.                                    *)
Started ==
    /\ step' = IF script = "flash" THEN "erase" ELSE "finish"
    /\ idx' = FirstPage
    /\ UNCHANGED <<script, sent>>

(* handle_flash_started *)
FlashStarted ==
    /\ Asks("start") /\ mode = "window"
    /\ expected' = IF script = "flash" THEN DeclaredLen % Wrap16 ELSE 0
    /\ written' = 0
    /\ Started
    /\ UNCHANGED <<mode, remain, target, clean, cell, page0, via, count>>

(* handle_erase_page: acknowledged first, then erased.  Of the page number  *)
(* only the low byte of wValue is used.                                     *)
ErasePage ==
    /\ Asks("erase") /\ mode = "window"
    /\ idx \in PagesToErase
    /\ mode' = "erase" /\ target' = idx % 256
    /\ IF idx + 1 \in PagesToErase
       THEN idx' = idx + 1 /\ UNCHANGED step
       ELSE idx' = 1 /\ step' = "write"
    /\ UNCHANGED <<expected, written, remain, clean, cell, page0, via, script, sent, count>>

(* The bytes an operation reaches: the address of a chunk is a 16-bit       *)
(* wValue.  What lies beyond the flash is not there, or is the same flash   *)
(* again when the address bits above it are not decoded: the chip's guide   *)
(* leaves it open.                                                          *)
PageBytes == [p \in 0..255 |-> {a \in 0..(FLASH_END - 1) : a \div PAGE_SIZE = p}]
PagePlaces(p) == {PageBytes[p], PageBytes[p % FLASH_PAGES]}
ChunkPlaces ==
    [c \in Chunk |->
        LET first == ChunkAddr(c) % Wrap16
            asked == first..(first + ChunkLen(c) - 1)
        IN {{a \in asked : a < FLASH_END}, {a % FLASH_END : a \in asked}}]
Reached == CASE mode = "erase" -> PagePlaces(target)
             [] mode = "write" -> ChunkPlaces[target]
             [] OTHER -> {{}}
Hit(x, place) == \E a \in Part[x] : a \in place
SparesPage0(place) == \A a \in place : a \notin PageBytes[0]

(* do_flash_erase *)
EraseDone ==
    /\ mode = "erase"
    /\ mode' = "window"
    /\ \E place \in Reached :
           /\ cell' = [x \in Cell |-> IF Hit(x, place) THEN "erased" ELSE cell[x]]
           /\ page0' = (page0 /\ SparesPage0(place))
    /\ UNCHANGED <<expected, written, remain, target, clean, via, hostVars, count>>

(* handle_write_chunk, setup stage. *)
WriteChunk ==
    /\ Asks("write") /\ mode = "window"
    /\ mode' = "recv" /\ target' = idx
    /\ remain' = ChunkLen(idx) % 256
    /\ clean' = TRUE
    /\ step' = "data" /\ sent' = 0
    /\ UNCHANGED <<expected, written, cell, page0, via, script, idx, count>>

(* Faulty variant: a counter that is not the 8-bit register r7. *)
CountDownWide(r, n) == r - n
CountDown(r, n) == (r - n) % 256

(* recv_wait: n bytes from endpoint 0; when r7 gets to zero the chunk is    *)
(* acknowledged and counted, then written.                                  *)
Receive(n) ==
    /\ mode = "recv"
    /\ remain' = CountDown(remain, n)
    /\ IF remain' = 0
       THEN /\ mode' = "write"
            /\ written' = (written + ChunkLen(target)) % Wrap16
       ELSE UNCHANGED <<mode, written>>
    /\ UNCHANGED <<expected, target, cell, page0, via>>

PacketOf(left) == IF left < PacketLen THEN left ELSE PacketLen

DataPacket ==
    /\ Asks("data")
    /\ LET n == PacketOf(ChunkLen(idx) - sent) IN
           /\ Receive(n)
           /\ IF sent + n < ChunkLen(idx)
              THEN sent' = sent + n /\ UNCHANGED <<step, idx>>
              ELSE /\ sent' = 0 /\ idx' = idx + 1
                   /\ step' = IF idx < NChunks THEN "write" ELSE "finish"
    /\ UNCHANGED <<clean, script, count>>

(* A script's setup packet taken for data: the script that sent the first   *)
(* bytes died.  The packet that brings r7 to zero is acknowledged like the  *)
(* chunk's last one and its request never read: FLASH_STARTED went well for *)
(* the script, which goes on, with the counters as they were.  Any other    *)
(* request never completes, and only set_configuration()'s error is caught. *)
(* A script that has got beyond FLASH_STARTED meets the data loop only in   *)
(* its own data stages.                                                     *)
Swallow ==
    /\ script # "none" /\ step # "data"
    /\ Receive(SetupLen)
    /\ clean' = FALSE
    /\ CASE step = "conf" -> step' = "start" /\ UNCHANGED <<script, idx, sent>>
         [] step = "start" /\ remain' = 0 -> Started
         [] OTHER -> ScriptEnds
    /\ UNCHANGED count

(* The same with a request that is no script's: enumeration, or the name    *)
(* that usb_select.py asks for before a script begins.                      *)
OtherRequest ==
    /\ script = "none" \/ step # "data"
    /\ Receive(SetupLen)
    /\ clean' = FALSE
    /\ UNCHANGED <<hostVars, count>>

(* do_flash_write: programming only clears bits. *)
WriteDone ==
    /\ mode = "write"
    /\ mode' = "window"
    /\ \E place \in Reached :
           /\ cell' = [x \in Cell |->
                          IF ~Hit(x, place) THEN cell[x]
                          ELSE IF x[1] = target /\ clean /\ cell[x] = "erased" THEN "new"
                          ELSE "torn"]
           /\ page0' = (page0 /\ SparesPage0(place))
    /\ UNCHANGED <<expected, written, remain, target, clean, via, hostVars, count>>

LengthsMatch == written = expected

(* handle_flash_finished: the status is compared and handed to the host. *)
FlashFinished ==
    /\ Asks("finish") /\ mode = "window"
    /\ mode' = "status" /\ via' = script
    /\ step' = "status"
    /\ UNCHANGED <<expected, written, remain, target, clean, cell, page0, script, idx, sent, count>>

(* ff_txwait: the script takes the status, or, when it has died, the next   *)
(* setup packet on the bus ends its transfer.  Jump if the lengths match,   *)
(* and the dongle leaves the bus; else keep listening.  The script is done; *)
(* one that has come in between loses its request to the jump.              *)
StatusGone ==
    /\ mode = "status"
    /\ mode' = IF LengthsMatch THEN "app" ELSE "window"
    /\ IF LengthsMatch \/ step = "status" THEN ScriptEnds ELSE UNCHANGED hostVars
    /\ UNCHANGED <<expected, written, remain, target, clean, cell, page0, via, count>>
-----------------------------------------------------------------------------
(* A flash operation cut short leaves its cells in no defined state. *)
CutShort ==
    \E place \in Reached :
        /\ cell' = [x \in Cell |-> IF Hit(x, place) THEN "torn" ELSE cell[x]]
        /\ page0' = (page0 /\ SparesPage0(place))

(* The dongle leaves the bus: a script's next transfer fails. *)
Unplugged == CutShort /\ ScriptEnds /\ UNCHANGED <<remain, target, clean>>

(* External reset: SLEEPSTA.RST = 01, the window opens; internal RAM keeps  *)
(* what it held.                                                            *)
ExternalReset ==
    /\ Counted("resets", MaxResets)
    /\ mode' = "window"
    /\ Unplugged
    /\ UNCHANGED <<expected, written, via>>

(* Power-on: SLEEPSTA.RST = 00, straight to the application. *)
PowerCut ==
    /\ Counted("cuts", MaxCuts)
    /\ mode' = "app" /\ via' = "power"
    /\ expected' \in Stale /\ written' \in Stale
    /\ Unplugged
-----------------------------------------------------------------------------
Requests == SetConfiguration \/ FlashStarted \/ ErasePage \/ WriteChunk \/ DataPacket
                \/ Swallow \/ FlashFinished

Next ==
    \/ RunFlash
    \/ SoftReset
    \/ RunJump
    \/ Kill
    \/ Requests
    \/ OtherRequest
    \/ StatusGone
    \/ EraseDone
    \/ WriteDone
    \/ ExternalReset
    \/ PowerCut

Spec == Init /\ [][Next]_vars

(* The dongle runs, a script that is not killed goes on, and the user who   *)
(* wants the new application runs flash_firmware.py again.  Nobody else     *)
(* need ask for anything.                                                   *)
Fairness ==
    /\ WF_vars(EraseDone) /\ WF_vars(WriteDone)
    /\ WF_vars(Requests) /\ WF_vars(script # "none" /\ StatusGone)
    /\ WF_vars(RunFlash) /\ WF_vars(SoftReset)

FairSpec == Spec /\ Fairness
-----------------------------------------------------------------------------
Flash == [Cell -> {"old", "erased", "new", "torn"}]
FaultCounts == [kills : Nat, dataKills : Nat, resets : Nat, cuts : Nat, jumps : Nat]

Numbers ==
    /\ expected \in Word16 /\ written \in Word16
    /\ remain \in 0..255
    /\ target \in Nat /\ idx \in Nat /\ sent \in Nat
Names ==
    /\ mode \in {"window", "recv", "erase", "write", "status", "app"}
    /\ via \in {"power", "flash", "jump"}
    /\ script \in {"none", "flash", "jump"}
    /\ step \in {"conf", "start", "erase", "write", "data", "finish", "status"}

TypeOK ==
    /\ Numbers
    /\ Names
    /\ clean \in BOOLEAN /\ page0 \in BOOLEAN
    /\ cell \in Flash
    /\ count \in FaultCounts

(* bootloader.asm:391-396, flash_firmware.py:132-191: when FLASH_FINISHED   *)
(* of a flash_firmware.py run starts the application, the application area  *)
(* holds exactly the file, of a file that ends within the flash: whatever   *)
(* earlier scripts left behind, with FLASH_STARTED itself taken for data    *)
(* too, no cell is missing, written over an unerased one or made of another *)
(* request's bytes.                                                         *)
FinishedIsImage == mode = "app" /\ via = "flash" => AllAre("new")

(* flash_firmware.py:139-146: no run erases or writes the page the          *)
(* bootloader runs from, wherever the file begins and whatever a dead       *)
(* script's requests left behind, as long as the file ends within the       *)
(* flash; beyond, page numbers and addresses lose their upper bits on the   *)
(* way and may name page 0.                                                 *)
BootloaderIntact == page0

(* flash_firmware.py:20-25, "Already in the bootloader? Proceeds directly": *)
(* unless a script dies in a data stage, the power fails or an incomplete   *)
(* application is started by hand, the next run gets through and the new    *)
(* application starts, whatever was killed or reset before.                 *)
Recoverable == count.dataKills = 0 /\ count.cuts = 0 /\ count.jumps = 0
RetrySucceeds == []Recoverable => []<>(mode = "app" /\ AllAre("new"))

(* bootloader.asm:13, "an indefinite listening window": the dongle gets     *)
(* back to listening for requests.                                          *)
KeepsListening == (mode = "recv") ~> (mode # "recv")

=============================================================================
