# Verification of the CC2544 radio keyboard

TLA+ models, TLC runs and TLAPS proofs of the firmware in `src/firmware/` and
of the host scripts that drive it.  Two Logitech Unifying dongles are turned
into a one-way link for key events: `app_tx` takes them from a USB host and
sends them by radio, `app_rx` types them on another machine.  A third program,
the bootloader in page 0 of each dongle, replaces the application over USB.

## The system

| component | state it keeps | operations | talks to | what is hard | what makes it correct |
|---|---|---|---|---|---|
| Radio link (`app_common/radio.c`) | `rx_armed`, the engine's registers, FIFOs and semaphores | `radio_init`, `radio_send`, `radio_recv_poll` | the Link Layer Engine (LLE) through RFST, LLESTAT and PRF_ENDCAUSE; the other dongle by air | lost frames and acknowledgments, two levels of retry, end causes of earlier tasks, restarts with a task running | success means the receiver took the packet; sends end; the receiver listens again; retransmissions are recognised |
| Keyboard endpoint (`app_rx/src/usb_hid.c`) | `pending_report`, `report_pending`, the EP1 FIFO | `hid_send_report`, `hid_busy`, `hid_poll` | the machine, which polls EP1 every 10 ms | the host empties the FIFO between any two calls | a two-slot queue: nothing dropped, repeated, reordered |
| Applications (`app_tx`, `app_rx` main.c) | `seq`, `last_send_ok`; `last_pkt`, `have_pkt` | vendor requests, main loop | both of the above, the USB core | backpressure, order of the loop's calls | events are shown in order, accepted ones are not lost |
| USB core (`app_common/usb_core.c`) | endpoint 0, watchdog | control transfers, `SOFT_RESET`, `APP_RESTART` | the host scripts | blocking loops on endpoint 0, watchdog | every transfer ends, an abandoned one leaves the application alive or resets it |
| Bootloader (`bootloader.asm`) | `WRITTEN_LEN`, `EXPECTED_LEN`, r7, the flash | start, erase, write, finish | `flash_firmware.py`, `jump_to_app.py`, the application it jumps to | flash operations after the acknowledgment, its own data loop, power loss, scripts that die | what it starts is the file; page 0 survives; another run gets through |
| Bootloader updater (`bootloader_updater.asm`) | the same counters, page 0 | erase and write of page 0 | `update_bootloader.py`, `read_bootloader.py` | no bootloader while page 0 is erased | only page 0 is touched; reset only after verification |
| Application dump (`dump_app.py`, GET_APP_DUMP) | a copy of the application | dump, restore | `app_tx`, `app_rx` | ranges | a restored copy equals the original |
| Key forwarder (`tools/keyboard_forward.py`) | keys held | SEND_KEY per event | the kernel's event buffer, `app_tx` | failures, kills, overflows and the exit combination between down and up | a key stays down only for a reason |
| Hex files (`parse_ihx`, `write_ihx` of the tools, `inject_vectors_min.py`) | a dictionary of bytes | read, write, trim, inject a vector table | the flashing tools | gaps, overlaps, order, the upper half of an address | the flash holds what the last record for each address says |
| Debug driver (`debug/CCDebugger.c`) | `cc_active`, `inDebugMode`, `ddIsOutput`, three pins | enter, send a command, turn the wire, wait, read, turn back, let go, reset | the chip's debug interface; called by the programmer | one wire for both directions, a chip that is slow or gone, runs stopped anywhere, pins left by the last run | a call runs its command once and returns its answer; the two sides do not drive at once |
| Debug programmer (`debug/`) | page table of a hex file, whether the driver still has the chip | erase a unit, collect pages, write, verify, write again, start or reset | the driver, the user who runs it | records across pages, units of 1 KB in pages of 2 KB, a chip lost on the way, bad wires, flash not erased, runs cut short | "flash OK" means written; neither area is harmed by the other's tool; every run ends |
| Stock-firmware study (`logitech_stock_firmware/`) | none | offline disassembly | nothing | none | not part of the running system |

Interaction is by register (application and LLE), by radio frame (LLE and LLE),
by control transfer (script and dongle) and by jump or reset (bootloader and
application).  There are no interrupts: both applications and the bootloader
are polling loops, so concurrency is between the CPU, the engine, the other
dongle and the two USB hosts.

## Modules

| module | models | state and actions |
|---|---|---|
| `Radio` | `radio.c` on both dongles, the LLE and the air | `txPc`, `round`, `ok` are the place, the loop counter and the result of `radio_send()`; `txTask`, `txEnd`, `txSem` and the `rx` ones are the engine's task, PRF_ENDCAUSE and semaphores; `rxSeqstat` is PRF_ADDR_ENTRY0_SEQSTAT. `RadioSend`, `CmdTx`/`CmdTxAborts`, `RoundEnds`, `RadioSendReturns` are the parts of `radio_send()` between which other actors run; `AttemptLost`, `AttemptDamaged`, `AttemptHeard` one attempt on the air; `RadioRecvPoll` the whole of `radio_recv_poll()`; `RadioInitTx`, `RadioInitRx` a repeated `radio_init()` |
| `ReportQueue` | what `usb_hid.h` promises: two slots, first in first out | `Submit`, `Take` |
| `UsbHid` | `usb_hid.c` | the file's statics, the FIFO flag, the host's screen; `HidSendReport`, `HidPoll`, `HostTakes`; implements `ReportQueue` |
| `KeyStream` | what the two dongles together promise | a stream of numbered events: `Submit`, `Accept`, `Outcome`, `Show`, restarts. Each event is shown at most once between restarts of `app_rx`; a `Restart` may bring the event shown last once more, never an older one |
| `KeyLink` | `app_tx/src/main.c`, `app_rx/src/main.c` | composes `Radio` and `UsbHid` by INSTANCE; `SendKey`, `SendTestPacket`, `TxStep`; `RxUsb`, `RxHid`, `RxRadio` are the three calls of the receiver's main loop in order (`rxPc`); implements `KeyStream` |
| `Ep0` | `usb_core.c` with the handlers of both `main.c`, endpoint 0, a host and the watchdog | `cpu` is where the firmware is: polling, in the loop of `usb_ep0_recv()` or `usb_ep0_send()`, in `radio_send()`, in SOFT_RESET's endless loop, in the bootloader. `out`, `inRdy`, `dataEnd`, `stall`, `ep` are USBCS0 and the FIFO, `xfer`, `stage`, `said` the host's transfer. `Serve...` are the branches of `usb_core_poll()` up to their first wait; `Receive...`, `SendNext`, `RadioReturns` what follows a wait; `Host...` the host's packets, `Abandon` a transfer dropped anywhere |
| `Bootloader` | `bootloader.asm` with `flash_firmware.py` and `jump_to_app.py` | `mode` is where the dongle's CPU is (polling, data loop, RAM routine, waiting for FLASH_FINISHED's answer to be fetched, application); `script`, `step`, `idx`, `sent` where the script is; `cell` the application area, `page0` whether the bootloader's page was ever touched. `Reached` is what an operation reaches once its address has lost the bits the registers have no room for. `Swallow` and `OtherRequest` are a script's request, or anybody else's, taken for data; `StatusGone` is the end of `ff_txwait` and the jump |
| `HexImage` | `parse_ihx()`, `write_ihx()`, the trimmed dump, `inject_bootloader()` | operators: a file is a sequence of records, its contents a function on the addresses that have a byte; `FileByte` is the reference, the last record that speaks of an address |
| `FlashFile` | `flash()` before it sends anything, on `Bootloader` and `HexImage` | adds the file's records to `Bootloader`: `Contents` is the dictionary without the bytes below APP_BASE, `Full` the padded image, `FlashByte` what a cell of the flash holds at an address |
| `BootUpdate` | `bootloader_updater.asm` with `update_bootloader.py` and the backup of `dump_app.py` | `mode` is the program the dongle runs, `busy` where the updater is (polling, data loop, RAM routine, waiting for the watchdog); `page0` the bootloader's page by chunks, `area` what the application area holds, `dump` the backup file; `step` where the script is, from `Preflight` to `ResetStage1` and the restore |
| `DebugFlash` | `write_app_via_debug.c`, `write_bootloader_via_debug.c`, the three erase tools, `flash_app_via_debug.py`, `flash_bootloader_page_via_debug.py` and `CCDebugger.c` | `step` is where the script or the writer is; `minoffset`, `maxoffset`, `datas`, `maxpage` the table `Pages[]`; `page`, `provo`, `done` the loops' counters; `lost` the driver's `inDebugMode`; `chip` and `active` the chip and the port. `EraseUnit` and `EraseChip` are one run of an erase tool; `ReadRecord`, `CheckFile`, `NextPage`, `WriteChunk`, `PageWritten`, `VerifyPage`, `AllWritten`, `Answer` the writer's loops; `Lose`, `Interrupt` what goes wrong, `Again` the next run |
| `DebugCommands` | what the programs in `debug/` expect of the driver | `Ask`, `Serve`, `Answered` or `Unanswered`; `Refuse` once the driver is out; `Release`, `Pull`, `Restart` the way out |
| `DebugPort` | `CCDebugger.c` byte by byte, and the chip's side of the wire | `pc` is the function the driver is in, `left` and `got` the bytes still to send and those read, `dd`, `rst`, `rstLatch` the pins; `inbox`, `reply`, `ready` the chip's end. `cc_init` ... `cc_reset_end` are the functions up to their waits, `Poll` one round of `cc_switchRead()`'s wait; `Ready` the chip, `Unplug` the clip, `Quit` a program that ends or is stopped; implements `DebugCommands` |
| `Forward` | `keyboard_forward.py` over `KeyStream` | `fingers` and `buffer` are the keyboard and the kernel's queue, `held` and `pressed_mod` the loop's sets, `script` where it is; `Read` one round of `read_loop()`, `Transferred`, `TransferTimeout` and `Kill` how a round's transfer goes on; `why` the history that excuses a key left down |
| `PartsProofs` (on `Radio` and `UsbHid`), `KeyLinkProofs`, `Ep0Proofs`, `ForwardProofs`, `BootloaderProofs` (on `Bootloader`, `HexImage` and `FlashFile`), `BootUpdateProofs`, `DebugFlashProofs`, `DebugPortProofs` | theorems about the modules they are named after | |
| `MC*` | finite constants for TLC | |

The engine and the air are not code.  They are modelled from the values
`radio.c` writes into the engine's registers and from its comments, with the
behaviour SWRU283B gives them: how a task ends, what Auto Mode flushes, when SEQ
advances, what makes a frame a retransmission.

## Abstractions and assumptions

* One attempt on the air is a step.  The receiving task ends after its
  acknowledgment and the sender's search time is 50 us, so frame and
  acknowledgment never overlap with another attempt.
* Two different packets never have the same CRC-16.
* A frame and the report made from it carry the number of the `radio_send()`
  that produced them.  It is history: no step reads it.
* In `KeyLink` a vendor request on endpoint 0 is served in one step, except the
  part of SEND_KEY that waits for the radio.
* In `Ep0` a request is told from another only by how it is served: no data, OUT data,
  IN data of a length.  The host asks for as many bytes as the answer has.  Between
  reading a setup packet and clearing OUTPKT_RDY the firmware does not wait, so the two are one step.
  The controller is SWRU283B 21.5-21.6: a setup packet is always accepted and clears
  DATA_END and INPKT_RDY of the transfer it ends; the status stage waits for
  DATA_END and clears an empty packet the host did not fetch, which answers of exactly 32
  bytes (`dump_app.py`) rely on.  Whether a STALL nobody fetched outlives the next
  setup packet is left open, both happen in the model.
  A host in a transfer and `radio_send()` are quicker than the watchdog's second.
* In `Bootloader` flash is kept per *cell*, the part of
  one chunk that lies in one page; `FlashFile` derives the bytes of a cell from the
  records of the file, gaps included.  A cell written before it was erased, made of
  another request's bytes, or whose operation was cut short, is `torn`.  A page number
  keeps the low byte of wValue, an address its sixteen bits.  What an operation beyond
  the flash does is left open, nothing or the same as with the address taken modulo
  `FLASH_PAGES` pages.  A setup packet is eight bytes of data to `recv_wait`; the one that
  brings r7 to 0 is acknowledged, so its request ends well and unread and its script goes on.
  Other setup packets in the data loop fail, which only `set_configuration()`'s handler forgives.
  FLASH_FINISHED's answer is fetched by its script, or ended by the next packet of another.
* A half-written application answers no request.  A complete one is one of this
  repository's, so it answers SOFT_RESET.
* The data loop's buffer is only its count: where bytes taken for data beyond
  a chunk's length go is not modelled.
* In `BootUpdate` loading the updater and restoring the application are each one
  `flash()` of module `Bootloader`, with a half-written area in between; if it
  fails the script ends.  What an earlier dead script left in the bootloader's data loop or counters is
  `Bootloader`'s subject and not repeated here.  Page 0 is kept per chunk and piece 0 is the rest of
  the page.  A script is killed between transfers or in the data stage of a
  chunk, not inside the IN data of READ_CHUNK.  The user never lets
  another script write page 0 while `update_bootloader.py` runs; requests of
  another program (`OtherHostWrites`) come when none runs.  The dongle starts in the bootloader
  or with an application, this repository's (`app`) or another
  (`foreign`), which answers no GET_APP_DUMP and no SOFT_RESET.
* In `DebugFlash` a byte is the set of its bits that are 1: erased flash has all of them,
  programming clears some, a chip that does not answer reads {}.  An address is a
  page and an offset, as the writers compute it; files lie within the chip and have
  records of at least one byte.  Base-address records, lines that are no records and what
  follows the end record are left out; a record is good or the writer rejects it
  (`good`), while the scripts do not look at checksums.  The two writers are one program but
  for the area each refuses and what it does after `flash OK`: a definition of the code they
  share is mapped to one or the other.  The default pins only ever
  lose the chip; the pin-set of the README's "Pin-set reliability" (`wires` = "bad") also deposits
  zeros or reads a byte wrong, never by chance so that it looks as hoped.  A chip the
  driver has lost stays lost until the next program starts.  Waiting, clock and flash cache
  are left out.
* In `HexImage` a line is a record: checksums, which no script of the repository looks at,
  and the text are left out.  Addresses may be 64 KB and more, as `parse_ihx()` keeps them; what is proved about flashing is for files that
  end within the flash (`Fits`).
* In `DebugPort` eight clocks of DC are one step, and a byte is a value or the name of a
  command.  Lost or doubled clock edges are excluded (the README's bad pin-sets are in
  `DebugFlash`).  The chip has its answer ready between two groups of eight clocks, sooner or later than
  the driver gives up; while it holds an answer it drives DD, high until it is ready.  A clip that comes
  off stays off until the next program.
* In `Forward` the dongles are `KeyStream`, which `KeyLink` implements.  A modifier is not a key
  of the report, as in the code; the exit combination is two modifiers and one mapped key.
  The kernel's queue is evdev's: when it overflows its contents go, SYN_DROPPED and the newest event stay.
  pyusb's `ctrl_transfer()` gives up after its default second, while the dongle goes on.
* Both branches of FLASH_FINISHED are taken: the counts of a script whose FLASH_STARTED
  was read always match, one whose FLASH_STARTED was taken for data has old counts.

## Runs

| run | question | bounds |
|---|---|---|
| `hid` | does the keyboard endpoint behave as a two-slot queue, and does a waiting report move on | unbounded; 4 reports: one in each slot, one on the screen, one more to submit |
| `radio` | is a reported success real, does a send return, does the receiver listen again, with losses, damage and restarts of both dongles | 2 rounds of 2 attempts (the code: 4 rounds of up to 16), 2 packets with different CRCs |
| `keylink` | order, no loss under backpressure, and does the path implement the abstract stream, at most once between restarts of `app_rx` | 3 key events: one each in the FIFO and in the waiting slot, one behind them; one restart of each dongle; 2 rounds, no hardware retry |
| `keylink_live` | are retransmissions told from equal events, does an acknowledged event reach the screen, does backpressure release the receiver | 2 key events, one test packet |
| `ep0` | is a reported success real, whatever transfers were dropped before; does the watchdog leave an undisturbed application alone; does something always answer again | the real packet size; answers of 1, 32 and 34 bytes: short, exactly one packet, more than one; two transfers dropped anywhere: one to leave a handler waiting, one to drop the transfer that meets it |
| `boot` | is what FLASH_FINISHED starts the file, byte by byte of its records, does page 0 survive, does another run of `flash_firmware.py` succeed; evaluated before it, on samples: is a written file read back, does `parse_ihx()` give what the records mean, is a trimmed dump restored, do the injected vectors lead to the application | a file over two pages that begins below the application, three chunks of which one crosses the page boundary, lower and upper end unaligned, on a chip of three such pages; two scripts killed between transfers, two in a data stage, one external reset, one power cut, one `jump_to_app.py`, any number of other requests; chunks of 252 bytes, which setup packets never use up, and a last one of 112, which they do |
| `boot_deaf` | does the dongle always get back to listening | one script killed in a data stage |
| `boot_update` | is a reset ever sent to a broken page 0, is the application always kept, does a chunk ever leave page 0, does an undisturbed run complete | the real sizes; an image that ends one byte before the page does, so that the last of five chunks ends exactly at the page's end; two scripts killed between transfers, one in a data stage, one power cut or reset, one flash operation that does not take, one reboot declined, one request of another program among five around the page's end |
| `debug_flash` | is "flash OK" true, does each tool stay in its area and in its file's units, is a refused file harmless, has every failure of an undisturbed run a reason, does every run end | pages of 16 bytes in two units, three pages, chunks of 12 bytes (two to a page), two bits to a byte, a second attempt at most; eight files: a crossing record with another one behind it as in the shipped images, gaps within and between pages, overlap, each area, both, a bad checksum, no record; any number of runs over flash that was or was not erased |
| `debug_cross` | the same for a file whose last record crosses a page | one such file |
| `port` | does the driver, with the chip, do what the programs expect of a call; do both ever drive DD | all thirteen commands, with parameters that tell their order; two values of a byte, all zeros and all ones; two groups of clocks waited (the code: 250): one the chip may still answer in and the last; any number of programs, each stopped anywhere, the clip off or on |
| `forward` | does a key stay down on the other machine without a reason | one letter, Esc, two modifiers; five strokes: down and up of the letter with a combination of three between; a kernel buffer of two, which overflows; two runs of the script, one restart of either dongle |

Two rounds show everything a third could: after the first one the packet is
either at the receiver or not, and every later round starts in one of these two
states.  The same holds for the hardware retries of one task, which `radio`
explores and the `keylink` runs leave out.  The real chunk (252), packet
(32) and setup (8) sizes are used, since r7 wraps modulo 256; the page is
scaled to 512 bytes in `boot` to keep two pages within three chunks.  `FinishedIsFile` uses a file with
a gap, an overlap, bytes below the application and records after the end record.  The driver's
wait in `port` differs between no round, one and the last; the number of rounds in between decides nothing.
Deadlock is checked
except in `boot`, where a half-written application after a power cut leaves nobody
to act, and in `port` and `forward`, whose counters of programs, runs and strokes let everything stop.

### Disagreements found

* `boot_deaf`: `recv_wait` ignores SETUP_END.  A script that dies inside the data
  stage of a WRITE_CHUNK leaves the bootloader taking every later setup packet for
  eight bytes of data; 252 leaves 4 modulo 8, so with the scripts' own chunk
  size the count never gets to zero.
* `debug_cross`: when a record crosses a 2 KB page, the writers raise `maxoffset` of
  the page it came from where the next page's is meant (write_app_via_debug.c:328,
  write_bootloader_via_debug.c:326).  Unless another record reaches as far, the tail's rest is neither
  written nor verified, and "flash OK" is printed.  `app_tx.ihx` and `app_rx.ihx`
  have such records with another one behind them, so they are written whole.
More observations need no run of their own.  `radio.h:51-52` says
`radio_recv_poll()` returns 0 for a duplicate and for a bad CRC; it returns the
duplicate again (PRF_FIFO_CONF leaves AUTOFLUSH_IGN at 0), and five zero bytes
for the damaged frame.  `app_rx` is not harmed: a repeated report changes nothing
and zeros are not a key event; GET_LAST_PACKET shows both.  A test packet whose
counter is 1, the second after power-up, is typed as a key (`app_rx/src/main.c:179`),
although `send_raw_test.py:3` says "no HID semantics".  After a run without a reset
`update_bootloader.py:285-287` advises to rerun the script; the rerun looks
for PID 0010 and 0030, the dongle runs the updater, PID 0020, and every rerun
gives up.  The reset by hand, which the same message gives, works.  `usb_ep0_ack()` and
`usb_ep0_stall()` clear OUTPKT_RDY whatever it announces, and `usb_ep0_recv()` takes
whatever it announces.  So when a host drops a SEND_KEY or SET_REPORT before its end
and another request follows at once, the
handler still running may take the new setup packet for its data byte
(bmRequestType 0x40, a key down nobody asked for) or acknowledge it unread: a
SOFT_RESET is then reported done and lost.  `KeysAreAsked` and `SuccessMeansDone`
carry `cut` for this; TLC finds both without it.  SEND_KEY stalls when no acknowledgment
arrived, also for a packet the receiver took and types (`app_tx/src/main.c:89`
says 'delivery failed', `radio.h:66-67` the opposite).  `flash()` returns True after a MISMATCH
status too.
`parse_ihx()` keeps addresses of 64 KB and more, and `flash()` sends page and address in a
16-bit wValue, of which the bootloader takes one byte for a page.  For a file that goes beyond the flash this
may name page 0, although flash_firmware.py:139-141 says "This function never touches it":
page 256 is erased as page 0, and address 0x10000 is written as 0.  `BootloaderIntact` and what is
proved of `boot` are therefore about files that end within the flash; with `FLASH_PAGES` = 2 TLC
finds page 0 hit by the file of `boot`, if the upper address bits are not decoded.
The setup packet that uses up the data of a dead script's chunk is acknowledged (bootloader.asm:296-302)
and not read.  When it is FLASH_STARTED, the script goes on to erase and write, which comes out right,
and FLASH_FINISHED compares with old counts: a mismatch, or by chance a match.  What is started
then is still the whole file.  `jump_to_app.py` may be refused for the same reason.
  After `flash_firmware.py` died half way, `jump_to_app.py`
(zero bytes written, zero declared) and a power-on both start what is there;
both are documented, although `bootloader.asm:15-16` says "never jump to a
potentially half-written app".  `FinishedIsImage` is therefore about
`flash_firmware.py` alone.  In `debug/`, `erase_chip_via_debug` prints "erase done" when no
chip is wired (the status reads 0).  `flash_bootloader_page_via_debug.py` erases
page 0 before anything looks at the file: a refused file leaves it erased, and an
empty one ends in "OK - bootloader erased, rewritten, and verified".
The range check of WRITE_STAGE1_CHUNK adds the low byte of the length only, so 260 bytes at 0x3FC
are taken for 4 and written, 256 of them into the updater's own page.  No script of the repository sends
more than 252 bytes; below 256 the check is exact (`RangeCheckExact`).
`cc_setActive(false)` clears `cc_active` before it calls `cc_exit()`, which then returns at once:
RESUME is never sent, and a program that does not reset the chip, as the erase tools, leaves it
halted.  `cc_init()` ends with "Prepare default direction", but DD is an
output already while `ddIsOutput` says input, so the call changes nothing and DD stays an output.
`cc_reset()` means to drive RST low with `pinMode(pinRST, LOW)`, which makes it an input; the reset
happens because the call before made it an output whose latch `cc_setActive(false)` left low.
Once a slow chip was given up, `cc_read()` clocks on all the same and `cc_switchWrite()` drives DD
against whatever the chip still says, as does a program stopped at the turn of the wire;
`NoContention` is about a driver that counts on debug mode.  `errorFlag` is set and never read.
When the exit combination is completed by another key than the mapped one, or while a letter is
held, `keyboard_forward.py` leaves its loop with a key down on the other machine, although every
press has its release (line 4, "one radio packet per press/release").  The release of one key sends "all
up" also while another is still held; SYN_DROPPED is no EV_KEY event and line 109 passes over it.
`StaysDownForAReason` lists these as reasons.
A chip lost while a page is read back cannot be told from zeros up to its end, or from one 0xFF
and zeros; `OkMeansWritten` leaves such an end out (`LikeNoChip`).

## Fairness

* `HidFairSpec`, `KeyLink!Fairness`: the receiver's main loop has no blocking call
  of its own, so each of its calls happens again (weak fairness on it); the
  machine polls EP1 for as long as it runs.
* `RadioFairness`: `radio_send()` is a loop that runs on; a task of the engine
  ends by its search time.  Nothing is assumed of the air: an attempt happens,
  and may fail every time.  `SendReturns` needs only this, because the rounds are
  counted.  `DeliveredIsShown` is about acknowledged events, so it needs no
  success of the air either: it says that again and again no acknowledged event
  is still owed to the screen.
* `Ep0!Fairness`: the CPU runs, a host that is in a transfer goes on with it, the
  watchdog fires when nobody feeds it.  No host has to start a transfer or drop one.
* `Bootloader!Fairness`: flash operations end, a script that is not killed makes
  its next request, or ends the wait for the status of a dead one with it, and the user
  runs `flash_firmware.py` again.  Kills, resets and other programs' requests are never
  forced; the first two are bounded.
* `BootUpdate!Fairness`: the same for `update_bootloader.py` and the updater's flash
  operations, and the watchdog fires once armed.  The script as a whole is one weakly
  fair action: it always has a next step or waits for the chip.

* `DebugPort` and `Forward` state safety only and need no fairness.
* `DebugFlash!FairSpec`: a started program goes on, and the question at the end of
  `write_app_via_debug` gets an answer.  Nothing is assumed of chip and wires.

## Proofs

All hold for every value of the constants that the named assumptions allow.

* `PartsProofs`, the keyboard endpoint: `HidTypeCorrect`, and `HidImplementsQueue`, the refinement of
  `ReportQueue`.  The mapping writes the FIFO slot and the waiting slot as one
  sequence.  Type correctness is all the invariant needed: `CallerSubmits` shows
  that `hid_send_report()` after `hid_busy()` appends, `PollStutters` that
  `hid_poll()` moves a report inside the queue, `HostTakesFront` that the host
  takes the oldest one, also when a report waits behind an empty FIFO.
* `PartsProofs`, the link: `RadioTypeCorrect` and `AckedWasHeardHolds`.  `AckedWasHeard` is not
  inductive: `radio_send()` reads PRF_ENDCAUSE after a wait, and every task writes
  it.  `EndcauseIsOwn` says why the value is its own: while it waits no
  listening task runs, and if the engine is idle with TASK_ENDOK the receiver took
  the packet.  Type correctness needs `RoundCounted`.
* `KeyLinkProofs`: `TypeCorrect`, `InOrderHolds`, `NothingAcceptedIsLostHolds`,
  `ImplementsStreamHolds` and `RetransmissionsRecognisedHolds`, the first four for every set of reports, number of requests, rounds,
  retransmissions and restarts.  `Link`, an instance of `PartsProofs` with `KeyLink`'s frames,
  gives the link's part of the invariant (`LinkInvStep`).  `FifoHeld` adds that a frame in the
  Rx FIFO lies behind an ended task, so the engine never takes one over another;
  `Numbered` that a number belongs to one frame and a report with that number was made of
  it; `Heard` that nothing of the event being sent is on its way before it was heard;
  `Booting` that app_rx has an empty endpoint between its startup code and
  `radio_init()`.  Each action then has a lemma of its own (`PathNewFrame`, `PathHeard`,
  `PathSubmitted`, ...).  In the refinement a retransmission is `Accept` again, or a stutter once the
  machine was shown the event (`StreamAccept`), and a repeated report a stutter
  (`StreamShow`).  After a restart of app_rx, whose radio_init() forgets the sequence number, the
  event shown last counts as new if it is still on its way or being sent, and what was
  accepted and not shown may be gone; `KeyStream!Restart` gives up no more than that.
  `ImplementsStreamHolds` assumes that no test packet is sent:
  SEND_TEST_PACKET overwrites `txFifo` with what stands for no event.
  `RetransmissionsRecognisedHolds` is about a run without restarts.  `Classed` says that the last frame
  the engine took is this `radio_send()`'s, and then both sides have one SEQ until the acknowledgment
  arrives, or an earlier one's; `Counted` that the packet of each `radio_send()` has its number, less
  one, as counter; `ToldApart` that two numbers never share a packet.  The proof needed two bounds that
  no comment of the code states, and both are limits of the code.  The counter has eight bits: when a
  packet was taken, its acknowledgments were all lost and the next 255 sends failed too, an equal event
  is classed as a repetition of it.  And a test packet whose counter is 1 has the type of a key event:
  it is, bit by bit, the key event <<254, 3>> of the 87th send.  `Undisturbed` names both.
* `ForwardProofs`: `TypeCorrect`, `StaysDownHasAReason` and `ForwardUsesStream`, for every set of
  keys, exit combination, buffer of at least two events and number of strokes, runs and restarts.  What
  is down on the other machine depends on events that were read long before, so
  `StaysDownForAReason` needs an invariant over the whole way.  `Honest`: the last event kept for a key
  says where the key is, whatever was dropped before it.  `InHeld`, `OnKeyboard`: as long as
  nothing excuses it, the key of the report sent last is in the script's `held`, and down if the
  buffer no longer speaks of it; SYN_DROPPED has to be an excuse here.  `Open`: the loop never goes on
  with the combination held.  `Between`, `Numbered`: what is on its way lies between what is
  shown and what was sent last.  `Answered`: a transfer that ended without an excuse was accepted and is on its
  way or shown.  `ForwardUsesStream` shows that each step of `Forward` is one of `KeyStream` or none, with what
  `KeyStream` says of restarts.
* `Ep0Proofs`: `TypeCorrect`, `KeyOkMeansAckedHolds`, `SuccessMeansDoneHolds`,
  `KeysAreAskedHolds` and `NoSpontaneousResetHolds`.  None is inductive: the host sees a
  transfer end by DATA_END, which any handler may have set.  `Owner` says whose
  transfer the endpoint's state belongs to, `OwnEnd` that DATA_END in a transfer is
  its own handler's, set after the work, `CutShort` that a handler serving no
  transfer, or a request nobody read, goes back to an OUT transfer cut under it.
  `Counted` (the host still waits for what is still to be sent) bounds the IN
  stage.  For the watchdog, `Undisturbed`: while no transfer was dropped, every wait of the
  firmware is in the host's current transfer and for a packet the host can
  send, so only SOFT_RESET's loop starves it (`OnlySpinStarves`).
* `BootloaderProofs`: `BootloaderIntactHolds`, `FinishedIsImageHolds` and `FinishedIsFileHolds`, for
  every file that ends within the flash (`Fits`), page size, chunk length below 256, packet size and number of
  faults.  The invariant `IInv` has two parts.  `Targets`: whatever the RAM routine
  is asked to do names a page or chunk of the file.  With `Fits`, none of the bits that get lost on the way matters:
  an erase reaches exactly its page (`PageReaches`) and a write exactly its chunk's cells
  (`ChunkReaches`), whatever the flash controller does with higher bits, and neither reaches
  page 0 (`CutSpares`).  `Session`: one predicate per loop of `flash()`: all pages
  before `idx` are erased or being erased, all chunks before `idx` are written or
  being written, the rest is still erased, and in a data stage r7 is exactly what
  the host still has to send, so no packet of another request is among the data.
  FLASH_STARTED is the only request after which a run goes on unread; what the
  data loop then writes comes before the first erase (`ErasePhase`), so
  the run erases it again, and nothing else of a run depends on the counters.
  Every fault ends the script, and the next one starts from nothing; this is why
  no bound on them is needed.  `TypeCorrect` is about every file, beyond the flash too, and has an
  invariant of its own, `Control`.
  `FinishedIsFileHolds` carries `FinishedIsImageHolds` from cells to the bytes of the
  records.  `ParsedIsTheFile` says of every file that the dictionary `parse_ihx()` builds line by line has at each
  address what the last record covering it says; `AddressInCell` that every
  address of the image lies in a cell of a chunk and a page.
  `WrittenReadsBack` (`write_ihx()` then `parse_ihx()` is the identity) needs that the runs of up to 16
  consecutive bytes neither overlap nor leave an address out, and that sorting
  them numbers them one by one (`Rank`).  With it `DumpIsRestored` and `VectorsGoForward` hold of every
  dump, code, entry and base, where the `boot` run evaluates them on samples.
  `parse_ihx()` is a recursive function, and what it computes is shown by
  contradiction: `Least` (from `WFMin`) gives the first line after which the dictionary is wrong.
* `BootUpdateProofs`: `AppIsKeptHolds`, `OnlyPowerLossBricksHolds`, `StaysInPage0Holds` and `TypeCorrect`, for every image, page, chunk and packet size and
  any number of faults and runs.  `Kept` (names, places, `Dumped`): where the
  script is tells what the dongle runs and what the area holds, and once the area is not the
  application's any more the dump is.  It gives `AppIsKeptHolds`.  `ResetSafe`:
  either there was a power cut or a foreign request (`Disturbed`), or page 0 is
  the whole image whenever the script is past verification or the watchdog is
  armed (`Safe`).  It gives `OnlyPowerLossBricksHolds`,
  and no property of the flash operations is needed: one that fails ends in
  a mismatch.  `Chunks`: the data loop only ever holds one of the file's chunks, all of
  which lie in page 0 (`ChunkInPage0`).  With `RangeCheckExact`, the check against
  its definition, it gives `StaysInPage0Holds`, which assumes
  lengths below 256, without which the check is wrong (see above).  It also assumes the real
  page size, which the assembler has as a literal.  Type correctness needs that
  the script writes only chunks the image has (`AtChunk`).
* `DebugFlashProofs`: `TypeCorrect`, `StaysInItsAreaHolds`, `OnlyItsUnitsHolds`,
  `RefusedIsHarmlessHolds`, `OkMeansWrittenHolds` and `FailsForAReasonHolds`, for every set of files within the
  chip, every contents of the flash, page, chunk and byte size.  `FlashChanges` reduces any change to
  a unit being erased or a byte of the page's range being written.  `Placed` says that both lie in the
  tool's area, which rounding to words keeps (`WordsInPage`, `RoundedZero`);
  `FromFile` that the table has nothing the file does not ask for; `Covered`
  that the ranges hold every record read but a tail's end, so that the writer
  refuses what the script refuses (`BelowRefused`); `Newest` that the table holds the last byte
  for each place; `Behind` that each page the writer has left holds its range of the table,
  because the writer leaves a page only after a reading without a difference
  (`ReadShows`).  `OkMeansWrittenHolds` assumes `TailsReached` of the files: where a record
  crosses a page, another one reaches as far in the next.  This is exactly what
  `debug_cross` shows to be missing.  The number of runs, faults and attempts needs no bound:
  every run builds its table from nothing.  `FailsForAReasonHolds` goes through an undisturbed run
  of the script: `FromRecords` says that the ends of every range lie in units the file has bytes in,
  which rounding keeps, so the range does (`RangeErased`) and was erased (`Sound`); `Aligned` that whole words
  fill it, so each chunk is programmed completely into blank flash and reads back as the table has it
  (`WholeWords`, `SoundWrite`, `SoundVerify`).  It assumes pages below 64 KB, because the writers mark
  a page the file leaves alone with 65535.
* `DebugPortProofs`: `TypeCorrect`, `NoContentionHolds` and `ImplementsCommandsHolds`, for every set
  of calls, values of a byte and patience of the driver.  `Believes` and `Directions` say what the
  driver's statics and pins are in each function and need nothing of the chip.  `Together` says that the chip is where the
  driver believes it to be, as long as it is there and was not given up: while a command is sent it has
  exactly the bytes that left, while an answer is read the bytes not read are exactly those it
  still holds (`InTransit`, `Crosses`, `Arrived`).  Both sides count the same bytes (`SameTables`),
  so the last byte written is the one at which the command runs (`ByteTaken`,
  `LastByteServes`), and the last byte read empties the answer (`CallReturns`): this is also why nobody
  drives when the wire is turned back.

Only model-checked is all liveness (`WaitingReportMoves`, `RxListensAgain`,
`SendReturns`, `DeliveredIsShown`, `AnswersAgain`, `RetrySucceeds`, `UpdateCompletes`, `Ends`), which is
out of the prover's reach.  `RetransmissionsRecognised` under the bounds above, `ImplementsStream` without
test packets, `StaysInPage0` for the page size of the assembler's literals, `OkMeansWritten` for
files whose crossing tails are reached, `FailsForAReason` for pages below 64 KB and `FinishedIsImage`,
`FinishedIsFile` and `BootloaderIntact` for files that end within the flash are proved
with a hypothesis; each is named with its theorem and is one the code needs.

The assumptions on constants say no more than the code gives: `FlashFileAssumption` that a file
is a sequence of records with the types, 16-bit addresses and bytes of the format, and that `Addresses` are those `parse_ihx()`
finds in it; `BootloaderAssumption` that a byte lies above page 0, that the flash has at most 256 pages and 64 KB; `ForwardAssumption` that "no key" is not a key.

## Not modelled, and the plan

In the order in which they are to be built:

1. `CCDebugger.c` clock by clock, with lost edges, under `DebugFlash`'s bad wires.
2. `DebugFlash` on `DebugCommands`: its chip accesses as calls.

The stock-firmware study and the descriptors are data or offline analysis and
stay out.  `radio_debug_status()`, `radio_last_send_rounds()` and
`interactive_commands.py` only read.
