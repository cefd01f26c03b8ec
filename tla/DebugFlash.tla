----------------------------- MODULE DebugFlash -----------------------------
(***************************************************************************)
(* Flashing a chip through its debug port: write_app_via_debug.c and       *)
(* write_bootloader_via_debug.c, the tools that erase for them             *)
(* (erase_page_, erase_bootloader_page_ and erase_chip_via_debug.c), the   *)
(* scripts that run both (flash_app_via_debug.py,                          *)
(* flash_bootloader_page_via_debug.py) and the driver under them,          *)
(* CCDebugger.c.                                                           *)
(*                                                                         *)
(* A writer collects the records of a hex file in a table of 2 KB pages,   *)
(* with the range of each that the file uses, refuses the other area,      *)
(* then programs, reads back and compares page after page.  The flash is   *)
(* erased in units of half a page; the application's area begins with the  *)
(* second unit.                                                            *)
(*                                                                         *)
(* A byte is the set of its bits that are 1: erased flash has them all,    *)
(* programming only clears some, and a chip that does not answer reads {}. *)
(* A record's place is a page and an offset, as the writers compute it.    *)
(***************************************************************************)
EXTENDS Integers, Sequences

CONSTANTS Unit,        (* bytes erased at once, PAGE_LEN of the scripts;   *)
                       (* APP_BASE is the first address after one unit     *)
          ChunkLen,    (* bytes programmed at once, MAX_CHUNK_WORDS * 4    *)
          LastPage,    (* pages are numbered 0..LastPage                   *)
          Retries,     (* the 10 of provo > 10                             *)
          Bits,        (* bits of a byte                                   *)
          Files,       (* the hex files, sequences of records              *)
          Contents     (* what the flash may hold before                   *)

PageLen == 2 * Unit
Page == 0..LastPage
Offset == 0..(PageLen - 1)
Byte == SUBSET Bits
Blank == Bits
Flash == [Page -> [Offset -> Byte]]

(* A data record with good or bad checksum, within the chip. *)
Record == {r \in [page : Page, start : Offset, bytes : Seq(Byte), good : BOOLEAN] :
              /\ Len(r.bytes) \in 1..PageLen
              /\ r.start + Len(r.bytes) > PageLen => r.page < LastPage}

ASSUME DebugFlashAssumption ==
    /\ {LastPage, Retries} \subseteq Nat
    /\ {Unit, ChunkLen} \subseteq Nat \ {0}
    /\ Unit % 4 = 0 /\ ChunkLen % 4 = 0
    /\ Files \subseteq Seq(Record)
    /\ Contents \subseteq Flash

VARIABLES tool,       (* "app" or "boot": which writer                     *)
          file,       (* the hex file                                      *)
          wires,      (* "good", or the pin set that drops data (README)   *)
          step,       (* where the script or the writer is                 *)
          wrapped,    (* run by the script, which erases first             *)
          trouble,    (* something went wrong on the way in this run       *)
          toErase,    (* units the script has still to erase               *)
          line,       (* next record of the file                           *)
          maxpage, minoffset, maxoffset, datas,   (* Pages[]               *)
          page, provo, done,
          lost,       (* the driver has lost the chip, inDebugMode = 0     *)
          flash,
          chip,       (* "running" or "held", halted in debug mode         *)
          active      (* the debug pins are driven                         *)

table == <<maxpage, minoffset, maxoffset, datas>>
run == <<tool, file, wires>>
port == <<chip, active>>
vars == <<run, step, wrapped, trouble, toErase, line, table, page, provo, done, lost, flash, port>>
-----------------------------------------------------------------------------
(* What a record covers: up to the end of its page, the rest from the       *)
(* beginning of the next one.                                               *)
Crosses(r) == r.start + Len(r.bytes) > PageLen
TailLen(r) == r.start + Len(r.bytes) - PageLen
HeadEnd(r) == IF Crosses(r) THEN PageLen - 1 ELSE r.start + Len(r.bytes) - 1
InHead(r, p, o) == p = r.page /\ r.start <= o /\ o <= HeadEnd(r)
InTail(r, p, o) == Crosses(r) /\ p = r.page + 1 /\ o < TailLen(r)
Holds(r, p, o) == InHead(r, p, o) \/ InTail(r, p, o)
ByteAt(r, p, o) == r.bytes[IF p = r.page THEN o - r.start + 1 ELSE PageLen - r.start + o + 1]

(* The bytes a file asks for: where records overlap the last one counts.    *)
Says(f, p, o) == {ByteAt(f[i], p, o) : i \in {j \in DOMAIN f :
                     /\ Holds(f[j], p, o)
                     /\ \A k \in DOMAIN f : k > j => ~Holds(f[k], p, o)}}
Asked(f, p, o) == \E i \in DOMAIN f : Holds(f[i], p, o)

Half(o) == IF o < Unit THEN 0 ELSE 1
InBootloader(p, o) == p = 0 /\ o < Unit
HasBelow(f) == \E o \in Offset : InBootloader(0, o) /\ Asked(f, 0, o)
HasAbove(f) == \E p \in Page, o \in Offset : ~InBootloader(p, o) /\ Asked(f, p, o)
Readable(f) == \A i \in DOMAIN f : f[i].good

(* pages of flash_app_via_debug.py.  Faulty variant: the units the records  *)
(* start in.                                                                *)
UnitsStarted(f) == {<<f[i].page, Half(f[i].start)>> : i \in DOMAIN f}
UnitsOf(f) == {u \in Page \X {0, 1} : \E o \in Offset : Half(o) = u[2] /\ Asked(f, u[1], o)}
BootUnit == <<0, 0>>
UnitsToErase == IF tool = "app" THEN UnitsOf(file) ELSE {BootUnit}
Sooner(u, v) == u[1] < v[1] \/ (u[1] = v[1] /\ u[2] <= v[2])

(* The script's look at the file before it erases anything; the one for the *)
(* bootloader takes none.                                                   *)
WrapperTakes(f) == tool = "app" => ~HasBelow(f) /\ f # <<>>
-----------------------------------------------------------------------------
NoMin == [p \in Page |-> 65535]
NoMax == [p \in Page |-> 0]
NoDatas == [p \in Page |-> [o \in Offset |-> Blank]]

Init ==
    /\ tool \in {"app", "boot"} /\ file \in Files /\ wires \in {"good", "bad"}
    /\ step = "idle" /\ wrapped = FALSE /\ trouble = FALSE /\ toErase = {}
    /\ maxpage = 0 /\ minoffset = NoMin /\ maxoffset = NoMax /\ datas = NoDatas
    /\ line = 1 /\ page = 0 /\ provo = 0 /\ done = 0 /\ lost = FALSE
    /\ flash \in Contents /\ chip = "running" /\ active = FALSE

EmptyTable == maxpage' = 0 /\ minoffset' = NoMin /\ maxoffset' = NoMax /\ datas' = NoDatas

(* cc_setActive(false) with the chip in state c: it clears cc_active and     *)
(* calls cc_exit(), which returns at once when that is clear.               *)
CcExit(isActive, c) == IF isActive THEN "running" ELSE c
Deactivate(c) == active' = FALSE /\ chip' = CcExit(active', c)

(* exit(1) of a writer: the pins stay as they are. *)
Fail == step' = "error" /\ UNCHANGED port

(* flash_app_via_debug.py, flash_bootloader_page_via_debug.py. *)
RunWrapper ==
    /\ step = "idle"
    /\ wrapped' = TRUE /\ trouble' = FALSE
    /\ IF WrapperTakes(file)
       THEN step' = "erase" /\ toErase' = UnitsToErase
       ELSE step' = "error" /\ toErase' = {}
    /\ UNCHANGED <<run, line, table, page, provo, done, lost, flash, port>>

(* The writer by itself: the user has erased before, or has not. *)
RunWriter ==
    /\ step = "idle"
    /\ step' = "erase" /\ toErase' = {} /\ wrapped' = FALSE /\ trouble' = FALSE
    /\ UNCHANGED <<run, line, table, page, provo, done, lost, flash, port>>

(* erase_chip_via_debug.c: erased, still busy at the last look, or not      *)
(* wired, when the status reads 0 and the erase is reported done.           *)
EraseChip ==
    /\ step = "idle"
    /\ \/ flash' = [p \in Page |-> [o \in Offset |-> Blank]] /\ Deactivate("held")
       \/ UNCHANGED flash /\ active' = TRUE /\ chip' = "held"
       \/ UNCHANGED flash /\ Deactivate(chip)
    /\ UNCHANGED <<run, step, wrapped, trouble, toErase, line, table, page, provo, done, lost>>

(* One erase tool: erase a unit, wait, read it back.  The erase may not     *)
(* take, and the chip may be lost on the way.  The one for the application  *)
(* refuses the bootloader's unit.  Faulty variant: 2 KB erased at once.     *)
ErasedPage(f, u) == [f EXCEPT ![u[1]] = [o \in Offset |-> Blank]]
Erased(f, u) == [f EXCEPT ![u[1]] = [o \in Offset |-> IF Half(o) = u[2] THEN Blank ELSE @[o]]]
IsErased(f, u) == \A o \in Offset : Half(o) = u[2] => f[u[1]][o] = Blank

EraseUnit ==
    /\ step = "erase"
    /\ \E u \in toErase, takes, answers \in BOOLEAN :
          /\ \A v \in toErase : Sooner(u, v)
          /\ flash' = IF takes THEN Erased(flash, u) ELSE flash
          /\ IF answers /\ IsErased(flash', u)
             THEN toErase' = toErase \ {u} /\ UNCHANGED <<step, trouble>>
             ELSE step' = "error" /\ trouble' = TRUE /\ UNCHANGED toErase
          /\ IF tool = "app" /\ u = BootUnit
             THEN ~takes /\ ~answers /\ UNCHANGED port
             ELSE Deactivate(IF takes \/ answers THEN "held" ELSE chip)
    /\ UNCHANGED <<run, wrapped, line, table, page, provo, done, lost>>

StartWriter ==
    /\ step = "erase" /\ toErase = {}
    /\ step' = "read" /\ line' = 1 /\ EmptyTable
    /\ lost' \in BOOLEAN /\ trouble' = (trouble \/ lost')
    /\ active' = TRUE /\ chip' = IF lost' THEN chip ELSE "held"
    /\ UNCHANGED <<run, wrapped, toErase, page, provo, done, flash>>
-----------------------------------------------------------------------------
Larger(a, b) == IF a < b THEN b ELSE a
Smaller(a, b) == IF a < b THEN a ELSE b

(* What one record does to the table.  The tail's end is put on the         *)
(* record's own page.  Faulty variant: a later record lowers the end.       *)
Lower(r) == [p \in Page |->
    IF p = r.page THEN Smaller(r.start, minoffset[p])
    ELSE IF Crosses(r) /\ p = r.page + 1 THEN 0 ELSE minoffset[p]]
TailPage(r) == r.page
RaiseNot(r) == [maxoffset EXCEPT ![r.page] = HeadEnd(r)]
Raise(r) ==
    LET tail == IF Crosses(r) THEN [maxoffset EXCEPT ![TailPage(r)] = Larger(@, TailLen(r) - 1)]
                ELSE maxoffset
    IN [tail EXCEPT ![r.page] = Larger(@, HeadEnd(r))]
LastOf(r) == IF Crosses(r) THEN r.page + 1 ELSE r.page

ReadRecord ==
    /\ step = "read" /\ line <= Len(file)
    /\ LET r == file[line]
       IN IF r.good
          THEN /\ maxpage' = Larger(maxpage, LastOf(r))
               /\ minoffset' = Lower(r) /\ maxoffset' = Raise(r)
               /\ datas' = [p \in Page |-> [o \in Offset |->
                               IF Holds(r, p, o) THEN ByteAt(r, p, o) ELSE datas[p][o]]]
               /\ line' = line + 1 /\ UNCHANGED <<step, port>>
          ELSE Fail /\ UNCHANGED <<line, table>>
    /\ UNCHANGED <<run, wrapped, trouble, toErase, page, provo, done, lost, flash>>

(* Faulty variant: a file that reaches up to the application is let through.*)
AppRefusesPage0 == minoffset[0] <= maxoffset[0] /\ maxoffset[0] < Unit
AppRefuses == minoffset[0] <= maxoffset[0] /\ minoffset[0] < Unit
(* Faulty variant: page 0 alone is looked at. *)
Page0Refuses == maxoffset[0] >= Unit
BootRefuses == maxpage > 0 \/ maxoffset[0] >= Unit

CheckFile ==
    /\ step = "read" /\ line > Len(file)
    /\ IF (tool = "app" /\ AppRefuses) \/ (tool = "boot" /\ BootRefuses)
       THEN Fail /\ UNCHANGED <<page, provo>>
       ELSE step' = "page" /\ page' = 0 /\ provo' = 0 /\ UNCHANGED port
    /\ UNCHANGED <<run, wrapped, trouble, toErase, line, table, done, lost, flash>>

Used(p) == minoffset[p] <= maxoffset[p]

NextPage ==
    /\ step = "page" /\ page <= maxpage
    /\ provo' = provo + 1
    /\ IF Used(page)
       THEN /\ minoffset' = [minoffset EXCEPT ![page] = @ - (@ % 4)]
            /\ maxoffset' = [maxoffset EXCEPT ![page] = @ - (@ % 4) + 3]
            /\ done' = 0 /\ step' = "write" /\ UNCHANGED page
       ELSE page' = page + 1 /\ UNCHANGED <<step, done, minoffset, maxoffset>>
    /\ UNCHANGED <<run, wrapped, trouble, toErase, line, maxpage, datas, lost, flash, port>>

(* cpuWriteWords(): n of the chunk's words get programmed, on bad wires     *)
(* possibly with zeros; none when the chip is lost.  Faulty variant of the  *)
(* length: the last chunk is a whole one too.                               *)
Total == maxoffset[page] - minoffset[page] + 1
WholeChunk == ChunkLen
NextLen == Smaller(Total - done, ChunkLen)
Programmed(from, n, zeros) == [flash EXCEPT ![page] = [o \in Offset |->
    IF from <= o /\ o < from + 4 * n THEN @[o] \cap (IF zeros THEN {} ELSE datas[page][o]) ELSE @[o]]]

WriteChunk ==
    /\ step = "write" /\ done < Total
    /\ \E n \in 0..(NextLen \div 4), zeros \in BOOLEAN :
          /\ lost => n = 0
          /\ zeros => wires = "bad"
          /\ flash' = Programmed(minoffset[page] + done, n, zeros)
          /\ trouble' = (trouble \/ zeros \/ n < NextLen \div 4)
    /\ done' = done + NextLen
    /\ UNCHANGED <<run, step, wrapped, toErase, line, table, page, provo, lost, port>>

(* FCTL.ABORT after a page; a lost chip reads 0. *)
PageWritten ==
    /\ step = "write" /\ done >= Total
    /\ \/ step' = "verify" /\ UNCHANGED <<trouble, port>>
       \/ ~lost /\ Fail /\ trouble' = TRUE
    /\ UNCHANGED <<run, wrapped, toErase, line, table, page, provo, done, lost, flash>>
-----------------------------------------------------------------------------
(* readPage(): the page, the page up to where the chip is lost (the driver  *)
(* notices when the data pin stays high, which may read as a last 0xFF), or *)
(* on bad wires with a byte wrong, though never so that it looks right.     *)
InRange(p, o) == minoffset[p] <= o /\ o <= maxoffset[p]
UpTo(k, last) == [o \in Offset |-> IF o < k THEN flash[page][o] ELSE IF o = k THEN last ELSE {}]
Wrong == {x \in Offset \X Byte : /\ wires = "bad" /\ InRange(page, x[1])
                                 /\ x[2] # datas[page][x[1]]}
ReadPage(isLost) ==
    IF isLost THEN {[buf |-> UpTo(0, {}), lost |-> TRUE]}
    ELSE {[buf |-> flash[page], lost |-> FALSE]}
         \cup {[buf |-> UpTo(k, b), lost |-> TRUE] : k \in Offset, b \in {{}, Blank}}
         \cup {[buf |-> [flash[page] EXCEPT ![x[1]] = x[2]], lost |-> FALSE] : x \in Wrong}
Differs(buf) == \E o \in Offset : InRange(page, o) /\ buf[o] # datas[page][o]

(* After a first reading that differs the page is written again, unless a   *)
(* second reading is right; two equal readings are both wrong.  A page that *)
(* was right at once resets the count.  Faulty variant: every page does.    *)
AlwaysReset(isRight) == 0
Count(isRight) == IF isRight THEN 0 ELSE provo

VerifyPage ==
    /\ step = "verify"
    /\ \E r1 \in ReadPage(lost) : \E r2 \in ReadPage(r1.lost) :
          LET right == ~Differs(r1.buf)
          IN /\ lost' = IF right THEN r1.lost ELSE r2.lost
             /\ trouble' = (trouble \/ lost' \/ r1.buf # flash[page] \/ (~right /\ r2.buf # flash[page]))
             /\ provo' = Count(right)
             /\ IF ~right /\ provo' > Retries
                THEN Fail /\ UNCHANGED page
                ELSE /\ page' = IF right \/ ~Differs(r2.buf) THEN page + 1 ELSE page
                     /\ step' = "page" /\ UNCHANGED port
    /\ UNCHANGED <<run, wrapped, toErase, line, table, done, flash>>

(* flash OK.  The writer of page 0 resets the chip through the pins, the    *)
(* other one asks first and jumps to the application or resets it.          *)
Reset == active' = FALSE /\ chip' = "running"

AllWritten ==
    /\ step = "page" /\ page > maxpage
    /\ IF tool = "app" THEN step' = "ask" /\ UNCHANGED port ELSE step' = "done" /\ Reset
    /\ UNCHANGED <<run, wrapped, trouble, toErase, line, table, page, provo, done, lost, flash>>

Answer ==
    /\ step = "ask" /\ step' = "done"
    /\ \/ Deactivate(IF lost THEN chip ELSE "running")
       \/ Reset
    /\ UNCHANGED <<run, wrapped, trouble, toErase, line, table, page, provo, done, lost, flash>>
-----------------------------------------------------------------------------
Running == step \notin {"idle", "done", "error"}

(* A clip comes off, somebody presses Ctrl-C, somebody tries once more: of  *)
(* the run before only the flash and the port are left.                     *)
Lose ==
    /\ step \in {"read", "page", "write", "verify", "ask"} /\ ~lost
    /\ lost' = TRUE /\ trouble' = TRUE
    /\ UNCHANGED <<run, step, wrapped, toErase, line, table, page, provo, done, flash, port>>

Interrupt ==
    /\ Running
    /\ step' = "error" /\ trouble' = TRUE
    /\ UNCHANGED <<run, wrapped, toErase, line, table, page, provo, done, lost, flash, port>>

Again ==
    /\ step \in {"done", "error"} /\ step' = "idle"
    /\ EmptyTable /\ wrapped' = FALSE /\ trouble' = FALSE /\ toErase' = {}
    /\ line' = 1 /\ page' = 0 /\ provo' = 0 /\ done' = 0 /\ lost' = FALSE
    /\ UNCHANGED <<run, flash, port>>

ToolStep ==
    \/ EraseUnit \/ StartWriter \/ ReadRecord \/ CheckFile
    \/ NextPage \/ WriteChunk \/ PageWritten \/ VerifyPage \/ AllWritten \/ Answer

Next == RunWrapper \/ RunWriter \/ EraseChip \/ ToolStep \/ Lose \/ Interrupt \/ Again

Spec == Init /\ [][Next]_vars

(* A started program goes on, and the question at its end gets an answer.   *)
FairSpec == Spec /\ WF_vars(ToolStep)
-----------------------------------------------------------------------------
(* Types and widths; the count of attempts has no bound of its own: pages   *)
(* the file skips count as attempts too.                                    *)
TypeOK ==
    /\ tool \in {"app", "boot"} /\ file \in Files /\ wires \in {"good", "bad"}
    /\ step \in {"idle", "erase", "read", "page", "write", "verify", "ask", "done", "error"}
    /\ wrapped \in BOOLEAN /\ trouble \in BOOLEAN /\ lost \in BOOLEAN /\ active \in BOOLEAN
    /\ chip \in {"running", "held"}
    /\ toErase \in SUBSET (Page \X {0, 1})
    /\ line \in 1..(Len(file) + 1) /\ maxpage \in Page
    /\ minoffset \in [Page -> Offset \cup {65535}] /\ maxoffset \in [Page -> Offset]
    /\ datas \in Flash /\ flash \in Flash
    /\ page \in 0..(LastPage + 1) /\ provo \in 0..(Retries + page + 1) /\ done \in 0..PageLen

(* "flash OK" means it: every byte the file asks for is in the flash, the   *)
(* last record's where records overlap.  Left out are zeros at the end of a *)
(* page, with a 0xFF before them: what a lost chip seems to hold.           *)
(* write_app_via_debug.c, flash OK; flash_app_via_debug.py, "written and    *)
(* verified".                                                               *)
LikeNoChip(p, o) ==
    /\ Says(file, p, o) \subseteq {{}, Blank}
    /\ \A x \in Offset : x > o => Says(file, p, x) \subseteq {{}}
Written(p, o) == \A b \in Says(file, p, o) : flash[p][o] = b \/ LikeNoChip(p, o)
OkMeansWritten == step \in {"ask", "done"} => \A p \in Page, o \in Offset : Written(p, o)

(* Each tool stays in its own area of the flash, whatever the file, the     *)
(* wires and the order of runs (the README of the debug tools: "refuses to  *)
(* write outside it").                                                      *)
Changes(p, o) == flash'[p][o] # flash[p][o]
StaysInItsArea ==
    [][step # "idle" => \A p \in Page, o \in Offset :
          Changes(p, o) => (InBootloader(p, o) <=> tool = "boot")]_vars

(* Nothing but the units the file has bytes in is touched: erased are units *)
(* of 1 KB, written are ranges of 2 KB pages rounded to words.              *)
OnlyItsUnits ==
    [][step # "idle" /\ wires = "good" => \A p \in Page, o \in Offset :
          Changes(p, o) => <<p, Half(o)>> \in UnitsToErase]_vars

(* A file with bytes in the bootloader's page costs the chip nothing: the   *)
(* script looks before it erases, the writer before it writes               *)
(* (flash_app_via_debug.py, parse_ihx).                                     *)
RefusedIsHarmless ==
    [][step # "idle" /\ tool = "app" /\ HasBelow(file) => UNCHANGED flash]_vars

(* A run of the script that nothing disturbed fails only for the file's     *)
(* sake, whatever earlier runs left in the flash: what it erases is all the *)
(* writer needs erased.                                                     *)
Acceptable(f) ==
    /\ Readable(f)
    /\ IF tool = "app" THEN ~HasBelow(f) /\ f # <<>> ELSE ~HasAbove(f)
FailsForAReason == step = "error" /\ wrapped /\ ~trouble => ~Acceptable(file)

(* Every run ends, also when no page ever reads back right.                 *)
Ends == Running ~> ~Running
=============================================================================
