-------------------------- MODULE DebugFlashProofs --------------------------
(***************************************************************************)
(* DebugFlash: for every file, page and chunk size, any wires, any number  *)
(* of runs cut short anywhere, each tool stays in its area, touches only   *)
(* the units its file has bytes in, "flash OK" means the file is in the    *)
(* flash, provided a later or earlier record reaches as far as the tail of *)
(* each record that crosses a page, and a run that nothing disturbed fails *)
(* only for the file's sake.                                               *)
(***************************************************************************)
EXTENDS DebugFlash, TLAPS
-----------------------------------------------------------------------------
LEMMA Sizes ==
    /\ Unit \in Nat /\ Unit > 0 /\ Unit % 4 = 0
    /\ PageLen \in Nat /\ PageLen > 0 /\ PageLen % 4 = 0
    /\ ChunkLen \in Nat /\ ChunkLen > 0
    /\ LastPage \in Nat /\ Retries \in Nat
BY DebugFlashAssumption DEF DebugFlashAssumption, PageLen

(* What a record covers lies in the chip, and its bytes in the record. *)
LEMMA RecordFacts ==
    ASSUME NEW r \in Record
    PROVE  /\ r.page \in Page /\ r.start \in Offset
           /\ HeadEnd(r) \in Offset /\ r.start <= HeadEnd(r)
           /\ Crosses(r) => r.page + 1 \in Page /\ TailLen(r) - 1 \in Offset /\ HeadEnd(r) = PageLen - 1
           /\ LastOf(r) \in Page
           /\ \A p \in Page, o \in Offset : Holds(r, p, o) => ByteAt(r, p, o) \in Byte
<1>1. /\ r.page \in Page /\ r.start \in Offset /\ r.bytes \in Seq(Byte)
      /\ Len(r.bytes) \in 1..PageLen
      /\ r.start + Len(r.bytes) > PageLen => r.page < LastPage
    BY DEF Record
<1>2. \A p \in Page, o \in Offset : Holds(r, p, o) => ByteAt(r, p, o) \in Byte
  <2> SUFFICES ASSUME NEW p \in Page, NEW o \in Offset, Holds(r, p, o)
               PROVE  ByteAt(r, p, o) \in Byte
      OBVIOUS
  <2> DEFINE n == IF p = r.page THEN o - r.start + 1 ELSE PageLen - r.start + o + 1
  <2>1. CASE InHead(r, p, o)
    <3>1. r.start <= o /\ o <= HeadEnd(r) /\ n = o - r.start + 1
        BY <2>1 DEF InHead
    <3>2. HeadEnd(r) <= r.start + Len(r.bytes) - 1
        BY <1>1, Sizes DEF HeadEnd, Crosses, Offset
    <3>3. HeadEnd(r) \in Int
        BY <1>1, Sizes DEF HeadEnd, Offset
    <3> HIDE DEF n
    <3>4. n \in 1..Len(r.bytes)
      <4>1. r.start \in Nat /\ o \in Nat /\ Len(r.bytes) \in Nat
          BY <1>1 DEF Offset
      <4>2. n \in Nat /\ 1 <= n /\ n <= Len(r.bytes)
          BY ONLY <3>1, <3>2, <3>3, <4>1
      <4> QED
          BY <4>1, <4>2
    <3> QED
        BY <1>1, <3>4 DEF ByteAt, n
  <2>2. CASE InTail(r, p, o)
    <3>1. n = PageLen - r.start + o + 1 /\ o < r.start + Len(r.bytes) - PageLen
        BY <1>1, <2>2 DEF InTail, TailLen, Page
    <3> HIDE DEF n
    <3>2. /\ r.start \in Nat /\ r.start < PageLen /\ o \in Nat
          /\ PageLen \in Nat /\ Len(r.bytes) \in Nat
        BY <1>1, Sizes DEF Offset
    <3>3. n \in Nat /\ 1 <= n /\ n <= Len(r.bytes)
        BY ONLY <3>1, <3>2
    <3>4. n \in 1..Len(r.bytes)
        BY <3>2, <3>3
    <3> QED
        BY <1>1, <3>4 DEF ByteAt, n
  <2> QED
      BY <2>1, <2>2 DEF Holds
<1> QED
    BY <1>1, <1>2, Sizes DEF HeadEnd, Crosses, TailLen, LastOf, Page, Offset

LEMMA FileFacts ==
    ASSUME file \in Files
    PROVE  /\ file \in Seq(Record) /\ Len(file) \in Nat /\ DOMAIN file = 1..Len(file)
           /\ \A i \in 1..Len(file) : file[i] \in Record
BY DebugFlashAssumption DEF DebugFlashAssumption

LEMMA FlashFacts ==
    /\ \A f \in Flash, p \in Page : f[p] \in [Offset -> Byte]
    /\ \A f \in Flash, p \in Page, o \in Offset : f[p][o] \in Byte
    /\ [p \in Page |-> [o \in Offset |-> Blank]] \in Flash
    /\ \A f \in Flash, p \in Page : \A g \in [Offset -> Byte] : [f EXCEPT ![p] = g] \in Flash
    /\ 0 \in Page /\ 0 \in Offset
BY Sizes DEF Flash, Byte, Blank, Page, Offset
-----------------------------------------------------------------------------
(* The type invariant in three parts: names, the table and the flash, and   *)
(* the counters, with what bounds them where they are used.                 *)
Steps == {"idle", "erase", "read", "page", "write", "verify", "ask", "done", "error"}

Names ==
    /\ tool \in {"app", "boot"} /\ file \in Files /\ wires \in {"good", "bad"}
    /\ step \in Steps
    /\ wrapped \in BOOLEAN /\ trouble \in BOOLEAN /\ lost \in BOOLEAN /\ active \in BOOLEAN
    /\ chip \in {"running", "held"}
    /\ toErase \in SUBSET (Page \X {0, 1})

Tables ==
    /\ line \in 1..(Len(file) + 1) /\ maxpage \in Page
    /\ minoffset \in [Page -> Offset \cup {65535}] /\ maxoffset \in [Page -> Offset]
    /\ datas \in Flash /\ flash \in Flash

Counts ==
    /\ page \in Nat /\ page <= LastPage + 1
    /\ provo \in Nat /\ provo <= Retries + page + 1
    /\ done \in Nat /\ done <= PageLen
    /\ step = "page" => provo <= Retries + page
    /\ step \in {"write", "verify"} => page \in Page /\ Used(page)
    /\ step = "write" => done <= Total

TypeInv == Names /\ Tables /\ Counts

LEMMA TypeInvIsType == TypeInv => TypeOK
BY Sizes DEF TypeInv, Names, Tables, Counts, TypeOK, Steps

LEMMA TypeInit == Init => TypeInv
<1> SUFFICES ASSUME Init PROVE TypeInv
    OBVIOUS
<1>1. Names
    BY DEF Init, Names, Steps
<1>2. file \in Files /\ flash \in Flash
    BY DebugFlashAssumption DEF Init, DebugFlashAssumption
<1>3. Tables
    BY <1>2, FileFacts, FlashFacts DEF Init, Tables, NoMin, NoMax, NoDatas
<1>4. Counts
    BY Sizes DEF Init, Counts
<1> QED
    BY <1>1, <1>3, <1>4 DEF TypeInv

LEMMA ReadLost ==
    ASSUME NEW b \in BOOLEAN, NEW r \in ReadPage(b)
    PROVE  r.lost \in BOOLEAN
<1>1. CASE r = [buf |-> UpTo(0, {}), lost |-> TRUE]
    BY <1>1
<1>2. CASE r = [buf |-> flash[page], lost |-> FALSE]
    BY <1>2
<1>3. CASE \E k \in Offset, last \in {{}, Blank} : r = [buf |-> UpTo(k, last), lost |-> TRUE]
    BY <1>3
<1>4. CASE \E x \in Wrong : r = [buf |-> [flash[page] EXCEPT ![x[1]] = x[2]], lost |-> FALSE]
    BY <1>4
<1> QED
    BY <1>1, <1>2, <1>3, <1>4 DEF ReadPage

(* What a verification may come to, short of the flash's contents. *)
LEMMA VerifyOutcome ==
    ASSUME Names, VerifyPage
    PROVE  /\ step = "verify" /\ lost' \in BOOLEAN /\ trouble' \in BOOLEAN
           /\ UNCHANGED <<run, wrapped, toErase, line, table, done, flash, port>>
           /\ \/ step' = "error" /\ page' = page /\ provo' \in {0, provo}
              \/ /\ step' = "page" /\ page' \in {page, page + 1}
                 /\ provo' = 0 \/ (provo' = provo /\ ~(provo > Retries))
<1>1. step = "verify" /\ UNCHANGED <<run, wrapped, toErase, line, table, done, flash>>
    BY DEF VerifyPage
<1>2. \A b \in BOOLEAN : \A r \in ReadPage(b) : r.lost \in BOOLEAN
    BY ReadLost
<1>3. PICK r1 \in ReadPage(lost) : \E r2 \in ReadPage(r1.lost) :
        /\ lost' = IF ~Differs(r1.buf) THEN r1.lost ELSE r2.lost
        /\ trouble' = (trouble \/ lost' \/ r1.buf # flash[page] \/ (Differs(r1.buf) /\ r2.buf # flash[page]))
        /\ provo' = Count(~Differs(r1.buf))
        /\ IF Differs(r1.buf) /\ provo' > Retries
           THEN Fail /\ UNCHANGED page
           ELSE /\ page' = IF ~Differs(r1.buf) \/ ~Differs(r2.buf) THEN page + 1 ELSE page
                /\ step' = "page" /\ UNCHANGED port
    BY DEF VerifyPage
<1>4. PICK r2 \in ReadPage(r1.lost) :
        /\ lost' = IF ~Differs(r1.buf) THEN r1.lost ELSE r2.lost
        /\ trouble' = (trouble \/ lost' \/ r1.buf # flash[page] \/ (Differs(r1.buf) /\ r2.buf # flash[page]))
        /\ provo' = Count(~Differs(r1.buf))
        /\ IF Differs(r1.buf) /\ provo' > Retries
           THEN Fail /\ UNCHANGED page
           ELSE /\ page' = IF ~Differs(r1.buf) \/ ~Differs(r2.buf) THEN page + 1 ELSE page
                /\ step' = "page" /\ UNCHANGED port
    BY <1>3
<1>5. r1.lost \in BOOLEAN /\ r2.lost \in BOOLEAN
    BY <1>2, <1>3, <1>4 DEF Names
<1>6. lost' \in BOOLEAN
    BY <1>4, <1>5
<1>7. trouble' \in BOOLEAN
    BY <1>4
<1> QED
    BY <1>1, <1>4, <1>6, <1>7, Zenon DEF Count, Fail, port

LEMMA NamesStep ==
    ASSUME Names, [Next]_vars
    PROVE  Names'
<1> USE DEF Names, Steps, run, port, table, Fail, Reset, Deactivate, CcExit
<1>1. CASE RunWrapper
  <2>1. UnitsToErase \in SUBSET (Page \X {0, 1})
      BY FlashFacts DEF UnitsToErase, UnitsOf, BootUnit
  <2> QED
      BY <1>1, <2>1 DEF RunWrapper
<1>2. CASE RunWriter
    BY <1>2 DEF RunWriter
<1>3. CASE EraseChip
    BY <1>3 DEF EraseChip
<1>4. CASE EraseUnit
    BY <1>4 DEF EraseUnit
<1>5. CASE StartWriter
    BY <1>5 DEF StartWriter
<1>6. CASE ReadRecord
    BY <1>6 DEF ReadRecord
<1>7. CASE CheckFile
    BY <1>7 DEF CheckFile
<1>8. CASE NextPage
    BY <1>8 DEF NextPage
<1>9. CASE WriteChunk
    BY <1>9 DEF WriteChunk
<1>10. CASE PageWritten
    BY <1>10 DEF PageWritten
<1>11. CASE VerifyPage
    BY <1>11, VerifyOutcome
<1>12. CASE AllWritten
    BY <1>12 DEF AllWritten
<1>13. CASE Answer
    BY <1>13 DEF Answer
<1>14. CASE Lose
    BY <1>14 DEF Lose
<1>15. CASE Interrupt
    BY <1>15 DEF Interrupt
<1>16. CASE Again
    BY <1>16 DEF Again
<1>17. CASE UNCHANGED vars
    BY <1>17 DEF vars
<1> QED
    BY <1>1, <1>2, <1>3, <1>4, <1>5, <1>6, <1>7, <1>8, <1>9, <1>10, <1>11, <1>12,
       <1>13, <1>14, <1>15, <1>16, <1>17 DEF Next, ToolStep

-----------------------------------------------------------------------------
LEMMA EmptyTableFits == NoMin \in [Page -> Offset \cup {65535}] /\ NoMax \in [Page -> Offset] /\ NoDatas \in Flash
BY FlashFacts DEF NoMin, NoMax, NoDatas

(* What reading a record does to the table. *)
LEMMA RecordInTable ==
    ASSUME Names, Tables, ReadRecord, file[line].good
    PROVE  LET r == file[line]
           IN /\ r \in Record /\ line <= Len(file) /\ line' = line + 1
              /\ maxpage' = Larger(maxpage, LastOf(r))
              /\ minoffset' = Lower(r) /\ maxoffset' = Raise(r)
              /\ datas' = [p \in Page |-> [o \in Offset |->
                              IF Holds(r, p, o) THEN ByteAt(r, p, o) ELSE datas[p][o]]]
BY FileFacts DEF Names, Tables, ReadRecord

(* Its two ends, read off page by page. *)
LEMMA EndsOf ==
    ASSUME Tables, NEW r \in Record, NEW p \in Page
    PROVE  /\ Lower(r) \in [Page -> Offset \cup {65535}] /\ Raise(r) \in [Page -> Offset]
           /\ Lower(r)[p] <= minoffset[p] /\ Raise(r)[p] >= maxoffset[p]
           /\ Lower(r)[r.page] <= r.start /\ Raise(r)[r.page] >= HeadEnd(r)
           /\ Crosses(r) => Lower(r)[r.page + 1] = 0
           /\ p # r.page => Raise(r)[p] = maxoffset[p]
<1>1. /\ r.page \in Page /\ r.start \in Offset /\ HeadEnd(r) \in Offset
      /\ Crosses(r) => r.page + 1 \in Page /\ TailLen(r) - 1 \in Offset
    BY RecordFacts
<1>2. minoffset \in [Page -> Offset \cup {65535}] /\ maxoffset \in [Page -> Offset]
    BY DEF Tables
<1>3. Lower(r) \in [Page -> Offset \cup {65535}]
    BY <1>1, <1>2, FlashFacts DEF Lower, Smaller
<1>4. /\ Lower(r)[p] <= minoffset[p] /\ Lower(r)[r.page] <= r.start
      /\ Crosses(r) => Lower(r)[r.page + 1] = 0
  <2>1. minoffset[p] \in Int /\ minoffset[p] >= 0 /\ minoffset[r.page] \in Int /\ r.start \in Int
      BY <1>1, <1>2, Sizes DEF Offset
  <2>2. Lower(r)[p] = IF p = r.page THEN Smaller(r.start, minoffset[p])
                      ELSE IF Crosses(r) /\ p = r.page + 1 THEN 0 ELSE minoffset[p]
      BY DEF Lower
  <2>3. Lower(r)[r.page] = Smaller(r.start, minoffset[r.page])
      BY <1>1 DEF Lower
  <2>4. Crosses(r) => Lower(r)[r.page + 1] = 0
      BY <1>1 DEF Lower, Page
  <2> QED
      BY <2>1, <2>2, <2>3, <2>4 DEF Smaller
<1> DEFINE tail == IF Crosses(r) THEN [maxoffset EXCEPT ![r.page] = Larger(@, TailLen(r) - 1)] ELSE maxoffset
<1>5. tail \in [Page -> Offset] /\ tail[p] >= maxoffset[p] /\ (p # r.page => tail[p] = maxoffset[p])
    BY <1>1, <1>2, Sizes DEF Larger, Offset
<1>6. Raise(r) = [tail EXCEPT ![r.page] = Larger(@, HeadEnd(r))]
    BY DEF Raise, TailPage
<1> HIDE DEF tail
<1>7. /\ Raise(r) \in [Page -> Offset] /\ Raise(r)[p] >= tail[p] /\ Raise(r)[r.page] >= HeadEnd(r)
      /\ p # r.page => Raise(r)[p] = tail[p]
    BY <1>1, <1>5, <1>6, Sizes DEF Larger, Offset
<1> QED
    BY <1>1, <1>2, <1>3, <1>4, <1>5, <1>7, Sizes DEF Offset

LEMMA TablesRead ==
    ASSUME Names, Tables, ReadRecord
    PROVE  Tables'
<1>1. CASE ~file[line].good
    BY <1>1 DEF ReadRecord, Tables, run, table
<1>2. CASE file[line].good
  <2> DEFINE r == file[line]
  <2>1. /\ r \in Record /\ line <= Len(file) /\ line' = line + 1
        /\ maxpage' = Larger(maxpage, LastOf(r))
        /\ minoffset' = Lower(r) /\ maxoffset' = Raise(r)
        /\ datas' = [p \in Page |-> [o \in Offset |->
                        IF Holds(r, p, o) THEN ByteAt(r, p, o) ELSE datas[p][o]]]
      BY <1>2, RecordInTable
  <2>2. file' = file /\ flash' = flash /\ Len(file) \in Nat
      BY FileFacts DEF ReadRecord, run, Names
  <2> HIDE DEF r
  <2>3. line' \in 1..(Len(file') + 1)
      BY <2>1, <2>2 DEF Tables
  <2>4. maxpage' \in Page
      BY <2>1, RecordFacts DEF Tables, Larger
  <2>5. minoffset' \in [Page -> Offset \cup {65535}] /\ maxoffset' \in [Page -> Offset]
      BY <2>1, EndsOf, FlashFacts
  <2>6. \A p \in Page, o \in Offset : (IF Holds(r, p, o) THEN ByteAt(r, p, o) ELSE datas[p][o]) \in Byte
      BY <2>1, RecordFacts, FlashFacts DEF Tables
  <2>7. datas' \in Flash
      BY <2>1, <2>6 DEF Flash
  <2> QED
      BY <2>2, <2>3, <2>4, <2>5, <2>7 DEF Tables
<1> QED
    BY <1>1, <1>2

(* The ends rounded to words stay in the page. *)
LEMMA WordsInPage ==
    ASSUME NEW o \in Offset
    PROVE  /\ o - (o % 4) \in Offset /\ o - (o % 4) + 3 \in Offset
           /\ o - (o % 4) <= o /\ o <= o - (o % 4) + 3
           /\ o >= Unit => o - (o % 4) >= Unit
           /\ o < Unit => o - (o % 4) + 3 < Unit
BY Sizes DEF Offset

LEMMA RoundedEnds ==
    ASSUME Tables, Counts, NextPage, Used(page)
    PROVE  /\ page \in Page /\ minoffset[page] \in Offset /\ maxoffset[page] \in Offset
           /\ minoffset' = [minoffset EXCEPT ![page] = minoffset[page] - (minoffset[page] % 4)]
           /\ maxoffset' = [maxoffset EXCEPT ![page] = maxoffset[page] - (maxoffset[page] % 4) + 3]
           /\ minoffset' \in [Page -> Offset \cup {65535}] /\ maxoffset' \in [Page -> Offset]
           /\ \A p \in Page : minoffset'[p] <= minoffset[p] /\ maxoffset'[p] >= maxoffset[p]
<1>1. page \in Page
    BY Sizes DEF NextPage, Tables, Counts, Page
<1>2. maxoffset[page] \in Offset /\ minoffset[page] \in Offset
    BY <1>1, Sizes DEF Tables, Used, Offset
<1>3. /\ minoffset' = [minoffset EXCEPT ![page] = minoffset[page] - (minoffset[page] % 4)]
      /\ maxoffset' = [maxoffset EXCEPT ![page] = maxoffset[page] - (maxoffset[page] % 4) + 3]
    BY DEF NextPage
<1>4. /\ minoffset[page] - (minoffset[page] % 4) \in Offset
      /\ minoffset[page] - (minoffset[page] % 4) <= minoffset[page]
      /\ maxoffset[page] - (maxoffset[page] % 4) + 3 \in Offset
      /\ maxoffset[page] <= maxoffset[page] - (maxoffset[page] % 4) + 3
    BY <1>2, WordsInPage
<1>5. minoffset' \in [Page -> Offset \cup {65535}] /\ maxoffset' \in [Page -> Offset]
    BY <1>1, <1>3, <1>4 DEF Tables
<1>6. \A p \in Page : minoffset'[p] <= minoffset[p] /\ maxoffset'[p] >= maxoffset[p]
  <2> DEFINE lo == minoffset[page] - (minoffset[page] % 4)
             hi == maxoffset[page] - (maxoffset[page] % 4) + 3
  <2>1. \A p \in Page : minoffset[p] \in Int /\ maxoffset[p] \in Int
      BY DEF Tables, Offset
  <2>2. lo <= minoffset[page] /\ maxoffset[page] <= hi
      BY <1>4
  <2>3. minoffset' = [minoffset EXCEPT ![page] = lo] /\ maxoffset' = [maxoffset EXCEPT ![page] = hi]
      BY <1>3
  <2>4. hi \in Int
      BY <1>4 DEF Offset
  <2> HIDE DEF lo, hi
  <2>5. DOMAIN minoffset = Page /\ DOMAIN maxoffset = Page
      BY DEF Tables
  <2> QED
      BY ONLY <2>1, <2>2, <2>3, <2>4, <2>5
<1> QED
    BY <1>1, <1>2, <1>3, <1>5, <1>6

LEMMA TablesPage ==
    ASSUME Names, Tables, Counts, NextPage
    PROVE  Tables'
<1>1. line' = line /\ file' = file /\ maxpage' = maxpage /\ datas' = datas /\ flash' = flash
    BY DEF NextPage, run
<1>2. CASE Used(page)
    BY <1>1, <1>2, RoundedEnds DEF Tables
<1>3. CASE ~Used(page)
    BY <1>1, <1>3 DEF NextPage, Tables
<1> QED
    BY <1>2, <1>3

LEMMA FlashWritten ==
    ASSUME Tables, page \in Page, NEW from, NEW n, NEW zeros
    PROVE  Programmed(from, n, zeros) \in Flash
<1> DEFINE g == [o \in Offset |-> IF from <= o /\ o < from + 4 * n
                                  THEN flash[page][o] \cap (IF zeros THEN {} ELSE datas[page][o])
                                  ELSE flash[page][o]]
<1>1. \A o \in Offset : flash[page][o] \in Byte
    BY FlashFacts DEF Tables
<1>2. g \in [Offset -> Byte]
    BY <1>1 DEF Byte
<1>3. Programmed(from, n, zeros) = [flash EXCEPT ![page] = g]
    BY DEF Programmed
<1> HIDE DEF g
<1> QED
    BY <1>2, <1>3 DEF Tables, Flash

LEMMA FlashErased ==
    ASSUME NEW f \in Flash, NEW u \in Page \X {0, 1}
    PROVE  Erased(f, u) \in Flash
<1> DEFINE g == [o \in Offset |-> IF Half(o) = u[2] THEN Blank ELSE f[u[1]][o]]
<1>1. u[1] \in Page /\ \A o \in Offset : f[u[1]][o] \in Byte /\ Blank \in Byte
    BY FlashFacts DEF Byte, Blank
<1>2. g \in [Offset -> Byte]
    BY <1>1
<1>3. Erased(f, u) = [f EXCEPT ![u[1]] = g]
    BY DEF Erased
<1> HIDE DEF g
<1> QED
    BY <1>1, <1>2, <1>3 DEF Flash

(* The actions that leave the table alone, and those that empty it. *)
LEMMA TablesOther ==
    ASSUME Names, Tables,
           \/ RunWrapper \/ RunWriter \/ CheckFile \/ PageWritten \/ VerifyPage \/ AllWritten
           \/ Answer \/ Lose \/ Interrupt \/ UNCHANGED vars
    PROVE  UNCHANGED <<file, flash, line, table>>
<1> USE DEF run, table
<1>1. CASE RunWrapper \/ RunWriter
    BY <1>1 DEF RunWrapper, RunWriter
<1>2. CASE CheckFile \/ PageWritten \/ AllWritten
    BY <1>2 DEF CheckFile, PageWritten, AllWritten
<1>3. CASE VerifyPage
    BY <1>3, VerifyOutcome
<1>4. CASE Answer \/ Lose \/ Interrupt
    BY <1>4 DEF Answer, Lose, Interrupt
<1>5. CASE UNCHANGED vars
    BY <1>5 DEF vars
<1> QED
    BY <1>1, <1>2, <1>3, <1>4, <1>5

LEMMA TablesEmptied ==
    ASSUME Names, Tables, StartWriter \/ Again
    PROVE  Tables'
<1>1. EmptyTable /\ file' = file /\ flash' = flash /\ line' = 1
    BY DEF StartWriter, Again, run
<1>2. Len(file) \in Nat
    BY FileFacts DEF Names
<1> QED
    BY <1>1, <1>2, EmptyTableFits, FlashFacts DEF Tables, EmptyTable

LEMMA TablesStep ==
    ASSUME TypeInv, [Next]_vars
    PROVE  Tables'
<1> USE DEF TypeInv
<1>1. CASE \/ RunWrapper \/ RunWriter \/ CheckFile \/ PageWritten \/ VerifyPage \/ AllWritten
           \/ Answer \/ Lose \/ Interrupt \/ UNCHANGED vars
  <2>1. UNCHANGED <<file, flash, line, table>>
      BY <1>1, TablesOther
  <2> QED
      BY <2>1 DEF Tables, table
<1>2. CASE EraseChip
  <2>1. UNCHANGED <<file, line, table>> /\ flash' \in Flash
      BY <1>2, FlashFacts DEF EraseChip, Tables, run
  <2> QED
      BY <2>1 DEF Tables, table
<1>3. CASE EraseUnit
  <2>1. UNCHANGED <<file, line, table>>
      BY <1>3 DEF EraseUnit, run
  <2>2. \E u \in toErase : flash' = flash \/ flash' = Erased(flash, u)
      BY <1>3 DEF EraseUnit
  <2>3. flash' \in Flash
      BY <2>2, FlashErased DEF Tables, Names
  <2> QED
      BY <2>1, <2>3 DEF Tables, table
<1>4. CASE StartWriter \/ Again
    BY <1>4, TablesEmptied
<1>5. CASE ReadRecord
    BY <1>5, TablesRead
<1>6. CASE NextPage
    BY <1>6, TablesPage
<1>7. CASE WriteChunk
  <2>1. UNCHANGED <<file, line, table>> /\ page \in Page
      BY <1>7 DEF WriteChunk, run, Counts
  <2>2. \E n \in 0..(NextLen \div 4), zeros \in BOOLEAN : flash' = Programmed(minoffset[page] + done, n, zeros)
      BY <1>7 DEF WriteChunk
  <2>3. flash' \in Flash
      BY <2>1, <2>2, FlashWritten
  <2> QED
      BY <2>1, <2>3 DEF Tables, table
<1> QED
    BY <1>1, <1>2, <1>3, <1>4, <1>5, <1>6, <1>7 DEF Next, ToolStep

(* The counters. *)
LEMMA CountsPage ==
    ASSUME TypeInv, NextPage
    PROVE  Counts'
<1>1. /\ step = "page" /\ page <= maxpage /\ provo' = provo + 1
      /\ maxpage \in Page /\ page \in Nat /\ provo \in Nat /\ provo <= Retries + page /\ done \in Nat /\ done <= PageLen
    BY DEF NextPage, TypeInv, Counts, Tables
<1>2. CASE Used(page)
  <2>1. page' = page /\ done' = 0 /\ step' = "write"
      BY <1>2 DEF NextPage
  <2>2. /\ page \in Page /\ minoffset'[page] \in Int /\ maxoffset'[page] \in Int
        /\ minoffset'[page] <= maxoffset'[page]
    <3>1. /\ page \in Page /\ minoffset[page] \in Int /\ maxoffset[page] \in Int
          /\ minoffset'[page] <= minoffset[page] /\ maxoffset'[page] >= maxoffset[page]
          /\ minoffset' \in [Page -> Offset \cup {65535}] /\ maxoffset' \in [Page -> Offset]
        BY <1>2, RoundedEnds DEF TypeInv, Offset
    <3>2. minoffset'[page] \in Int /\ maxoffset'[page] \in Int
        BY <3>1 DEF Offset
    <3> QED
        BY <1>2, <3>1, <3>2 DEF Used
  <2> QED
      BY <1>1, <2>1, <2>2, Sizes DEF Counts, Used, Total, Page
<1>3. CASE ~Used(page)
  <2>1. page' = page + 1 /\ done' = done /\ step' = "page"
      BY <1>1, <1>3 DEF NextPage
  <2> QED
      BY <1>1, <2>1, Sizes DEF Counts, Page
<1> QED
    BY <1>2, <1>3

LEMMA Attempts ==
    ASSUME NEW m \in Nat, NEW p \in Nat, NEW q \in Nat, NEW v \in Nat, NEW w \in Nat,
           p <= q, v <= m + p + 1, w = 0 \/ w = v
    PROVE  w <= m + q + 1 /\ (w = 0 \/ v <= m => w <= m + q)
OBVIOUS

LEMMA CountsStep ==
    ASSUME TypeInv, [Next]_vars
    PROVE  Counts'
<1> USE Sizes DEF TypeInv
<1>1. CASE NextPage
    BY <1>1, CountsPage
<1>2. CASE WriteChunk
  <2>1. UNCHANGED <<step, page, provo, minoffset, maxoffset>> /\ done' = done + NextLen /\ step = "write" /\ done < Total
      BY <1>2 DEF WriteChunk, table
  <2>2. Total \in Int /\ Total <= PageLen
      BY <2>1 DEF Counts, Total, Tables, Offset, Used
  <2>3. Total' = Total /\ Used(page)' = Used(page)
      BY <2>1 DEF Total, Used
  <2>4. done' \in Nat /\ done' <= Total
      BY <2>1, <2>2 DEF NextLen, Smaller, Counts
  <2> QED
      BY <2>1, <2>2, <2>3, <2>4 DEF Counts
<1>3. CASE VerifyPage
  <2>1. UNCHANGED done /\ page \in Page /\ step = "verify" /\ provo \in Nat
      BY <1>3, VerifyOutcome DEF Counts
  <2>2. /\ step' \in {"error", "page"} /\ page' \in {page, page + 1} /\ provo' \in {0, provo}
        /\ step' = "page" => provo' = 0 \/ ~(provo > Retries)
        /\ step' = "error" => page' = page
      BY <1>3, VerifyOutcome
  <2>3. /\ page \in Nat /\ page <= LastPage /\ provo <= Retries + page + 1 /\ done \in Nat /\ done <= PageLen
      BY <2>1 DEF Counts, Page
  <2>4. page' \in Nat /\ page' <= LastPage + 1 /\ page <= page' /\ provo' \in Nat
      BY <2>1, <2>2, <2>3
  <2>5. provo' <= Retries + page' + 1 /\ (provo' = 0 \/ provo <= Retries => provo' <= Retries + page')
    <3>1. Retries \in Nat /\ provo \in Nat /\ page \in Nat /\ (provo' = 0 \/ provo' = provo)
        BY <2>1, <2>2, <2>3
    <3> QED
        BY ONLY <2>3, <2>4, <3>1, Attempts
  <2>6. provo' = 0 \/ provo <= Retries \/ step' # "page"
      BY <2>1, <2>2
  <2>7. step' = "page" => provo' <= Retries + page'
      BY <2>5, <2>6, Zenon
  <2> QED
      BY <2>1, <2>2, <2>3, <2>4, <2>5, <2>7 DEF Counts
<1>4. CASE PageWritten
    BY <1>4 DEF PageWritten, Counts, Used, table, Fail
<1>5. CASE CheckFile
    BY <1>5 DEF CheckFile, Counts, Fail
<1>6. CASE RunWrapper \/ RunWriter \/ EraseChip \/ EraseUnit
    BY <1>6 DEF RunWrapper, RunWriter, EraseChip, EraseUnit, Counts
<1>7. CASE StartWriter \/ Again
    BY <1>7 DEF StartWriter, Again, Counts
<1>8. CASE ReadRecord
    BY <1>8 DEF ReadRecord, Counts, Fail
<1>9. CASE AllWritten \/ Answer \/ Interrupt
    BY <1>9 DEF AllWritten, Answer, Interrupt, Counts
<1>10. CASE Lose
    BY <1>10 DEF Lose, Counts, Used, Total, table
<1>11. CASE UNCHANGED vars
    BY <1>11 DEF vars, Counts, Used, Total, table
<1> QED
    BY <1>1, <1>2, <1>3, <1>4, <1>5, <1>6, <1>7, <1>8, <1>9, <1>10, <1>11 DEF Next, ToolStep

LEMMA TypeStep ==
    ASSUME TypeInv, [Next]_vars
    PROVE  TypeInv'
BY NamesStep, TablesStep, CountsStep DEF TypeInv

(* Type correctness: the page table is never indexed beyond itself and the  *)
(* attempts are bounded, for every file and every fault.                    *)
THEOREM TypeCorrect == Spec => []TypeOK
<1>1. Init => TypeInv
    BY TypeInit
<1>2. TypeInv /\ [Next]_vars => TypeInv'
    BY TypeStep
<1> QED
    BY <1>1, <1>2, TypeInvIsType, PTL DEF Spec
-----------------------------------------------------------------------------
(* The areas: what the writer is about to write lies in its own area, and   *)
(* what is to be erased in the file's units.                                *)
Writing == step \in {"page", "write", "verify"}

Placed ==
    /\ Writing /\ tool = "app" => ~AppRefuses
    /\ Writing /\ tool = "boot" => maxpage = 0 /\ maxoffset[0] < Unit
    /\ step \in {"write", "verify"} => page <= maxpage
    /\ toErase \subseteq UnitsToErase

(* Only what the file asks for is not blank in the table. *)
FromFile == \A p \in Page, o \in Offset : datas[p][o] # Blank => Asked(file, p, o)

(* Every record read so far is within the table's ranges, except the end of *)
(* a tail.                                                                  *)
Ranged(r) ==
    /\ minoffset[r.page] <= r.start /\ HeadEnd(r) <= maxoffset[r.page] /\ LastOf(r) <= maxpage
    /\ Crosses(r) => minoffset[r.page + 1] = 0
Covered ==
    /\ \A i \in 1..(line - 1) : Ranged(file[i])
    /\ step \in {"page", "write", "verify", "ask", "done"} => line = Len(file) + 1

(* The writer's refusal is the script's. *)
Harmless ==
    tool = "app" /\ HasBelow(file) => toErase = {} /\ ~Writing

(* The table holds the last byte read for each place. *)
Newest ==
    \A p \in Page, o \in Offset : \A i \in 1..(line - 1) :
        Holds(file[i], p, o) /\ (\A k \in (i + 1)..(line - 1) : ~Holds(file[k], p, o))
            => datas[p][o] = ByteAt(file[i], p, o)

(* A page behind the writer holds its range of the table, but for what a    *)
(* lost chip seems to hold.                                                 *)
Silent(p, o) ==
    /\ datas[p][o] \in {{}, Blank}
    /\ \A x \in Offset : x > o /\ InRange(p, x) => datas[p][x] = {}
Right(p) == \A o \in Offset : InRange(p, o) => flash[p][o] = datas[p][o] \/ Silent(p, o)
Behind ==
    /\ Writing => \A p \in Page : p < page => Right(p)
    /\ step \in {"ask", "done"} => \A p \in Page : p <= maxpage => Right(p)

(* The actions by what they do to the table ... *)
LEMMA TableFrame ==
    ASSUME TypeInv, [Next]_vars
    PROVE  /\ file' = file /\ tool' = tool
           /\ \/ UNCHANGED <<line, table>>
              \/ EmptyTable /\ line' = 1
              \/ ReadRecord /\ file[line].good
              \/ NextPage /\ Used(page)
<1> USE DEF run, table
<1>1. CASE \/ RunWrapper \/ RunWriter \/ CheckFile \/ PageWritten \/ VerifyPage \/ AllWritten
           \/ Answer \/ Lose \/ Interrupt \/ UNCHANGED vars
  <2>1. UNCHANGED <<file, flash, line, table>>
      BY <1>1, TablesOther DEF TypeInv
  <2>2. tool' = tool
    <3>1. CASE RunWrapper \/ RunWriter \/ CheckFile \/ PageWritten \/ AllWritten
        BY <3>1 DEF RunWrapper, RunWriter, CheckFile, PageWritten, AllWritten
    <3>2. CASE VerifyPage
        BY <3>2, VerifyOutcome DEF TypeInv
    <3>3. CASE Answer \/ Lose \/ Interrupt
        BY <3>3 DEF Answer, Lose, Interrupt
    <3>4. CASE UNCHANGED vars
        BY <3>4 DEF vars
    <3> QED
        BY <1>1, <3>1, <3>2, <3>3, <3>4
  <2> QED
      BY <2>1, <2>2
<1>2. CASE EraseChip \/ EraseUnit \/ WriteChunk
    BY <1>2 DEF EraseChip, EraseUnit, WriteChunk
<1>3. CASE StartWriter \/ Again
    BY <1>3 DEF StartWriter, Again
<1>4. CASE ReadRecord
    BY <1>4 DEF ReadRecord
<1>5. CASE NextPage
    BY <1>5 DEF NextPage
<1> QED
    BY <1>1, <1>2, <1>3, <1>4, <1>5 DEF Next, ToolStep

(* ... and how the writer gets to its pages and on from them. *)
Late == {"page", "write", "verify", "ask", "done"}

LEMMA StepFrame ==
    ASSUME TypeInv, [Next]_vars, step' \in Late
    PROVE  UNCHANGED line /\ (CheckFile \/ step \in Late)
<1> USE DEF Late, run, table, Fail
<1>1. CASE RunWrapper \/ RunWriter \/ StartWriter \/ Again
    BY <1>1 DEF RunWrapper, RunWriter, StartWriter, Again
<1>2. CASE EraseChip
    BY <1>2 DEF EraseChip
<1>3. CASE EraseUnit
    BY <1>3 DEF EraseUnit
<1>4. CASE ReadRecord
    BY <1>4 DEF ReadRecord
<1>5. CASE CheckFile
    BY <1>5 DEF CheckFile
<1>6. CASE NextPage \/ WriteChunk \/ PageWritten
    BY <1>6 DEF NextPage, WriteChunk, PageWritten
<1>7. CASE VerifyPage
    BY <1>7, VerifyOutcome DEF TypeInv
<1>8. CASE AllWritten \/ Answer \/ Lose \/ Interrupt
    BY <1>8 DEF AllWritten, Answer, Lose, Interrupt
<1>9. CASE UNCHANGED vars
    BY <1>9 DEF vars
<1> QED
    BY <1>1, <1>2, <1>3, <1>4, <1>5, <1>6, <1>7, <1>8, <1>9 DEF Next, ToolStep
-----------------------------------------------------------------------------
(* The ranges cover every record read. *)
LEMMA RangedRead ==
    ASSUME Names, Tables, ReadRecord, file[line].good, NEW q \in Record,
           q = file[line] \/ Ranged(q)
    PROVE  Ranged(q)'
<1> DEFINE r == file[line]
<1>1. r \in Record /\ maxpage' = Larger(maxpage, LastOf(r)) /\ minoffset' = Lower(r) /\ maxoffset' = Raise(r)
    BY RecordInTable
<1> HIDE DEF r
<1>2. q = r \/ Ranged(q)
    BY DEF r
<1>3. /\ q.page \in Page /\ q.start \in Int /\ HeadEnd(q) \in Int /\ LastOf(q) \in Int
      /\ Crosses(q) => q.page + 1 \in Page
    BY RecordFacts DEF Page, Offset
<1>4. /\ Lower(r)[q.page] <= minoffset[q.page] /\ Raise(r)[q.page] >= maxoffset[q.page]
      /\ Lower(r)[r.page] <= r.start /\ Raise(r)[r.page] >= HeadEnd(r)
      /\ Crosses(r) => Lower(r)[r.page + 1] = 0
    BY <1>1, <1>3, EndsOf
<1>5. Crosses(q) => Lower(r)[q.page + 1] <= minoffset[q.page + 1] /\ Lower(r)[q.page + 1] \in Nat
  <2>1. ASSUME Crosses(q)
        PROVE  Lower(r)[q.page + 1] <= minoffset[q.page + 1] /\ Lower(r) \in [Page -> Offset \cup {65535}]
      BY <1>1, <1>3, <2>1, EndsOf
  <2> QED
      BY <1>3, <2>1, Sizes DEF Offset
<1>6. /\ minoffset[q.page] \in Int /\ maxoffset[q.page] \in Int /\ maxpage \in Int /\ LastOf(r) \in Int
      /\ Lower(r)[q.page] \in Int /\ Raise(r)[q.page] \in Int
  <2>1. Lower(r) \in [Page -> Offset \cup {65535}] /\ Raise(r) \in [Page -> Offset]
      BY <1>1, <1>3, EndsOf
  <2>2. maxpage \in Int /\ LastOf(r) \in Int
      BY <1>1, RecordFacts DEF Tables, Page
  <2>3. minoffset[q.page] \in Int /\ maxoffset[q.page] \in Int
      BY <1>3 DEF Tables, Offset
  <2>4. Lower(r)[q.page] \in Int /\ Raise(r)[q.page] \in Int
      BY <1>3, <2>1 DEF Offset
  <2> QED
      BY <2>2, <2>3, <2>4
<1>7. LastOf(q) <= maxpage'
  <2>1. LastOf(q) = LastOf(r) \/ LastOf(q) <= maxpage
      BY <1>2 DEF Ranged
  <2> QED
      BY <1>1, <1>3, <1>6, <2>1 DEF Larger
<1>8. minoffset'[q.page] <= q.start
  <2>1. CASE q = r
      BY <1>1, <1>4, <2>1
  <2>2. CASE Ranged(q)
      BY <1>1, <1>3, <1>4, <1>6, <2>2 DEF Ranged
  <2> QED
      BY <1>2, <2>1, <2>2
<1>9. HeadEnd(q) <= maxoffset'[q.page]
  <2>1. CASE q = r
      BY <1>1, <1>3, <1>4, <1>6, <2>1
  <2>2. CASE Ranged(q)
      BY <1>1, <1>3, <1>4, <1>6, <2>2 DEF Ranged
  <2> QED
      BY <1>2, <2>1, <2>2
<1>10. Crosses(q) => minoffset'[q.page + 1] = 0
  <2>1. CASE q = r
      BY <1>1, <1>4, <2>1
  <2>2. CASE Ranged(q)
    <3>1. Crosses(q) => minoffset[q.page + 1] = 0
        BY <2>2 DEF Ranged
    <3> QED
        BY <1>1, <1>5, <3>1
  <2> QED
      BY <1>2, <2>1, <2>2
<1> QED
    BY <1>7, <1>8, <1>9, <1>10 DEF Ranged, Crosses, HeadEnd, LastOf

LEMMA RangedPage ==
    ASSUME TypeInv, NextPage, Used(page), NEW q \in Record, Ranged(q)
    PROVE  Ranged(q)'
<1>1. /\ minoffset' \in [Page -> Offset \cup {65535}] /\ maxoffset' \in [Page -> Offset]
      /\ \A p \in Page : minoffset'[p] <= minoffset[p] /\ maxoffset'[p] >= maxoffset[p]
    BY RoundedEnds DEF TypeInv
<1>2. maxpage' = maxpage
    BY DEF NextPage
<1>3. /\ q.page \in Page /\ q.start \in Int /\ HeadEnd(q) \in Int
      /\ Crosses(q) => q.page + 1 \in Page
    BY RecordFacts DEF Offset
<1>4. /\ minoffset[q.page] \in Int /\ maxoffset[q.page] \in Int
      /\ minoffset'[q.page] \in Int /\ maxoffset'[q.page] \in Int
    BY <1>1, <1>3 DEF TypeInv, Tables, Offset
<1>5. minoffset'[q.page] <= q.start /\ HeadEnd(q) <= maxoffset'[q.page] /\ LastOf(q) <= maxpage'
    BY <1>1, <1>2, <1>3, <1>4 DEF Ranged
<1>6. Crosses(q) => minoffset'[q.page + 1] = 0
  <2>1. ASSUME Crosses(q)
        PROVE  minoffset'[q.page + 1] <= 0 /\ minoffset'[q.page + 1] \in Nat
      BY <1>1, <1>3, <2>1, Sizes DEF Ranged, Offset
  <2> QED
      BY <2>1
<1> QED
    BY <1>5, <1>6 DEF Ranged, Crosses, HeadEnd, LastOf

LEMMA CoveredStep ==
    ASSUME TypeInv, Covered, [Next]_vars
    PROVE  Covered'
<1>1. line \in Nat /\ line >= 1 /\ line <= Len(file) + 1 /\ Len(file) \in Nat
    BY FileFacts DEF TypeInv, Names, Tables
<1>2. \A i \in 1..Len(file) : file[i] \in Record
    BY FileFacts DEF TypeInv, Names
<1>3. file' = file
    BY TableFrame
<1>4. \A i \in 1..(line' - 1) : Ranged(file[i])'
  <2>1. CASE UNCHANGED <<line, table>>
      BY <1>3, <2>1 DEF Covered, Ranged, table, Crosses, HeadEnd, LastOf
  <2>2. CASE EmptyTable /\ line' = 1
      BY <2>2
  <2>3. CASE ReadRecord /\ file[line].good
    <3>1. line' = line + 1 /\ line <= Len(file)
        BY <2>3, RecordInTable DEF TypeInv
    <3> SUFFICES ASSUME NEW i \in 1..line PROVE Ranged(file[i])'
        BY <1>1, <3>1
    <3>2. file[i] \in Record /\ (i = line \/ Ranged(file[i]))
        BY <1>1, <1>2, <3>1 DEF Covered
    <3>3. file[i] = file[line] \/ Ranged(file[i])
        BY <3>2
    <3> DEFINE q == file[i]
    <3>4. q' = q
        BY <1>3
    <3> QED
        BY <2>3, <3>2, <3>3, <3>4, RangedRead DEF TypeInv, Ranged, Crosses, HeadEnd, LastOf
  <2>4. CASE NextPage /\ Used(page)
    <3>1. line' = line
        BY <2>4 DEF NextPage
    <3> SUFFICES ASSUME NEW i \in 1..(line - 1) PROVE Ranged(file[i])'
        BY <3>1
    <3>2. file[i] \in Record /\ Ranged(file[i])
        BY <1>1, <1>2 DEF Covered
    <3> QED
        BY <1>3, <2>4, <3>2, RangedPage DEF Ranged, Crosses, HeadEnd, LastOf
  <2> QED
      BY <2>1, <2>2, <2>3, <2>4, TableFrame
<1>5. step' \in Late => line' = Len(file') + 1
  <2> SUFFICES ASSUME step' \in Late PROVE line' = Len(file) + 1
      BY <1>3
  <2>1. line' = line /\ (CheckFile \/ step \in Late)
      BY StepFrame
  <2>2. CASE CheckFile
      BY <1>1, <2>1, <2>2 DEF CheckFile
  <2>3. CASE step \in Late
      BY <2>1, <2>3 DEF Covered, Late
  <2> QED
      BY <2>1, <2>2, <2>3
<1> QED
    BY <1>3, <1>4, <1>5 DEF Covered, Late
-----------------------------------------------------------------------------
(* What each step may do to the flash. *)
LEMMA WrittenRange ==
    ASSUME TypeInv, WriteChunk, NEW n \in 0..(NextLen \div 4), NEW o \in Offset,
           minoffset[page] + done <= o, o < minoffset[page] + done + 4 * n
    PROVE  InRange(page, o)
<1>1. /\ step = "write" /\ done < Total /\ page \in Page /\ done \in Nat
      /\ minoffset[page] \in Int /\ maxoffset[page] \in Int
    BY DEF WriteChunk, TypeInv, Counts, Tables, Offset
<1>2. Total \in Int /\ NextLen \in Int /\ NextLen <= Total - done
    BY <1>1, Sizes DEF NextLen, Smaller, Total
<1>3. 4 * n <= NextLen
    BY <1>2
<1>4. o \in Int
    BY DEF Offset
<1> QED
    BY <1>1, <1>2, <1>3, <1>4 DEF InRange, Total

LEMMA FlashChanges ==
    ASSUME TypeInv, [Next]_vars, step # "idle", NEW p \in Page, NEW o \in Offset, Changes(p, o)
    PROVE  \/ /\ step = "erase" /\ <<p, Half(o)>> \in toErase
              /\ ~(tool = "app" /\ <<p, Half(o)>> = BootUnit)
           \/ /\ step = "write" /\ p = page /\ InRange(p, o)
              /\ wires = "good" => datas[p][o] # Blank
<1>1. flash' # flash
    BY DEF Changes
<1>2. EraseUnit \/ WriteChunk
  <2>1. ~(\/ RunWrapper \/ RunWriter \/ CheckFile \/ PageWritten \/ VerifyPage \/ AllWritten
          \/ Answer \/ Lose \/ Interrupt \/ UNCHANGED vars)
      BY <1>1, TablesOther DEF TypeInv
  <2>2. ~(EraseChip \/ StartWriter \/ ReadRecord \/ NextPage \/ Again)
      BY <1>1 DEF EraseChip, StartWriter, ReadRecord, NextPage, Again
  <2> QED
      BY <2>1, <2>2 DEF Next, ToolStep
<1>3. CASE EraseUnit
  <2>1. PICK u \in toErase : flash' = Erased(flash, u) /\ ~(tool = "app" /\ u = BootUnit)
      BY <1>1, <1>3 DEF EraseUnit
  <2>2. u \in Page \X {0, 1}
      BY DEF TypeInv, Names
  <2>3. p = u[1] /\ Half(o) = u[2]
    <3> DEFINE g == [x \in Offset |-> IF Half(x) = u[2] THEN Blank ELSE flash[u[1]][x]]
    <3>1. flash' = [flash EXCEPT ![u[1]] = g]
        BY <2>1 DEF Erased
    <3>2. flash \in [Page -> [Offset -> Byte]]
        BY DEF TypeInv, Tables, Flash
    <3>3. p = u[1]
        BY <3>1, <3>2 DEF Changes
    <3>4. flash'[p][o] = g[o]
        BY <3>1, <3>2, <3>3
    <3>5. Half(o) = u[2]
        BY <3>3, <3>4 DEF Changes
    <3> QED
        BY <3>3, <3>5
  <2>4. u = <<p, Half(o)>>
      BY <2>2, <2>3
  <2> QED
      BY <1>3, <2>1, <2>4 DEF EraseUnit
<1>4. CASE WriteChunk
  <2>1. PICK n \in 0..(NextLen \div 4), zeros \in BOOLEAN :
           (zeros => wires = "bad") /\ flash' = Programmed(minoffset[page] + done, n, zeros)
      BY <1>4 DEF WriteChunk
  <2>2. step = "write" /\ page \in Page
      BY <1>4 DEF WriteChunk, TypeInv, Counts
  <2> DEFINE from == minoffset[page] + done
             g == [x \in Offset |-> IF from <= x /\ x < from + 4 * n
                       THEN flash[page][x] \cap (IF zeros THEN {} ELSE datas[page][x])
                       ELSE flash[page][x]]
  <2>3. flash' = [flash EXCEPT ![page] = g]
      BY <2>1 DEF Programmed
  <2>4. flash \in [Page -> [Offset -> Byte]]
      BY DEF TypeInv, Tables, Flash
  <2>5. p = page
      BY <2>2, <2>3, <2>4 DEF Changes
  <2>6. flash'[p][o] = g[o]
      BY <2>2, <2>3, <2>4, <2>5
  <2>7. from <= o /\ o < from + 4 * n /\ flash[page][o] \cap (IF zeros THEN {} ELSE datas[page][o]) # flash[page][o]
      BY <2>5, <2>6 DEF Changes
  <2> HIDE DEF g
  <2>8. InRange(p, o)
      BY <1>4, <2>5, <2>7, WrittenRange
  <2>9. wires = "good" => datas[p][o] # Blank
    <3>1. flash[page][o] \subseteq Bits
        BY <2>2, <2>4 DEF Byte
    <3> QED
        BY <2>1, <2>5, <2>7, <3>1 DEF Blank
  <2> QED
      BY <2>2, <2>5, <2>8, <2>9
<1> QED
    BY <1>2, <1>3, <1>4
-----------------------------------------------------------------------------
(* Where a page is written the file was let through, and the table has not  *)
(* changed since, but for ends rounded to words.                            *)
LEMMA WritingFrame ==
    ASSUME TypeInv, [Next]_vars, Writing'
    PROVE  /\ UNCHANGED <<tool, file, maxpage, datas, line>>
           /\ \/ /\ CheckFile /\ step' = "page" /\ UNCHANGED table
                 /\ ~(tool = "app" /\ AppRefuses) /\ ~(tool = "boot" /\ BootRefuses)
              \/ Writing /\ (UNCHANGED table \/ (NextPage /\ Used(page)))
<1> USE DEF Fail, run, table
<1>1. step' \in {"page", "write", "verify"}
    BY DEF Writing
<1>2. CASE RunWrapper \/ RunWriter \/ StartWriter \/ Again
    BY <1>1, <1>2 DEF RunWrapper, RunWriter, StartWriter, Again
<1>3. CASE EraseChip
    BY <1>1, <1>3 DEF EraseChip
<1>4. CASE EraseUnit
    BY <1>1, <1>4 DEF EraseUnit
<1>5. CASE ReadRecord
    BY <1>1, <1>5 DEF ReadRecord
<1>6. CASE CheckFile
    BY <1>1, <1>6 DEF CheckFile
<1>7. CASE NextPage
    BY <1>7 DEF NextPage, Writing
<1>8. CASE WriteChunk \/ PageWritten
    BY <1>8 DEF WriteChunk, PageWritten, Writing
<1>9. CASE VerifyPage
    BY <1>9, VerifyOutcome DEF TypeInv, Writing
<1>10. CASE AllWritten \/ Answer \/ Interrupt
    BY <1>1, <1>10 DEF AllWritten, Answer, Interrupt
<1>11. CASE Lose
    BY <1>1, <1>11 DEF Lose, Writing
<1>12. CASE UNCHANGED vars
    BY <1>1, <1>12 DEF vars, Writing
<1> QED
    BY <1>2, <1>3, <1>4, <1>5, <1>6, <1>7, <1>8, <1>9, <1>10, <1>11, <1>12 DEF Next, ToolStep

LEMMA EraseFrame ==
    ASSUME TypeInv, [Next]_vars
    PROVE  toErase' \subseteq toErase \/ (WrapperTakes(file) /\ toErase' = UnitsToErase)
<1>1. CASE RunWrapper
    BY <1>1 DEF RunWrapper
<1>2. CASE RunWriter \/ EraseChip \/ StartWriter \/ Again
    BY <1>2 DEF RunWriter, EraseChip, StartWriter, Again
<1>3. CASE EraseUnit
    BY <1>3 DEF EraseUnit
<1>4. CASE ReadRecord \/ CheckFile \/ NextPage \/ WriteChunk \/ PageWritten
    BY <1>4 DEF ReadRecord, CheckFile, NextPage, WriteChunk, PageWritten
<1>5. CASE VerifyPage
    BY <1>5, VerifyOutcome DEF TypeInv
<1>6. CASE AllWritten \/ Answer \/ Lose \/ Interrupt
    BY <1>6 DEF AllWritten, Answer, Lose, Interrupt
<1>7. CASE UNCHANGED vars
    BY <1>7 DEF vars
<1> QED
    BY <1>1, <1>2, <1>3, <1>4, <1>5, <1>6, <1>7 DEF Next, ToolStep

(* Rounding page 0 keeps both refusals what they were. *)
LEMMA RoundedZero ==
    ASSUME TypeInv, NextPage, Used(page)
    PROVE  (~AppRefuses => ~AppRefuses') /\ (maxoffset[0] < Unit => maxoffset'[0] < Unit)
<1>1. /\ page \in Page /\ minoffset[page] \in Offset /\ maxoffset[page] \in Offset
      /\ minoffset' = [minoffset EXCEPT ![page] = minoffset[page] - (minoffset[page] % 4)]
      /\ maxoffset' = [maxoffset EXCEPT ![page] = maxoffset[page] - (maxoffset[page] % 4) + 3]
    BY RoundedEnds DEF TypeInv
<1>2. 0 \in Page /\ DOMAIN minoffset = Page /\ DOMAIN maxoffset = Page
    BY FlashFacts DEF TypeInv, Tables
<1>3. CASE page # 0
    BY <1>1, <1>2, <1>3 DEF AppRefuses
<1>4. CASE page = 0
  <2>1. /\ minoffset'[0] = minoffset[0] - (minoffset[0] % 4)
        /\ maxoffset'[0] = maxoffset[0] - (maxoffset[0] % 4) + 3
      BY <1>1, <1>2, <1>4
  <2>2. /\ minoffset[0] >= Unit => minoffset'[0] >= Unit
        /\ maxoffset[0] < Unit => maxoffset'[0] < Unit
        /\ minoffset'[0] \in Int
      BY <1>1, <1>4, <2>1, WordsInPage DEF Offset
  <2>3. minoffset[0] <= maxoffset[0] /\ minoffset[0] \in Int /\ Unit \in Int
      BY <1>1, <1>4, Sizes DEF Used, Offset
  <2> QED
      BY <2>2, <2>3 DEF AppRefuses
<1> QED
    BY <1>3, <1>4

LEMMA PlacedStep ==
    ASSUME TypeInv, Placed, [Next]_vars
    PROVE  Placed'
<1>1. Writing' /\ tool' = "app" => ~AppRefuses'
  <2> SUFFICES ASSUME Writing', tool' = "app" PROVE ~AppRefuses'
      OBVIOUS
  <2>1. tool = "app"
      BY WritingFrame
  <2>2. CASE UNCHANGED table
      BY <2>1, <2>2, WritingFrame DEF Placed, table, AppRefuses
  <2>3. CASE Writing /\ NextPage /\ Used(page)
      BY <2>1, <2>3, RoundedZero DEF Placed
  <2> QED
      BY <2>2, <2>3, WritingFrame
<1>2. Writing' /\ tool' = "boot" => maxpage' = 0 /\ maxoffset'[0] < Unit
  <2> SUFFICES ASSUME Writing', tool' = "boot" PROVE maxpage' = 0 /\ maxoffset'[0] < Unit
      OBVIOUS
  <2>1. tool = "boot" /\ maxpage' = maxpage
      BY WritingFrame
  <2>2. CASE CheckFile /\ UNCHANGED table /\ ~BootRefuses
    <3>1. maxpage = 0
        BY <2>2 DEF BootRefuses, TypeInv, Tables, Page
    <3>2. maxoffset[0] < Unit
      <4>1. maxoffset[0] \in Int /\ Unit \in Int
          BY FlashFacts, Sizes DEF TypeInv, Tables, Offset
      <4> QED
          BY <2>2, <4>1 DEF BootRefuses
    <3> QED
        BY <2>2, <3>1, <3>2 DEF table
  <2>3. CASE Writing /\ UNCHANGED table
      BY <2>1, <2>3 DEF Placed, table
  <2>4. CASE Writing /\ NextPage /\ Used(page)
      BY <2>1, <2>4, RoundedZero DEF Placed
  <2> QED
      BY <2>1, <2>2, <2>3, <2>4, WritingFrame
<1>3. step' \in {"write", "verify"} => page' <= maxpage'
  <2> SUFFICES ASSUME step' \in {"write", "verify"} PROVE page' <= maxpage'
      OBVIOUS
  <2>1. Writing' /\ maxpage' = maxpage /\ step' # "page" /\ (Writing \/ step' = "page")
      BY WritingFrame DEF Writing
  <2>2. CASE step = "page"
    <3>1. page <= maxpage /\ page' = page
      <4>1. CASE NextPage
          BY <2>1, <4>1 DEF NextPage
      <4>2. ~(RunWrapper \/ RunWriter \/ EraseChip \/ EraseUnit \/ StartWriter \/ ReadRecord \/ CheckFile \/ Again)
          BY <2>2 DEF RunWrapper, RunWriter, EraseChip, EraseUnit, StartWriter, ReadRecord, CheckFile, Again
      <4>3. ~(WriteChunk \/ PageWritten \/ VerifyPage \/ Answer \/ Lose \/ Interrupt)
          BY <2>1, <2>2 DEF WriteChunk, PageWritten, VerifyPage, Answer, Lose, Interrupt
      <4>4. ~(AllWritten \/ UNCHANGED vars)
          BY <2>1, <2>2 DEF AllWritten, vars, Writing
      <4> QED
          BY <4>1, <4>2, <4>3, <4>4 DEF Next, ToolStep
    <3> QED
        BY <2>1, <3>1
  <2>3. CASE step \in {"write", "verify"}
    <3>1. page' = page
      <4>1. ~(RunWrapper \/ RunWriter \/ EraseChip \/ EraseUnit \/ StartWriter \/ ReadRecord \/ CheckFile \/ Again)
          BY <2>3 DEF RunWrapper, RunWriter, EraseChip, EraseUnit, StartWriter, ReadRecord, CheckFile, Again
      <4>2. ~(NextPage \/ AllWritten \/ Answer)
          BY <2>3 DEF NextPage, AllWritten, Answer
      <4>3. CASE WriteChunk \/ PageWritten \/ Lose \/ Interrupt
          BY <4>3 DEF WriteChunk, PageWritten, Lose, Interrupt
      <4>4. ~VerifyPage
          BY <2>1, VerifyOutcome DEF TypeInv, Writing
      <4>5. CASE UNCHANGED vars
          BY <4>5 DEF vars
      <4> QED
          BY <4>1, <4>2, <4>3, <4>4, <4>5 DEF Next, ToolStep
    <3> QED
        BY <2>1, <2>3, <3>1 DEF Placed
  <2> QED
      BY <2>1, <2>2, <2>3 DEF Writing
<1>4. toErase' \subseteq UnitsToErase'
  <2>1. UnitsToErase' = UnitsToErase
      BY TableFrame DEF UnitsToErase
  <2> QED
      BY <2>1, EraseFrame DEF Placed
<1> QED
    BY <1>1, <1>2, <1>3, <1>4 DEF Placed

(* Each tool stays in its own area of the flash, whatever the file, the     *)
(* wires and the order of runs.                                             *)
LEMMA StaysInItsAreaStep ==
    ASSUME TypeInv, Placed, [Next]_vars, step # "idle", NEW p \in Page, NEW o \in Offset, Changes(p, o)
    PROVE  InBootloader(p, o) <=> tool = "boot"
<1>1. tool \in {"app", "boot"} /\ o \in Int /\ Unit \in Int
    BY Sizes DEF TypeInv, Names, Offset
<1>2. CASE <<p, Half(o)>> \in toErase /\ ~(tool = "app" /\ <<p, Half(o)>> = BootUnit)
  <2>1. InBootloader(p, o) <=> <<p, Half(o)>> = BootUnit
      BY DEF InBootloader, Half, BootUnit
  <2>2. tool = "boot" => <<p, Half(o)>> = BootUnit
      BY <1>2 DEF Placed, UnitsToErase
  <2> QED
      BY <1>1, <1>2, <2>1, <2>2
<1>3. CASE step = "write" /\ p = page /\ InRange(p, o)
  <2>1. Writing /\ Used(page) /\ page <= maxpage
      BY <1>3 DEF Writing, TypeInv, Counts, Placed
  <2>2. minoffset[p] \in Int /\ maxoffset[p] \in Int /\ minoffset[p] <= o /\ o <= maxoffset[p]
      BY <1>3 DEF TypeInv, Tables, Offset, InRange
  <2>3. tool = "app" => ~InBootloader(p, o)
      BY <1>1, <1>3, <2>1, <2>2 DEF InBootloader, Placed, AppRefuses, Used
  <2>4. tool = "boot" => InBootloader(p, o)
    <3>1. ASSUME tool = "boot"
          PROVE  p = 0 /\ maxoffset[0] < Unit
        BY <1>3, <2>1, <3>1 DEF Placed, Page
    <3> QED
        BY <1>1, <2>2, <3>1 DEF InBootloader
  <2> QED
      BY <1>1, <2>3, <2>4
<1> QED
    BY <1>2, <1>3, FlashChanges

LEMMA PlacedInit == Init => Placed
BY DEF Init, Placed, Writing

THEOREM StaysInItsAreaHolds == Spec => StaysInItsArea
<1>1. Init => TypeInv /\ Placed
    BY TypeInit, PlacedInit
<1>2. TypeInv /\ Placed /\ [Next]_vars => (TypeInv /\ Placed)'
    BY TypeStep, PlacedStep
<1>3. TypeInv /\ Placed /\ [Next]_vars =>
        [step # "idle" => \A p \in Page, o \in Offset :
            Changes(p, o) => (InBootloader(p, o) <=> tool = "boot")]_vars
    BY StaysInItsAreaStep
<1> QED
    BY <1>1, <1>2, <1>3, PTL DEF Spec, StaysInItsArea
-----------------------------------------------------------------------------
LEMMA FromFileStep ==
    ASSUME TypeInv, FromFile, [Next]_vars
    PROVE  FromFile'
<1>1. file' = file
    BY TableFrame
<1>2. CASE UNCHANGED <<line, table>>
    BY <1>1, <1>2 DEF FromFile, table, Asked, Holds, InHead, InTail, Crosses, HeadEnd, TailLen
<1>3. CASE EmptyTable
  <2>1. \A p \in Page, o \in Offset : datas'[p][o] = Blank
      BY <1>3 DEF EmptyTable, NoDatas
  <2> QED
      BY <2>1 DEF FromFile, Blank
<1>4. CASE ReadRecord /\ file[line].good
  <2>1. /\ line <= Len(file)
        /\ datas' = [p \in Page |-> [o \in Offset |->
                        IF Holds(file[line], p, o) THEN ByteAt(file[line], p, o) ELSE datas[p][o]]]
      BY <1>4, RecordInTable DEF TypeInv
  <2>2. line \in DOMAIN file
      BY <2>1, FileFacts DEF TypeInv, Names, Tables
  <2> SUFFICES ASSUME NEW p \in Page, NEW o \in Offset, datas'[p][o] # Blank
               PROVE  Asked(file, p, o)
      BY <1>1 DEF FromFile, Blank, Asked, Holds, InHead, InTail, Crosses, HeadEnd, TailLen
  <2>3. Holds(file[line], p, o) \/ datas'[p][o] = datas[p][o]
      BY <2>1
  <2> QED
      BY <2>2, <2>3 DEF FromFile, Asked
<1>5. CASE NextPage
  <2>1. datas' = datas
      BY <1>5 DEF NextPage
  <2> QED
      BY <1>1, <2>1 DEF FromFile, Asked, Holds, InHead, InTail, Crosses, HeadEnd, TailLen
<1> QED
    BY <1>2, <1>3, <1>4, <1>5, TableFrame

LEMMA FromFileInit == Init => FromFile
BY DEF Init, FromFile, NoDatas

(* Nothing but the units the file has bytes in is touched. *)
LEMMA OnlyItsUnitsStep ==
    ASSUME TypeInv, Placed, FromFile, [Next]_vars, step # "idle", wires = "good",
           NEW p \in Page, NEW o \in Offset, Changes(p, o)
    PROVE  <<p, Half(o)>> \in UnitsToErase
<1>1. CASE <<p, Half(o)>> \in toErase
    BY <1>1 DEF Placed
<1>2. CASE step = "write" /\ p = page /\ InRange(p, o) /\ datas[p][o] # Blank
  <2>1. CASE tool = "app"
    <3>1. Asked(file, p, o)
        BY <1>2 DEF FromFile
    <3>2. <<p, Half(o)>> \in Page \X {0, 1}
        BY DEF Half
    <3>3. <<p, Half(o)>> \in UnitsOf(file)
        BY <3>1, <3>2 DEF UnitsOf
    <3> QED
        BY <2>1, <3>3 DEF UnitsToErase
  <2>2. CASE tool = "boot"
    <3>1. InBootloader(p, o)
        BY <2>2, StaysInItsAreaStep
    <3> QED
        BY <2>2, <3>1 DEF InBootloader, Half, UnitsToErase, BootUnit
  <2> QED
      BY <2>1, <2>2 DEF TypeInv, Names
<1> QED
    BY <1>1, <1>2, FlashChanges

THEOREM OnlyItsUnitsHolds == Spec => OnlyItsUnits
<1>1. Init => TypeInv /\ Placed /\ FromFile
    BY TypeInit, PlacedInit, FromFileInit
<1>2. TypeInv /\ Placed /\ FromFile /\ [Next]_vars => (TypeInv /\ Placed /\ FromFile)'
    BY TypeStep, PlacedStep, FromFileStep
<1>3. TypeInv /\ Placed /\ FromFile /\ [Next]_vars =>
        [step # "idle" /\ wires = "good" => \A p \in Page, o \in Offset :
            Changes(p, o) => <<p, Half(o)>> \in UnitsToErase]_vars
    BY OnlyItsUnitsStep
<1> QED
    BY <1>1, <1>2, <1>3, PTL DEF Spec, OnlyItsUnits
-----------------------------------------------------------------------------
(* What the script refuses the writer refuses. *)
LEMMA BelowRefused ==
    ASSUME TypeInv, Covered, line = Len(file) + 1, HasBelow(file)
    PROVE  AppRefuses
<1>1. PICK o \in Offset : o < Unit /\ Asked(file, 0, o)
    BY DEF HasBelow, InBootloader
<1>2. PICK i \in DOMAIN file : Holds(file[i], 0, o)
    BY <1>1 DEF Asked
<1>3. i \in 1..(line - 1) /\ file[i] \in Record
    BY FileFacts DEF TypeInv, Names
<1> DEFINE r == file[i]
<1>4. r \in Record /\ Ranged(r) /\ Holds(r, 0, o)
    BY <1>2, <1>3 DEF Covered
<1> HIDE DEF r
<1>5. r.page \in Nat /\ r.start \in Int /\ HeadEnd(r) \in Int /\ o \in Int /\ Unit \in Int
    BY <1>4, RecordFacts, Sizes DEF Page, Offset
<1>6. r.page = 0 /\ r.start <= o /\ o <= HeadEnd(r)
    BY <1>4, <1>5 DEF Holds, InHead, InTail
<1>7. minoffset[0] \in Int /\ maxoffset[0] \in Int
    BY FlashFacts DEF TypeInv, Tables, Offset
<1> QED
    BY <1>1, <1>4, <1>5, <1>6, <1>7 DEF Ranged, AppRefuses

LEMMA HarmlessStep ==
    ASSUME TypeInv, Covered, Harmless, [Next]_vars
    PROVE  Harmless'
<1>1. file' = file /\ tool' = tool /\ HasBelow(file)' = HasBelow(file)
  <2>1. file' = file /\ tool' = tool
      BY TableFrame
  <2> QED
      BY <2>1 DEF HasBelow, Asked, Holds, InHead, InTail, Crosses, HeadEnd, TailLen
<1> SUFFICES ASSUME tool = "app", HasBelow(file) PROVE toErase' = {} /\ ~Writing'
    BY <1>1 DEF Harmless
<1>2. toErase' = {}
    BY EraseFrame DEF Harmless, WrapperTakes
<1>3. ~CheckFile \/ AppRefuses
  <2> SUFFICES ASSUME CheckFile PROVE AppRefuses
      OBVIOUS
  <2>1. line = Len(file) + 1
      BY FileFacts DEF CheckFile, TypeInv, Names, Tables
  <2> QED
      BY <2>1, BelowRefused
<1>4. ~Writing'
    BY <1>3, WritingFrame DEF Harmless
<1> QED
    BY <1>2, <1>4

LEMMA CoveredInit == Init => Covered
BY DEF Init, Covered

LEMMA HarmlessInit == Init => Harmless
BY DEF Init, Harmless, Writing

(* A file with bytes in the bootloader's page costs the chip nothing. *)
LEMMA RefusedIsHarmlessStep ==
    ASSUME TypeInv, Harmless, [Next]_vars, step # "idle", tool = "app", HasBelow(file)
    PROVE  UNCHANGED flash
<1>1. toErase = {} /\ step # "write"
    BY DEF Harmless, Writing
<1>2. \A p \in Page, o \in Offset : ~Changes(p, o)
    BY <1>1, FlashChanges
<1>3. flash \in [Page -> [Offset -> Byte]] /\ flash' \in [Page -> [Offset -> Byte]]
    BY TypeStep DEF TypeInv, Tables, Flash
<1>4. \A p \in Page : flash'[p] = flash[p]
  <2> SUFFICES ASSUME NEW p \in Page PROVE flash'[p] = flash[p]
      OBVIOUS
  <2>1. flash[p] \in [Offset -> Byte] /\ flash'[p] \in [Offset -> Byte]
      BY <1>3
  <2>2. \A o \in Offset : flash'[p][o] = flash[p][o]
      BY <1>2 DEF Changes
  <2> QED
      BY <2>1, <2>2
<1> QED
    BY <1>3, <1>4

THEOREM RefusedIsHarmlessHolds == Spec => RefusedIsHarmless
<1>1. Init => TypeInv /\ Covered /\ Harmless
    BY TypeInit, CoveredInit, HarmlessInit
<1>2. TypeInv /\ Covered /\ Harmless /\ [Next]_vars => (TypeInv /\ Covered /\ Harmless)'
    BY TypeStep, CoveredStep, HarmlessStep
<1>3. TypeInv /\ Harmless /\ [Next]_vars =>
        [step # "idle" /\ tool = "app" /\ HasBelow(file) => UNCHANGED flash]_vars
    BY RefusedIsHarmlessStep
<1> QED
    BY <1>1, <1>2, <1>3, PTL DEF Spec, RefusedIsHarmless
-----------------------------------------------------------------------------
LEMMA NewestStep ==
    ASSUME TypeInv, Newest, [Next]_vars
    PROVE  Newest'
<1>1. file' = file
    BY TableFrame
<1>2. CASE UNCHANGED <<line, table>>
    BY <1>1, <1>2 DEF Newest, table, Holds, InHead, InTail, Crosses, HeadEnd, TailLen, ByteAt
<1>3. CASE line' = 1
    BY <1>3 DEF Newest
<1>4. CASE NextPage
    BY <1>1, <1>4 DEF Newest, NextPage, Holds, InHead, InTail, Crosses, HeadEnd, TailLen, ByteAt
<1>5. CASE ReadRecord /\ file[line].good
  <2>1. /\ line' = line + 1
        /\ datas' = [p \in Page |-> [o \in Offset |->
                        IF Holds(file[line], p, o) THEN ByteAt(file[line], p, o) ELSE datas[p][o]]]
      BY <1>5, RecordInTable DEF TypeInv
  <2>2. line \in Nat /\ line >= 1
      BY FileFacts DEF TypeInv, Names, Tables
  <2> SUFFICES ASSUME NEW p \in Page, NEW o \in Offset, NEW i \in 1..line,
                      Holds(file[i], p, o), \A k \in (i + 1)..line : ~Holds(file[k], p, o)
               PROVE  datas'[p][o] = ByteAt(file[i], p, o)
      BY <1>1, <2>1, <2>2 DEF Newest, Holds, InHead, InTail, Crosses, HeadEnd, TailLen, ByteAt
  <2>3. CASE i = line
      BY <2>1, <2>3
  <2>4. CASE i < line
    <3>1. ~Holds(file[line], p, o)
        BY <2>2, <2>4
    <3>2. i \in 1..(line - 1) /\ \A k \in (i + 1)..(line - 1) : ~Holds(file[k], p, o)
        BY <2>2, <2>4
    <3>3. datas[p][o] = ByteAt(file[i], p, o)
        BY <3>2 DEF Newest
    <3> QED
        BY <2>1, <3>1, <3>3
  <2> QED
      BY <2>2, <2>3, <2>4
<1> QED
    BY <1>2, <1>3, <1>4, <1>5, TableFrame

(* A reading that shows no difference shows that the page is right, ...     *)
LEMMA ReadShows ==
    ASSUME TypeInv, page \in Page, NEW b \in BOOLEAN, NEW r \in ReadPage(b), ~Differs(r.buf)
    PROVE  Right(page)
<1>1. \A o \in Offset : InRange(page, o) => r.buf[o] = datas[page][o]
    BY DEF Differs
<1>2. \A o \in Offset : o \in Nat
    BY DEF Offset
<1>3. ASSUME NEW k \in Offset, NEW last \in {{}, Blank}, r.buf = UpTo(k, last)
      PROVE  Right(page)
  <2>1. \A o \in Offset : InRange(page, o) =>
            datas[page][o] = IF o < k THEN flash[page][o] ELSE IF o = k THEN last ELSE {}
      BY <1>1, <1>3 DEF UpTo
  <2> SUFFICES ASSUME NEW o \in Offset, InRange(page, o)
               PROVE  flash[page][o] = datas[page][o] \/ Silent(page, o)
      BY DEF Right
  <2>2. CASE o < k
      BY <2>1, <2>2
  <2>3. CASE ~(o < k)
    <3>1. datas[page][o] \in {{}, Blank}
        BY <2>1, <2>3
    <3>2. ASSUME NEW x \in Offset, x > o, InRange(page, x)
          PROVE  datas[page][x] = {}
      <4>1. ~(x < k) /\ x # k
          BY <1>2, <2>3, <3>2
      <4> QED
          BY <2>1, <3>2, <4>1
    <3> QED
        BY <3>1, <3>2 DEF Silent
  <2> QED
      BY <2>2, <2>3
<1>4. CASE r = [buf |-> UpTo(0, {}), lost |-> TRUE]
  <2>1. r.buf = UpTo(0, {}) /\ 0 \in Offset
      BY <1>4, FlashFacts
  <2> QED
      BY <1>3, <2>1
<1>5. CASE r = [buf |-> flash[page], lost |-> FALSE]
  <2>1. r.buf = flash[page]
      BY <1>5
  <2> QED
      BY <1>1, <2>1 DEF Right
<1>6. CASE \E k \in Offset, last \in {{}, Blank} : r = [buf |-> UpTo(k, last), lost |-> TRUE]
  <2>1. PICK k \in Offset, last \in {{}, Blank} : r = [buf |-> UpTo(k, last), lost |-> TRUE]
      BY <1>6
  <2>2. r.buf = UpTo(k, last)
      BY <2>1
  <2> QED
      BY <1>3, <2>2
<1>7. CASE \E x \in Wrong : r = [buf |-> [flash[page] EXCEPT ![x[1]] = x[2]], lost |-> FALSE]
  <2>1. PICK x \in Wrong : r = [buf |-> [flash[page] EXCEPT ![x[1]] = x[2]], lost |-> FALSE]
      BY <1>7
  <2>2. r.buf = [flash[page] EXCEPT ![x[1]] = x[2]]
      BY <2>1
  <2>3. x[1] \in Offset /\ InRange(page, x[1]) /\ x[2] # datas[page][x[1]]
      BY <2>1 DEF Wrong
  <2>4. DOMAIN flash[page] = Offset
      BY FlashFacts DEF TypeInv, Tables
  <2>5. r.buf[x[1]] = x[2]
      BY <2>2, <2>3, <2>4
  <2> QED
      BY <1>1, <2>3, <2>5
<1> QED
    BY <1>4, <1>5, <1>6, <1>7 DEF ReadPage

(* ... and the writer goes on only after one.                               *)
LEMMA VerifiedRight ==
    ASSUME TypeInv, VerifyPage, page' # page
    PROVE  page \in Page /\ page' = page + 1 /\ Right(page)
<1>1. page \in Page /\ page' = page + 1
    BY VerifyOutcome DEF TypeInv, Counts
<1>2. PICK r1 \in ReadPage(lost) : \E r2 \in ReadPage(r1.lost) :
          /\ lost' = IF ~Differs(r1.buf) THEN r1.lost ELSE r2.lost
          /\ ~Differs(r1.buf) \/ ~Differs(r2.buf)
    BY DEF VerifyPage
<1>3. lost \in BOOLEAN
    BY DEF TypeInv, Names
<1>4. CASE ~Differs(r1.buf)
    BY <1>1, <1>2, <1>3, <1>4, ReadShows
<1>5. CASE Differs(r1.buf)
  <2>1. PICK r2 \in ReadPage(r1.lost) : ~Differs(r2.buf)
      BY <1>2, <1>5
  <2>2. r1.lost \in BOOLEAN
      BY <1>2, <1>3, ReadLost
  <2> QED
      BY <1>1, <2>1, <2>2, ReadShows
<1> QED
    BY <1>1, <1>4, <1>5

LEMMA RightFrame ==
    ASSUME NEW p \in Page, Right(p), datas' = datas, flash'[p] = flash[p],
           minoffset'[p] = minoffset[p], maxoffset'[p] = maxoffset[p]
    PROVE  Right(p)'
BY DEF Right, InRange, Silent, Blank

LEMMA BehindStep ==
    ASSUME TypeInv, Behind, [Next]_vars
    PROVE  Behind'
<1>1. page \in Nat /\ maxpage \in Int
    BY DEF TypeInv, Counts, Tables, Page
<1>2. ASSUME NEW p \in Page, Right(p), UNCHANGED <<table, flash>>
      PROVE  Right(p)'
    BY <1>2, RightFrame DEF table
<1>3. ASSUME Writing', NEW p \in Page, p < page'
      PROVE  Right(p)'
  <2>1. CASE CheckFile
    <3>1. page' = 0
        BY <1>3, <2>1 DEF CheckFile, Writing, Fail
    <3> QED
        BY <1>3, <3>1 DEF Page
  <2>2. CASE NextPage
    <3>1. Writing /\ datas' = datas /\ flash' = flash /\ maxpage' = maxpage
        BY <2>2 DEF NextPage, Writing
    <3>2. CASE Used(page)
      <4>1. /\ page' = page
            /\ minoffset' = [minoffset EXCEPT ![page] = minoffset[page] - (minoffset[page] % 4)]
            /\ maxoffset' = [maxoffset EXCEPT ![page] = maxoffset[page] - (maxoffset[page] % 4) + 3]
          BY <2>2, <3>2 DEF NextPage
      <4>2. p # page /\ Right(p)
          BY <1>1, <1>3, <3>1, <4>1 DEF Behind, Page
      <4>3. minoffset'[p] = minoffset[p] /\ maxoffset'[p] = maxoffset[p]
          BY <4>1, <4>2 DEF TypeInv, Tables
      <4> QED
          BY <3>1, <4>2, <4>3, RightFrame
    <3>3. CASE ~Used(page)
      <4>1. page' = page + 1 /\ minoffset' = minoffset /\ maxoffset' = maxoffset
          BY <2>2, <3>3 DEF NextPage
      <4>2. p < page \/ p = page
          BY <1>1, <1>3, <4>1 DEF Page
      <4>3. p = page => \A o \in Offset : ~InRange(p, o)
        <5>1. ASSUME p = page, NEW o \in Offset, InRange(p, o)
              PROVE  FALSE
          <6>1. minoffset[p] \in Int /\ maxoffset[p] \in Int /\ o \in Int
              BY DEF TypeInv, Tables, Offset
          <6> QED
              BY <3>3, <5>1, <6>1 DEF InRange, Used
        <5> QED
            BY <5>1
      <4>4. Right(p)
          BY <3>1, <4>2, <4>3 DEF Behind, Right
      <4> QED
          BY <1>2, <3>1, <4>1, <4>4 DEF table
    <3> QED
        BY <3>2, <3>3
  <2>3. CASE WriteChunk
    <3>1. Writing /\ page' = page /\ UNCHANGED table
        BY <2>3 DEF WriteChunk, Writing
    <3>2. p # page /\ Right(p)
        BY <1>1, <1>3, <3>1 DEF Behind, Page
    <3>3. \E n \in 0..(NextLen \div 4), zeros \in BOOLEAN : flash' = Programmed(minoffset[page] + done, n, zeros)
        BY <2>3 DEF WriteChunk
    <3>4. flash'[p] = flash[p]
        BY <3>2, <3>3 DEF Programmed, TypeInv, Tables, Flash
    <3> QED
        BY <3>1, <3>2, <3>4, RightFrame DEF table
  <2>4. CASE PageWritten \/ Lose
    <3>1. Writing /\ page' = page /\ UNCHANGED <<table, flash>>
        BY <1>3, <2>4 DEF PageWritten, Lose, Writing
    <3> QED
        BY <1>2, <1>3, <3>1 DEF Behind
  <2>5. CASE VerifyPage
    <3>1. Writing /\ UNCHANGED <<table, flash>>
        BY <2>5, VerifyOutcome DEF TypeInv, Writing
    <3>2. Right(p)
      <4>1. CASE page' = page
          BY <1>3, <3>1, <4>1 DEF Behind
      <4>2. CASE page' # page
        <5>1. page' = page + 1 /\ Right(page)
            BY <2>5, <4>2, VerifiedRight
        <5>2. p < page \/ p = page
            BY <1>1, <1>3, <5>1 DEF Page
        <5> QED
            BY <3>1, <5>1, <5>2 DEF Behind
      <4> QED
          BY <4>1, <4>2
    <3> QED
        BY <1>2, <3>1, <3>2
  <2>6. CASE UNCHANGED vars
    <3>1. Writing /\ page' = page /\ UNCHANGED <<table, flash>>
        BY <1>3, <2>6 DEF vars, Writing
    <3> QED
        BY <1>2, <1>3, <3>1 DEF Behind
  <2>7. CASE RunWrapper \/ RunWriter \/ StartWriter \/ Again
      BY <1>3, <2>7 DEF RunWrapper, RunWriter, StartWriter, Again, Writing
  <2>8. CASE EraseChip
      BY <1>3, <2>8 DEF EraseChip, Writing
  <2>9. CASE EraseUnit
      BY <1>3, <2>9 DEF EraseUnit, Writing
  <2>10. CASE ReadRecord
      BY <1>3, <2>10 DEF ReadRecord, Writing, Fail
  <2>11. CASE AllWritten \/ Answer \/ Interrupt
      BY <1>3, <2>11 DEF AllWritten, Answer, Interrupt, Writing
  <2> QED
      BY <2>1, <2>2, <2>3, <2>4, <2>5, <2>6, <2>7, <2>8, <2>9, <2>10, <2>11 DEF Next, ToolStep
<1>4. ASSUME step' \in {"ask", "done"}, NEW p \in Page, p <= maxpage'
      PROVE  Right(p)'
  <2>1. CASE AllWritten
    <3>1. Writing /\ page > maxpage /\ UNCHANGED <<table, flash>>
        BY <2>1 DEF AllWritten, Writing
    <3>2. p < page
        BY <1>1, <1>4, <3>1 DEF table, Page
    <3> QED
        BY <1>2, <3>1, <3>2 DEF Behind
  <2>2. CASE Answer \/ Lose
    <3>1. step \in {"ask", "done"} /\ UNCHANGED <<table, flash>>
        BY <1>4, <2>2 DEF Answer, Lose
    <3> QED
        BY <1>2, <1>4, <3>1 DEF Behind, table
  <2>3. CASE UNCHANGED vars
    <3>1. step \in {"ask", "done"} /\ UNCHANGED <<table, flash>>
        BY <1>4, <2>3 DEF vars
    <3> QED
        BY <1>2, <1>4, <3>1 DEF Behind, table
  <2>4. CASE RunWrapper \/ RunWriter \/ StartWriter \/ Again
      BY <1>4, <2>4 DEF RunWrapper, RunWriter, StartWriter, Again
  <2>5. CASE EraseChip
      BY <1>4, <2>5 DEF EraseChip
  <2>6. CASE EraseUnit
      BY <1>4, <2>6 DEF EraseUnit
  <2>7. CASE ReadRecord \/ CheckFile
      BY <1>4, <2>7 DEF ReadRecord, CheckFile, Fail
  <2>8. CASE NextPage \/ WriteChunk \/ PageWritten
      BY <1>4, <2>8 DEF NextPage, WriteChunk, PageWritten, Fail
  <2>9. CASE VerifyPage
      BY <1>4, <2>9, VerifyOutcome DEF TypeInv
  <2>10. CASE Interrupt
      BY <1>4, <2>10 DEF Interrupt
  <2> QED
      BY <2>1, <2>2, <2>3, <2>4, <2>5, <2>6, <2>7, <2>8, <2>9, <2>10 DEF Next, ToolStep
<1> QED
    BY <1>3, <1>4 DEF Behind
-----------------------------------------------------------------------------
(* Where a record crosses a page, another one reaches as far in the next.   *)
TailsReached(f) ==
    \A i \in DOMAIN f : Crosses(f[i]) =>
        \E j \in DOMAIN f : f[j].page = f[i].page + 1 /\ HeadEnd(f[j]) >= TailLen(f[i]) - 1

(* Then every place the file speaks of is in the ranges, and the table has  *)
(* what the file says of it.                                                *)
LEMMA AskedInRange ==
    ASSUME TypeInv, Covered, line = Len(file) + 1, TailsReached(file),
           NEW p \in Page, NEW o \in Offset, NEW i \in DOMAIN file, Holds(file[i], p, o)
    PROVE  p <= maxpage /\ InRange(p, o)
<1>1. \A j \in DOMAIN file : file[j] \in Record /\ Ranged(file[j])
    BY FileFacts DEF TypeInv, Names, Covered
<1> DEFINE r == file[i]
<1>2. r \in Record /\ Ranged(r) /\ Holds(r, p, o)
    BY <1>1
<1>3. Crosses(r) => \E j \in DOMAIN file : file[j].page = r.page + 1 /\ HeadEnd(file[j]) >= TailLen(r) - 1
    BY DEF TailsReached
<1> HIDE DEF r
<1>4. /\ r.page \in Int /\ r.start \in Int /\ HeadEnd(r) \in Int /\ o \in Nat /\ p \in Int
      /\ minoffset[p] \in Int /\ maxoffset[p] \in Int /\ maxpage \in Int
    BY <1>2, RecordFacts DEF Page, Offset, TypeInv, Tables
<1>5. CASE InHead(r, p, o)
    BY <1>2, <1>4, <1>5 DEF InHead, InRange, Ranged, LastOf
<1>6. CASE InTail(r, p, o)
  <2>1. Crosses(r) /\ p = r.page + 1 /\ o < TailLen(r) /\ TailLen(r) \in Int
      BY <1>2, <1>6, Sizes DEF InTail, TailLen, Record, Offset
  <2>2. p <= maxpage /\ minoffset[p] = 0
      BY <1>2, <2>1 DEF Ranged, LastOf
  <2>3. PICK j \in DOMAIN file : file[j].page = p /\ HeadEnd(file[j]) >= TailLen(r) - 1
      BY <1>3, <2>1
  <2>4. HeadEnd(file[j]) <= maxoffset[p] /\ HeadEnd(file[j]) \in Int
      BY <1>1, <2>3, RecordFacts DEF Ranged, Offset
  <2> QED
      BY <1>4, <2>1, <2>2, <2>3, <2>4 DEF InRange
<1> QED
    BY <1>2, <1>5, <1>6 DEF Holds

LEMMA SaidInTable ==
    ASSUME TypeInv, Newest, line = Len(file) + 1,
           NEW p \in Page, NEW o \in Offset, NEW b \in Says(file, p, o)
    PROVE  datas[p][o] = b /\ \E i \in DOMAIN file : Holds(file[i], p, o)
<1>1. DOMAIN file = 1..(line - 1) /\ line \in Nat
    BY FileFacts DEF TypeInv, Names
<1>2. PICK i \in DOMAIN file :
         b = ByteAt(file[i], p, o) /\ Holds(file[i], p, o) /\ \A k \in DOMAIN file : k > i => ~Holds(file[k], p, o)
    BY DEF Says
<1>3. \A k \in (i + 1)..(line - 1) : ~Holds(file[k], p, o)
    BY <1>1, <1>2
<1> QED
    BY <1>1, <1>2, <1>3 DEF Newest

LEMMA OkFollows ==
    ASSUME TypeInv, Covered, Newest, Behind, TailsReached(file)
    PROVE  OkMeansWritten
<1> SUFFICES ASSUME step \in {"ask", "done"}, NEW p \in Page, NEW o \in Offset, NEW b \in Says(file, p, o)
             PROVE  flash[p][o] = b \/ LikeNoChip(p, o)
    BY DEF OkMeansWritten, Written
<1>1. line = Len(file) + 1
    BY DEF Covered
<1>2. \A x \in Offset : \A c \in Says(file, p, x) : datas[p][x] = c /\ p <= maxpage /\ InRange(p, x)
    BY <1>1, SaidInTable, AskedInRange
<1>3. Right(p)
    BY <1>2 DEF Behind
<1>4. CASE flash[p][o] = datas[p][o]
    BY <1>2, <1>4
<1>5. CASE Silent(p, o)
  <2>1. \A c \in Says(file, p, o) : c \in {{}, Blank}
      BY <1>2, <1>5 DEF Silent
  <2>2. \A x \in Offset : x > o => \A c \in Says(file, p, x) : c = {}
      BY <1>2, <1>5 DEF Silent
  <2> QED
      BY <2>1, <2>2 DEF LikeNoChip
<1> QED
    BY <1>2, <1>3, <1>4, <1>5 DEF Right

(* "flash OK" means it, for every file whose crossing records end within    *)
(* another record's reach.                                                  *)
THEOREM OkMeansWrittenHolds ==
    ASSUME \A f \in Files : TailsReached(f)
    PROVE  Spec => []OkMeansWritten
<1> DEFINE IInv == TypeInv /\ Covered /\ Newest /\ Behind
<1>1. Init => IInv
  <2>1. Init => Newest /\ Behind
      BY DEF Init, Newest, Behind, Writing
  <2> QED
      BY <2>1, TypeInit, CoveredInit
<1>2. IInv /\ [Next]_vars => IInv'
    BY TypeStep, CoveredStep, NewestStep, BehindStep
<1>3. IInv => OkMeansWritten
  <2>1. IInv => TailsReached(file)
      BY DEF TypeInv, Names
  <2> QED
      BY <2>1, OkFollows
<1> QED
    BY <1>1, <1>2, <1>3, PTL DEF Spec
-----------------------------------------------------------------------------
(* The ends of a page's range lie in units the file has bytes in, rounded   *)
(* to words or not; the last page has a byte too.                           *)
EndAsked(f, p, e) == \E a \in Offset : Asked(f, p, a) /\ Half(a) = Half(e)
FromRecords ==
    /\ \A p \in Page : /\ minoffset[p] \in Offset => EndAsked(file, p, minoffset[p])
                       /\ maxoffset[p] # 0 => EndAsked(file, p, maxoffset[p])
    /\ maxpage # 0 => \E a \in Offset : Asked(file, maxpage, a)

LEMMA FromRecordsEmpty ==
    ASSUME PageLen <= 65535
    PROVE  \A p \in Page : NoMin[p] \notin Offset /\ NoMax[p] = 0
BY Sizes DEF NoMin, NoMax, Offset

(* What a record asks for at the ends it puts in the table. *)
LEMMA RecordAsks ==
    ASSUME Names, NEW i \in DOMAIN file, file[i] \in Record
    PROVE  LET r == file[i]
           IN /\ Asked(file, r.page, r.start) /\ Asked(file, r.page, HeadEnd(r))
              /\ Crosses(r) => Asked(file, r.page + 1, 0)
              /\ \E a \in Offset : Asked(file, LastOf(r), a)
<1> DEFINE r == file[i]
<1>1. /\ r.page \in Int /\ r.start \in Offset /\ HeadEnd(r) \in Offset /\ r.start <= HeadEnd(r)
      /\ Crosses(r) => TailLen(r) - 1 \in Offset
    BY RecordFacts DEF Page
<1>2. Asked(file, r.page, r.start) /\ Asked(file, r.page, HeadEnd(r))
  <2>1. Holds(r, r.page, r.start) /\ Holds(r, r.page, HeadEnd(r))
      BY <1>1 DEF Holds, InHead, Offset
  <2> QED
      BY <2>1 DEF Asked
<1>3. Crosses(r) => Asked(file, r.page + 1, 0)
  <2> SUFFICES ASSUME Crosses(r) PROVE Holds(r, r.page + 1, 0)
      BY DEF Asked
  <2>1. 0 < TailLen(r)
    <3>1. TailLen(r) \in Int
        BY RecordFacts, Sizes DEF TailLen, Record, Offset
    <3> QED
        BY <1>1, <3>1 DEF Offset
  <2> QED
      BY <2>1 DEF Holds, InTail
<1>4. \E a \in Offset : Asked(file, LastOf(r), a)
    BY <1>1, <1>2, <1>3, FlashFacts DEF LastOf
<1> QED
    BY <1>2, <1>3, <1>4

LEMMA RaisedEnd ==
    ASSUME Tables, NEW r \in Record
    PROVE  Raise(r)[r.page] \in {HeadEnd(r), maxoffset[r.page]}
<1>1. /\ r.page \in Page /\ HeadEnd(r) \in Offset
      /\ Crosses(r) => TailLen(r) - 1 \in Offset /\ HeadEnd(r) = PageLen - 1
    BY RecordFacts
<1>2. maxoffset \in [Page -> Offset]
    BY DEF Tables
<1> DEFINE t == IF Crosses(r) THEN Larger(maxoffset[r.page], TailLen(r) - 1) ELSE maxoffset[r.page]
<1>3. Raise(r)[r.page] = Larger(t, HeadEnd(r))
    BY <1>1, <1>2 DEF Raise, TailPage
<1>4. CASE Crosses(r)
  <2>1. t \in Offset /\ HeadEnd(r) = PageLen - 1
      BY <1>1, <1>2, <1>4 DEF Larger
  <2> HIDE DEF t
  <2> QED
      BY <1>3, <2>1, Sizes DEF Larger, Offset
<1>5. CASE ~Crosses(r)
    BY <1>3, <1>5 DEF Larger
<1> QED
    BY <1>4, <1>5

LEMMA FromRecordsRead ==
    ASSUME TypeInv, FromRecords, ReadRecord, file[line].good
    PROVE  FromRecords'
<1> DEFINE r == file[line]
<1>1. /\ r \in Record /\ line \in DOMAIN file /\ file' = file
      /\ maxpage' = Larger(maxpage, LastOf(r)) /\ minoffset' = Lower(r) /\ maxoffset' = Raise(r)
    BY RecordInTable, FileFacts DEF TypeInv, Names, Tables, ReadRecord, run
<1>2. /\ Asked(file, r.page, r.start) /\ Asked(file, r.page, HeadEnd(r))
      /\ Crosses(r) => Asked(file, r.page + 1, 0)
      /\ \E a \in Offset : Asked(file, LastOf(r), a)
    BY <1>1, RecordAsks DEF TypeInv
<1>3. r.page \in Page /\ r.start \in Offset /\ HeadEnd(r) \in Offset
    BY <1>1, RecordFacts
<1> HIDE DEF r
<1>4. ASSUME NEW p \in Page, minoffset'[p] \in Offset
      PROVE  EndAsked(file, p, minoffset'[p])
  <2>1. minoffset'[p] = IF p = r.page THEN Smaller(r.start, minoffset[p])
                        ELSE IF Crosses(r) /\ p = r.page + 1 THEN 0 ELSE minoffset[p]
      BY <1>1 DEF Lower
  <2>2. CASE minoffset'[p] = minoffset[p]
      BY <1>4, <2>2 DEF FromRecords
  <2>3. CASE p = r.page /\ minoffset'[p] = r.start
      BY <1>2, <1>3, <2>3 DEF EndAsked
  <2>4. CASE Crosses(r) /\ p = r.page + 1 /\ minoffset'[p] = 0
      BY <1>2, <2>4, FlashFacts DEF EndAsked
  <2> QED
      BY <2>1, <2>2, <2>3, <2>4 DEF Smaller
<1>5. ASSUME NEW p \in Page, maxoffset'[p] # 0
      PROVE  EndAsked(file, p, maxoffset'[p])
  <2>1. CASE maxoffset'[p] = maxoffset[p]
      BY <1>5, <2>1 DEF FromRecords
  <2>2. CASE p = r.page /\ maxoffset'[p] = HeadEnd(r)
      BY <1>2, <1>3, <2>2 DEF EndAsked
  <2> QED
      BY <1>1, <2>1, <2>2, EndsOf, RaisedEnd DEF TypeInv
<1>6. maxpage' # 0 => \E a \in Offset : Asked(file, maxpage', a)
    BY <1>1, <1>2 DEF FromRecords, Larger
<1> QED
    BY <1>1, <1>4, <1>5, <1>6 DEF FromRecords

LEMMA HalfOfRounded ==
    ASSUME NEW o \in Offset
    PROVE  Half(o - (o % 4)) = Half(o) /\ Half(o - (o % 4) + 3) = Half(o)
<1>1. o \in Int /\ Unit \in Int /\ o - (o % 4) \in Int
    BY Sizes DEF Offset
<1> QED
    BY <1>1, WordsInPage DEF Half

LEMMA FromRecordsRounded ==
    ASSUME TypeInv, FromRecords, NextPage, Used(page)
    PROVE  FromRecords'
<1>1. /\ page \in Page /\ minoffset[page] \in Offset /\ maxoffset[page] \in Offset
      /\ minoffset' = [minoffset EXCEPT ![page] = minoffset[page] - (minoffset[page] % 4)]
      /\ maxoffset' = [maxoffset EXCEPT ![page] = maxoffset[page] - (maxoffset[page] % 4) + 3]
    BY RoundedEnds DEF TypeInv
<1>2. file' = file /\ maxpage' = maxpage
    BY DEF NextPage, run
<1>3. DOMAIN minoffset = Page /\ DOMAIN maxoffset = Page
    BY DEF TypeInv, Tables
<1>4. ASSUME NEW p \in Page, p # page
      PROVE  minoffset'[p] = minoffset[p] /\ maxoffset'[p] = maxoffset[p]
    BY <1>1, <1>3, <1>4
<1>5. EndAsked(file, page, minoffset[page])
    BY <1>1 DEF FromRecords
<1>6. EndAsked(file, page, maxoffset[page])
  <2>1. CASE maxoffset[page] # 0
      BY <1>1, <2>1 DEF FromRecords
  <2>2. CASE maxoffset[page] = 0
    <3>1. minoffset[page] = 0
        BY <1>1, <2>2 DEF Used, Offset
    <3> QED
        BY <1>5, <2>2, <3>1
  <2> QED
      BY <2>1, <2>2
<1>7. Half(minoffset'[page]) = Half(minoffset[page]) /\ Half(maxoffset'[page]) = Half(maxoffset[page])
    BY <1>1, <1>3, HalfOfRounded
<1>8. EndAsked(file, page, minoffset'[page]) /\ EndAsked(file, page, maxoffset'[page])
    BY <1>5, <1>6, <1>7 DEF EndAsked
<1> QED
    BY <1>2, <1>4, <1>8 DEF FromRecords

LEMMA FromRecordsInit == ASSUME PageLen <= 65535 PROVE Init => FromRecords
BY FromRecordsEmpty DEF Init, FromRecords

LEMMA FromRecordsStep ==
    ASSUME PageLen <= 65535, TypeInv, FromRecords, [Next]_vars
    PROVE  FromRecords'
<1>1. file' = file
    BY TableFrame
<1>2. CASE UNCHANGED <<line, table>>
    BY <1>1, <1>2 DEF FromRecords, table
<1>3. CASE EmptyTable
    BY <1>3, FromRecordsEmpty DEF FromRecords, EmptyTable
<1> QED
    BY <1>2, <1>3, FromRecordsRead, FromRecordsRounded, TableFrame
-----------------------------------------------------------------------------
(* A range of whole words is written in whole words. *)
Aligned == step = "write" => Total % 4 = 0 /\ done % 4 = 0

(* In a run of the script that nothing disturbed: what is erased and not    *)
(* written is blank, what is written is right.                              *)
Undisturbed == wrapped /\ ~trouble /\ step # "idle"
ToUse(p, o) == <<p, Half(o)>> \in UnitsToErase
Fresh(p) == \A o \in Offset : ToUse(p, o) => flash[p][o] = Blank
Sofar(o) == IF step = "write" /\ o >= minoffset[page] + done THEN Blank ELSE datas[page][o]

Sound ==
    /\ step = "idle" => ~lost
    /\ Undisturbed =>
          /\ ~lost
          /\ step = "error" => ~Acceptable(file)
          /\ step = "erase" => \A p \in Page, o \in Offset :
                                   ToUse(p, o) => <<p, Half(o)>> \in toErase \/ flash[p][o] = Blank
          /\ step = "read" => \A p \in Page : Fresh(p)
          /\ Writing => \A p \in Page : p > page \/ (p = page /\ step = "page") => Fresh(p)
          /\ step \in {"write", "verify"} =>
                 \A o \in Offset : InRange(page, o) => flash[page][o] = Sofar(o)

LEMMA SameFile ==
    ASSUME TypeInv, [Next]_vars
    PROVE  /\ file' = file /\ tool' = tool /\ UnitsToErase' = UnitsToErase
           /\ Acceptable(file)' <=> Acceptable(file)
<1>1. file' = file /\ tool' = tool
    BY TableFrame
<1>2. HasBelow(file)' = HasBelow(file) /\ HasAbove(file)' = HasAbove(file) /\ Readable(file)' = Readable(file)
    BY <1>1 DEF HasBelow, HasAbove, Readable, Asked, Holds, InHead, InTail, Crosses, HeadEnd, TailLen
<1> QED
    BY <1>1, <1>2 DEF UnitsToErase, Acceptable

(* The range of the page at hand lies in erased units. *)
LEMMA RangeErased ==
    ASSUME TypeInv, Placed, FromRecords, step = "page", page <= maxpage,
           NEW o \in Offset, InRange(page, o)
    PROVE  ToUse(page, o)
<1>1. page \in Page /\ maxpage \in Page /\ o \in Nat /\ Unit \in Nat
    BY Sizes DEF TypeInv, Counts, Tables, Page, Offset
<1>2. minoffset[page] \in Offset /\ maxoffset[page] \in Offset
  <2>1. minoffset[page] \in Offset \cup {65535} /\ maxoffset[page] \in Offset
      BY <1>1 DEF TypeInv, Tables
  <2> QED
      BY <2>1, Sizes DEF InRange, Offset
<1>3. CASE tool = "boot"
  <2>1. page = 0 /\ maxoffset[0] < Unit
      BY <1>1, <1>3 DEF Placed, Writing, Page
  <2>2. o < Unit
      BY <1>1, <1>2, <2>1 DEF InRange, Offset
  <2> QED
      BY <1>3, <2>1, <2>2 DEF ToUse, Half, UnitsToErase, BootUnit
<1>4. CASE tool = "app"
  <2>1. EndAsked(file, page, o)
    <3>1. CASE Half(o) = Half(minoffset[page])
        BY <1>1, <1>2, <3>1 DEF FromRecords, EndAsked
    <3>2. CASE Half(o) # Half(minoffset[page])
      <4>1. o >= Unit /\ minoffset[page] < Unit
          BY <1>1, <1>2, <3>2 DEF Half, InRange, Offset
      <4>2. maxoffset[page] # 0 /\ Half(maxoffset[page]) = Half(o)
          BY <1>1, <1>2, <4>1, Sizes DEF Half, InRange, Offset
      <4> QED
          BY <1>1, <4>2 DEF FromRecords, EndAsked
    <3> QED
        BY <3>1, <3>2
  <2>2. PICK a \in Offset : Asked(file, page, a) /\ Half(a) = Half(o)
      BY <2>1 DEF EndAsked
  <2>3. <<page, Half(o)>> \in UnitsOf(file)
      BY <1>1, <2>2 DEF UnitsOf, Half
  <2> QED
      BY <1>4, <2>3 DEF ToUse, UnitsToErase
<1> QED
    BY <1>3, <1>4 DEF TypeInv, Names

(* The writer refuses only what is not acceptable. *)
LEMMA RefusedForAReason ==
    ASSUME TypeInv, FromRecords, (tool = "app" /\ AppRefuses) \/ (tool = "boot" /\ BootRefuses)
    PROVE  ~Acceptable(file)
<1>0. /\ minoffset[0] \in Offset \cup {65535} /\ maxoffset[0] \in Offset /\ 0 \in Page
      /\ maxpage \in Page /\ Unit \in Nat /\ Unit > 0
    BY FlashFacts, Sizes DEF TypeInv, Tables
<1>1. CASE tool = "app" /\ AppRefuses
  <2>1. minoffset[0] \in Offset /\ minoffset[0] < Unit
      BY <1>0, <1>1, Sizes DEF AppRefuses, Offset
  <2>2. PICK a \in Offset : Asked(file, 0, a) /\ Half(a) = Half(minoffset[0])
      BY <1>0, <2>1 DEF FromRecords, EndAsked
  <2>3. a < Unit
      BY <1>0, <2>1, <2>2 DEF Half
  <2> QED
      BY <1>1, <2>2, <2>3 DEF Acceptable, HasBelow, InBootloader
<1>2. CASE tool = "boot" /\ BootRefuses
  <2>1. CASE maxpage > 0
    <3>1. PICK a \in Offset : Asked(file, maxpage, a)
        BY <1>0, <2>1 DEF FromRecords
    <3> QED
        BY <1>0, <1>2, <2>1, <3>1 DEF Acceptable, HasAbove, InBootloader
  <2>2. CASE maxoffset[0] >= Unit
    <3>1. maxoffset[0] # 0 /\ Half(maxoffset[0]) = 1
        BY <1>0, <2>2 DEF Half, Offset
    <3>2. PICK a \in Offset : Asked(file, 0, a) /\ Half(a) = 1
        BY <1>0, <3>1 DEF FromRecords, EndAsked
    <3>3. ~InBootloader(0, a)
        BY <3>2 DEF Half, InBootloader
    <3> QED
        BY <1>0, <1>2, <3>2, <3>3 DEF Acceptable, HasAbove
  <2> QED
      BY <1>2, <2>1, <2>2 DEF BootRefuses
<1> QED
    BY <1>1, <1>2

LEMMA AlignedStep ==
    ASSUME TypeInv, Aligned, [Next]_vars
    PROVE  Aligned'
<1> SUFFICES ASSUME step' = "write"
             PROVE  Total' % 4 = 0 /\ done' % 4 = 0
    BY DEF Aligned
<1> USE DEF run, table, Fail
<1>1. CASE NextPage
  <2>1. Used(page) /\ done' = 0 /\ page' = page
      BY <1>1 DEF NextPage
  <2>2. /\ page \in Page /\ minoffset[page] \in Offset /\ maxoffset[page] \in Offset
        /\ minoffset' = [minoffset EXCEPT ![page] = minoffset[page] - (minoffset[page] % 4)]
        /\ maxoffset' = [maxoffset EXCEPT ![page] = maxoffset[page] - (maxoffset[page] % 4) + 3]
      BY <1>1, <2>1, RoundedEnds DEF TypeInv
  <2> DEFINE a == minoffset[page]
             b == maxoffset[page]
  <2>3. Total' = (b - (b % 4) + 3) - (a - (a % 4)) + 1 /\ a \in Nat /\ b \in Nat
      BY <2>1, <2>2 DEF Total, TypeInv, Tables, Offset
  <2> HIDE DEF a, b
  <2>4. Total' % 4 = 0
      BY <2>3
  <2> QED
      BY <2>1, <2>4
<1>2. CASE WriteChunk
  <2>1. Total' = Total /\ done' = done + NextLen /\ step = "write"
      BY <1>2 DEF WriteChunk, Total
  <2>2. Total \in Int /\ done \in Nat /\ ChunkLen \in Nat /\ ChunkLen % 4 = 0
    <3>1. page \in Page /\ done \in Nat
        BY <1>2 DEF WriteChunk, TypeInv, Counts
    <3>2. minoffset[page] \in Int /\ maxoffset[page] \in Int
        BY <3>1 DEF TypeInv, Tables, Offset
    <3>3. ChunkLen % 4 = 0
        BY DebugFlashAssumption
    <3> QED
        BY <3>1, <3>2, <3>3, Sizes DEF Total
  <2> HIDE DEF Total
  <2> DEFINE t == Total
             c == ChunkLen
  <2>3. t \in Int /\ t % 4 = 0 /\ c \in Nat /\ c % 4 = 0 /\ done \in Nat /\ done % 4 = 0
      BY <2>1, <2>2 DEF Aligned
  <2>4. done' = done + (IF t - done < c THEN t - done ELSE c)
      BY <2>1 DEF NextLen, Smaller
  <2> HIDE DEF t, c
  <2>5. done' % 4 = 0
      BY <2>3, <2>4
  <2> QED
      BY <2>1, <2>3, <2>5 DEF t
<1>3. CASE UNCHANGED <<table, page, done>> /\ step = "write"
    BY <1>3 DEF Aligned, Total
<1>4. RunWrapper \/ RunWriter \/ EraseChip \/ EraseUnit \/ StartWriter \/ ReadRecord \/ CheckFile
          => FALSE
    BY DEF RunWrapper, RunWriter, EraseChip, EraseUnit, StartWriter, ReadRecord, CheckFile
<1>5. PageWritten \/ AllWritten \/ Answer \/ Interrupt \/ Again => FALSE
    BY DEF PageWritten, AllWritten, Answer, Interrupt, Again
<1>6. ~VerifyPage
    BY VerifyOutcome DEF TypeInv
<1>7. Lose \/ UNCHANGED vars => UNCHANGED <<table, page, done>> /\ step = "write"
    BY DEF Lose, vars
<1> QED
    BY <1>1, <1>2, <1>3, <1>4, <1>5, <1>6, <1>7 DEF Next, ToolStep
-----------------------------------------------------------------------------
LEMMA SoundErase ==
    ASSUME TypeInv, Sound, RunWrapper \/ RunWriter \/ EraseUnit \/ StartWriter
    PROVE  Sound'
<1>0. file' = file /\ tool' = tool /\ UnitsToErase' = UnitsToErase
      /\ (Acceptable(file)' <=> Acceptable(file))
    BY SameFile DEF Next, ToolStep
<1>1. \A p \in Page, o \in Offset : ToUse(p, o)' <=> ToUse(p, o)
    BY <1>0 DEF ToUse
<1>2. CASE RunWrapper
  <2>1. step = "idle" /\ lost' = lost /\ flash' = flash
      BY <1>2 DEF RunWrapper
  <2>2. CASE WrapperTakes(file)
    <3>1. step' = "erase" /\ toErase' = UnitsToErase
        BY <1>2, <2>2 DEF RunWrapper
    <3> QED
        BY <1>1, <2>1, <3>1 DEF Sound, Writing, ToUse
  <2>3. CASE ~WrapperTakes(file)
    <3>1. step' = "error"
        BY <1>2, <2>3 DEF RunWrapper
    <3>2. ~Acceptable(file)
        BY <2>3 DEF WrapperTakes, Acceptable
    <3> QED
        BY <1>0, <2>1, <3>1, <3>2 DEF Sound, Writing
  <2> QED
      BY <2>2, <2>3
<1>3. CASE RunWriter
    BY <1>3 DEF RunWriter, Sound, Undisturbed
<1>4. CASE EraseUnit
  <2> SUFFICES ASSUME Undisturbed' PROVE Sound'
    <3>1. step' # "idle"
        BY <1>4 DEF EraseUnit
    <3> QED
        BY <3>1 DEF Sound
  <2>1. PICK u \in toErase :
           /\ flash' = Erased(flash, u) \/ flash' = flash
           /\ IsErased(flash', u) /\ toErase' = toErase \ {u} /\ step' = "erase" /\ trouble' = trouble
      BY <1>4 DEF EraseUnit, Undisturbed
  <2>2. Undisturbed /\ lost' = lost /\ step = "erase"
      BY <1>4, <2>1 DEF EraseUnit, Undisturbed
  <2>3. u \in Page \X {0, 1} /\ flash \in [Page -> [Offset -> Byte]]
      BY DEF TypeInv, Names, Tables, Flash
  <2>4. ASSUME NEW p \in Page, NEW o \in Offset, ToUse(p, o), <<p, Half(o)>> \notin toErase'
        PROVE  flash'[p][o] = Blank
    <3>1. CASE <<p, Half(o)>> = u
      <4>1. p = u[1] /\ Half(o) = u[2]
          BY <3>1
      <4> QED
          BY <2>1, <4>1 DEF IsErased
    <3>2. CASE <<p, Half(o)>> # u
      <4>1. flash[p][o] = Blank
          BY <2>1, <2>2, <2>4, <3>2 DEF Sound
      <4>2. CASE flash' = flash
          BY <4>1, <4>2
      <4>3. CASE flash' = Erased(flash, u)
        <5>1. p # u[1] => flash'[p] = flash[p]
            BY <2>3, <4>3 DEF Erased
        <5>2. p = u[1] => flash'[p][o] = IF Half(o) = u[2] THEN Blank ELSE flash[p][o]
            BY <2>3, <4>3 DEF Erased
        <5> QED
            BY <4>1, <5>1, <5>2
      <4> QED
          BY <2>1, <4>2, <4>3
    <3> QED
        BY <3>1, <3>2
  <2> QED
      BY <1>1, <2>1, <2>2, <2>4 DEF Sound, Writing
<1>5. CASE StartWriter
  <2>1. step = "erase" /\ toErase = {} /\ step' = "read" /\ flash' = flash /\ trouble' = (trouble \/ lost')
        /\ lost' \in BOOLEAN /\ wrapped' = wrapped
      BY <1>5 DEF StartWriter
  <2>2. Undisturbed' => Undisturbed /\ ~lost'
      BY <2>1 DEF Undisturbed
  <2> QED
      BY <1>1, <2>1, <2>2 DEF Sound, Writing, Fresh
<1> QED
    BY <1>2, <1>3, <1>4, <1>5

(* The writer reads and checks: nothing changes but where it is. *)
LEMMA SoundRead ==
    ASSUME TypeInv, FromRecords, Sound, ReadRecord \/ CheckFile
    PROVE  Sound'
<1>0. file' = file /\ tool' = tool /\ UnitsToErase' = UnitsToErase
      /\ (Acceptable(file)' <=> Acceptable(file))
    BY SameFile DEF Next, ToolStep
<1>1. \A p \in Page : (flash' = flash /\ Fresh(p)) => Fresh(p)'
    BY <1>0 DEF Fresh, ToUse, Blank
<1>2. step = "read" /\ UNCHANGED <<wrapped, trouble, lost, flash>> /\ step' # "idle"
    BY DEF ReadRecord, CheckFile, Fail
<1>3. Undisturbed' => Undisturbed
    BY <1>2 DEF Undisturbed
<1>4. CASE ReadRecord
  <2>1. CASE file[line].good
    <3>1. step' = "read"
        BY <1>2, <1>4, <2>1 DEF ReadRecord
    <3> QED
        BY <1>1, <1>2, <1>3, <3>1 DEF Sound, Writing
  <2>2. CASE ~file[line].good
    <3>1. step' = "error"
        BY <1>4, <2>2 DEF ReadRecord, Fail
    <3>2. line \in DOMAIN file
        BY <1>4, FileFacts DEF ReadRecord, TypeInv, Names, Tables
    <3>3. ~Acceptable(file)
        BY <2>2, <3>2 DEF Acceptable, Readable
    <3> QED
        BY <1>0, <1>2, <1>3, <3>1, <3>3 DEF Sound, Writing
  <2> QED
      BY <2>1, <2>2
<1>5. CASE CheckFile
  <2>1. CASE (tool = "app" /\ AppRefuses) \/ (tool = "boot" /\ BootRefuses)
    <3>1. step' = "error"
        BY <1>5, <2>1 DEF CheckFile, Fail
    <3> QED
        BY <1>0, <1>2, <1>3, <2>1, <3>1, RefusedForAReason DEF Sound, Writing
  <2>2. CASE ~((tool = "app" /\ AppRefuses) \/ (tool = "boot" /\ BootRefuses))
    <3>1. step' = "page"
        BY <1>5, <2>2 DEF CheckFile
    <3> QED
        BY <1>1, <1>2, <1>3, <3>1 DEF Sound, Writing
  <2> QED
      BY <2>1, <2>2
<1> QED
    BY <1>4, <1>5

(* A page begins: its range, rounded, lies in what was erased. *)
LEMMA SoundPage ==
    ASSUME TypeInv, Placed, FromRecords, Sound, NextPage
    PROVE  Sound'
<1>0. file' = file /\ tool' = tool /\ UnitsToErase' = UnitsToErase
    BY SameFile DEF Next, ToolStep
<1>1. \A p \in Page : Fresh(p) => Fresh(p)'
    BY <1>0 DEF Fresh, ToUse, Blank, NextPage
<1>2. step = "page" /\ UNCHANGED <<wrapped, trouble, lost, flash, datas>> /\ page <= maxpage /\ page \in Nat
    BY DEF NextPage, TypeInv, Counts
<1>3. Undisturbed' => Undisturbed
    BY <1>2 DEF Undisturbed
<1>4. CASE Used(page)
  <2>1. step' = "write" /\ done' = 0 /\ page' = page
      BY <1>4 DEF NextPage
  <2>2. /\ page \in Page /\ minoffset[page] \in Offset /\ maxoffset[page] \in Offset
        /\ minoffset' = [minoffset EXCEPT ![page] = minoffset[page] - (minoffset[page] % 4)]
        /\ maxoffset' = [maxoffset EXCEPT ![page] = maxoffset[page] - (maxoffset[page] % 4) + 3]
      BY <1>4, RoundedEnds DEF TypeInv
  <2>3. /\ Half(minoffset'[page]) = Half(minoffset[page]) /\ minoffset'[page] \in Int
        /\ Half(maxoffset'[page]) = Half(maxoffset[page]) /\ maxoffset'[page] \in Int
    <3>1. minoffset \in [Page -> Offset \cup {65535}] /\ maxoffset \in [Page -> Offset]
        BY DEF TypeInv, Tables
    <3>2. /\ minoffset'[page] = minoffset[page] - (minoffset[page] % 4)
          /\ maxoffset'[page] = maxoffset[page] - (maxoffset[page] % 4) + 3
        BY <2>2, <3>1
    <3>3. minoffset'[page] \in Offset /\ maxoffset'[page] \in Offset
        BY <2>2, <3>2, WordsInPage
    <3> QED
        BY <2>2, <3>2, <3>3, HalfOfRounded, Sizes DEF Offset
  <2>4. ToUse(page, minoffset[page]) /\ ToUse(page, maxoffset[page])
    <3>1. InRange(page, minoffset[page]) /\ InRange(page, maxoffset[page])
        BY <1>4, <2>2 DEF InRange, Used, Offset
    <3> QED
        BY <1>2, <2>2, <3>1, RangeErased
  <2>5. ASSUME NEW o \in Offset, InRange(page, o)', Undisturbed
        PROVE  flash[page][o] = Blank
    <3>1. minoffset'[page] <= o /\ o <= maxoffset'[page]
        BY <2>1, <2>5 DEF InRange
    <3>2. Half(o) \in {Half(minoffset'[page]), Half(maxoffset'[page])}
        BY <2>3, <3>1, Sizes DEF Half, Offset
    <3>3. ToUse(page, o)
        BY <2>3, <2>4, <3>2 DEF ToUse
    <3> QED
        BY <1>2, <2>2, <2>5, <3>3 DEF Sound, Writing, Fresh
  <2>6. \A o \in Offset : InRange(page, o)' => Sofar(o)' = Blank
    <3> SUFFICES ASSUME NEW o \in Offset, minoffset'[page] <= o
                 PROVE  Sofar(o)' = Blank
        BY <2>1 DEF InRange
    <3>1. o >= minoffset'[page'] + done'
        BY <2>1, <2>3, Sizes DEF Offset
    <3> QED
        BY <2>1, <3>1 DEF Sofar, Blank
  <2>7. Undisturbed' => \A o \in Offset : InRange(page, o)' => flash'[page'][o] = Sofar(o)'
      BY <1>2, <1>3, <2>1, <2>5, <2>6
  <2> QED
      BY <1>1, <1>2, <1>3, <2>1, <2>7 DEF Sound, Writing, InRange
<1>5. CASE ~Used(page)
  <2>1. step' = "page" /\ page' = page + 1
      BY <1>2, <1>5 DEF NextPage
  <2>2. \A p \in Page : p > page' \/ p = page' => p > page
      BY <1>2, <2>1 DEF Page
  <2> QED
      BY <1>1, <1>2, <1>3, <2>1, <2>2 DEF Sound, Writing
<1> QED
    BY <1>4, <1>5
-----------------------------------------------------------------------------
(* In an undisturbed run a chunk is programmed whole ... *)
LEMMA WholeWords ==
    ASSUME TypeInv, Aligned, step = "write", done < Total,
           NEW n \in 0..(NextLen \div 4), ~(n < NextLen \div 4)
    PROVE  4 * n = NextLen /\ NextLen \in Nat
<1>1. page \in Page /\ done \in Nat
    BY DEF TypeInv, Counts
<1>2. minoffset[page] \in Int /\ maxoffset[page] \in Int
    BY <1>1 DEF TypeInv, Tables, Offset
<1>3. Total \in Int /\ Total % 4 = 0 /\ done % 4 = 0 /\ ChunkLen \in Nat /\ ChunkLen % 4 = 0
    BY <1>2, DebugFlashAssumption, Sizes DEF Total, Aligned, DebugFlashAssumption
<1> HIDE DEF Total
<1> DEFINE t == Total
           l == NextLen
<1>4. t \in Int /\ t % 4 = 0 /\ done < t
    BY <1>3
<1>5. l = IF t - done < ChunkLen THEN t - done ELSE ChunkLen
    BY DEF NextLen, Smaller
<1>6. n \in 0..(l \div 4) /\ ~(n < l \div 4)
    OBVIOUS
<1> HIDE DEF t, l
<1>7. l \in Nat /\ l % 4 = 0
    BY <1>1, <1>3, <1>4, <1>5
<1>8. 4 * n = l
    BY <1>6, <1>7
<1> QED
    BY <1>7, <1>8 DEF l

(* ... into blank flash. *)
LEMMA SoundWrite ==
    ASSUME TypeInv, Aligned, Sound, WriteChunk
    PROVE  Sound'
<1>0. file' = file /\ tool' = tool /\ UnitsToErase' = UnitsToErase
    BY SameFile DEF Next, ToolStep
<1>1. /\ step = "write" /\ step' = "write" /\ done < Total /\ done' = done + NextLen
      /\ UNCHANGED <<wrapped, lost, page, minoffset, maxoffset, datas>>
    BY DEF WriteChunk, table
<1>2. PICK n \in 0..(NextLen \div 4), zeros \in BOOLEAN :
         /\ flash' = Programmed(minoffset[page] + done, n, zeros)
         /\ trouble' = (trouble \/ zeros \/ n < NextLen \div 4)
    BY DEF WriteChunk
<1> SUFFICES ASSUME Undisturbed'
             PROVE  Sound'
    BY <1>1 DEF Sound
<1>3. Undisturbed /\ ~zeros /\ ~(n < NextLen \div 4)
    BY <1>1, <1>2 DEF Undisturbed
<1>4. 4 * n = NextLen /\ NextLen \in Nat
    BY <1>1, <1>3, WholeWords
<1>5. /\ page \in Page /\ done \in Nat /\ page \in Int
      /\ flash \in [Page -> [Offset -> Byte]] /\ datas \in [Page -> [Offset -> Byte]]
    BY <1>1 DEF TypeInv, Counts, Tables, Flash, Page
<1>6. minoffset[page] \in Int
    BY <1>5 DEF TypeInv, Tables, Offset
<1> DEFINE from == minoffset[page] + done
<1>7. /\ \A p \in Page : p # page => flash'[p] = flash[p]
      /\ \A o \in Offset : flash'[page][o] =
            IF from <= o /\ o < from + NextLen THEN flash[page][o] \cap datas[page][o] ELSE flash[page][o]
    BY <1>2, <1>3, <1>4, <1>5 DEF Programmed
<1>8. ASSUME NEW o \in Offset, InRange(page, o)
      PROVE  flash'[page][o] = Sofar(o)'
  <2>1. flash[page][o] = Sofar(o)
      BY <1>1, <1>3, <1>8 DEF Sound
  <2>2. o \in Int
      BY DEF Offset
  <2>3. Sofar(o)' = IF o >= from + NextLen THEN Blank ELSE datas[page][o]
    <3>1. minoffset[page] + (done + NextLen) = from + NextLen
        BY <1>4, <1>5, <1>6
    <3> QED
        BY <1>1, <3>1 DEF Sofar, Blank
  <2>4. Sofar(o) = IF o >= from THEN Blank ELSE datas[page][o]
      BY <1>1 DEF Sofar
  <2>5. Blank \cap datas[page][o] = datas[page][o]
    <3>1. datas[page][o] \in SUBSET Bits
        BY <1>5 DEF Byte
    <3> QED
        BY <3>1 DEF Blank
  <2>6. from \in Int
      BY <1>5, <1>6
  <2>7. flash'[page][o] =
            IF from <= o /\ o < from + NextLen THEN flash[page][o] \cap datas[page][o] ELSE flash[page][o]
      BY <1>7
  <2> HIDE DEF from
  <2>8. CASE o < from
      BY <1>4, <2>1, <2>2, <2>3, <2>4, <2>6, <2>7, <2>8
  <2>9. CASE from <= o /\ o < from + NextLen
      BY <1>4, <2>1, <2>2, <2>3, <2>4, <2>5, <2>6, <2>7, <2>9
  <2>10. CASE o >= from + NextLen
      BY <1>4, <2>1, <2>2, <2>3, <2>4, <2>6, <2>7, <2>10
  <2> QED
      BY <1>4, <2>2, <2>6, <2>8, <2>9, <2>10
<1>9. \A p \in Page : p > page => Fresh(p)'
    BY <1>0, <1>1, <1>3, <1>5, <1>7 DEF Sound, Writing, Fresh, ToUse, Blank
<1> QED
    BY <1>1, <1>3, <1>8, <1>9 DEF Sound, Writing, InRange, Undisturbed

LEMMA SoundWritten ==
    ASSUME TypeInv, Sound, PageWritten
    PROVE  Sound'
<1>0. file' = file /\ tool' = tool /\ UnitsToErase' = UnitsToErase
    BY SameFile DEF Next, ToolStep
<1>1. /\ step = "write" /\ done >= Total /\ done <= Total
      /\ UNCHANGED <<wrapped, lost, page, minoffset, maxoffset, datas, done, flash>>
    BY DEF PageWritten, table, TypeInv, Counts
<1> SUFFICES ASSUME Undisturbed'
             PROVE  Sound'
    BY <1>1 DEF Sound, Undisturbed, PageWritten, Fail
<1>2. step' = "verify" /\ trouble' = trouble
    BY DEF PageWritten, Undisturbed
<1>3. Undisturbed
    BY <1>1, <1>2 DEF Undisturbed
<1>4. page \in Page /\ done \in Nat /\ minoffset[page] \in Int /\ maxoffset[page] \in Int
  <2>1. page \in Page /\ done \in Nat
      BY <1>1 DEF TypeInv, Counts
  <2> QED
      BY <2>1 DEF TypeInv, Tables, Offset
<1>5. ASSUME NEW o \in Offset, InRange(page, o)
      PROVE  flash'[page][o] = Sofar(o)'
  <2>1. flash[page][o] = Sofar(o)
      BY <1>1, <1>3, <1>5 DEF Sound
  <2>2. ~(o >= minoffset[page] + done)
      BY <1>1, <1>4, <1>5 DEF InRange, Total, Offset
  <2> QED
      BY <1>1, <1>2, <2>1, <2>2 DEF Sofar
<1>6. \A p \in Page : p > page => Fresh(p)'
    BY <1>0, <1>1, <1>3 DEF Sound, Writing, Fresh, ToUse, Blank
<1> QED
    BY <1>1, <1>2, <1>3, <1>5, <1>6 DEF Sound, Writing, InRange, Undisturbed
-----------------------------------------------------------------------------
(* What reads back undisturbed is right, and the next page's turn comes. *)
LEMMA SoundVerify ==
    ASSUME TypeInv, Sound, VerifyPage
    PROVE  Sound'
<1>0. file' = file /\ tool' = tool /\ UnitsToErase' = UnitsToErase
    BY SameFile DEF Next, ToolStep
<1>1. /\ step = "verify" /\ step' \in {"error", "page"} /\ wrapped' = wrapped /\ flash' = flash
      /\ lost' \in BOOLEAN
    BY VerifyOutcome DEF TypeInv
<1> SUFFICES ASSUME Undisturbed'
             PROVE  Sound'
    BY <1>1 DEF Sound
<1>2. page \in Page /\ page \in Int
    BY <1>1 DEF TypeInv, Counts, Page
<1>3. PICK r1 \in ReadPage(lost) : \E r2 \in ReadPage(r1.lost) :
        /\ trouble' = (trouble \/ lost' \/ r1.buf # flash[page] \/ (Differs(r1.buf) /\ r2.buf # flash[page]))
        /\ IF Differs(r1.buf) /\ provo' > Retries
           THEN Fail /\ UNCHANGED page
           ELSE /\ page' = IF ~Differs(r1.buf) \/ ~Differs(r2.buf) THEN page + 1 ELSE page
                /\ step' = "page" /\ UNCHANGED port
    BY DEF VerifyPage
<1>4. ~trouble /\ ~lost' /\ r1.buf = flash[page]
    BY <1>1, <1>3 DEF Undisturbed
<1>5. Undisturbed
    BY <1>1, <1>4 DEF Undisturbed
<1>6. \A o \in Offset : InRange(page, o) => flash[page][o] = datas[page][o]
    BY <1>1, <1>5 DEF Sound, Sofar
<1>7. ~Differs(r1.buf)
    BY <1>4, <1>6 DEF Differs
<1>8. step' = "page" /\ page' = page + 1
    BY <1>3, <1>7
<1>9. \A p \in Page : p > page' \/ p = page' => Fresh(p)'
  <2>1. \A p \in Page : p > page => Fresh(p)
      BY <1>1, <1>5 DEF Sound, Writing
  <2>2. \A p \in Page : p > page' \/ p = page' => p > page
      BY <1>2, <1>8 DEF Page
  <2> QED
      BY <1>0, <1>1, <2>1, <2>2 DEF Fresh, ToUse, Blank
<1> QED
    BY <1>1, <1>4, <1>8, <1>9 DEF Sound, Writing

LEMMA SoundStep ==
    ASSUME TypeInv, Placed, FromRecords, Aligned, Sound, [Next]_vars
    PROVE  Sound'
<1>1. CASE EraseChip
    BY <1>1 DEF EraseChip, Sound, Undisturbed, Writing
<1>2. CASE AllWritten
    BY <1>2 DEF AllWritten, Sound, Undisturbed, Writing
<1>3. CASE Answer
    BY <1>3 DEF Answer, Sound, Undisturbed, Writing
<1>4. CASE Lose
    BY <1>4 DEF Lose, Sound, Undisturbed
<1>5. CASE Interrupt
    BY <1>5 DEF Interrupt, Sound, Undisturbed
<1>6. CASE Again
    BY <1>6 DEF Again, Sound, Undisturbed
<1>7. CASE UNCHANGED vars
  <2>1. UNCHANGED <<step, wrapped, trouble, toErase, minoffset, maxoffset, datas, page, done, lost, flash>>
      BY <1>7 DEF vars, table
  <2>2. UnitsToErase' = UnitsToErase /\ (Acceptable(file)' <=> Acceptable(file))
      BY SameFile
  <2>3. \A p \in Page : Fresh(p)' <=> Fresh(p)
      BY <2>1, <2>2 DEF Fresh, ToUse, Blank
  <2>4. Undisturbed' <=> Undisturbed
      BY <2>1 DEF Undisturbed
  <2>5. \A p \in Page, o \in Offset : InRange(p, o)' <=> InRange(p, o)
      BY <2>1 DEF InRange
  <2>6. \A o \in Offset : Sofar(o)' = Sofar(o)
      BY <2>1 DEF Sofar, Blank
  <2>7. \A p \in Page, o \in Offset : ToUse(p, o)' <=> ToUse(p, o)
      BY <2>2 DEF ToUse
  <2>8. Writing' <=> Writing
      BY <2>1 DEF Writing
  <2> QED
      BY <2>1, <2>2, <2>3, <2>4, <2>6, <2>7, <2>8 DEF Sound, InRange, Blank
<1> QED
    BY <1>1, <1>2, <1>3, <1>4, <1>5, <1>6, <1>7, SoundErase, SoundRead, SoundPage, SoundWrite,
       SoundWritten, SoundVerify DEF Next, ToolStep

LEMMA SoundInit == Init => Sound /\ Aligned
BY DEF Init, Sound, Aligned, Undisturbed

(* A run of the script that nothing disturbed fails only for the file's     *)
(* sake, whatever earlier runs left in the flash: what it erases is all the *)
(* writer needs erased.  An end of 65535 marks a page the file leaves       *)
(* alone, so offsets have to stay below it                                  *)
(* (flash_app_via_debug.py, pages; write_app_via_debug.c, provo).           *)
THEOREM FailsForAReasonHolds ==
    ASSUME PageLen <= 65535
    PROVE  Spec => []FailsForAReason
<1> DEFINE IInv == TypeInv /\ Placed /\ FromRecords /\ Aligned /\ Sound
<1>1. Init => IInv
    BY TypeInit, PlacedInit, FromRecordsInit, SoundInit
<1>2. IInv /\ [Next]_vars => IInv'
    BY TypeStep, PlacedStep, FromRecordsStep, AlignedStep, SoundStep
<1>3. IInv => FailsForAReason
    BY DEF Sound, Undisturbed, FailsForAReason
<1> QED
    BY <1>1, <1>2, <1>3, PTL DEF Spec
=============================================================================
