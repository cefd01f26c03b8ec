--------------------------- MODULE BootloaderProofs ---------------------------
(***************************************************************************)
(* Bootloader: for every hex file that ends within the flash, page size,   *)
(* packet size and number of faults, no run touches the bootloader's own   *)
(* page, and an application started by a finished flash_firmware.py run is *)
(* exactly the file, byte by byte of its records.  With what that rests    *)
(* on: parse_ihx() and write_ihx() over any file, the dump brought back,   *)
(* the injected vectors.                                                   *)
(***************************************************************************)
EXTENDS FlashFile, FiniteSetTheorems, WellFoundedInduction, TLAPS

(* Induction, for facts about data: a set of numbers has a least element.  *)
LEMMA NatOrder == \E R : IsWellFoundedOn(R, Nat) /\ \A x, y \in Nat : <<y, x>> \in R <=> y < x
<1>1. \A x, y \in Nat : <<y, x>> \in OpToRel(<, Nat) <=> y < x
  BY DEF OpToRel
<1> QED BY <1>1, NatLessThanWellFounded, Zenon

LEMMA Least ==
    ASSUME NEW T, T \subseteq Nat, T # {}
    PROVE  \E x \in T : \A y \in T : x <= y
<1>1. PICK R : IsWellFoundedOn(R, Nat) /\ \A x, y \in Nat : <<y, x>> \in R <=> y < x
  BY NatOrder
<1>2. PICK x \in T : \A y \in T : ~(<<y, x>> \in R)  BY <1>1, WFMin
<1>3. ASSUME NEW y \in T PROVE x <= y
  <2>1. x \in Nat /\ y \in Nat  OBVIOUS
  <2>2. ~(y < x)  BY <1>1, <1>2, <2>1, Zenon
  <2> QED BY <2>1, <2>2
<1> QED BY <1>3

LEMMA Greatest ==
    ASSUME NEW n \in Nat, NEW T, T \subseteq 1..n, T # {}
    PROVE  Max(T) \in T /\ \A y \in T : Max(T) >= y
<1> DEFINE U == {n - y : y \in T}
<1>1. U \subseteq Nat /\ U # {}
  <2>1. \A y \in T : n - y \in Nat  OBVIOUS
  <2> QED BY <2>1
<1>2. PICK u \in U : \A v \in U : u <= v  BY <1>1, Least
<1>3. PICK x \in T : u = n - x  OBVIOUS
<1>4. ASSUME NEW y \in T PROVE x >= y
  <2>1. n - y \in U /\ x \in 1..n /\ y \in 1..n  OBVIOUS
  <2>2. u <= n - y  BY <1>2, <2>1
  <2> QED BY <1>3, <2>1, <2>2
<1> QED BY <1>4 DEF Max

LEMMA GreatestIs ==
    ASSUME NEW T, T \subseteq Int, NEW x \in T, \A y \in T : x >= y
    PROVE  Max(T) = x
<1>1. Max(T) \in T /\ Max(T) >= x  BY DEF Max
<1>2. x >= Max(T) /\ x \in Int /\ Max(T) \in Int  BY <1>1
<1> QED BY <1>1, <1>2
-----------------------------------------------------------------------------
(* Arithmetic of the image. *)
LEMMA DivBounds ==
    ASSUME NEW a \in Nat, NEW d \in Nat \ {0}
    PROVE  /\ a \div d \in Nat
           /\ d * (a \div d) <= a
           /\ a < d * (a \div d) + d
OBVIOUS

LEMMA DivMod ==
    ASSUME NEW a \in Nat, NEW d \in Nat \ {0}
    PROVE  d * (a \div d) + (a % d) = a
OBVIOUS

LEMMA DivMonotone ==
    ASSUME NEW a \in Nat, NEW b \in Nat, NEW d \in Nat \ {0}, a <= b
    PROVE  a \div d <= b \div d
<1> DEFINE p == a \div d
           q == b \div d
<1>1. p \in Nat /\ q \in Nat /\ d * p <= a /\ b < d * q + d
    BY DivBounds
<1> HIDE DEF p, q
<1>2. d * p < d * (q + 1)
    BY <1>1
<1>3. p < q + 1
    BY <1>1, <1>2
<1> QED
    BY <1>1, <1>3 DEF p, q

LEMMA SmallMod ==
    ASSUME NEW a \in Nat, NEW d \in Nat \ {0}, a < d
    PROVE  a % d = a
<1>1. a \div d \in Nat /\ d * (a \div d) <= a /\ d * (a \div d) + (a % d) = a
    BY DivBounds, DivMod
<1> DEFINE q == a \div d
<1>2. q \in Nat /\ d * q < d
    BY <1>1
<1> HIDE DEF q
<1>3. q = 0
    BY <1>2
<1> QED
    BY <1>1, <1>3 DEF q

LEMMA Constants ==
    /\ Addresses \subseteq Nat
    /\ PAGE_SIZE \in Nat \ {0} /\ FLASH_PAGES \in Nat \ {0} /\ MAX_CHUNK \in Nat \ {0}
    /\ PacketLen \in Nat \ {0} /\ SetupLen \in Nat \ {0}
    /\ PAGE_SIZE % 4 = 0 /\ MAX_CHUNK < 256
    /\ FLASH_PAGES <= 256 /\ FLASH_PAGES * PAGE_SIZE <= Wrap16 /\ Wrap16 \in Nat \ {0}
BY BootloaderAssumption DEF FLASH_END, Wrap16

LEMMA KeptEnds ==
    /\ Min(Kept) \in Nat /\ Max(Kept) \in Nat
    /\ PAGE_SIZE <= Min(Kept) /\ Min(Kept) <= Max(Kept)
<1>1. PICK last \in Addresses : PAGE_SIZE <= last /\ \A a \in Addresses : a <= last
    BY BootloaderAssumption DEF APP_BASE
<1>2. Kept \subseteq Nat /\ last \in Kept /\ \A a \in Kept : a <= last /\ PAGE_SIZE <= a
    BY <1>1, Constants DEF Kept, APP_BASE
<1>3. PICK first \in Kept : \A a \in Kept : first <= a
    BY <1>2, Least
<1>4. Min(Kept) \in Kept /\ \A a \in Kept : Min(Kept) <= a
    BY <1>3 DEF Min
<1>5. Max(Kept) = last
  <2>1. Kept \subseteq Int /\ \A a \in Kept : last >= a
      BY <1>2
  <2> QED
      BY <1>2, <2>1, GreatestIs
<1> QED
    BY <1>2, <1>4, <1>5

LEMMA AlignDown ==
    ASSUME NEW a \in Nat
    PROVE  /\ a - (a % 4) \in Nat
           /\ a - (a % 4) <= a
           /\ a <= a - (a % 4) + 3
           /\ a % 4 = 0 => a - (a % 4) = a
OBVIOUS

LEMMA AlignDownMonotone ==
    ASSUME NEW a \in Nat, NEW b \in Nat, a <= b
    PROVE  a - (a % 4) <= b - (b % 4)
OBVIOUS

LEMMA ImageBounds ==
    /\ MinAddr \in Nat /\ MaxAddr \in Nat
    /\ APP_BASE <= MinAddr /\ MinAddr <= MaxAddr
    /\ FullLen \in Nat \ {0}
<1> DEFINE first == Min(Kept)
           last == Max(Kept)
<1>1. /\ first \in Nat /\ last \in Nat /\ APP_BASE \in Nat
      /\ APP_BASE <= first /\ first <= last
    BY KeptEnds, Constants DEF APP_BASE
<1>0. MinAddr = first - (first % 4) /\ MaxAddr = last - (last % 4) + 3
    BY DEF MinAddr, MaxAddr
<1> HIDE DEF first, last
<1>2. MinAddr \in Nat /\ MinAddr <= last - (last % 4)
    BY <1>0, <1>1, AlignDown, AlignDownMonotone
<1>3. APP_BASE <= MinAddr
  <2>1. APP_BASE - (APP_BASE % 4) = APP_BASE
      BY <1>1, Constants, AlignDown DEF APP_BASE
  <2>2. APP_BASE - (APP_BASE % 4) <= MinAddr
      BY <1>0, <1>1, AlignDownMonotone
  <2> QED
      BY <2>1, <2>2
<1>4. last - (last % 4) \in Nat
    BY <1>1, AlignDown
<1> QED
    BY <1>0, <1>2, <1>3, <1>4 DEF FullLen

LEMMA PageBounds ==
    /\ FirstPage \in Nat \ {0} /\ LastPage \in Nat
    /\ FirstPage <= LastPage
<1>1. PAGE_SIZE \in Nat \ {0}
    BY Constants
<1>2. FirstPage \in Nat /\ LastPage \in Nat /\ MinAddr < PAGE_SIZE * FirstPage + PAGE_SIZE
    BY <1>1, ImageBounds, DivBounds DEF FirstPage, LastPage
<1>3. FirstPage # 0
    BY <1>1, <1>2, ImageBounds DEF APP_BASE
<1>4. FirstPage <= LastPage
    BY <1>1, ImageBounds, DivMonotone DEF FirstPage, LastPage
<1> QED
    BY <1>2, <1>3, <1>4

LEMMA ChunkBounds ==
    /\ NChunks \in Nat \ {0}
    /\ \A c \in Chunk : ChunkLen(c) \in 1..MAX_CHUNK
<1> DEFINE M == MAX_CHUNK
           F == FullLen
           q == (F + M - 1) \div M
<1>1. M \in Nat \ {0} /\ F \in Nat \ {0} /\ F + M - 1 \in Nat
  <2>1. M \in Nat \ {0} /\ F \in Nat \ {0}
      BY Constants, ImageBounds
  <2> QED
      BY <2>1
<1>2. q \in Nat /\ M * q <= F + M - 1 /\ F + M - 1 < M * q + M
    BY <1>1, DivBounds
<1>3. q = NChunks
    BY DEF NChunks
<1> HIDE DEF q, M, F
<1>4. q # 0
    BY <1>1, <1>2
<1>5. (q - 1) * M = M * q - M
    BY <1>1, <1>2
<1>6. F - (q - 1) * M \in 1..M
    BY <1>1, <1>2, <1>5
<1>7. ASSUME NEW c \in Chunk
      PROVE  ChunkLen(c) \in 1..MAX_CHUNK
  <2>1. c < NChunks \/ c = NChunks
      BY <1>2, <1>3 DEF Chunk
  <2>2. CASE c < NChunks
      BY Constants, <2>2 DEF ChunkLen
  <2>3. CASE c = NChunks
    <3>1. ~(c < NChunks) /\ ChunkLen(c) = F - (c - 1) * M
        BY <1>2, <1>3, <2>3 DEF ChunkLen, M, F
    <3> QED
        BY <1>3, <1>6, <2>3, <3>1 DEF M
  <2> QED BY <2>1, <2>2, <2>3
<1> QED
    BY <1>2, <1>3, <1>4, <1>7

(* Chunks lie one after the other, from the image's start. *)
LEMMA ChunksApart ==
    /\ \A c \in Chunk : ChunkAddr(c) \in Nat /\ MinAddr <= ChunkAddr(c)
    /\ \A c, d \in Chunk : c < d => ChunkAddr(c) + MAX_CHUNK <= ChunkAddr(d)
<1>1. MAX_CHUNK \in Nat \ {0} /\ MinAddr \in Nat /\ Chunk \subseteq Nat \ {0}
    BY Constants, ImageBounds, ChunkBounds DEF Chunk
<1>2. ASSUME NEW c \in Chunk
      PROVE  ChunkAddr(c) \in Nat /\ MinAddr <= ChunkAddr(c)
  <2>1. (c - 1) * MAX_CHUNK \in Nat
      BY <1>1
  <2> QED
      BY <1>1, <2>1 DEF ChunkAddr
<1>3. ASSUME NEW c \in Chunk, NEW d \in Chunk, c < d
      PROVE  ChunkAddr(c) + MAX_CHUNK <= ChunkAddr(d)
  <2>1. PICK k \in Nat : d - 1 = c + k
    <3>1. d - 1 - c \in Nat /\ d - 1 = c + (d - 1 - c)
        BY <1>1, <1>3
    <3> QED
        BY <3>1
  <2>2. (d - 1) * MAX_CHUNK = (c - 1) * MAX_CHUNK + MAX_CHUNK + k * MAX_CHUNK
      BY <1>1, <2>1
  <2>3. k * MAX_CHUNK \in Nat /\ (c - 1) * MAX_CHUNK \in Nat
      BY <1>1, <2>1
  <2> QED
      BY <1>1, <2>2, <2>3 DEF ChunkAddr
<1> QED
    BY <1>2, <1>3

LEMMA PartIs ==
    ASSUME NEW x \in Cell
    PROVE  /\ x[1] \in Chunk /\ x[2] \in FirstPage..LastPage /\ x[2] < FLASH_PAGES
           /\ \E a \in Nat : a \in Part[x]
           /\ \A a \in Part[x] : /\ a \in ChunkAddr(x[1])..(ChunkAddr(x[1]) + ChunkLen(x[1]) - 1)
                                /\ a \div PAGE_SIZE = x[2]
<1>1. x \in Chunk \X (FirstPage..LastPage) /\ x[2] < FLASH_PAGES /\ Part[x] # {}
    BY DEF Cell, Part
<1>2. Part[x] = {a \in ChunkAddr(x[1])..(ChunkAddr(x[1]) + ChunkLen(x[1]) - 1) : a \div PAGE_SIZE = x[2]}
    BY <1>1 DEF Part
<1>3. ChunkAddr(x[1]) \in Nat /\ ChunkLen(x[1]) \in Nat
    BY <1>1, ChunksApart, ChunkBounds
<1> QED
    BY <1>1, <1>2, <1>3

LEMMA CellBounds ==
    ASSUME NEW x \in Cell
    PROVE  /\ x[1] \in Chunk /\ x[1] \in Nat /\ 1 <= x[1] /\ x[1] <= NChunks
           /\ x[2] \in FirstPage..LastPage /\ x[2] \in Nat
BY PartIs, ChunkBounds, PageBounds DEF Chunk

(* Addresses of a page of the flash. *)
LEMMA InFlash ==
    ASSUME NEW a \in Nat
    PROVE  a < FLASH_END <=> a \div PAGE_SIZE < FLASH_PAGES
<1> DEFINE q == a \div PAGE_SIZE
           f == FLASH_PAGES
           s == PAGE_SIZE
<1>1. s \in Nat \ {0} /\ f \in Nat \ {0} /\ q \in Nat /\ s * q <= a /\ a < s * q + s
    BY Constants, DivBounds
<1>2. FLASH_END = f * s
    BY DEF FLASH_END
<1> HIDE DEF q, f, s
<1>3. CASE q < f
  <2>1. PICK k \in Nat : f = q + 1 + k
    <3>1. f - q - 1 \in Nat /\ f = q + 1 + (f - q - 1)
        BY <1>1, <1>3
    <3> QED
        BY <3>1
  <2>2. f * s = s * q + s + k * s /\ k * s \in Nat /\ s * q \in Nat
      BY <1>1, <2>1
  <2> QED
      BY <1>1, <1>2, <1>3, <2>2 DEF q, f
<1>4. CASE ~(q < f)
  <2>1. PICK k \in Nat : q = f + k
    <3>1. q - f \in Nat /\ q = f + (q - f)
        BY <1>1, <1>4
    <3> QED
        BY <3>1
  <2>2. s * q = f * s + k * s /\ k * s \in Nat /\ f * s \in Nat
      BY <1>1, <2>1
  <2> QED
      BY <1>1, <1>2, <1>4, <2>2 DEF q, f
<1> QED
    BY <1>3, <1>4

(* A page or chunk of a file that ends within the flash reaches its own     *)
(* cells, and not the bootloader's page.                                    *)
LEMMA PageReaches ==
    ASSUME Fits, NEW p \in PagesToErase, NEW place \in PagePlaces(p)
    PROVE  SparesPage0(place) /\ \A x \in Cell : Hit(x, place) <=> x[2] = p
<1>1. p \in Nat \ {0} /\ p < FLASH_PAGES /\ p \in 0..255 /\ 0 \in 0..255
    BY PageBounds, Constants DEF Fits, PagesToErase, LastErased
<1>2. p % FLASH_PAGES = p
    BY <1>1, Constants, SmallMod
<1>3. \A q \in 0..255 : PageBytes[q] = {a \in 0..(FLASH_END - 1) : a \div PAGE_SIZE = q}
    BY DEF PageBytes
<1>4. place = {a \in 0..(FLASH_END - 1) : a \div PAGE_SIZE = p}
    BY <1>1, <1>2, <1>3 DEF PagePlaces
<1>5. SparesPage0(place)
    BY <1>1, <1>3, <1>4 DEF SparesPage0
<1>6. ASSUME NEW x \in Cell
      PROVE  Hit(x, place) <=> x[2] = p
  <2>1. CASE x[2] = p
    <3>1. PICK a \in Nat : a \in Part[x] /\ a \div PAGE_SIZE = p
        BY <2>1, PartIs
    <3>2. a < FLASH_END
        BY <1>1, <3>1, InFlash
    <3>3. a \in 0..(FLASH_END - 1)
        BY <3>1, <3>2, Constants DEF FLASH_END
    <3> QED
        BY <1>4, <2>1, <3>1, <3>3 DEF Hit
  <2>2. CASE x[2] # p
      BY <1>4, <2>2, PartIs DEF Hit
  <2> QED
      BY <2>1, <2>2
<1> QED
    BY <1>5, <1>6

(* Every address of a chunk is one of the image. *)
LEMMA ChunkInImage ==
    ASSUME NEW c \in Chunk, NEW a \in ChunkAddr(c)..(ChunkAddr(c) + ChunkLen(c) - 1)
    PROVE  a \in MinAddr..MaxAddr
<1>1. /\ ChunkAddr(c) \in Nat /\ MinAddr <= ChunkAddr(c) /\ ChunkLen(c) \in 1..MAX_CHUNK
      /\ NChunks \in Chunk /\ c \in Nat /\ c <= NChunks /\ NChunks \in Nat
    BY ChunksApart, ChunkBounds DEF Chunk
<1>2. /\ ChunkAddr(NChunks) + ChunkLen(NChunks) = MinAddr + FullLen
      /\ ChunkAddr(NChunks) \in Nat /\ ChunkLen(NChunks) \in Nat
  <2>1. ~(NChunks < NChunks) /\ NChunks - 1 \in Nat
      BY <1>1, ChunkBounds
  <2>2. (NChunks - 1) * MAX_CHUNK \in Nat
      BY <2>1, Constants
  <2>3. ChunkAddr(NChunks) \in Nat /\ ChunkLen(NChunks) \in Nat
      BY <1>1, ChunksApart, ChunkBounds
  <2> QED
      BY <2>1, <2>2, <2>3, ImageBounds DEF ChunkAddr, ChunkLen
<1>3. ChunkAddr(c) + ChunkLen(c) <= MinAddr + FullLen
  <2>1. CASE c = NChunks
      BY <1>2, <2>1, ImageBounds
  <2>2. CASE c < NChunks
      BY <1>1, <1>2, <2>2, ChunksApart, Constants, ImageBounds
  <2> QED
      BY <1>1, <2>1, <2>2
<1> QED
    BY <1>1, <1>3, ImageBounds DEF FullLen

LEMMA ChunkReaches ==
    ASSUME Fits, NEW c \in Chunk, NEW place \in ChunkPlaces[c]
    PROVE  SparesPage0(place) /\ \A x \in Cell : Hit(x, place) <=> x[1] = c
<1> DEFINE asked == ChunkAddr(c)..(ChunkAddr(c) + ChunkLen(c) - 1)
<1>1. ChunkAddr(c) \in Nat /\ ChunkLen(c) \in 1..MAX_CHUNK /\ MAX_CHUNK \in Nat
    BY ChunksApart, ChunkBounds, Constants
<1>2. ASSUME NEW a \in asked
      PROVE  /\ a \in Nat /\ a < FLASH_END /\ a % FLASH_END = a
             /\ a \div PAGE_SIZE # 0
  <2>1. a \in Nat /\ MinAddr <= a /\ a <= MaxAddr
      BY ChunkInImage, ImageBounds
  <2>2. FirstPage <= a \div PAGE_SIZE /\ a \div PAGE_SIZE <= LastPage /\ a \div PAGE_SIZE \in Nat
      BY <2>1, ImageBounds, Constants, DivMonotone, DivBounds DEF FirstPage, LastPage
  <2>3. a < FLASH_END
      BY <2>1, <2>2, InFlash, PageBounds, Constants DEF Fits
  <2>4. FLASH_END \in Nat \ {0}
      BY Constants DEF FLASH_END
  <2>5. a % FLASH_END = a
      BY <2>1, <2>3, <2>4, SmallMod
  <2> QED
      BY <2>1, <2>2, <2>3, <2>5, PageBounds
<1>3. ChunkAddr(c) % Wrap16 = ChunkAddr(c)
  <2>1. ChunkAddr(c) \in asked
      BY <1>1
  <2>2. ChunkAddr(c) < Wrap16
      BY <1>1, <1>2, <2>1, Constants DEF FLASH_END
  <2> QED
      BY <1>1, <2>2, Constants, SmallMod
<1>4. place = asked
  <2>1. ChunkPlaces[c] = {{a \in asked : a < FLASH_END}, {a % FLASH_END : a \in asked}}
      BY <1>3 DEF ChunkPlaces
  <2> QED
      BY <1>2, <2>1
<1>5. SparesPage0(place)
  <2>1. PageBytes[0] = {a \in 0..(FLASH_END - 1) : a \div PAGE_SIZE = 0}
      BY DEF PageBytes
  <2> QED
      BY <1>2, <1>4, <2>1 DEF SparesPage0
<1>6. ASSUME NEW x \in Cell
      PROVE  Hit(x, place) <=> x[1] = c
  <2>1. CASE x[1] = c
      BY <1>4, <2>1, PartIs DEF Hit
  <2>2. CASE x[1] # c
    <3> SUFFICES ASSUME NEW a \in Part[x], a \in asked
                 PROVE  FALSE
        BY <1>4, <2>2 DEF Hit
    <3>1. /\ x[1] \in Chunk /\ ChunkAddr(x[1]) \in Nat /\ ChunkLen(x[1]) \in 1..MAX_CHUNK
          /\ ChunkAddr(x[1]) <= a /\ a < ChunkAddr(x[1]) + ChunkLen(x[1])
          /\ ChunkAddr(c) <= a /\ a < ChunkAddr(c) + ChunkLen(c)
        BY <1>1, <1>2, PartIs, ChunksApart, ChunkBounds
    <3>2. x[1] < c \/ c < x[1]
        BY <2>2, <3>1, ChunkBounds DEF Chunk
    <3>3. \/ ChunkAddr(x[1]) + MAX_CHUNK <= ChunkAddr(c)
          \/ ChunkAddr(c) + MAX_CHUNK <= ChunkAddr(x[1])
        BY <3>1, <3>2, ChunksApart
    <3> QED
        BY <1>1, <1>2, <3>1, <3>3
  <2> QED
      BY <2>1, <2>2
<1> QED
    BY <1>5, <1>6
-----------------------------------------------------------------------------
(* What the RAM routine was asked to erase or write.                       *)
Targets ==
    /\ mode = "erase" => target \in PagesToErase
    /\ mode \in {"recv", "write"} => target \in Chunk

(* Cells that are, or are about to become, erased or new.                   *)
Erasing(x) == mode = "erase" /\ x[2] = target
Written(x) == IF mode = "write" /\ x[1] = target THEN clean /\ cell[x] = "erased"
              ELSE cell[x] = "new"

(* How far a flash_firmware.py run is: one predicate per loop of flash().   *)
ErasePhase ==
    /\ idx \in PagesToErase
    /\ mode \in {"window", "erase", "write"}
    /\ mode = "write" => idx = FirstPage
    /\ \A x \in Cell : x[2] < idx => cell[x] = "erased" \/ Erasing(x)
WritePhase ==
    /\ idx \in Chunk
    /\ mode \in {"window", "erase", "write"}
    /\ mode = "erase" => idx = 1
    /\ mode = "write" => target < idx
    /\ \A x \in Cell : x[1] >= idx => cell[x] = "erased" \/ Erasing(x)
    /\ \A x \in Cell : x[1] < idx => Written(x)
DataPhase ==
    /\ idx \in Chunk
    /\ mode = "recv" /\ target = idx /\ clean
    /\ sent \in 0..(ChunkLen(idx) - 1) /\ remain = ChunkLen(idx) - sent
    /\ \A x \in Cell : x[1] >= idx => cell[x] = "erased"
    /\ \A x \in Cell : x[1] < idx => cell[x] = "new"
FinishPhase ==
    /\ mode \in {"window", "write"}
    /\ \A x \in Cell : Written(x)
Session ==
    /\ script \in {"none", "flash", "jump"}
    /\ script = "jump" => step \in {"start", "finish", "status"}
    /\ mode = "app" => script = "none"
    /\ script # "none" /\ step = "status" => mode = "status"
    /\ mode = "status" /\ via = "flash" => AllAre("new")
    /\ script = "flash" =>
           /\ step = "erase" => ErasePhase
           /\ step = "write" => WritePhase
           /\ step = "data" => DataPhase
           /\ step = "finish" => FinishPhase
IInv == Targets /\ Session /\ BootloaderIntact /\ FinishedIsImage

LEMMA IInvInit == Init => IInv
BY DEF Init, IInv, Targets, Session, BootloaderIntact, FinishedIsImage

(* The scripts start and stop.                                             *)
LEMMA ScriptStep ==
    ASSUME IInv, RunFlash \/ RunJump \/ Kill
    PROVE  IInv'
BY DEF IInv, Targets, Session, BootloaderIntact, FinishedIsImage, AllAre,
       RunFlash, RunJump, Kill, Begin, ScriptEnds, devVars

(* The dongle restarts: the script ends, the application is not "flash".    *)
LEMMA CutSpares ==
    ASSUME Fits, IInv, CutShort
    PROVE  page0'
<1>1. PICK place \in Reached : page0' = (page0 /\ SparesPage0(place))
    BY DEF CutShort
<1>2. SparesPage0(place)
    BY <1>1, PageReaches, ChunkReaches DEF Reached, IInv, Targets, SparesPage0
<1> QED
    BY <1>1, <1>2 DEF IInv, BootloaderIntact

LEMMA RestartStep ==
    ASSUME Fits, IInv, SoftReset \/ ExternalReset \/ PowerCut
    PROVE  IInv'
<1>1. BootloaderIntact'
    BY CutSpares DEF IInv, BootloaderIntact, SoftReset, ExternalReset, PowerCut, Unplugged
<1> QED
    BY <1>1 DEF IInv, Targets, Session, FinishedIsImage, AllAre,
       SoftReset, ExternalReset, PowerCut, Unplugged, ScriptEnds, hostVars

LEMMA StutterStep ==
    ASSUME IInv, UNCHANGED vars
    PROVE  IInv'
BY DEF IInv, Targets, Session, BootloaderIntact, FinishedIsImage, AllAre,
       ErasePhase, WritePhase, DataPhase, FinishPhase, Erasing, Written,
       vars, devVars, hostVars

LEMMA SetConfigurationStep ==
    ASSUME IInv, SetConfiguration
    PROVE  IInv'
BY DEF IInv, Targets, Session, BootloaderIntact, FinishedIsImage, AllAre,
       SetConfiguration, Asks, devVars

(* The count starts again, and the first page is to be erased.              *)
LEMMA FlashStartedStep ==
    ASSUME IInv, FlashStarted
    PROVE  IInv'
<1>1. ASSUME script = "flash"
      PROVE  ErasePhase'
  <2>1. idx' = FirstPage /\ idx' \in PagesToErase /\ mode' = "window"
      BY PageBounds DEF FlashStarted, Started, PagesToErase, LastErased
  <2>2. \A x \in Cell : ~(x[2] < idx')
      BY <2>1, CellBounds, PageBounds
  <2> QED
      BY <2>1, <2>2 DEF ErasePhase
<1>2. step' \in {"erase", "finish"} /\ (step' = "erase" <=> script = "flash")
    BY DEF FlashStarted, Started
<1> QED
    BY <1>1, <1>2 DEF IInv, Targets, Session, BootloaderIntact, FinishedIsImage,
       AllAre, FlashStarted, Started, Asks

(* One page after the other; after the last one every cell is erased or     *)
(* about to be.                                                             *)
LEMMA ErasePageStep ==
    ASSUME Fits, IInv, ErasePage
    PROVE  IInv'
<1> USE DEF IInv, ErasePage, Asks
<1>1. /\ script = "flash" /\ mode = "window" /\ ErasePhase
      /\ mode' = "erase" /\ target' = idx /\ cell' = cell /\ script' = "flash"
  <2>1. idx \in Nat /\ idx < 256
      BY PageBounds, Constants DEF Fits, PagesToErase, LastErased
  <2>2. idx % 256 = idx
      BY <2>1
  <2> QED
      BY <2>2 DEF Session
<1>2. \A x \in Cell : x[2] <= idx => cell'[x] = "erased" \/ Erasing(x)'
    BY <1>1, CellBounds, PageBounds
       DEF ErasePhase, Erasing, PagesToErase, LastErased
<1>3. Session'
  <2>1. CASE idx + 1 \in PagesToErase
    <3>1. idx' = idx + 1 /\ step' = "erase"
        BY <2>1
    <3>2. \A x \in Cell : x[2] < idx' => x[2] <= idx
        BY <1>1, <3>1, CellBounds, PageBounds DEF ErasePhase, PagesToErase, LastErased
    <3> QED
        BY <1>1, <1>2, <2>1, <3>1, <3>2 DEF Session, ErasePhase
  <2>2. CASE idx + 1 \notin PagesToErase
    <3>1. idx' = 1 /\ step' = "write" /\ idx' \in Chunk
        BY <2>2, ChunkBounds DEF Chunk
    <3>2. \A x \in Cell : x[2] <= idx /\ ~(x[1] < idx')
        BY <1>1, <2>2, <3>1, CellBounds, PageBounds DEF ErasePhase, PagesToErase, LastErased
    <3> QED
        BY <1>1, <1>2, <3>1, <3>2 DEF Session, WritePhase
  <2> QED
      BY <2>1, <2>2
<1> QED
    BY <1>1, <1>3 DEF Targets, ErasePhase, BootloaderIntact, FinishedIsImage

LEMMA EraseDoneStep ==
    ASSUME Fits, IInv, EraseDone
    PROVE  IInv'
<1> USE DEF EraseDone
<1>0. /\ \A x \in Cell : cell'[x] = IF x[2] = target THEN "erased" ELSE cell[x]
      /\ BootloaderIntact'
  <2>1. PICK place \in Reached :
            /\ cell' = [x \in Cell |-> IF Hit(x, place) THEN "erased" ELSE cell[x]]
            /\ page0' = (page0 /\ SparesPage0(place))
      OBVIOUS
  <2>2. target \in PagesToErase /\ place \in PagePlaces(target)
      BY <2>1 DEF Reached, IInv, Targets
  <2>3. SparesPage0(place) /\ \A x \in Cell : Hit(x, place) <=> x[2] = target
      BY <2>2, PageReaches
  <2> QED
      BY <2>1, <2>3 DEF IInv, BootloaderIntact
<1>1. \A x \in Cell :
          /\ cell'[x] = IF x[2] = target THEN "erased" ELSE cell[x]
          /\ Erasing(x) <=> x[2] = target
    BY <1>0 DEF Erasing
<1>2. BootloaderIntact'
    BY <1>0
<1>3. ASSUME script = "flash", step = "erase"
      PROVE  ErasePhase'
    BY <1>1, <1>3 DEF IInv, Session, ErasePhase, hostVars
<1>4. ASSUME script = "flash", step = "write"
      PROVE  WritePhase'
  <2>1. WritePhase /\ idx = 1 /\ idx' = idx
      BY <1>4 DEF IInv, Session, WritePhase, hostVars
  <2>2. \A x \in Cell : ~(x[1] < idx)
      BY <2>1, CellBounds
  <2> QED
      BY <1>1, <2>1, <2>2 DEF WritePhase
<1>5. script = "flash" => step \notin {"data", "finish"}
    BY DEF IInv, Session, DataPhase, FinishPhase
<1> QED
    BY <1>2, <1>3, <1>4, <1>5 DEF IInv, Targets, Session, FinishedIsImage, hostVars

LEMMA WriteChunkStep ==
    ASSUME IInv, WriteChunk
    PROVE  IInv'
<1> USE DEF WriteChunk, Asks
<1>1. script = "flash" /\ WritePhase
    BY DEF IInv, Session
<1>2. ChunkLen(idx) \in 1..255
    BY <1>1, ChunkBounds, Constants DEF WritePhase
<1>3. remain' = ChunkLen(idx)
    BY <1>2
<1>4. DataPhase'
  <2>1. \A x \in Cell : ~Erasing(x) /\ (Written(x) <=> cell[x] = "new")
      BY DEF Erasing, Written
  <2>2. sent' = 0 /\ sent' \in 0..(ChunkLen(idx') - 1) /\ remain' = ChunkLen(idx') - sent'
      BY <1>2, <1>3
  <2> QED
      BY <1>1, <2>1, <2>2 DEF WritePhase, DataPhase
<1> QED
    BY <1>1, <1>4 DEF IInv, Targets, Session, WritePhase, BootloaderIntact, FinishedIsImage

(* One packet of the chunk's data; r7 gets to zero with the last one.       *)
LEMMA PacketLemma ==
    ASSUME NEW l \in 1..255, NEW s \in 0..(l - 1)
    PROVE  /\ PacketOf(l - s) \in 1..(l - s)
           /\ CountDown(l - s, PacketOf(l - s)) = l - (s + PacketOf(l - s))
<1>1. PacketOf(l - s) \in 1..(l - s)
    BY Constants DEF PacketOf
<1> QED
    BY <1>1 DEF CountDown

LEMMA DataPacketStep ==
    ASSUME IInv, DataPacket
    PROVE  IInv'
<1> DEFINE l == ChunkLen(idx)
           n == PacketOf(l - sent)
<1>1. script = "flash" /\ step = "data" /\ script' = script /\ clean' = clean /\ Receive(n)
    BY DEF IInv, Session, DataPacket, Asks
<1>2. DataPhase
    BY <1>1 DEF IInv, Session
<1>3. l \in 1..255 /\ sent \in 0..(l - 1) /\ remain = l - sent
    BY <1>2, ChunkBounds, Constants DEF DataPhase
<1>4. n \in 1..(l - sent) /\ remain' = l - (sent + n)
  <2>1. remain' = CountDown(l - sent, n)
      BY <1>1, <1>3 DEF Receive
  <2> QED
      BY <1>3, <2>1, PacketLemma
<1>5. /\ cell' = cell /\ target' = target /\ page0' = page0 /\ via' = via
      /\ mode' = IF remain' = 0 THEN "write" ELSE "recv"
    BY <1>1 DEF Receive
<1>6. CASE sent + n < l
  <2>1. sent' = sent + n /\ step' = step /\ idx' = idx
      BY <1>6 DEF DataPacket
  <2>2. remain' # 0 /\ sent' \in 0..(l - 1)
      BY <1>3, <1>4, <1>6, <2>1
  <2>3. ChunkLen(idx') = l
      BY <2>1
  <2>4. remain' = ChunkLen(idx') - sent' /\ sent' \in 0..(ChunkLen(idx') - 1)
      BY <1>4, <2>1, <2>2, <2>3
  <2>5. DataPhase'
      BY <1>1, <1>2, <1>5, <2>1, <2>2, <2>4 DEF DataPhase
  <2> QED
      BY <1>1, <1>2, <1>5, <2>1, <2>2, <2>5
         DEF IInv, Targets, Session, DataPhase, BootloaderIntact, FinishedIsImage
<1>7. CASE ~(sent + n < l)
  <2>1. remain' = 0
      BY <1>3, <1>4, <1>7
  <2>2. /\ mode' = "write" /\ target' = idx /\ clean' /\ idx' = idx + 1
        /\ step' = IF idx < NChunks THEN "write" ELSE "finish"
      BY <1>1, <1>2, <1>5, <1>7, <2>1 DEF DataPacket, DataPhase
  <2>3. idx \in Nat /\ idx \in Chunk
      BY <1>2, ChunkBounds DEF DataPhase, Chunk
  <2>4. \A x \in Cell : Written(x)' <=> IF x[1] = idx THEN cell[x] = "erased"
                                      ELSE cell[x] = "new"
      BY <1>5, <2>2 DEF Written
  <2>5. CASE idx < NChunks
    <3>1. step' = "write" /\ idx' \in Chunk /\ target' < idx'
        BY <2>2, <2>3, <2>5, ChunkBounds DEF Chunk
    <3>2. \A x \in Cell : x[1] >= idx' => cell'[x] = "erased"
        BY <1>2, <1>5, <2>2, <2>3, CellBounds DEF DataPhase
    <3>3. \A x \in Cell : x[1] < idx' => Written(x)'
      <4>1. \A x \in Cell : x[1] < idx' => x[1] < idx \/ x[1] = idx
          BY <2>2, <2>3, CellBounds
      <4> QED
          BY <4>1, <1>2, <2>3, <2>4 DEF DataPhase
    <3>4. WritePhase'
        BY <2>2, <3>1, <3>2, <3>3 DEF WritePhase
    <3> QED
        BY <1>1, <1>2, <1>5, <2>2, <2>3, <3>1, <3>4
           DEF IInv, Targets, Session, DataPhase, BootloaderIntact, FinishedIsImage
  <2>6. CASE ~(idx < NChunks)
    <3>1. \A x \in Cell : x[1] < idx \/ x[1] = idx
        BY <2>3, <2>6, CellBounds, ChunkBounds
    <3>2. FinishPhase'
        BY <1>2, <2>2, <2>3, <2>4, <3>1 DEF FinishPhase, DataPhase
    <3> QED
        BY <1>1, <1>2, <1>5, <2>2, <2>3, <2>6, <3>2
           DEF IInv, Targets, Session, DataPhase, BootloaderIntact, FinishedIsImage
  <2> QED
      BY <2>5, <2>6
<1> QED
    BY <1>6, <1>7

(* A setup packet among the data.  The only request of flash() that may be  *)
(* lost this way is FLASH_STARTED: what the chunk then puts into flash is   *)
(* written before the first page is erased.                                 *)
LEMMA SwallowStep ==
    ASSUME IInv, Swallow
    PROVE  IInv'
<1>1. /\ mode = "recv" /\ mode' = IF remain' = 0 THEN "write" ELSE "recv"
      /\ target' = target /\ page0' = page0 /\ cell' = cell /\ via' = via
    BY DEF Swallow, Receive
<1>2. \/ script' = "none"
      \/ script' = script /\ step' = "start"
      \/ Started /\ remain' = 0
    BY DEF Swallow, ScriptEnds
<1>3. ASSUME Started, remain' = 0, script = "flash"
      PROVE  step' = "erase" /\ ErasePhase'
  <2>1. /\ idx' = FirstPage /\ idx' \in PagesToErase /\ mode' = "write"
        /\ step' = "erase"
      BY <1>1, <1>3, PageBounds DEF Started, PagesToErase, LastErased
  <2>2. \A x \in Cell : ~(x[2] < idx')
      BY <2>1, CellBounds, PageBounds
  <2> QED
      BY <2>1, <2>2 DEF ErasePhase
<1>4. script' \in {"none", script} /\ (script' = "jump" => step' \in {"start", "finish"})
    BY DEF Swallow, ScriptEnds, Started, IInv, Session
<1>5. Started /\ script # "flash" => step' = "finish" /\ script' = script
    BY DEF Started
<1> QED
    BY <1>1, <1>2, <1>3, <1>4, <1>5 DEF IInv, Targets, Session, BootloaderIntact, FinishedIsImage

LEMMA OtherRequestStep ==
    ASSUME IInv, OtherRequest
    PROVE  IInv'
<1>1. /\ mode = "recv" /\ mode' \in {"recv", "write"}
      /\ target' = target /\ page0' = page0 /\ cell' = cell
      /\ script' = script /\ step' = step
      /\ script = "none" \/ step # "data"
    BY DEF OtherRequest, Receive, hostVars
<1>2. script = "flash" => step \notin {"erase", "write", "data", "finish"}
    BY <1>1 DEF IInv, Session, ErasePhase, WritePhase, FinishPhase
<1> QED
    BY <1>1, <1>2 DEF IInv, Targets, Session, BootloaderIntact, FinishedIsImage

LEMMA WriteDoneStep ==
    ASSUME Fits, IInv, WriteDone
    PROVE  IInv'
<1> USE DEF WriteDone
<1>0. /\ \A x \in Cell :
             cell'[x] = IF x[1] # target THEN cell[x]
                        ELSE IF clean /\ cell[x] = "erased" THEN "new" ELSE "torn"
      /\ BootloaderIntact'
  <2>1. PICK place \in Reached :
            /\ cell' = [x \in Cell |->
                          IF ~Hit(x, place) THEN cell[x]
                          ELSE IF x[1] = target /\ clean /\ cell[x] = "erased" THEN "new"
                          ELSE "torn"]
            /\ page0' = (page0 /\ SparesPage0(place))
      OBVIOUS
  <2>2. target \in Chunk /\ place \in ChunkPlaces[target]
      BY <2>1 DEF Reached, IInv, Targets
  <2>3. SparesPage0(place) /\ \A x \in Cell : Hit(x, place) <=> x[1] = target
      BY <2>2, ChunkReaches
  <2> QED
      BY <2>1, <2>3 DEF IInv, BootloaderIntact
<1>1. \A x \in Cell :
          cell'[x] = IF x[1] # target THEN cell[x]
                     ELSE IF clean /\ cell[x] = "erased" THEN "new" ELSE "torn"
    BY <1>0
<1>2. BootloaderIntact'
    BY <1>0
<1>3. ASSUME script = "flash", step = "write"
      PROVE  WritePhase'
  <2>1. WritePhase /\ idx' = idx /\ target < idx /\ target \in Nat /\ idx \in Nat
      BY <1>3, ChunkBounds DEF IInv, Targets, Session, WritePhase, Chunk, hostVars
  <2>2. \A x \in Cell : x[1] >= idx => x[1] # target
      BY <1>1, <2>1, CellBounds
  <2> QED
      BY <1>1, <2>1, <2>2 DEF WritePhase, Erasing, Written
<1>4. ASSUME script = "flash", step = "finish"
      PROVE  FinishPhase'
    BY <1>1, <1>4 DEF IInv, Session, FinishPhase, Written, hostVars
<1>5. ASSUME script = "flash", step = "erase"
      PROVE  ErasePhase'
  <2>1. ErasePhase /\ idx = FirstPage /\ idx' = idx
      BY <1>5 DEF IInv, Session, ErasePhase, hostVars
  <2>2. \A x \in Cell : ~(x[2] < idx)
      BY <2>1, CellBounds, PageBounds
  <2> QED
      BY <2>1, <2>2 DEF ErasePhase
<1>6. script = "flash" => step # "data"
    BY DEF IInv, Session, DataPhase
<1> QED
    BY <1>2, <1>3, <1>4, <1>5, <1>6 DEF IInv, Targets, Session, FinishedIsImage, hostVars

LEMMA FlashFinishedStep ==
    ASSUME IInv, FlashFinished
    PROVE  IInv'
<1>1. script = "flash" => AllAre("new")
    BY DEF IInv, Session, FlashFinished, Asks, FinishPhase, Written, AllAre
<1> QED
    BY <1>1 DEF IInv, Targets, Session, BootloaderIntact, FinishedIsImage,
       FlashFinished, Asks, AllAre

(* The jump, and the way back to the window. *)
LEMMA StatusGoneStep ==
    ASSUME IInv, StatusGone
    PROVE  IInv'
<1>1. script = "flash" => step \notin {"erase", "write", "data", "finish"}
    BY DEF StatusGone, IInv, Session, ErasePhase, WritePhase, DataPhase, FinishPhase
<1>2. mode = "status" /\ mode' \in {"app", "window"} /\ cell' = cell /\ via' = via /\ page0' = page0
    BY DEF StatusGone
<1>3. \/ script' = "none" /\ step' = step
      \/ script' = script /\ step' = step /\ mode' = "window" /\ step # "status"
    BY DEF StatusGone, ScriptEnds, hostVars
<1> QED
    BY <1>1, <1>2, <1>3 DEF IInv, Targets, Session, BootloaderIntact, FinishedIsImage, AllAre
-----------------------------------------------------------------------------
LEMMA IInvStep ==
    ASSUME Fits, IInv, [Next]_vars
    PROVE  IInv'
BY ScriptStep, RestartStep, StutterStep, SetConfigurationStep, FlashStartedStep,
   ErasePageStep, EraseDoneStep, WriteChunkStep, DataPacketStep, SwallowStep,
   OtherRequestStep, WriteDoneStep, FlashFinishedStep, StatusGoneStep
   DEF Next, Requests

THEOREM IInvInvariant == Fits => (Spec => []IInv)
<1> SUFFICES ASSUME Fits
             PROVE  Spec => []IInv
    OBVIOUS
<1>1. IInv /\ [Next]_vars => IInv'
    BY IInvStep
<1> QED
    BY <1>1, IInvInit, PTL DEF Spec

(* An application started by a finished flash_firmware.py run is exactly    *)
(* the file, if the file ends within the flash.                             *)
THEOREM FinishedIsImageHolds == Fits => (Spec => []FinishedIsImage)
<1>1. IInv => FinishedIsImage
    BY DEF IInv
<1> QED
    BY <1>1, IInvInvariant, PTL

(* No run erases or writes the bootloader's own page, wherever a file that  *)
(* ends within the flash has its bytes, those below APP_BASE included.      *)
THEOREM BootloaderIntactHolds == Fits => (Spec => []BootloaderIntact)
<1>1. IInv => BootloaderIntact
    BY DEF IInv
<1> QED
    BY <1>1, IInvInvariant, PTL
-----------------------------------------------------------------------------
(* Type correctness, for every file, also one that goes beyond the flash:   *)
(* where a chunk's length is counted there is a chunk.                      *)
Control ==
    /\ mode \in {"recv", "write"} => target \in Chunk
    /\ script = "jump" => step \in {"start", "finish", "status"}
    /\ script = "flash" /\ step = "erase" => idx \in PagesToErase
    /\ script = "flash" /\ step \in {"write", "data"} => idx \in Chunk
    /\ script = "flash" /\ step = "data" => sent \in Nat

LEMMA ControlStep == Names /\ Control /\ [Next]_vars => Control'
<1> SUFFICES ASSUME Names, Control, [Next]_vars
             PROVE  Control'
    OBVIOUS
<1> USE DEF Control
<1>1. CASE UNCHANGED vars
    BY <1>1 DEF vars, devVars, hostVars
<1>2. CASE RunFlash \/ RunJump \/ Kill
    BY <1>2 DEF RunFlash, RunJump, Kill, Begin, ScriptEnds, devVars
<1>3. CASE SoftReset \/ ExternalReset \/ PowerCut
    BY <1>3 DEF SoftReset, ExternalReset, PowerCut, Unplugged, ScriptEnds, hostVars
<1>4. CASE SetConfiguration \/ FlashFinished \/ StatusGone \/ EraseDone \/ WriteDone
    BY <1>4 DEF SetConfiguration, FlashFinished, StatusGone, EraseDone, WriteDone,
       Asks, ScriptEnds, devVars, hostVars
<1>5. FirstPage \in PagesToErase /\ 1 \in Chunk
    BY PageBounds, ChunkBounds DEF PagesToErase, LastErased, Chunk
<1>6. CASE FlashStarted
    BY <1>5, <1>6 DEF FlashStarted, Started, Names
<1>7. CASE ErasePage
  <2>1. /\ mode' = "erase" /\ script' = script
        /\ \/ idx' \in PagesToErase /\ step' = step
           \/ idx' = 1 /\ step' = "write"
      BY <1>7 DEF ErasePage
  <2> QED
      BY <1>5, <1>7, <2>1 DEF ErasePage, Asks
<1>8. CASE WriteChunk
    BY <1>8 DEF WriteChunk, Asks, Names
<1>9. CASE DataPacket
  <2>1. script = "flash" /\ script' = script /\ idx \in Chunk /\ sent \in Nat
      BY <1>9 DEF DataPacket, Asks, Names
  <2>2. ChunkLen(idx) \in Nat /\ idx \in Nat
      BY <2>1, ChunkBounds, Constants DEF Chunk
  <2> DEFINE n == PacketOf(ChunkLen(idx) - sent)
  <2>3. Receive(n)
      BY <1>9 DEF DataPacket
  <2>4. target' = target /\ target \in Chunk
      BY <2>3 DEF Receive
  <2>5. CASE sent + n < ChunkLen(idx)
    <3>1. sent' = sent + n /\ step' = step /\ idx' = idx
        BY <1>9, <2>5 DEF DataPacket
    <3>2. n \in Int /\ n >= 0
        BY <2>1, <2>2, <2>5, Constants DEF PacketOf
    <3> QED
        BY <2>1, <2>4, <3>1, <3>2, <1>9 DEF DataPacket, Asks
  <2>6. CASE ~(sent + n < ChunkLen(idx))
    <3>1. sent' = 0 /\ idx' = idx + 1 /\ step' = IF idx < NChunks THEN "write" ELSE "finish"
        BY <1>9, <2>6 DEF DataPacket
    <3>2. idx < NChunks => idx' \in Chunk
        BY <2>2, <3>1, ChunkBounds DEF Chunk
    <3> QED
        BY <2>1, <2>4, <3>1, <3>2
  <2> QED
      BY <2>5, <2>6
<1>10. CASE Swallow
  <2>1. mode = "recv" /\ target' = target /\ step # "data"
      BY <1>10 DEF Swallow, Receive
  <2>2. \/ script' = "none"
        \/ script' = script /\ step' = "start"
        \/ Started
      BY <1>10 DEF Swallow, ScriptEnds
  <2> QED
      BY <1>5, <2>1, <2>2 DEF Started, Names
<1>11. CASE OtherRequest
    BY <1>11 DEF OtherRequest, Receive, hostVars
<1> QED
    BY <1>1, <1>2, <1>3, <1>4, <1>6, <1>7, <1>8, <1>9, <1>10, <1>11 DEF Next, Requests

LEMMA CountTypes ==
    ASSUME count \in FaultCounts,
           NEW k \in {"kills", "dataKills", "resets", "cuts", "jumps"}, NEW b,
           Counted(k, b)
    PROVE  count' \in FaultCounts
BY DEF FaultCounts, Counted

LEMMA FlashTypes ==
    ASSUME cell \in Flash, EraseDone \/ WriteDone \/ CutShort
    PROVE  cell' \in Flash
BY DEF Flash, EraseDone, WriteDone, CutShort

LEMMA Mod16 ==
    ASSUME NEW n \in Int
    PROVE  n % Wrap16 \in Word16
<1>1. Wrap16 \in Nat \ {0}
    BY DEF Wrap16
<1> QED
    BY <1>1 DEF Word16

LEMMA WordsAreNumbers == Word16 \subseteq Nat /\ 0 \in Word16 /\ Stale \subseteq Word16
<1>1. Wrap16 \in Nat \ {0}
    BY DEF Wrap16
<1> QED
    BY <1>1, BootloaderAssumption DEF Word16

LEMMA ReceiveTypes ==
    ASSUME Numbers, Control, NEW n \in Int, Receive(n)
    PROVE  /\ mode' \in {"recv", "write"}
           /\ written' \in Word16 /\ remain' \in 0..255
<1>1. target \in Chunk /\ ChunkLen(target) \in Nat
    BY ChunkBounds, Constants DEF Control, Receive
<1> QED
    BY <1>1, Mod16, WordsAreNumbers DEF Numbers, Receive, CountDown

LEMMA NumbersStep == Numbers /\ Names /\ Control /\ [Next]_vars => Numbers'
<1> SUFFICES ASSUME Numbers, Names, Control, [Next]_vars
             PROVE  Numbers'
    OBVIOUS
<1> USE DEF Numbers
<1>1. CASE UNCHANGED vars
    BY <1>1 DEF vars, devVars, hostVars
<1>2. CASE RunFlash \/ RunJump \/ Kill
    BY <1>2 DEF RunFlash, RunJump, Kill, Begin, ScriptEnds, devVars
<1>3. CASE SoftReset \/ ExternalReset \/ PowerCut
    BY <1>3, WordsAreNumbers
       DEF SoftReset, ExternalReset, PowerCut, Unplugged, ScriptEnds, hostVars
<1>4. CASE SetConfiguration \/ FlashFinished \/ StatusGone \/ EraseDone \/ WriteDone
    BY <1>4 DEF SetConfiguration, FlashFinished, StatusGone, EraseDone, WriteDone, ScriptEnds,
       devVars, hostVars
<1>5. CASE FlashStarted
    BY <1>5, PageBounds, ImageBounds, Mod16, WordsAreNumbers
       DEF FlashStarted, Started, DeclaredLen
<1>6. CASE ErasePage
    BY <1>6 DEF ErasePage
<1>7. CASE WriteChunk
  <2>1. ChunkLen(idx) \in Nat
      BY <1>7, ChunkBounds, Constants DEF WriteChunk, Asks, Names, Control
  <2> QED
      BY <1>7, <2>1 DEF WriteChunk
<1>8. CASE DataPacket
  <2>1. script = "flash" /\ idx \in Chunk
      BY <1>8 DEF DataPacket, Asks, Names, Control
  <2>2. ChunkLen(idx) \in Nat /\ idx \in Nat
      BY <2>1, ChunkBounds, Constants DEF Chunk
  <2>3. PacketOf(ChunkLen(idx) - sent) \in Int
      BY <2>2, Constants DEF PacketOf
  <2>4. Receive(PacketOf(ChunkLen(idx) - sent)) /\ sent' \in Nat /\ idx' \in Nat
      BY <1>8, <2>2, <2>3, Constants DEF DataPacket, PacketOf
  <2>5. written' \in Word16 /\ remain' \in 0..255
      BY <2>3, <2>4, ReceiveTypes
  <2> QED
      BY <2>4, <2>5 DEF Receive
<1>9. CASE Swallow
  <2>1. Receive(SetupLen) /\ SetupLen \in Int
      BY <1>9, Constants DEF Swallow
  <2>2. written' \in Word16 /\ remain' \in 0..255
      BY <2>1, ReceiveTypes
  <2> QED
      BY <1>9, <2>1, <2>2, PageBounds DEF Swallow, Receive, ScriptEnds, Started
<1>10. CASE OtherRequest
  <2>1. Receive(SetupLen) /\ SetupLen \in Int
      BY <1>10, Constants DEF OtherRequest
  <2>2. written' \in Word16 /\ remain' \in 0..255
      BY <2>1, ReceiveTypes
  <2> QED
      BY <1>10, <2>1, <2>2 DEF OtherRequest, Receive, hostVars
<1> QED
    BY <1>1, <1>2, <1>3, <1>4, <1>5, <1>6, <1>7, <1>8, <1>9, <1>10 DEF Next, Requests

LEMMA NamesStep == Names /\ [Next]_vars => Names'
<1> SUFFICES ASSUME Names, [Next]_vars
             PROVE  Names'
    OBVIOUS
<1> USE DEF Names
<1>1. CASE UNCHANGED vars
    BY <1>1 DEF vars, devVars, hostVars
<1>2. CASE RunFlash \/ RunJump \/ Kill
    BY <1>2 DEF RunFlash, RunJump, Kill, Begin, ScriptEnds, devVars
<1>3. CASE SoftReset \/ ExternalReset \/ PowerCut
    BY <1>3 DEF SoftReset, ExternalReset, PowerCut, Unplugged, ScriptEnds, hostVars
<1>4. CASE SetConfiguration \/ FlashStarted \/ ErasePage \/ WriteChunk
    BY <1>4 DEF SetConfiguration, FlashStarted, Started, ErasePage, WriteChunk, devVars
<1>5. CASE DataPacket \/ Swallow \/ OtherRequest
    BY <1>5 DEF DataPacket, Swallow, OtherRequest, Receive, ScriptEnds, Started, hostVars
<1>6. CASE EraseDone \/ WriteDone
    BY <1>6 DEF EraseDone, WriteDone, hostVars
<1>7. CASE FlashFinished \/ StatusGone
    BY <1>7 DEF FlashFinished, StatusGone, Asks, ScriptEnds, hostVars
<1> QED
    BY <1>1, <1>2, <1>3, <1>4, <1>5, <1>6, <1>7 DEF Next, Requests

LEMMA FlashStep == cell \in Flash /\ [Next]_vars => (cell \in Flash)'
<1> SUFFICES ASSUME cell \in Flash, [Next]_vars
             PROVE  cell' \in Flash
    OBVIOUS
<1>1. CASE EraseDone \/ WriteDone \/ ExternalReset \/ PowerCut
    BY <1>1, FlashTypes DEF ExternalReset, PowerCut, Unplugged
<1>2. CASE UNCHANGED cell
    BY <1>2
<1> QED
    BY <1>1, <1>2
       DEF Next, Requests, RunFlash, SoftReset, RunJump, Kill, SetConfiguration,
           FlashStarted, ErasePage, WriteChunk, DataPacket, Swallow, OtherRequest,
           Receive, FlashFinished, StatusGone, vars, devVars

LEMMA CountStep == count \in FaultCounts /\ [Next]_vars => (count \in FaultCounts)'
<1> SUFFICES ASSUME count \in FaultCounts, [Next]_vars
             PROVE  count' \in FaultCounts
    OBVIOUS
<1>1. CASE RunJump \/ Kill \/ ExternalReset \/ PowerCut
    BY <1>1, CountTypes DEF RunJump, Kill, ExternalReset, PowerCut
<1>2. CASE UNCHANGED count
    BY <1>2
<1> QED
    BY <1>1, <1>2
       DEF Next, Requests, RunFlash, SoftReset, SetConfiguration, FlashStarted,
           ErasePage, WriteChunk, DataPacket, Swallow, OtherRequest, FlashFinished,
           StatusGone, EraseDone, WriteDone, vars

Flags == clean \in BOOLEAN /\ page0 \in BOOLEAN

LEMMA FlagsStep == Flags /\ [Next]_vars => Flags'
BY DEF Flags, Next, Requests, RunFlash, SoftReset, RunJump, Kill, Begin, SetConfiguration,
       FlashStarted, ErasePage, WriteChunk, DataPacket, Swallow, OtherRequest, Receive,
       FlashFinished, StatusGone, EraseDone, WriteDone, ExternalReset, PowerCut, Unplugged,
       CutShort, vars, devVars

(* Type correctness, with the widths of r7 and of the 16-bit counters.      *)
THEOREM TypeCorrect == Spec => []TypeOK
<1>1. Init => TypeOK
  <2> SUFFICES ASSUME Init
               PROVE  TypeOK
      OBVIOUS
  <2>1. Numbers
      BY WordsAreNumbers DEF Init, Numbers
  <2>2. Names
      BY DEF Init, Names
  <2>3. cell \in Flash
      BY DEF Init, Flash
  <2>4. count \in FaultCounts
      BY DEF Init, FaultCounts
  <2> QED
      BY <2>1, <2>2, <2>3, <2>4 DEF Init, TypeOK
<1>2. Init => Control
    BY DEF Init, Control
<1>3. TypeOK /\ Control /\ [Next]_vars => TypeOK' /\ Control'
    BY NumbersStep, NamesStep, FlashStep, CountStep, FlagsStep, ControlStep DEF TypeOK, Flags
<1> QED
    BY <1>1, <1>2, <1>3, PTL DEF Spec

-----------------------------------------------------------------------------
(* The loop of parse_ihx(): for every file there is a state after each line. *)
After(file, f, n) ==
    f = [k \in 0..n |->
            IF k = 0 THEN [ela |-> 0, data |-> <<>>] ELSE Line(f[k - 1], file[k])]

LEMMA LoopRuns ==
    ASSUME NEW file, NEW n \in Nat PROVE \E f : After(file, f, n)
<1> DEFINE T == {k \in Nat : ~ \E f : After(file, f, k)}
<1> SUFFICES ASSUME T # {} PROVE FALSE
  OBVIOUS
<1>1. PICK m \in T : \A k \in T : m <= k  BY Least
<1>2. CASE m = 0
  <2>1. After(file, [k \in 0..m |-> [ela |-> 0, data |-> <<>>]], m)  BY <1>2 DEF After
  <2> QED BY <2>1
<1>3. CASE m # 0
  <2>1. m - 1 \in Nat /\ m - 1 \notin T  BY <1>1, <1>3
  <2>2. PICK f : After(file, f, m - 1)  BY <2>1
  <2> DEFINE g == [k \in 0..m |-> IF k < m THEN f[k] ELSE Line(f[m - 1], file[m])]
  <2>3. \A k \in 0..m : g[k] = IF k = 0 THEN [ela |-> 0, data |-> <<>>] ELSE Line(g[k - 1], file[k])
    <3> TAKE k \in 0..m
    <3>1. CASE k < m
      <4>1. f[k] = IF k = 0 THEN [ela |-> 0, data |-> <<>>] ELSE Line(f[k - 1], file[k])
        BY <2>2, <3>1 DEF After
      <4>2. g[k] = f[k] /\ (k # 0 => g[k - 1] = f[k - 1])  BY <3>1
      <4> QED BY <4>1, <4>2
    <3>2. CASE k = m
      BY <3>2, <1>3
    <3> QED BY <3>1, <3>2
  <2>4. After(file, g, m)  BY <2>3 DEF After
  <2> QED BY <2>4
<1> QED BY <1>2, <1>3

LEMMA Loops ==
    ASSUME NEW file, Len(file) \in Nat
    PROVE  \E f : After(file, f, Len(file)) /\ parse_ihx(file) = f[Len(file)].data
<1> DEFINE after[n \in 0..Len(file)] ==
        IF n = 0 THEN [ela |-> 0, data |-> <<>>] ELSE Line(after[n - 1], file[n])
<1>1. parse_ihx(file) = after[Len(file)].data
  BY DEF parse_ihx
<1>2. After(file, after, Len(file))
  BY LoopRuns DEF After
<1> QED BY <1>1, <1>2

(* What the first n lines say of an address. *)
Covering(file, n, a) == {i \in 1..n : Covers(file, i, a)}
ByteAfter(file, n, a) ==
    LET i == Max(Covering(file, n, a)) IN file[i].bytes[a - ElaAt(file, i) - file[i].addr + 1]

LEMMA ElaNext ==
    ASSUME NEW file, NEW n \in Nat
    PROVE  ElaAt(file, n + 2) = IF file[n + 1].type = ELA THEN UpperHalf(file[n + 1]) ELSE ElaAt(file, n + 1)
<1> DEFINE set(k) == {j \in 1..(k - 1) : file[j].type = ELA}
<1>1. CASE file[n + 1].type = ELA
  <2>1. set(n + 2) \subseteq Int /\ n + 1 \in set(n + 2) /\ \A y \in set(n + 2) : n + 1 >= y  BY <1>1
  <2>2. Max(set(n + 2)) = n + 1  BY <2>1, GreatestIs
  <2> QED BY <1>1, <2>1, <2>2 DEF ElaAt
<1>2. CASE file[n + 1].type # ELA
  <2>1. set(n + 2) = set(n + 1)  BY <1>2
  <2> QED BY <1>2, <2>1 DEF ElaAt
<1> QED BY <1>1, <1>2

LEMMA CoveringNext ==
    ASSUME NEW file, NEW n \in Nat, NEW a
    PROVE  /\ Covers(file, n + 1, a) =>
                  Covering(file, n + 1, a) # {} /\ Max(Covering(file, n + 1, a)) = n + 1
           /\ ~Covers(file, n + 1, a) => Covering(file, n + 1, a) = Covering(file, n, a)
<1>1. ASSUME Covers(file, n + 1, a)
      PROVE  Covering(file, n + 1, a) # {} /\ Max(Covering(file, n + 1, a)) = n + 1
  <2>1. /\ Covering(file, n + 1, a) \subseteq Int /\ n + 1 \in Covering(file, n + 1, a)
        /\ \A y \in Covering(file, n + 1, a) : n + 1 >= y
    BY <1>1 DEF Covering
  <2> QED BY <2>1, GreatestIs
<1>2. ASSUME ~Covers(file, n + 1, a) PROVE Covering(file, n + 1, a) = Covering(file, n, a)
  BY <1>2 DEF Covering
<1> QED BY <1>1, <1>2

IsAFcn(f) == f = [x \in DOMAIN f |-> f[x]]

(* The state after n lines: the upper half in force, and the bytes of the  *)
(* last line that covers each address.                                      *)
Holds(file, s, n) ==
    /\ s.ela = ElaAt(file, n + 1)
    /\ \A a : a \in DOMAIN s.data <=> Covering(file, n, a) # {}
    /\ \A a \in DOMAIN s.data : s.data[a] = ByteAfter(file, n, a)
    /\ IsAFcn(s.data)

LEMMA LineHolds ==
    ASSUME NEW file, NEW n \in Nat, NEW ela, NEW data, Holds(file, [ela |-> ela, data |-> data], n)
    PROVE  \E e, d : /\ Line([ela |-> ela, data |-> data], file[n + 1]) = [ela |-> e, data |-> d]
                     /\ Holds(file, [ela |-> e, data |-> d], n + 1)
<1> DEFINE r == file[n + 1]
           s == [ela |-> ela, data |-> data]
<1>0. /\ ela = ElaAt(file, n + 1)
      /\ \A a : a \in DOMAIN data <=> Covering(file, n, a) # {}
      /\ \A a \in DOMAIN data : data[a] = ByteAfter(file, n, a)
      /\ IsAFcn(data)
  BY DEF Holds
<1>1. CASE r.type = ELA
  <2>1. Line(s, r) = [ela |-> UpperHalf(r), data |-> data]  BY <1>1 DEF Line
  <2>2. \A a : ~Covers(file, n + 1, a)  BY <1>1 DEF Covers, ELA, DATA
  <2>3. \A a : Covering(file, n + 1, a) = Covering(file, n, a)  BY <2>2, CoveringNext
  <2>4. UpperHalf(r) = ElaAt(file, (n + 1) + 1)  BY <1>1, ElaNext
  <2>5. Holds(file, [ela |-> UpperHalf(r), data |-> data], n + 1)
    BY <1>0, <2>3, <2>4 DEF Holds, ByteAfter
  <2> QED BY <2>1, <2>5
<1>2. CASE r.type # ELA /\ r.type # DATA
  <2>1. Line(s, r) = s  BY <1>2 DEF Line
  <2>2. \A a : ~Covers(file, n + 1, a)  BY <1>2 DEF Covers
  <2>3. \A a : Covering(file, n + 1, a) = Covering(file, n, a)  BY <2>2, CoveringNext
  <2>4. ela = ElaAt(file, (n + 1) + 1)  BY <1>0, <1>2, ElaNext
  <2>5. Holds(file, s, n + 1)  BY <1>0, <2>3, <2>4 DEF Holds, ByteAfter
  <2> QED BY <2>1, <2>5
<1>3. CASE r.type = DATA
  <2> DEFINE d == [a \in DOMAIN data \cup Span(r, ela) |->
                      IF a \in Span(r, ela) THEN r.bytes[a - ela - r.addr + 1] ELSE data[a]]
  <2>1. Line(s, r) = [ela |-> ela, data |-> d]  BY <1>3 DEF Line, ELA, DATA
  <2>2. ela = ElaAt(file, (n + 1) + 1)  BY <1>0, <1>3, ElaNext DEF ELA, DATA
  <2>3. \A a : Covers(file, n + 1, a) <=> a \in Span(r, ela)  BY <1>0, <1>3 DEF Covers
  <2>4. ASSUME NEW a PROVE a \in DOMAIN d <=> Covering(file, n + 1, a) # {}
    BY <1>0, <2>3, CoveringNext
  <2>5. ASSUME NEW a \in DOMAIN d PROVE d[a] = ByteAfter(file, n + 1, a)
    <3>1. CASE a \in Span(r, ela)
      <4>1. Max(Covering(file, n + 1, a)) = n + 1  BY <2>3, <3>1, CoveringNext
      <4> QED BY <1>0, <3>1, <4>1 DEF ByteAfter
    <3>2. CASE a \notin Span(r, ela)
      <4>1. Covering(file, n + 1, a) = Covering(file, n, a)  BY <2>3, <3>2, CoveringNext
      <4> QED BY <1>0, <3>2, <4>1 DEF ByteAfter
    <3> QED BY <3>1, <3>2
  <2>6. IsAFcn(d)  BY DEF IsAFcn
  <2> HIDE DEF d
  <2>7. Holds(file, [ela |-> ela, data |-> d], n + 1)
    BY <2>2, <2>4, <2>5, <2>6 DEF Holds
  <2> QED BY <2>1, <2>7
<1> QED BY <1>1, <1>2, <1>3

LEMMA LoopHolds ==
    ASSUME NEW file, NEW f, NEW n \in Nat, After(file, f, n), NEW k \in 0..n
    PROVE  \E e, d : f[k] = [ela |-> e, data |-> d] /\ Holds(file, [ela |-> e, data |-> d], k)
<1> DEFINE P(i) == \E e, d : f[i] = [ela |-> e, data |-> d] /\ Holds(file, [ela |-> e, data |-> d], i)
           T == {i \in 0..n : ~P(i)}
<1> SUFFICES ASSUME T # {} PROVE P(k)
  OBVIOUS
<1> HIDE DEF P
<1>1. PICK m \in T : \A i \in T : m <= i
  <2>1. T \subseteq Nat  OBVIOUS
  <2> QED BY <2>1, Least
<1>2. f[m] = IF m = 0 THEN [ela |-> 0, data |-> <<>>] ELSE Line(f[m - 1], file[m])
  BY DEF After
<1>3. CASE m = 0
  <2>1. f[m] = [ela |-> 0, data |-> <<>>]  BY <1>2, <1>3
  <2>2. DOMAIN <<>> = {} /\ \A a : Covering(file, 0, a) = {}  BY DEF Covering
  <2>3. ElaAt(file, 0 + 1) = 0  BY DEF ElaAt
  <2>4. IsAFcn(<<>>)  BY DEF IsAFcn
  <2>6. Holds(file, [ela |-> 0, data |-> <<>>], 0)  BY <2>2, <2>3, <2>4 DEF Holds
  <2>5. P(m)  BY <1>3, <2>1, <2>6 DEF P
  <2> QED BY <2>5
<1>4. CASE m # 0
  <2>1. m - 1 \in 0..n /\ m - 1 \in Nat /\ (m - 1) + 1 = m /\ m - 1 \notin T
    <3>1. m - 1 \in 0..n /\ m - 1 \in Nat /\ (m - 1) + 1 = m /\ ~(m <= m - 1)  BY <1>4
    <3> QED BY <1>1, <3>1
  <2>2. PICK e, d : f[m - 1] = [ela |-> e, data |-> d] /\ Holds(file, [ela |-> e, data |-> d], m - 1)
    BY <2>1 DEF P
  <2>3. P((m - 1) + 1)
    <3>1. f[(m - 1) + 1] = Line([ela |-> e, data |-> d], file[(m - 1) + 1])  BY <1>2, <1>4, <2>1, <2>2
    <3>2. PICK g, h : /\ Line([ela |-> e, data |-> d], file[(m - 1) + 1]) = [ela |-> g, data |-> h]
                      /\ Holds(file, [ela |-> g, data |-> h], (m - 1) + 1)
      BY <2>1, <2>2, LineHolds
    <3> QED BY <3>1, <3>2 DEF P
  <2> QED BY <2>1, <2>3
<1> QED BY <1>3, <1>4

LEMMA Parsed ==
    ASSUME NEW S, NEW file \in Seq(S), NEW d, d = parse_ihx(file)
    PROVE  /\ IsAFcn(d)
           /\ \A a : a \in DOMAIN d <=> Covering(file, Len(file), a) # {}
           /\ \A a \in DOMAIN d : d[a] = ByteAfter(file, Len(file), a)
<1> DEFINE n == Len(file)
<1>1. n \in Nat  OBVIOUS
<1>2. PICK f : After(file, f, n) /\ parse_ihx(file) = f[n].data  BY <1>1, Loops
<1>3. PICK e, c : f[n] = [ela |-> e, data |-> c] /\ Holds(file, [ela |-> e, data |-> c], n)
  <2>1. n \in 0..n  BY <1>1
  <2> QED BY <1>1, <1>2, <2>1, LoopHolds
<1>4. d = c  BY <1>2, <1>3
<1> QED BY <1>3, <1>4 DEF Holds

(* flash_firmware.py:111-129, parse_ihx(): for every file, however its      *)
(* records are ordered, overlap or leave gaps, wherever its upper halves    *)
(* and end records stand, the dictionary has at an address the byte of the  *)
(* last record that covers it, and 0xFF stands in where none does.          *)
THEOREM ParsedIsTheFile ==
    ASSUME NEW S, NEW file \in Seq(S), NEW a
    PROVE  ByteOf(parse_ihx(file), a) = FileByte(file, a)
<1> DEFINE d == parse_ihx(file)
<1>1. /\ a \in DOMAIN d <=> Covering(file, Len(file), a) # {}
      /\ a \in DOMAIN d => d[a] = ByteAfter(file, Len(file), a)
  BY Parsed
<1>2. Covering(file, Len(file), a) = {i \in DOMAIN file : Covers(file, i, a)}  BY DEF Covering
<1> QED BY <1>1, <1>2 DEF ByteOf, FileByte, ByteAfter
-----------------------------------------------------------------------------
(* Every address of the image is in a cell. *)
LEMMA AddressInCell ==
    ASSUME Fits, NEW a \in MinAddr..MaxAddr PROVE CellAt(a) \in Cell
<1> DEFINE c == (a - MinAddr) \div MAX_CHUNK + 1
           p == a \div PAGE_SIZE
<1>1. /\ MinAddr \in Nat /\ MaxAddr \in Nat /\ a \in Nat /\ MinAddr <= a /\ a <= MaxAddr
      /\ MAX_CHUNK \in Nat \ {0} /\ PAGE_SIZE \in Nat \ {0}
  BY ImageBounds, Constants
<1>2. /\ c \in Nat /\ c - 1 \in Nat /\ MAX_CHUNK * (c - 1) <= a - MinAddr
      /\ a - MinAddr < MAX_CHUNK * (c - 1) + MAX_CHUNK
  BY <1>1, DivBounds
<1>3. p \in FirstPage..LastPage
  <2>1. p \in Nat /\ FirstPage \in Nat /\ LastPage \in Nat  BY <1>1, DivBounds DEF FirstPage, LastPage
  <2>2. FirstPage <= p  BY <1>1, DivMonotone DEF FirstPage
  <2>3. p <= LastPage  BY <1>1, DivMonotone DEF LastPage
  <2> QED BY <2>1, <2>2, <2>3
<1> HIDE DEF c
<1>4. c \in Chunk
  <2> DEFINE q == FullLen + MAX_CHUNK - 1
  <2>1. q \in Nat /\ NChunks = q \div MAX_CHUNK  BY <1>1, ImageBounds DEF NChunks
  <2>2. NChunks \in Nat /\ q < MAX_CHUNK * NChunks + MAX_CHUNK  BY <1>1, <2>1, DivBounds
  <2>3. MAX_CHUNK * (c - 1) < MAX_CHUNK * NChunks
    BY <1>1, <1>2, <2>2 DEF FullLen
  <2>4. c - 1 < NChunks  BY <1>1, <1>2, <2>2, <2>3
  <2> QED BY <1>2, <2>2, <2>4 DEF Chunk
<1>5. ChunkAddr(c) \in Nat /\ ChunkAddr(c) <= a
  BY <1>1, <1>2, <1>4, ChunkBounds DEF ChunkAddr
<1>6. a <= ChunkAddr(c) + ChunkLen(c) - 1
  BY <1>1, <1>2, <1>4 DEF ChunkAddr, ChunkLen, FullLen, Chunk
<1>7. ChunkLen(c) \in Nat  BY <1>4, ChunkBounds
<1>8. a \in Part[<<c, p>>] /\ <<c, p>> \in DOMAIN Part
  <2>1. <<c, p>> \in Chunk \X (FirstPage..LastPage) /\ <<c, p>>[1] = c /\ <<c, p>>[2] = p
      BY <1>3, <1>4
  <2>2. Part[<<c, p>>] = {b \in ChunkAddr(c)..(ChunkAddr(c) + ChunkLen(c) - 1) : b \div PAGE_SIZE = p}
      BY <2>1 DEF Part
  <2>3. a \in ChunkAddr(c)..(ChunkAddr(c) + ChunkLen(c) - 1)
      BY <1>1, <1>5, <1>6, <1>7
  <2> QED
      BY <2>1, <2>2, <2>3 DEF Part
<1>9. p < FLASH_PAGES
    BY <1>3, PageBounds, Constants DEF Fits
<1> QED BY <1>8, <1>9 DEF CellAt, Cell, c

(* flash_firmware.py:111-155: for every file of records, page and packet    *)
(* size, and any kills, resets and power cuts before, when FLASH_FINISHED   *)
(* of a flash_firmware.py run starts the application, every address of the  *)
(* image holds the byte of the last record that speaks of it, or 0xFF; if   *)
(* the image ends within the flash.                                         *)
THEOREM FinishedIsFileHolds == Fits => (Spec => []FinishedIsFile)
<1> SUFFICES ASSUME Fits PROVE Spec => []FinishedIsFile
  OBVIOUS
<1>1. FinishedIsImage => FinishedIsFile
  <2> SUFFICES ASSUME AllAre("new"), NEW a \in MinAddr..MaxAddr
               PROVE  FlashByte(a) = Requested(a)
    BY DEF FinishedIsImage, FinishedIsFile
  <2>1. FlashByte(a) = ByteOf(Contents, a)
    BY AddressInCell DEF FlashByte, AllAre, Full
  <2>2. a \in Nat /\ APP_BASE \in Nat  BY ImageBounds, Constants DEF APP_BASE
  <2>3. ByteOf(Contents, a) = IF a < APP_BASE THEN Blank ELSE ByteOf(parse_ihx(File), a)
    <3> DEFINE data == parse_ihx(File)
    <3>1. Contents = [x \in Kept |-> data[x]] /\ Addresses = DOMAIN data
        BY FlashFileAssumption DEF Contents
    <3> HIDE DEF data
    <3>2. a \in DOMAIN Contents <=> a \in DOMAIN data /\ ~(a < APP_BASE)
      <4>1. a >= APP_BASE <=> ~(a < APP_BASE)  BY <2>2
      <4> QED BY <3>1, <4>1 DEF Kept
    <3>3. ByteOf(Contents, a) = IF a < APP_BASE THEN Blank ELSE ByteOf(data, a)
      BY <3>1, <3>2 DEF ByteOf
    <3> QED BY <3>3 DEF data
  <2>4. ByteOf(parse_ihx(File), a) = FileByte(File, a)
    BY FlashFileAssumption, ParsedIsTheFile
  <2> QED BY <2>1, <2>3, <2>4 DEF Requested
<1> QED BY <1>1, FinishedIsImageHolds, PTL
-----------------------------------------------------------------------------
(* The i-th of a finite set of addresses, lowest first. *)
Rank(S, a) == Cardinality({b \in S : b < a})

LEMMA RankType ==
    ASSUME NEW S \in SUBSET Nat, IsFiniteSet(S), NEW a \in S
    PROVE  Rank(S, a) \in 0..(Cardinality(S) - 1)
<1> DEFINE B == {b \in S : b < a}
<1>1. B \in SUBSET S /\ a \notin B  OBVIOUS
<1>2. Cardinality(B) \in Nat /\ Cardinality(S) \in Nat /\ Cardinality(B) <= Cardinality(S)
  BY <1>1, FS_Subset, FS_CardinalityType
<1>3. Cardinality(B) # Cardinality(S)  BY <1>1, FS_Subset
<1> QED BY <1>2, <1>3 DEF Rank

LEMMA RankOrder ==
    ASSUME NEW S \in SUBSET Nat, IsFiniteSet(S), NEW a \in S, NEW b \in S, a < b
    PROVE  Rank(S, a) # Rank(S, b)
<1> DEFINE A == {x \in S : x < a}
           B == {x \in S : x < b}
<1>1. A \in SUBSET B /\ a \in B /\ a \notin A
  <2>1. a \in Nat /\ b \in Nat /\ \A x \in S : x \in Nat  OBVIOUS
  <2>2. \A x \in S : x < a => x < b  BY <2>1
  <2>3. A \subseteq B  BY <2>2
  <2>4. a \notin A  BY <2>1
  <2> QED BY <2>3, <2>4
<1>2. IsFiniteSet(B)  BY FS_Subset
<1>3. Cardinality(A) # Cardinality(B)  BY <1>1, <1>2, FS_Subset
<1> QED BY <1>3 DEF Rank

LEMMA Nth ==
    ASSUME NEW S \in SUBSET Nat, IsFiniteSet(S), NEW i \in 1..Cardinality(S)
    PROVE  (CHOOSE a \in S : Rank(S, a) = i - 1) \in S
<1> SUFFICES ASSUME \A a \in S : Rank(S, a) # i - 1 PROVE FALSE
  OBVIOUS
<1> DEFINE n == Cardinality(S)
           T == (0..(n - 1)) \ {i - 1}
           f == [a \in S |-> Rank(S, a)]
<1>1. n \in Nat \ {0}  BY FS_CardinalityType
<1>4. f \in [S -> T]  BY RankType
<1>5. \A x, y \in S : x # y => f[x] # f[y]
  <2>1. \A x, y \in S : x # y => x < y \/ y < x  OBVIOUS
  <2> QED BY <2>1, RankOrder
<1> HIDE DEF n, f
<1>2. IsFiniteSet(0..(n - 1)) /\ Cardinality(0..(n - 1)) = n
  <2>1. 0 \in Int /\ n - 1 \in Int /\ ~(0 > n - 1) /\ (n - 1) - 0 + 1 = n  BY <1>1
  <2> QED BY <2>1, FS_Interval
<1>3. IsFiniteSet(T) /\ Cardinality(T) = n - 1
  <2>1. i - 1 \in 0..(n - 1)  BY <1>1 DEF n
  <2> DEFINE N == 0..(n - 1)
  <2>2. i - 1 \in N /\ IsFiniteSet(N) /\ Cardinality(N) = n  BY <1>2, <2>1
  <2>3. T = N \ {i - 1}  OBVIOUS
  <2> HIDE DEF N, T
  <2>4. IsFiniteSet(N \ {i - 1}) /\ Cardinality(N \ {i - 1}) = Cardinality(N) - 1
    BY <2>2, FS_RemoveElement, Zenon
  <2> QED BY <2>2, <2>3, <2>4
<1>6. Cardinality(T) < Cardinality(S)  BY <1>1, <1>3 DEF n
<1> HIDE DEF T
<1> QED BY <1>3, <1>4, <1>5, <1>6, FS_PigeonHole

LEMMA NthHits ==
    ASSUME NEW S \in SUBSET Nat, IsFiniteSet(S), NEW a \in S
    PROVE  \E i \in 1..Cardinality(S) : (CHOOSE b \in S : Rank(S, b) = i - 1) = a
<1> DEFINE i == Rank(S, a) + 1
<1>1. i \in 1..Cardinality(S) /\ i - 1 = Rank(S, a)
  <2>1. Rank(S, a) \in 0..(Cardinality(S) - 1) /\ Cardinality(S) \in Nat  BY RankType, FS_CardinalityType
  <2> QED BY <2>1
<1>2. \A b \in S : Rank(S, b) = i - 1 => b = a
  <2> SUFFICES ASSUME NEW b \in S, Rank(S, b) = Rank(S, a), b # a PROVE FALSE
    BY <1>1
  <2>1. a < b \/ b < a  OBVIOUS
  <2> QED BY <2>1, RankOrder
<1> HIDE DEF i
<1> QED BY <1>1, <1>2

(* Contents: bytes at some of the addresses write_ihx() can name. *)
IsContents(data) == IsAFcn(data) /\ DOMAIN data \subseteq Word16

LEMMA ContentsType == ASSUME NEW data, IsContents(data) PROVE DOMAIN data \subseteq Nat
BY WordsAreNumbers DEF IsContents

LEMMA RunIs ==
    ASSUME NEW data, IsContents(data), NEW a \in DOMAIN data, NEW x \in DOMAIN data,
           x <= a, x..a \subseteq DOMAIN data, x - 1 \notin DOMAIN data
    PROVE  RunStart(data, a) = x
<1> DEFINE S == {y \in DOMAIN data : y <= a /\ y - 1 \notin DOMAIN data}
<1>0. DOMAIN data \subseteq Nat  BY ContentsType
<1>1. S \subseteq Int /\ x \in S  BY <1>0
<1>2. ASSUME NEW y \in S PROVE x >= y
  <2>1. x \in Nat /\ y \in Nat /\ a \in Nat  BY <1>0
  <2>2. SUFFICES ASSUME x < y PROVE FALSE  BY <2>1
  <2>3. y - 1 \in x..a  BY <2>1, <2>2
  <2> QED BY <2>3
<1> QED BY <1>1, <1>2, GreatestIs DEF RunStart

LEMMA RunExists ==
    ASSUME NEW data, IsContents(data), NEW a \in DOMAIN data
    PROVE  \E x \in DOMAIN data : x <= a /\ x..a \subseteq DOMAIN data /\ x - 1 \notin DOMAIN data
<1> DEFINE T == {y \in DOMAIN data : y <= a /\ y..a \subseteq DOMAIN data}
<1>0. DOMAIN data \subseteq Nat /\ a \in Nat  BY ContentsType
<1>1. T \subseteq Nat /\ a \in T
  <2>1. a..a = {a}  BY <1>0
  <2> QED BY <1>0, <2>1
<1>2. PICK x \in T : \A y \in T : x <= y  BY <1>1, Least
<1>3. x - 1 \notin DOMAIN data
  <2> SUFFICES ASSUME x - 1 \in DOMAIN data PROVE FALSE
    OBVIOUS
  <2>1. x \in Nat /\ x - 1 \in Nat  BY <1>0
  <2>2. (x - 1)..a \subseteq DOMAIN data
    <3> SUFFICES ASSUME NEW z \in (x - 1)..a PROVE z \in DOMAIN data
      OBVIOUS
    <3>1. z = x - 1 \/ z \in x..a  BY <1>0, <2>1
    <3> QED BY <3>1
  <2>3. x - 1 \in T  BY <1>0, <2>1, <2>2
  <2> QED BY <1>2, <2>1, <2>3
<1> QED BY <1>3

(* Every byte is in a record that starts at most 15 before it. *)
LEMMA InARecord ==
    ASSUME NEW data, IsContents(data), NEW a \in DOMAIN data
    PROVE  \E s \in RecordStarts(data) : s <= a /\ a - s < 16 /\ s..a \subseteq DOMAIN data
<1>0. DOMAIN data \subseteq Nat /\ a \in Nat  BY ContentsType
<1>1. PICK x \in DOMAIN data : x <= a /\ x..a \subseteq DOMAIN data /\ x - 1 \notin DOMAIN data
  BY RunExists
<1> DEFINE s == a - ((a - x) % 16)
<1>2. /\ s \in Nat /\ x <= s /\ s <= a /\ a - s < 16 /\ (s - x) % 16 = 0
  BY <1>0, <1>1
<1> HIDE DEF s
<1>3. s \in x..a /\ x \in Nat  BY <1>0, <1>1, <1>2
<1>4. x..s \subseteq DOMAIN data /\ s..a \subseteq DOMAIN data  BY <1>0, <1>1, <1>2, <1>3
<1>5. s \in DOMAIN data  BY <1>1, <1>3
<1>6. RunStart(data, s) = x  BY <1>1, <1>2, <1>4, <1>5, RunIs
<1>7. s \in RecordStarts(data)  BY <1>2, <1>5, <1>6 DEF RecordStarts, RecordLen
<1> QED BY <1>2, <1>4, <1>7

LEMMA RecordIs ==
    ASSUME NEW data, IsContents(data), NEW s \in DOMAIN data
    PROVE  LET r == RecordAt(data, s) IN
           /\ r.type = DATA /\ r.addr = s /\ Len(r.bytes) \in 1..16
           /\ s..(s + Len(r.bytes) - 1) \subseteq DOMAIN data
           /\ \A i \in 1..Len(r.bytes) : r.bytes[i] = data[s + i - 1]
           /\ \A k \in 1..16 : s..(s + k - 1) \subseteq DOMAIN data => k <= Len(r.bytes)
<1> DEFINE K == {k \in 1..RecordLen : s..(s + k - 1) \subseteq DOMAIN data}
           n == Max(K)
<1>0. DOMAIN data \subseteq Nat /\ s \in Nat  BY ContentsType
<1>1. K \subseteq 1..16 /\ 1 \in K
  <2>1. s..(s + 1 - 1) = {s}  BY <1>0
  <2> QED BY <2>1 DEF RecordLen
<1>2. n \in K /\ \A k \in K : n >= k  BY <1>1, Greatest
<1>3. RecordAt(data, s) = [type |-> DATA, addr |-> s, bytes |-> [i \in 1..n |-> data[s + i - 1]]]
  BY DEF RecordAt
<1> HIDE DEF n
<1>4. n \in 1..16 /\ s..(s + n - 1) \subseteq DOMAIN data  BY <1>2 DEF RecordLen
<1> DEFINE bytes == [i \in 1..n |-> data[s + i - 1]]
<1>5. Len(bytes) = n /\ \A i \in 1..n : bytes[i] = data[s + i - 1]  BY <1>4
<1>6. \A k \in 1..16 : s..(s + k - 1) \subseteq DOMAIN data => k <= n
  <2> SUFFICES ASSUME NEW k \in 1..16, s..(s + k - 1) \subseteq DOMAIN data PROVE k <= n
    OBVIOUS
  <2>1. k \in K  BY DEF RecordLen
  <2> QED BY <1>2, <1>4, <2>1
<1>7. RecordAt(data, s) = [type |-> DATA, addr |-> s, bytes |-> bytes]  BY <1>3
<1> HIDE DEF bytes
<1>8. /\ RecordAt(data, s).type = DATA /\ RecordAt(data, s).addr = s
      /\ RecordAt(data, s).bytes = bytes
  BY <1>7
<1> QED BY <1>4, <1>5, <1>6, <1>8

(* The file write_ihx() makes: a record of the contents at each start, then *)
(* the end record; no upper halves.                                         *)
LEMMA WrittenFile ==
    ASSUME NEW data, IsContents(data), NEW file, file = write_ihx(data),
           NEW m, m = Cardinality(RecordStarts(data))
    PROVE  /\ m \in Nat /\ \E S : file \in Seq(S) /\ Len(file) = m + 1
           /\ \A i \in 1..m : \E s \in RecordStarts(data) : file[i] = RecordAt(data, s)
           /\ \A s \in RecordStarts(data) : \E i \in 1..m : file[i] = RecordAt(data, s)
           /\ file[m + 1] = EndRecord
<1> DEFINE starts == RecordStarts(data)
           At(i) == CHOOSE a \in starts : Cardinality({b \in starts : b < a}) = i - 1
           records == [i \in 1..m |-> RecordAt(data, At(i))]
<1>1. starts \in SUBSET Nat /\ IsFiniteSet(starts)
  <2>1. starts \in SUBSET Word16  BY DEF RecordStarts, IsContents
  <2>2. IsFiniteSet(Word16)
    <3>1. 0 \in Int /\ Wrap16 - 1 \in Int  BY DEF Wrap16
    <3> QED BY <3>1, FS_Interval DEF Word16
  <2>3. IsFiniteSet(starts)  BY <2>1, <2>2, FS_Subset
  <2>4. starts \subseteq Nat  BY ContentsType DEF RecordStarts
  <2> QED BY <2>3, <2>4
<1>2. m \in Nat  BY <1>1, FS_CardinalityType
<1>3. file = Append(records, EndRecord)
  BY DEF write_ihx
<1>4. \A i \in 1..m : At(i) = CHOOSE a \in starts : Rank(starts, a) = i - 1
  BY DEF Rank
<1> HIDE DEF starts
<1>5. \A i \in 1..m : At(i) \in starts  BY <1>1, <1>4, Nth DEF starts
<1>6. \A s \in starts : \E i \in 1..m : At(i) = s  BY <1>1, <1>4, NthHits DEF starts
<1> HIDE DEF At
<1> DEFINE S == {RecordAt(data, At(i)) : i \in 1..m} \cup {EndRecord}
<1>7. records \in Seq(S) /\ Len(records) = m  BY <1>2
<1>8. \A i \in 1..m : records[i] = RecordAt(data, At(i))  OBVIOUS
<1> HIDE DEF records
<1>9. EndRecord \in S  OBVIOUS
<1> HIDE DEF S
<1>10. /\ file \in Seq(S) /\ Len(file) = m + 1 /\ file[m + 1] = EndRecord
       /\ \A i \in 1..m : file[i] = records[i]
  BY <1>2, <1>3, <1>7, <1>9
<1> QED BY <1>2, <1>5, <1>6, <1>8, <1>10 DEF starts

LEMMA WrittenCovers ==
    ASSUME NEW data, IsContents(data), NEW file, file = write_ihx(data),
           NEW m, m = Cardinality(RecordStarts(data)), NEW i \in 1..(m + 1), NEW a
    PROVE  /\ Covers(file, i, a) =>
                  /\ a \in DOMAIN data
                  /\ file[i].bytes[a - ElaAt(file, i) - file[i].addr + 1] = data[a]
           /\ \A s \in RecordStarts(data) :
                  /\ file[i] = RecordAt(data, s) /\ a \in DOMAIN data
                  /\ s <= a /\ a - s < 16 /\ s..a \subseteq DOMAIN data
                  => Covers(file, i, a)
<1>1. m \in Nat /\ file[m + 1] = EndRecord
      /\ \A j \in 1..m : \E s \in RecordStarts(data) : file[j] = RecordAt(data, s)
  BY WrittenFile
<1>2. RecordStarts(data) \subseteq DOMAIN data /\ DOMAIN data \subseteq Nat
  BY ContentsType DEF RecordStarts
<1>3. \A j \in 1..(m + 1) : file[j].type # ELA
  <2> TAKE j \in 1..(m + 1)
  <2>1. CASE j = m + 1  BY <1>1, <2>1 DEF EndRecord, END, ELA
  <2>2. CASE j # m + 1
    <3>1. j \in 1..m  BY <1>1, <2>2
    <3>2. PICK s \in RecordStarts(data) : file[j] = RecordAt(data, s)  BY <1>1, <3>1
    <3>3. file[j].type = DATA  BY <1>2, <3>2, RecordIs
    <3> QED BY <3>3 DEF DATA, ELA
  <2> QED BY <2>1, <2>2
<1>4. ElaAt(file, i) = 0
  <2>1. {j \in 1..(i - 1) : file[j].type = ELA} = {}  BY <1>1, <1>3
  <2> QED BY <2>1 DEF ElaAt
<1>5. ASSUME Covers(file, i, a)
      PROVE  /\ a \in DOMAIN data
             /\ file[i].bytes[a - ElaAt(file, i) - file[i].addr + 1] = data[a]
  <2>1. i # m + 1  BY <1>1, <1>5 DEF Covers, EndRecord, END, DATA
  <2>2. i \in 1..m  BY <1>1, <2>1
  <2>3. PICK s \in RecordStarts(data) : file[i] = RecordAt(data, s)  BY <1>1, <2>2
  <2> DEFINE r == RecordAt(data, s)
  <2>4. /\ r.addr = s /\ Len(r.bytes) \in 1..16 /\ s \in Nat
        /\ s..(s + Len(r.bytes) - 1) \subseteq DOMAIN data
        /\ \A j \in 1..Len(r.bytes) : r.bytes[j] = data[s + j - 1]
    BY <1>2, RecordIs
  <2>5. a \in (0 + r.addr)..(0 + r.addr + Len(r.bytes) - 1)
    BY <1>4, <1>5, <2>3 DEF Covers, Span
  <2> HIDE DEF r
  <2>6. a \in s..(s + Len(r.bytes) - 1)  BY <2>4, <2>5
  <2>7. a - 0 - s + 1 \in 1..Len(r.bytes) /\ s + (a - 0 - s + 1) - 1 = a  BY <2>4, <2>6
  <2>8. r.bytes[a - 0 - s + 1] = data[a]  BY <2>4, <2>7
  <2> QED BY <1>4, <2>3, <2>4, <2>6, <2>8 DEF r
<1>6. ASSUME NEW s \in RecordStarts(data), file[i] = RecordAt(data, s), a \in DOMAIN data,
             s <= a, a - s < 16, s..a \subseteq DOMAIN data
      PROVE  Covers(file, i, a)
  <2> DEFINE r == RecordAt(data, s)
  <2>1. /\ r.type = DATA /\ r.addr = s /\ Len(r.bytes) \in 1..16 /\ s \in Nat /\ a \in Nat
        /\ \A k \in 1..16 : s..(s + k - 1) \subseteq DOMAIN data => k <= Len(r.bytes)
    BY <1>2, <1>6, RecordIs
  <2> HIDE DEF r
  <2>2. a - s + 1 \in 1..16 /\ s + (a - s + 1) - 1 = a  BY <2>1, <1>6
  <2>3. a - s + 1 <= Len(r.bytes)  BY <2>1, <2>2, <1>6
  <2>4. a \in (0 + r.addr)..(0 + r.addr + Len(r.bytes) - 1)  BY <2>1, <2>3, <1>6
  <2> QED BY <1>4, <1>6, <2>1, <2>4 DEF Covers, Span, r
<1> QED BY <1>5, <1>6

(* dump_app.py:40-56 and parse_ihx(): whatever the contents, with gaps, of  *)
(* any length, at any 16-bit addresses, the file that is written reads as   *)
(* what was written.                                                        *)
THEOREM WrittenReadsBack ==
    ASSUME NEW data, IsContents(data)
    PROVE  parse_ihx(write_ihx(data)) = data
<1> DEFINE file == write_ihx(data)
           m == Cardinality(RecordStarts(data))
           d == parse_ihx(file)
<1>1. /\ m \in Nat /\ \E S : file \in Seq(S) /\ Len(file) = m + 1
      /\ \A s \in RecordStarts(data) : \E i \in 1..m : file[i] = RecordAt(data, s)
  BY WrittenFile
<1>2. /\ IsAFcn(d)
      /\ \A a : a \in DOMAIN d <=> Covering(file, m + 1, a) # {}
      /\ \A a \in DOMAIN d : d[a] = ByteAfter(file, m + 1, a)
  BY <1>1, Parsed
<1>3. \A i \in 1..(m + 1) : \A a :
          Covers(file, i, a) =>
              /\ a \in DOMAIN data
              /\ file[i].bytes[a - ElaAt(file, i) - file[i].addr + 1] = data[a]
  BY WrittenCovers
<1>4. ASSUME NEW a \in DOMAIN data PROVE Covering(file, m + 1, a) # {}
  <2>1. PICK s \in RecordStarts(data) : s <= a /\ a - s < 16 /\ s..a \subseteq DOMAIN data
    BY InARecord
  <2>2. PICK i \in 1..m : file[i] = RecordAt(data, s)  BY <1>1
  <2>3. i \in 1..(m + 1)  BY <1>1
  <2>4. Covers(file, i, a)  BY <2>1, <2>2, <2>3, WrittenCovers
  <2> QED BY <2>3, <2>4 DEF Covering
<1> HIDE DEF file, m, d
<1>5. ASSUME NEW a, Covering(file, m + 1, a) # {}
      PROVE  a \in DOMAIN data /\ ByteAfter(file, m + 1, a) = data[a]
  <2>1. Covering(file, m + 1, a) \subseteq 1..(m + 1) /\ m + 1 \in Nat  BY <1>1 DEF Covering
  <2>2. Max(Covering(file, m + 1, a)) \in Covering(file, m + 1, a)  BY <1>5, <2>1, Greatest
  <2> QED BY <1>3, <2>2 DEF Covering, ByteAfter
<1>6. DOMAIN d = DOMAIN data  BY <1>2, <1>4, <1>5
<1>7. \A a \in DOMAIN d : d[a] = data[a]  BY <1>2, <1>5
<1>8. IsAFcn(data)  BY DEF IsContents
<1>9. d = data  BY <1>2, <1>6, <1>7, <1>8 DEF IsAFcn
<1> QED BY <1>9 DEF d, file

(* dump_app.py:70-97 then flash_firmware.py: whatever was dumped, blank     *)
(* bytes inside and at the end included, comes back byte by byte; dump()    *)
(* writes no file of an area that is all blank.                             *)
THEOREM DumpIsRestored ==
    ASSUME NEW raw \in Seq(0..255), \E i \in DOMAIN raw : raw[i] # Blank,
           NEW base \in Nat, base + Len(raw) <= Wrap16, NEW i \in DOMAIN raw
    PROVE  ByteOf(parse_ihx(write_ihx(Trimmed(raw, base))), base + i - 1) = raw[i]
<1> DEFINE real == {j \in DOMAIN raw : raw[j] # Blank}
           k == Max(real)
           data == Trimmed(raw, base)
<1>1. DOMAIN raw = 1..Len(raw) /\ Len(raw) \in Nat  OBVIOUS
<1>2. k \in real /\ \A j \in real : k >= j
  <2>1. real \subseteq 1..Len(raw) /\ real # {}  BY <1>1
  <2> QED BY <1>1, <2>1, Greatest
<1>3. data = [a \in base..(base + k - 1) |-> raw[a - base + 1]]  BY DEF Trimmed
<1> HIDE DEF k, data
<1>4. k \in 1..Len(raw)  BY <1>1, <1>2
<1>5. IsContents(data)
  <2>1. IsAFcn(data) /\ DOMAIN data = base..(base + k - 1)  BY <1>3 DEF IsAFcn
  <2>2. base..(base + k - 1) \subseteq 0..(Wrap16 - 1)
    <3>1. Wrap16 \in Nat  BY DEF Wrap16
    <3> QED BY <1>1, <1>4, <3>1
  <2> QED BY <2>1, <2>2 DEF IsContents, Word16
<1>6. parse_ihx(write_ihx(data)) = data  BY <1>5, WrittenReadsBack
<1>7. ByteOf(data, base + i - 1) = raw[i]
  <2>1. i \in Nat /\ (base + i - 1) - base + 1 = i  BY <1>1
  <2>2. CASE i <= k
    <3>1. base + i - 1 \in base..(base + k - 1)  BY <1>1, <1>4, <2>2
    <3> QED BY <1>3, <2>1, <3>1 DEF ByteOf
  <2>3. CASE ~(i <= k)
    <3>1. raw[i] = Blank  BY <1>1, <1>2, <1>4, <2>3
    <3>2. base + i - 1 \notin base..(base + k - 1)  BY <1>1, <1>4, <2>3
    <3> QED BY <1>3, <3>1, <3>2 DEF ByteOf
  <2> QED BY <2>2, <2>3
<1> QED BY <1>6, <1>7 DEF data

(* Where the code at an address jumps to, if it is a jump; the bytes that   *)
(* inject_bootloader() writes.                                              *)
Target(image, v) == IF image[v] = LJMP THEN 256 * image[v + 1] + image[v + 2] ELSE -1
Stubs == Stub(0) \cup UNION {Stub(v) : v \in TRUE_VECTORS}

LEMMA StubsApart ==
    /\ TRUE_VECTORS \subseteq 3..139
    /\ \A v \in TRUE_VECTORS : Stub(v) \cap Stub(0) = {}
    /\ \A v, w \in TRUE_VECTORS : v # w => Stub(v) \cap Stub(w) = {}
<1>1. \A v \in TRUE_VECTORS : \E i \in 0..17 : v = 8 * i + 3  BY DEF TRUE_VECTORS
<1>2. TRUE_VECTORS \subseteq 3..139  BY <1>1
<1>3. \A v \in TRUE_VECTORS : Stub(v) \cap Stub(0) = {}  BY <1>2 DEF Stub
<1>4. \A v, w \in TRUE_VECTORS : v # w => Stub(v) \cap Stub(w) = {}
  <2> TAKE v, w \in TRUE_VECTORS
  <2>1. PICK i, j \in 0..17 : v = 8 * i + 3 /\ w = 8 * j + 3  BY <1>1
  <2> QED BY <2>1 DEF Stub
<1> QED BY <1>2, <1>3, <1>4

LEMMA JumpTarget ==
    ASSUME NEW v \in Nat, NEW to \in Nat, NEW image,
           \A a \in Stub(v) : image[a] = Jump(v, to, a)
    PROVE  Target(image, v) = to
<1>1. v \in Stub(v) /\ v + 1 \in Stub(v) /\ v + 2 \in Stub(v)  BY DEF Stub
<1>2. image[v] = LJMP /\ image[v + 1] = to \div 256 /\ image[v + 2] = to % 256
  BY <1>1 DEF Jump
<1>3. 256 * (to \div 256) + (to % 256) = to  BY DivMod
<1> QED BY <1>2, <1>3 DEF Target

(* inject_vectors_min.py:72-82: whatever code was there, the image that is  *)
(* written has a jump to the entry at reset and one to its place of the     *)
(* application area at every interrupt vector, and keeps every other byte.  *)
THEOREM VectorsGoForward ==
    ASSUME NEW boot, IsContents(boot), NEW entry \in Word16,
           NEW base \in Nat, base + 139 < Wrap16, NEW image,
           image = parse_ihx(write_ihx(inject_bootloader(boot, entry, base)))
    PROVE  /\ Target(image, 0) = entry
           /\ \A v \in TRUE_VECTORS : Target(image, v) = base + v
           /\ \A a \in DOMAIN boot \ Stubs : image[a] = boot[a]
<1> DEFINE data == inject_bootloader(boot, entry, base)
           At(a) == CHOOSE v \in TRUE_VECTORS : a \in Stub(v)
<1>1. /\ IsAFcn(data) /\ DOMAIN data = DOMAIN boot \cup Stubs
      /\ \A a \in Stub(0) : data[a] = Jump(0, entry, a)
      /\ \A a \in Stubs \ Stub(0) : data[a] = Jump(At(a), base + At(a), a)
      /\ \A a \in DOMAIN boot \ Stubs : data[a] = boot[a]
  BY DEF inject_bootloader, Stubs, IsAFcn
<1>2. \A v \in TRUE_VECTORS : \A a \in Stub(v) : At(a) = v
  BY StubsApart
<1> HIDE DEF data, At
<1>3. IsContents(data)
  <2>1. Stubs \subseteq 0..141  BY StubsApart DEF Stubs, Stub
  <2>2. 0..141 \subseteq Word16
    <3>1. Wrap16 \in Nat /\ Wrap16 > 141  BY DEF Wrap16
    <3> QED BY <3>1 DEF Word16
  <2> QED BY <1>1, <2>1, <2>2 DEF IsContents
<1>4. image = data  BY <1>3, WrittenReadsBack DEF data
<1>5. Target(image, 0) = entry
  BY <1>1, <1>4, JumpTarget, WordsAreNumbers
<1>6. ASSUME NEW v \in TRUE_VECTORS PROVE Target(image, v) = base + v
  <2>1. v \in Nat /\ base + v \in Nat  BY StubsApart
  <2>2. \A a \in Stub(v) : a \in Stubs \ Stub(0)  BY StubsApart DEF Stubs
  <2>3. \A a \in Stub(v) : data[a] = Jump(v, base + v, a)  BY <1>1, <1>2, <2>2
  <2> QED BY <1>4, <2>1, <2>3, JumpTarget
<1> QED BY <1>1, <1>4, <1>5, <1>6
=============================================================================
