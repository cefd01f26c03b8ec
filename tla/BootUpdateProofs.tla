-------------------------- MODULE BootUpdateProofs --------------------------
(***************************************************************************)
(* BootUpdate: for every image, page and chunk size and any number of      *)
(* faults, the application is never lost behind the user's back, only a    *)
(* power loss or another program's request leaves a dongle that cannot     *)
(* boot, and no WRITE_STAGE1_CHUNK shorter than 256 bytes gets out of page *)
(* 0.                                                                      *)
(***************************************************************************)
EXTENDS BootUpdate, TLAPS
-----------------------------------------------------------------------------
(* Where the script can be while the updater is anywhere but in its poll    *)
(* loop: after a kill a new run gets as far as find_bootloader() and no     *)
(* further.                                                                 *)
Idle == {"none", "preflight", "find"}

Places ==
    /\ busy # "poll" => mode = "updater"
    /\ busy \in {"recv", "erase", "write"} => step \in Idle \cup {"write", "data", "read"}
    /\ busy = "reset" => step \in Idle \cup {"findNew"}
    /\ step = "dump" => OwnAppRuns

(* The dump file, once this run or an earlier one has written it. *)
Dumped ==
    /\ backup => dump = "app"
    /\ step \in {"preflight", "dump"} => ~backup
    /\ step \in {"resetRestore", "findNew", "restore", "restoring"} => backup
    /\ step \notin {"none", "preflight", "dump"} => declined \/ dump = "app"
    /\ AppIsKept

Kept == Names /\ Places /\ Dumped

LEMMA KeptInit == Init => Kept
BY DEF Init, Kept, Names, Steps, Outcomes, Places, Dumped, AppIsKept, OwnAppRuns, Idle

(* Looking for the dongle, and the backup. *)
LEMMA KeptSearch ==
    ASSUME Kept, RunScript \/ Preflight \/ Dump \/ FindBootloader \/ Start
    PROVE  Kept'
<1> USE DEF Kept, Names, Steps, Outcomes, Places, Dumped, AppIsKept, OwnAppRuns, Idle, devVars, Exit
<1>1. CASE RunScript
    BY <1>1 DEF RunScript
<1>2. CASE Preflight
  <2>1. /\ step = "preflight" /\ backup' = backup /\ dump' = dump
        /\ UNCHANGED <<mode, busy, area, said>>
      BY <1>2 DEF Preflight
  <2>2. CASE OwnAppRuns /\ step' = "dump" /\ UNCHANGED declined
      BY <2>1, <2>2
  <2>3. CASE step' = "find" /\ declined' = (declined \/ dump # "app")
    <3>1. declined' <=> declined \/ dump # "app"
        BY <2>3
    <3> QED
        BY <2>1, <2>3, <3>1
  <2> QED
      BY <1>2, <2>2, <2>3 DEF Preflight
<1>3. CASE Dump
    BY <1>3 DEF Dump
<1>4. CASE FindBootloader
    BY <1>4 DEF FindBootloader
<1>5. CASE Start
    BY <1>5 DEF Start
<1> QED
    BY <1>1, <1>2, <1>3, <1>4, <1>5

(* The application area is overwritten. *)
LEMMA KeptFlash ==
    ASSUME Kept, FlashBegins \/ FlashEnds
    PROVE  Kept'
<1> USE DEF Kept, Names, Steps, Outcomes, Places, Dumped, AppIsKept, OwnAppRuns, Idle, Exit
<1>1. CASE FlashBegins
    BY <1>1 DEF FlashBegins
<1>2. CASE FlashEnds
    BY <1>2 DEF FlashEnds
<1> QED
    BY <1>1, <1>2

(* Requests of write_and_verify() and main(). *)
LEMMA KeptRequest ==
    ASSUME Kept, EraseStage1 \/ WriteStage1 \/ DataPacket \/ ReadBack \/ Answer \/ ResetStage1
    PROVE  Kept'
<1> USE DEF Kept, Names, Steps, Outcomes, Places, Dumped, AppIsKept, OwnAppRuns, Idle, devVars, Exit, Asks
<1>1. CASE EraseStage1
    BY <1>1 DEF EraseStage1
<1>2. CASE WriteStage1
    BY <1>2 DEF WriteStage1
<1>3. CASE DataPacket
    BY <1>3 DEF DataPacket, Receive
<1>4. CASE ReadBack
    BY <1>4 DEF ReadBack
<1>5. CASE Answer
    BY <1>5 DEF Answer
<1>6. CASE ResetStage1
    BY <1>6 DEF ResetStage1
<1> QED
    BY <1>1, <1>2, <1>3, <1>4, <1>5, <1>6

(* The chip on its own, faults, and other programs. *)
LEMMA KeptChip ==
    ASSUME Kept, Chip \/ Swallow \/ ResetByHand \/ OtherHostWrites \/ UNCHANGED vars
    PROVE  Kept'
<1> USE DEF Kept, Names, Steps, Outcomes, Places, Dumped, AppIsKept, OwnAppRuns, Idle, hostVars
<1>1. CASE EraseDone
    BY <1>1 DEF EraseDone
<1>2. CASE WriteDone
    BY <1>2 DEF WriteDone
<1>3. CASE WatchdogFires
    BY <1>3 DEF WatchdogFires
<1>4. CASE Swallow
    BY <1>4 DEF Swallow, Receive
<1>5. CASE ResetByHand
    BY <1>5 DEF ResetByHand
<1>6. CASE OtherHostWrites
    BY <1>6 DEF OtherHostWrites
<1>7. CASE UNCHANGED vars
    BY <1>7 DEF vars, devVars
<1> QED
    BY <1>1, <1>2, <1>3, <1>4, <1>5, <1>6, <1>7 DEF Chip

LEMMA KeptFault ==
    ASSUME Kept, Kill \/ Interrupt
    PROVE  Kept'
<1> USE DEF Kept, Names, Steps, Outcomes, Places, Dumped, AppIsKept, OwnAppRuns, Idle, devVars, Exit
<1>1. CASE Kill
    BY <1>1 DEF Kill
<1>2. CASE Interrupt
  <2>1. PowerOnTo \in {"updater", "half", "app"}
      BY DEF PowerOnTo
  <2>2. mode' \in {"boot", "updater", "half", "app", "dead"} /\ busy' = "poll"
      BY <1>2, <2>1 DEF Interrupt
  <2> QED
      BY <1>2, <2>2 DEF Interrupt
<1> QED
    BY <1>1, <1>2

LEMMA KeptStep == Kept /\ [Next]_vars => Kept'
BY KeptSearch, KeptFlash, KeptRequest, KeptChip, KeptFault DEF Next, Script

(* update_bootloader.py:4-7: as long as the user does not go on without a   *)
(* backup, the application is in the flash or in the dump file, whatever    *)
(* fails and however often the script is run.                               *)
THEOREM AppIsKeptHolds == Spec => []AppIsKept
<1>1. Spec => []Kept
    BY KeptInit, KeptStep, PTL DEF Spec
<1>2. Kept => AppIsKept
    BY DEF Kept, Dumped
<1> QED
    BY <1>1, <1>2, PTL
-----------------------------------------------------------------------------
(* Page 0 is the image whenever a reset is on its way. *)
Disturbed == count.cuts > 0 \/ count.others > 0

Safe ==
    /\ step \in {"ask", "reset", "resetRestore"} => page0 = Image
    /\ step = "none" /\ said = "noReset" => page0 = Image /\ busy \in {"poll", "reset"}
    /\ busy = "reset" => page0 = Image
    /\ mode # "dead"

ResetSafe == count \in FaultCounts /\ (Disturbed \/ Safe)

(* A counted fault is one of its kind. *)
LEMMA CountedStep ==
    ASSUME count \in FaultCounts, NEW kind \in DOMAIN count, NEW b, Counted(kind, b)
    PROVE  /\ count' \in FaultCounts
           /\ Disturbed => Disturbed'
           /\ kind \in {"cuts", "others"} => Disturbed'
<1>1. count' = [count EXCEPT ![kind] = @ + 1]
    BY DEF Counted
<1>2. /\ kind \in {"kills", "dataKills", "cuts", "bad", "declines", "others"}
      /\ \A k \in DOMAIN count : count[k] \in Nat
    BY DEF FaultCounts
<1>3. count' \in FaultCounts
    BY <1>1, <1>2 DEF FaultCounts
<1>4. /\ count'.cuts = IF kind = "cuts" THEN count.cuts + 1 ELSE count.cuts
      /\ count'.others = IF kind = "others" THEN count.others + 1 ELSE count.others
      /\ count.cuts \in Nat /\ count.others \in Nat
    BY <1>1, <1>2 DEF FaultCounts
<1> QED
    BY <1>3, <1>4 DEF Disturbed

LEMMA Kinds ==
    ASSUME count \in FaultCounts
    PROVE  DOMAIN count = {"kills", "dataKills", "cuts", "bad", "declines", "others"}
BY DEF FaultCounts

LEMMA SafeInit == Init => ResetSafe
BY DEF Init, ResetSafe, FaultCounts, Safe

(* Steps that are not counted: only the script writes page 0, never when a  *)
(* reset is on its way, and it sends the reset only after verification.     *)
LEMMA SafeScript ==
    ASSUME Kept, Safe, Script
    PROVE  Safe'
<1> USE DEF Kept, Names, Places, Safe, Idle, OwnAppRuns, devVars, Exit, Asks
<1>1. CASE Preflight
    BY <1>1 DEF Preflight
<1>2. CASE Dump
    BY <1>2 DEF Dump
<1>3. CASE FindBootloader
    BY <1>3 DEF FindBootloader
<1>4. CASE FlashBegins
    BY <1>4 DEF FlashBegins
<1>5. CASE FlashEnds
    BY <1>5 DEF FlashEnds
<1>6. CASE Start
    BY <1>6 DEF Start
<1>7. CASE EraseStage1
    BY <1>7 DEF EraseStage1
<1>8. CASE WriteStage1
    BY <1>8 DEF WriteStage1
<1>9. CASE DataPacket
    BY <1>9 DEF DataPacket, Receive
<1>10. CASE ReadBack
    BY <1>10 DEF ReadBack, Verified
<1>11. CASE Answer
    BY <1>11 DEF Answer
<1>12. CASE ResetStage1
    BY <1>12 DEF ResetStage1
<1> QED
    BY <1>1, <1>2, <1>3, <1>4, <1>5, <1>6, <1>7, <1>8, <1>9, <1>10, <1>11, <1>12 DEF Script

LEMMA SafeOther ==
    ASSUME Kept, Safe, RunScript \/ Chip \/ Swallow \/ ResetByHand \/ Kill \/ UNCHANGED vars
    PROVE  Safe'
<1> USE DEF Kept, Names, Places, Safe, Idle, devVars, hostVars, Exit
<1>1. CASE RunScript
    BY <1>1 DEF RunScript
<1>2. CASE EraseDone
    BY <1>2 DEF EraseDone
<1>3. CASE WriteDone
    BY <1>3 DEF WriteDone
<1>4. CASE WatchdogFires
    BY <1>4 DEF WatchdogFires, PageBoots
<1>5. CASE Swallow
    BY <1>5 DEF Swallow, Receive
<1>6. CASE ResetByHand
    BY <1>6 DEF ResetByHand
<1>7. CASE Kill
    BY <1>7 DEF Kill
<1>8. CASE UNCHANGED vars
    BY <1>8 DEF vars
<1> QED
    BY <1>1, <1>2, <1>3, <1>4, <1>5, <1>6, <1>7, <1>8 DEF Chip

LEMMA CountStep ==
    ASSUME count \in FaultCounts, [Next]_vars
    PROVE  /\ count' \in FaultCounts
           /\ Disturbed => Disturbed'
           /\ Interrupt \/ OtherHostWrites => Disturbed'
<1>1. UNCHANGED count => count' \in FaultCounts /\ (Disturbed <=> Disturbed')
    BY DEF Disturbed
<1>2. \/ UNCHANGED count
      \/ \E kind \in DOMAIN count, b \in Nat : Counted(kind, b)
    BY Kinds, BootUpdateAssumption
       DEF Next, Script, Chip, vars, RunScript, Preflight, Dump, FindBootloader, FlashBegins, FlashEnds,
           Start, EraseStage1, WriteStage1, DataPacket, ReadBack, Answer, ResetStage1, EraseDone,
           WriteDone, Takes, Fails, WatchdogFires, Swallow, ResetByHand, Interrupt, Kill, OtherHostWrites
<1>3. Interrupt => Counted("cuts", MaxCuts)
    BY DEF Interrupt
<1>4. OtherHostWrites => Counted("others", MaxOthers)
    BY DEF OtherHostWrites
<1>5. Interrupt \/ OtherHostWrites => Disturbed'
    BY <1>3, <1>4, CountedStep, Kinds
<1> QED
    BY <1>1, <1>2, <1>5, CountedStep

LEMMA SafeStep == Kept /\ ResetSafe /\ [Next]_vars => ResetSafe'
<1> SUFFICES ASSUME Kept, ResetSafe, [Next]_vars
             PROVE  ResetSafe'
    OBVIOUS
<1>1. count' \in FaultCounts /\ (Disturbed => Disturbed') /\ (Interrupt \/ OtherHostWrites => Disturbed')
    BY CountStep DEF ResetSafe
<1>2. CASE Disturbed
    BY <1>1, <1>2 DEF ResetSafe
<1>3. CASE Safe
    BY <1>1, <1>3, SafeScript, SafeOther DEF ResetSafe, Next
<1> QED
    BY <1>2, <1>3 DEF ResetSafe

(* update_bootloader.py:165: the reset is sent only to a page 0 that was    *)
(* read back as the image, so nothing but a power loss or another program's *)
(* request leaves a dongle without a bootloader.                            *)
THEOREM OnlyPowerLossBricksHolds == Spec => []OnlyPowerLossBricks
<1>1. Init => Kept /\ ResetSafe
    BY KeptInit, SafeInit
<1>2. (Kept /\ ResetSafe) /\ [Next]_vars => (Kept /\ ResetSafe)'
    BY KeptStep, SafeStep
<1>3. Kept /\ ResetSafe => OnlyPowerLossBricks
    BY DEF ResetSafe, Safe, Disturbed, OnlyPowerLossBricks
<1> QED
    BY <1>1, <1>2, <1>3, PTL DEF Spec
-----------------------------------------------------------------------------
(* Arithmetic of the image and of the range check. *)
LEMMA Constants ==
    /\ ImageTop \in Nat /\ PAGE_LEN \in Nat \ {0} /\ MAX_CHUNK \in Nat \ {0}
    /\ PacketLen \in Nat \ {0} /\ SetupLen \in Nat \ {0}
    /\ ImageTop < PAGE_LEN /\ PAGE_LEN % 4 = 0 /\ MAX_CHUNK % 4 = 0 /\ MAX_CHUNK < 256
BY BootUpdateAssumption

LEMMA ContentBounds ==
    /\ ContentLen \in Nat \ {0} /\ ContentLen <= PAGE_LEN /\ ContentLen % 4 = 0
<1> DEFINE t == ImageTop
           p == PAGE_LEN
           c == t - (t % 4) + 4
<1>1. t \in Nat /\ p \in Nat /\ t < p /\ p % 4 = 0
    BY Constants
<1> HIDE DEF t, p
<1>2. c \in Nat \ {0} /\ c <= p /\ c % 4 = 0
    BY <1>1
<1> QED
    BY <1>2 DEF c, t, p, ContentLen

LEMMA DivBounds ==
    ASSUME NEW a \in Nat, NEW d \in Nat \ {0}
    PROVE  /\ a \div d \in Nat
           /\ d * (a \div d) <= a
           /\ a < d * (a \div d) + d
OBVIOUS

(* Chunks are whole words and end inside the image. *)
LEMMA ChunkBounds ==
    /\ NChunks \in Nat \ {0}
    /\ \A c \in 1..NChunks :
           /\ ChunkAddr(c) \in Nat /\ ChunkLen(c) \in 1..MAX_CHUNK
           /\ ChunkAddr(c) % 4 = 0
           /\ ChunkAddr(c) + ChunkLen(c) <= ContentLen
<1> DEFINE M == MAX_CHUNK
           F == ContentLen
           q == (F + M - 1) \div M
<1>1. M \in Nat \ {0} /\ F \in Nat \ {0} /\ F + M - 1 \in Nat /\ M % 4 = 0
  <2>1. M \in Nat \ {0} /\ F \in Nat \ {0}
      BY Constants, ContentBounds
  <2> QED
      BY <2>1, Constants
<1>2. q \in Nat /\ M * q <= F + M - 1 /\ F + M - 1 < M * q + M
    BY <1>1, DivBounds
<1>3. q = NChunks
    BY DEF NChunks
<1> HIDE DEF q, M, F
<1>4. q # 0
    BY <1>1, <1>2
<1>5. (q - 1) * M = M * q - M
    BY <1>1, <1>2
<1>6. F - (q - 1) * M \in 1..M
    BY <1>1, <1>2, <1>5
<1>7. ASSUME NEW c \in 1..q
      PROVE  /\ (c - 1) * M \in Nat
             /\ ((c - 1) * M) % 4 = 0
             /\ c < q => (c - 1) * M + M <= (q - 1) * M
  <2>1. (c - 1) * M \in Nat
      BY <1>1, <1>2
  <2>2. PICK k \in Nat : M = 4 * k
    <3>1. M \div 4 \in Nat /\ M = 4 * (M \div 4)
        BY <1>1
    <3> QED
        BY <3>1
  <2>3. (c - 1) * M = 4 * ((c - 1) * k) /\ (c - 1) * k \in Nat
      BY <1>2, <2>2
  <2>4. ((c - 1) * M) % 4 = 0
      BY <2>3
  <2>5. ASSUME c < q
        PROVE  (c - 1) * M + M <= (q - 1) * M
    <3>1. (c - 1) * M + M = c * M /\ c \in Nat /\ q - 1 \in Nat /\ c <= q - 1
        BY <1>1, <1>2, <2>5
    <3> QED
        BY <1>1, <3>1
  <2> QED
      BY <2>1, <2>4, <2>5
<1>8. ASSUME NEW c \in 1..NChunks
      PROVE  /\ ChunkAddr(c) \in Nat /\ ChunkLen(c) \in 1..MAX_CHUNK
             /\ ChunkAddr(c) % 4 = 0
             /\ ChunkAddr(c) + ChunkLen(c) <= ContentLen
  <2>1. ChunkAddr(c) = (c - 1) * M
      BY DEF ChunkAddr, M
  <2>2. CASE c < q
    <3>1. ChunkLen(c) = M
        BY <1>3, <2>2 DEF ChunkLen, M
    <3>2. (c - 1) * M + M <= F
        BY <1>1, <1>2, <1>3, <1>6, <1>7, <2>2
    <3> QED
        BY <1>1, <1>3, <1>7, <2>1, <3>1, <3>2 DEF M, F
  <2>3. CASE c = q
    <3>1. ChunkLen(c) = F - (q - 1) * M
        BY <1>2, <1>3, <2>1, <2>3 DEF ChunkLen, F
    <3>2. (q - 1) * M \in Nat
        BY <1>3, <1>7, <2>3
    <3>3. (q - 1) * M + (F - (q - 1) * M) = F
        BY <1>1, <3>2
    <3> QED
        BY <1>3, <1>6, <1>7, <2>1, <2>3, <3>1, <3>3 DEF M, F
  <2> QED
      BY <1>2, <1>3, <2>2, <2>3
<1> QED
    BY <1>2, <1>3, <1>4, <1>8

LEMMA ChunkInPage0 ==
    ASSUME NEW c \in 1..NChunks
    PROVE  WordsInPage0(ChunkAddr(c), ChunkLen(c))
<1> DEFINE a == ChunkAddr(c)
           l == ChunkLen(c)
           p == PAGE_LEN
<1>1. a \in Nat /\ l \in Nat /\ p \in Nat /\ a + l <= p
    BY ChunkBounds, ContentBounds, Constants
<1> HIDE DEF a, l, p
<1>2. a \div 4 + l \div 4 <= p \div 4
    BY <1>1
<1> QED
    BY <1>2 DEF a, l, p, WordsInPage0

(* bootloader_updater.asm:312-331: on bytes, the check decides exactly      *)
(* whether a request of less than 256 bytes ends inside a 1024-byte page.   *)
THEOREM RangeCheckExact ==
    ASSUME NEW a \in Nat, NEW l \in 0..255
    PROVE  Accepts(a, l) <=> a < 1024 /\ a + l <= 1024
<1>1. l % 256 = l
    OBVIOUS
<1>2. /\ a \div 256 < 4 <=> a < 1024
      /\ a \div 256 = 3 => a % 256 = a - 768
      /\ a \div 256 = 3 <=> 768 <= a /\ a < 1024
    OBVIOUS
<1> QED
    BY <1>1, <1>2 DEF Accepts
-----------------------------------------------------------------------------
(* What the script and the updater work on is a chunk of the image. *)
Chunks ==
    /\ step \in {"write", "data"} => idx \in 1..NChunks
    /\ busy \in {"recv", "write"} => target \in 1..NChunks
    /\ ownPage

LEMMA ChunksInit == Init => Chunks
BY DEF Init, Chunks

LEMMA ChunksScript ==
    ASSUME Chunks, Script
    PROVE  Chunks'
<1> USE DEF Chunks, devVars, Exit, Asks
<1>1. CASE Preflight \/ Dump \/ FindBootloader \/ FlashBegins \/ FlashEnds \/ Start
    BY <1>1 DEF Preflight, Dump, FindBootloader, FlashBegins, FlashEnds, Start
<1>2. CASE EraseStage1
    BY <1>2, ChunkBounds DEF EraseStage1
<1>3. CASE WriteStage1
    BY <1>3 DEF WriteStage1
<1>4. CASE DataPacket
  <2>1. idx \in 1..NChunks /\ NChunks \in Nat
      BY <1>4, ChunkBounds DEF DataPacket
  <2>2. step' = "write" => idx' = idx + 1 /\ idx < NChunks
      BY <1>4 DEF DataPacket
  <2>3. step' \in {"write", "read"} \/ (step' = "data" /\ idx' = idx)
      BY <1>4 DEF DataPacket
  <2>4. step' \in {"write", "data"} => idx' \in 1..NChunks
      BY <2>1, <2>2, <2>3
  <2>5. busy = "recv" /\ target' = target /\ ownPage' = ownPage
      BY <1>4 DEF DataPacket, Receive
  <2> QED
      BY <2>4, <2>5
<1>5. CASE ReadBack \/ Answer \/ ResetStage1
    BY <1>5 DEF ReadBack, Answer, ResetStage1
<1> QED
    BY <1>1, <1>2, <1>3, <1>4, <1>5 DEF Script

LEMMA ChunksOther ==
    ASSUME PAGE_LEN = 1024, \A w \in OtherWrites : w[2] < 256,
           Chunks,
           RunScript \/ Chip \/ Swallow \/ ResetByHand \/ Interrupt \/ Kill \/ OtherHostWrites
               \/ UNCHANGED vars
    PROVE  Chunks'
<1> USE DEF Chunks, devVars, hostVars, Exit
<1>1. CASE RunScript \/ EraseDone \/ WatchdogFires \/ ResetByHand \/ Interrupt \/ Kill
    BY <1>1 DEF RunScript, EraseDone, WatchdogFires, ResetByHand, Interrupt, Kill
<1>2. CASE WriteDone
    BY <1>2, ChunkInPage0 DEF WriteDone
<1>3. CASE Swallow
    BY <1>3 DEF Swallow, Receive
<1>4. CASE OtherHostWrites
  <2>1. ASSUME NEW w \in OtherWrites, Accepts(w[1], w[2])
        PROVE  WordsInPage0(w[1], w[2])
    <3> DEFINE a == w[1]
               l == w[2]
    <3>1. a \in Nat /\ l \in 0..255 /\ Accepts(a, l)
        BY <2>1, BootUpdateAssumption
    <3> HIDE DEF a, l
    <3>2. a + l <= 1024
        BY <3>1, RangeCheckExact
    <3>3. a \div 4 + l \div 4 <= 1024 \div 4
        BY <3>1, <3>2
    <3> QED
        BY <3>3 DEF WordsInPage0, a, l
  <2>2. ownPage'
      BY <1>4, <2>1 DEF OtherHostWrites
  <2> QED
      BY <1>4, <2>2 DEF OtherHostWrites
<1>5. CASE UNCHANGED vars
    BY <1>5 DEF vars
<1> QED
    BY <1>1, <1>2, <1>3, <1>4, <1>5 DEF Chip

(* bootloader_updater.asm:299-304: with the chip's page of 1024 bytes,      *)
(* neither the script nor another program whose requests are shorter than   *)
(* 256 bytes ever makes WRITE_STAGE1_CHUNK write beyond page 0.             *)
THEOREM StaysInPage0Holds ==
    ASSUME PAGE_LEN = 1024, \A w \in OtherWrites : w[2] < 256
    PROVE  Spec => []StaysInPage0
<1>1. Chunks /\ [Next]_vars => Chunks'
    BY ChunksScript, ChunksOther DEF Next
<1>2. Chunks => StaysInPage0
    BY DEF Chunks, StaysInPage0
<1> QED
    BY <1>1, <1>2, ChunksInit, PTL DEF Spec
-----------------------------------------------------------------------------
(* The rest of the type: pieces of the page, the counters of a transfer.    *)
AtChunk == step \in {"write", "data"} => idx \in 1..NChunks
Flags ==
    /\ page0 \in Page0
    /\ ownPage \in BOOLEAN /\ clean \in BOOLEAN /\ backup \in BOOLEAN /\ declined \in BOOLEAN
Typed == Kept /\ count \in FaultCounts /\ AtChunk /\ Numbers /\ Flags

LEMMA PageValues ==
    /\ \A v \in {"old", "erased", "new", "torn"} : All(v) \in Page0
    /\ \A p \in Page0, t \in Piece, v \in {"new", "torn"} : [p EXCEPT ![t] = v] \in Page0
BY DEF All, Page0

(* recv_wait keeps r7 within its eight bits, whatever is subtracted. *)
LEMMA ReceiveType ==
    ASSUME Numbers, NEW n \in Int, Receive(n)
    PROVE  remain' \in 0..255 /\ UNCHANGED <<mode, page0, area, ownPage, target>>
<1>1. remain - n \in Int
    BY DEF Numbers
<1> QED
    BY <1>1 DEF Receive, CountDown

LEMMA TypedInit == Init => Typed
<1> SUFFICES ASSUME Init
             PROVE  Typed
    OBVIOUS
<1>1. AtChunk /\ count \in FaultCounts
    BY DEF Init, AtChunk, FaultCounts
<1>2. Numbers
    BY ChunkBounds DEF Init, Numbers, Piece
<1>3. Flags
    BY PageValues DEF Init, Flags
<1> QED
    BY <1>1, <1>2, <1>3, KeptInit DEF Typed

(* The script hands the updater one chunk after the other. *)
LEMMA TypedTransfer ==
    ASSUME Typed, WriteStage1 \/ DataPacket
    PROVE  AtChunk' /\ Numbers' /\ Flags'
<1> USE DEF Typed, AtChunk, Numbers, Flags
<1>0. idx \in 1..NChunks /\ NChunks \in Nat /\ ChunkLen(idx) \in Nat /\ PacketLen \in Nat \ {0}
  <2>1. idx \in 1..NChunks
      BY DEF WriteStage1, Asks, DataPacket
  <2> QED
      BY <2>1, ChunkBounds, Constants
<1>1. CASE WriteStage1
  <2>1. UNCHANGED <<idx, page0, ownPage, backup, declined>>
      BY <1>1 DEF WriteStage1
  <2>2. \/ target' = idx /\ remain' = ChunkLen(idx) % 256 /\ sent' = 0 /\ clean' = TRUE
        \/ UNCHANGED <<target, remain, sent, clean>>
      BY <1>1 DEF WriteStage1
  <2>3. ChunkLen(idx) % 256 \in 0..255 /\ idx \in Piece
      BY <1>0 DEF Piece
  <2> QED
    <3>1. target' \in Piece /\ remain' \in 0..255 /\ sent' \in Nat
        BY <2>2, <2>3
    <3>2. clean' \in BOOLEAN
        BY <2>2
    <3>3. idx' \in 1..NChunks /\ idx' \in Nat
        BY <1>0, <2>1
    <3> QED
        BY <2>1, <3>1, <3>2, <3>3
<1>2. CASE DataPacket
  <2> DEFINE left == ChunkLen(idx) - sent
             n == IF left < PacketLen THEN left ELSE PacketLen
  <2>1. left \in Int /\ n \in Int /\ (n < left => n \in Nat)
      BY <1>0
  <2>2. Receive(n) /\ UNCHANGED <<clean, backup, declined>>
      BY <1>2 DEF DataPacket
  <2>3. \/ n < left /\ sent' = sent + n /\ idx' = idx
        \/ sent' = 0 /\ idx' = idx + 1 /\ (step' = "read" \/ (step' = "write" /\ idx < NChunks))
      BY <1>2 DEF DataPacket
  <2> HIDE DEF left, n
  <2>4. remain' \in 0..255 /\ UNCHANGED <<target, page0, ownPage>>
      BY <2>1, <2>2, ReceiveType
  <2>5. idx' \in Nat /\ sent' \in Nat /\ (step' \in {"write", "data"} => idx' \in 1..NChunks)
      BY <1>0, <2>1, <2>3
  <2> QED
      BY <2>2, <2>4, <2>5
<1> QED
    BY <1>1, <1>2

(* What the updater does to page 0, and what is cut short in it. *)
LEMMA TypedChip ==
    ASSUME Typed, Chip \/ Swallow \/ Interrupt \/ OtherHostWrites
    PROVE  AtChunk' /\ Numbers' /\ Flags'
<1> USE DEF Typed, AtChunk, Numbers, Flags, hostVars
<1>1. CASE EraseDone
    BY <1>1, PageValues DEF EraseDone
<1>2. CASE WriteDone
  <2>1. page0' \in Page0
      BY <1>2, PageValues DEF WriteDone
  <2>2. ownPage' \in BOOLEAN
      BY <1>2 DEF WriteDone
  <2> QED
      BY <1>2, <2>1, <2>2 DEF WriteDone
<1>3. CASE WatchdogFires
    BY <1>3 DEF WatchdogFires
<1>4. CASE Swallow
  <2>1. Receive(SetupLen) /\ clean' = FALSE /\ SetupLen \in Int
      BY <1>4, Constants DEF Swallow
  <2>2. remain' \in 0..255 /\ UNCHANGED <<page0, ownPage, target>>
      BY <2>1, ReceiveType
  <2>3. UNCHANGED hostVars
      BY <1>4 DEF Swallow
  <2> QED
      BY <2>1, <2>2, <2>3
<1>5. CASE Interrupt
  <2>1. page0' \in Page0
      BY <1>5, PageValues DEF Interrupt
  <2>2. step' = "none" \/ step' = step
      BY <1>5 DEF Interrupt, Exit
  <2> QED
      BY <1>5, <2>1, <2>2 DEF Interrupt
<1>6. CASE OtherHostWrites
  <2>1. page0' \in Page0 /\ ownPage' \in BOOLEAN
      BY <1>6, PageValues DEF OtherHostWrites
  <2> QED
      BY <1>6, <2>1 DEF OtherHostWrites
<1> QED
    BY <1>1, <1>2, <1>3, <1>4, <1>5, <1>6 DEF Chip

LEMMA TypedRest ==
    ASSUME Typed,
           \/ RunScript \/ Preflight \/ Dump \/ FindBootloader \/ FlashBegins \/ FlashEnds \/ Start
           \/ EraseStage1 \/ ReadBack \/ Answer \/ ResetStage1 \/ ResetByHand \/ Kill
           \/ UNCHANGED vars
    PROVE  AtChunk' /\ Numbers' /\ Flags'
<1> USE DEF Typed, AtChunk, Numbers, Flags, devVars, hostVars, Exit, Asks
<1>1. CASE RunScript \/ FindBootloader \/ FlashBegins \/ FlashEnds \/ Start
  <2>1. CASE RunScript \/ Start
    <3>1. UNCHANGED <<devVars, idx, sent, declined>> /\ backup' \in BOOLEAN
        BY <2>1 DEF RunScript, Start
    <3>2. step' \in {"preflight", "erase", "none"}
        BY <2>1 DEF RunScript, Start
    <3> QED
        BY <3>1, <3>2
  <2>2. CASE FindBootloader \/ FlashBegins
      BY <1>1, <2>2 DEF FindBootloader, FlashBegins
  <2>3. CASE FlashEnds
      BY <1>1, <2>3 DEF FlashEnds
  <2> QED
      BY <1>1, <2>1, <2>2, <2>3
<1>2. CASE Preflight \/ Dump
  <2>1. UNCHANGED <<devVars, idx, sent>> /\ step' \in {"dump", "find"}
      BY <1>2 DEF Preflight, Dump
  <2>2. backup' \in BOOLEAN /\ declined' \in BOOLEAN
      BY <1>2 DEF Preflight, Dump
  <2> QED
      BY <2>1, <2>2
<1>3. CASE EraseStage1
    BY <1>3, ChunkBounds DEF EraseStage1
<1>4. CASE ReadBack \/ Answer \/ ResetStage1 \/ ResetByHand \/ Kill
    BY <1>4 DEF ReadBack, Answer, ResetStage1, ResetByHand, Kill
<1>5. CASE UNCHANGED vars
    BY <1>5 DEF vars
<1> QED
    BY <1>1, <1>2, <1>3, <1>4, <1>5

(* The registers of the updater, the chunks of the script and the pieces of *)
(* page 0 keep their types, r7 its eight bits and the chunk its bounds.     *)
THEOREM TypeCorrect == Spec => []TypeOK
<1>1. Typed /\ [Next]_vars => Typed'
  <2> SUFFICES ASSUME Typed, [Next]_vars
               PROVE  Typed'
      OBVIOUS
  <2>1. Kept' /\ count' \in FaultCounts
      BY KeptStep, CountStep DEF Typed
  <2>2. AtChunk' /\ Numbers' /\ Flags'
      BY TypedTransfer, TypedChip, TypedRest DEF Next, Script
  <2> QED
      BY <2>1, <2>2 DEF Typed
<1>2. Typed => TypeOK
    BY DEF Typed, TypeOK, Kept, Flags
<1> QED
    BY <1>1, <1>2, TypedInit, PTL DEF Spec
=============================================================================
