----------------------------- MODULE MCBootloader -----------------------------
(* Bootloader with the real packet sizes and a scaled-down page: a file of  *)
(* three chunks on two or three pages, one chunk across a page boundary.    *)
(* The file has its records out of order, overlapping, some for the         *)
(* bootloader's page, a gap, and one after the end record.                  *)
EXTENDS FlashFile

MCStale == {0, FullLen}

Data(at, n, b) == [type |-> DATA, addr |-> at, bytes |-> [i \in 1..n |-> (b + i) % 256]]
Upper(n) == [type |-> ELA, addr |-> 0, bytes |-> <<0, n>>]

MCFile == <<Upper(0), Data(900, 222, 40), Data(400, 201, 7), Data(590, 130, 90),
            Data(1000, 9, 3), EndRecord, Data(1124, 2, 250)>>
MCFileDeaf == <<Data(512, 255, 1), Data(767, 255, 2), Data(1022, 109, 3)>>
MCAddresses == DOMAIN parse_ihx(MCFile)
MCAddressesDeaf == DOMAIN parse_ihx(MCFileDeaf)

(* Contents with gaps, runs of more than one record and of one byte; raw    *)
(* dumps with blank bytes inside and at the end.                            *)
Sparse == {[a \in A |-> (7 * a) % 256] : A \in
              {0..0, 3..40, (0..15) \cup (17..33), {5, 7, 8} \cup (64..95), 2..17}}
Raw == {<<1, Blank, 2, Blank, Blank>>, [i \in 1..40 |-> IF i % 17 = 0 THEN Blank ELSE i]}

(* dump_app.py:96-97, inject_vectors_min.py:72-82: a file that is written   *)
(* reads as what was written.                                               *)
ASSUME WrittenIsRead == \A data \in Sparse : parse_ihx(write_ihx(data)) = data

(* flash_firmware.py:111-129: the scripts' dictionary is what the records,  *)
(* taken one by one, say; also above the first 64 KB.                       *)
ASSUME ParsedIsFile ==
    \A file \in {MCFileDeaf, <<Data(4, 3, 1), Upper(1), Data(5, 3, 9), Upper(0), Data(7, 2, 5)>>} :
        LET data == parse_ihx(file)
        IN \A a \in (0..1200) \cup (65536..65550) : ByteOf(data, a) = FileByte(file, a)

(* dump_app.py:70-97 then flash_firmware.py: the application area is again  *)
(* what was dumped, the blank end included.                                 *)
ASSUME RestoredIsDumped ==
    \A raw \in Raw :
        LET data == parse_ihx(write_ihx(Trimmed(raw, APP_BASE)))
        IN \A i \in DOMAIN raw : ByteOf(data, APP_BASE + i - 1) = raw[i]

(* inject_vectors_min.py:72-82: the code that is kept, every vector sends   *)
(* the CPU to its place in the application area, reset to the entry.        *)
ASSUME VectorsForward ==
    \A boot \in Sparse : \A entry \in {146, 800} :
        LET image == parse_ihx(write_ihx(inject_bootloader(boot, entry, 1024)))
            Target(v) == IF image[v] = LJMP THEN 256 * image[v + 1] + image[v + 2] ELSE -1
        IN /\ Target(0) = entry
           /\ \A v \in TRUE_VECTORS : Target(v) = 1024 + v
           /\ \A a \in DOMAIN boot : a >= 142 => image[a] = boot[a]
=============================================================================
