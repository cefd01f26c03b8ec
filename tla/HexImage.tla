------------------------------ MODULE HexImage ------------------------------
(***************************************************************************)
(* Intel HEX files as the host's scripts read and write them: parse_ihx()  *)
(* (flash_firmware.py, update_bootloader.py, inject_vectors_min.py,        *)
(* flash_app_via_debug.py), write_ihx() (dump_app.py,                      *)
(* inject_vectors_min.py), the trimmed dump and the injected vectors.      *)
(*                                                                         *)
(* A file is a sequence of records [type, addr, bytes]; contents are a     *)
(* function from the addresses that have a byte.  Checksums are written    *)
(* and never looked at.                                                    *)
(***************************************************************************)
EXTENDS Integers, Sequences, FiniteSets, FiniteSetsExt

DATA == 0
END == 1
ELA == 4
Blank == 255

EndRecord == [type |-> END, addr |-> 0, bytes |-> <<>>]
UpperHalf(r) == (256 * r.bytes[1] + r.bytes[2]) * 65536
Span(r, ela) == (ela + r.addr)..(ela + r.addr + Len(r.bytes) - 1)

(* One line.  A record after the end record counts like any other.          *)
(* Faulty variant: a byte that is there already stays.                      *)
Keeping(s, r) ==
    IF r.type = ELA THEN [s EXCEPT !.ela = UpperHalf(r)]
    ELSE IF r.type # DATA THEN s
    ELSE [s EXCEPT !.data = [a \in DOMAIN @ \cup Span(r, s.ela) |->
             IF a \in DOMAIN @ THEN @[a] ELSE r.bytes[a - s.ela - r.addr + 1]]]
Line(s, r) ==
    IF r.type = ELA THEN [s EXCEPT !.ela = UpperHalf(r)]
    ELSE IF r.type # DATA THEN s
    ELSE [s EXCEPT !.data = [a \in DOMAIN @ \cup Span(r, s.ela) |->
             IF a \in Span(r, s.ela) THEN r.bytes[a - s.ela - r.addr + 1] ELSE @[a]]]

(* The loop: its state after the first n lines. *)
parse_ihx(file) ==
    LET after[n \in 0..Len(file)] ==
            IF n = 0 THEN [ela |-> 0, data |-> <<>>] ELSE Line(after[n - 1], file[n])
    IN after[Len(file)].data

(* What it means, record by record: the byte of the last data record that   *)
(* covers an address, under the last upper half given before it.            *)
ElaAt(file, i) ==
    LET set == {j \in 1..(i - 1) : file[j].type = ELA}
    IN IF set = {} THEN 0 ELSE UpperHalf(file[Max(set)])
Covers(file, i, a) == file[i].type = DATA /\ a \in Span(file[i], ElaAt(file, i))
FileByte(file, a) ==
    LET who == {i \in DOMAIN file : Covers(file, i, a)}
    IN IF who = {} THEN Blank
       ELSE file[Max(who)].bytes[a - ElaAt(file, Max(who)) - file[Max(who)].addr + 1]

(* data.get(a, 0xFF): contents made an image without gaps. *)
ByteOf(data, a) == IF a \in DOMAIN data THEN data[a] ELSE Blank

(* write_ihx(): records of up to 16 consecutive bytes, lowest first. *)
RecordLen == 16
RunStart(data, a) == Max({x \in DOMAIN data : x <= a /\ x - 1 \notin DOMAIN data})
RecordStarts(data) == {a \in DOMAIN data : (a - RunStart(data, a)) % RecordLen = 0}
RecordAt(data, a) ==
    LET n == Max({k \in 1..RecordLen : a..(a + k - 1) \subseteq DOMAIN data})
    IN [type |-> DATA, addr |-> a, bytes |-> [i \in 1..n |-> data[a + i - 1]]]
write_ihx(data) ==
    LET starts == RecordStarts(data)
        Nth(i) == CHOOSE a \in starts : Cardinality({b \in starts : b < a}) = i - 1
    IN Append([i \in 1..Cardinality(starts) |-> RecordAt(data, Nth(i))], EndRecord)

(* dump(): raw from address base on, without the blank bytes at its end. *)
Trimmed(raw, base) ==
    LET real == {i \in DOMAIN raw : raw[i] # Blank}
    IN [a \in base..(base + Max(real) - 1) |-> raw[a - base + 1]]

(* inject_bootloader(): a jump to the entry at 0 and one to the same place  *)
(* of the application area at every interrupt vector.                       *)
TRUE_VECTORS == {8 * i + 3 : i \in 0..17}
LJMP == 2
Jump(at, to, a) == CASE a = at -> LJMP [] a = at + 1 -> to \div 256 [] a = at + 2 -> to % 256
Stub(v) == v..(v + 2)
inject_bootloader(boot, entry, base) ==
    [a \in DOMAIN boot \cup Stub(0) \cup UNION {Stub(v) : v \in TRUE_VECTORS} |->
        IF a \in Stub(0) THEN Jump(0, entry, a)
        ELSE IF \E v \in TRUE_VECTORS : a \in Stub(v)
             THEN LET v == CHOOSE v \in TRUE_VECTORS : a \in Stub(v) IN Jump(v, base + v, a)
             ELSE boot[a]]
=============================================================================
