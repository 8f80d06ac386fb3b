---------------------------- MODULE PartitionIo ----------------------------
(***************************************************************************)
(* Access to partitions (libgbl partition.rs) and the sparse image writer  *)
(* (libgbl fastboot/sparse.rs) over BlockIo.  A disk is [table, parts,     *)
(* total]: "gpt" with a range for each name, or "raw" with one name.  The  *)
(* unit of a sparse image is the u32.                                      *)
(***************************************************************************)
EXTENDS BlockIo, SequencesExt, FiniteSets, TLC

CONSTANT None

ASSUME NoneAssumption == None \notin Nat /\ None \notin [start : Nat, end : Nat]

(* Partition::absolute_range() of what find_partition() returns; no name    *)
(* is the whole disk; None is an Err.                                       *)
absolute_range(disk, part) ==
    IF disk.table = "gpt" THEN disk.parts[part] ELSE [start |-> 0, end |-> disk.total]

find_partition(disk, part) ==
    CASE part = None -> [start |-> 0, end |-> disk.total]
      [] part # None /\ part \in DOMAIN disk.parts -> absolute_range(disk, part)
      [] OTHER -> None

(* check_part_unique(): the range on the only disk with the partition.      *)
check_part_unique(disks, part) ==
    LET found == {i \in DOMAIN disks : find_partition(disks[i], part) # None}
    IN  CASE found = {} -> "NotFound"
          [] Cardinality(found) > 1 -> "NotUnique"
          [] OTHER -> "ok"

partition_io(disks, part) ==
    find_partition(disks[CHOOSE i \in DOMAIN disks : find_partition(disks[i], part) # None], part)

-----------------------------------------------------------------------------
(* PartitionIo is a range io; SafeNum makes an overflow an error, so that   *)
(* the sums are exact.                                                      *)
partition_size(io) == io.end - io.start

check_rw_range(io, off, size) ==
    IF io.start + off + size > io.end THEN None ELSE io.start + off

OrOutOfRange(m, at, Rest(_, _)) == IF at = None THEN Fail(m, "OutOfRange") ELSE Rest(m, at)

part_write(m, io, off, scratch) ==
    OrOutOfRange(m, check_rw_range(io, off, Len(m.buf)), LAMBDA x, at : write_async(x, at, scratch))

part_read(m, io, off, scratch) ==
    OrOutOfRange(m, check_rw_range(io, off, Len(m.buf)), LAMBDA x, at : read_async(x, at, scratch))

(* sub(): a window of a partition.                                          *)
sub(io, off, sz) ==
    IF check_rw_range(io, off, sz) = None THEN None
    ELSE [start |-> io.start + off, end |-> io.start + off + sz]

Unique(m, disks, part, Rest(_, _)) ==
    IF check_part_unique(disks, part) # "ok" THEN Fail(m, check_part_unique(disks, part))
    ELSE Rest(m, partition_io(disks, part))

(* A window is a pair of offset and size, None for the whole partition.     *)
Windowed(m, io, win, Rest(_, _)) ==
    IF win = None THEN Rest(m, io)
    ELSE IF sub(io, win[1], win[2]) = None THEN Fail(m, "OutOfRange")
    ELSE Rest(m, sub(io, win[1], win[2]))

read_unique_partition(m, disks, part, win, off, scratch) ==
    Unique(m, disks, part, LAMBDA x, io : Windowed(x, io, win, LAMBDA y, w : part_read(y, w, off, scratch)))

write_unique_partition(m, disks, part, win, off, scratch) ==
    Unique(m, disks, part, LAMBDA x, io : Windowed(x, io, win, LAMBDA y, w : part_write(y, w, off, scratch)))

(* A loop that writes size units from off on out of a buffer of n equal     *)
(* units at addr; an empty buffer makes no progress.                        *)
WriteRepeated(m, off, size, val, addr, n, scratch) ==
    LET piece == Min({n, size})
        write(x, o) == write_async([x EXCEPT !.at = addr,
                                    !.buf = [i \in 1..Min({piece, off + size - o}) |-> val]], o, scratch)
    IN  IF size = 0 THEN m
        ELSE IF piece = 0 THEN Fail(m, "hang")
        ELSE FoldLeft(LAMBDA x, i : Then(x, LAMBDA y : write(y, off + (i - 1) * piece)), m,
                      [i \in 1..((size + piece - 1) \div piece) |-> i])

(* Disk::fill() with len bytes at addr to write from: the aligned part of   *)
(* them, in whole blocks if there is one.                                   *)
fill(m, off, size, val, addr, len, scratch) ==
    LET skip == RoundUp(addr, m.al) - addr
        inner == len - skip
        n == CASE skip > len -> len
               [] skip =< len /\ inner \div m.bs > 0 -> RoundDown(inner, m.bs)
               [] OTHER -> inner
    IN  IF len = 0 THEN Fail(m, "InvalidInput")
        ELSE WriteRepeated(m, off, size, val, IF skip > len THEN addr ELSE addr + skip, n, scratch)

zeroize(m, io, addr, len, scratch) ==
    fill(m, io.start, partition_size(io), 0, addr, len, scratch)

-----------------------------------------------------------------------------
(* Sparse images, in u32 units.                                             *)
HEADER == 7        \* SparseHeader, 28 bytes
CHUNK_HEADER == 3  \* ChunkHeader, 12 bytes
FILL_INFO == 2     \* FillInfo, 8 bytes

SparseHeader(blk_sz, total_blks, total_chunks) ==
    <<"magic", "1.0", "sizes", blk_sz, total_blks, total_chunks, 0>>

is_sparse_image(img) == Len(img) >= HEADER /\ img[1] = "magic" /\ img[2] = "1.0"
blk_sz(img) == img[4]
data_size(img) == img[4] * img[5]

(* FillInfo: the first word is 0 for blocks to skip.                        *)
new_fill(blocks, val) == <<blocks, val>>
new_skip(blocks) == <<0, blocks>>
get_blocks_and_value(info) ==
    IF info[1] = 0 THEN [blks |-> info[2], val |-> None] ELSE [blks |-> info[1], val |-> info[2]]

(* First pass: a raw chunk is written; every chunk leaves a FillInfo at the *)
(* front of the image, which the walk has passed.  a is the access, the     *)
(* image, the place in it, the FillInfos written and the place on the disk. *)
write_chunk(a, hdr, pay, size, base, addr, scratch) ==
    LET raw(m) == write_async([m EXCEPT !.at = addr + a.curr + CHUNK_HEADER, !.buf = pay],
                              base + a.off, scratch)
    IN  CASE a.curr + CHUNK_HEADER > Len(a.img) -> Fail(a.m, "InvalidInput")
          [] hdr[1] = "RAW" /\ Len(pay) < size -> Fail(a.m, "InvalidInput")
          [] hdr[1] = "RAW" /\ Len(pay) = size -> Then(a.m, raw)
          [] hdr[1] = "FILL" /\ hdr[2] # 0 -> a.m
          [] hdr[1] \in {"DONT_CARE", "CRC32"} -> a.m
          [] OTHER -> Fail(a.m, "InvalidInput")

leave_fill_info(a, m, hdr, size) ==
    LET info == IF hdr[1] = "FILL" THEN new_fill(hdr[2], a.img[a.curr + CHUNK_HEADER + 1])
                ELSE new_skip(hdr[2])
    IN  IF ~Ok(m) THEN [a EXCEPT !.m = m]
        ELSE [m |-> m, img |-> Splice(a.img, a.fills * FILL_INFO, info),
              curr |-> a.curr + hdr[3], fills |-> a.fills + 1, off |-> a.off + size]

first_pass(a, bsz, base, addr, scratch) ==
    LET hdr == Bytes(a.img, a.curr, CHUNK_HEADER)
        size == hdr[2] * bsz
        pay == Bytes(a.img, a.curr + CHUNK_HEADER, size)
    IN  IF Ok(a.m) THEN leave_fill_info(a, write_chunk(a, hdr, pay, size, base, addr, scratch), hdr, size) ELSE a

(* Mutant: a new value does not start from an empty buffer. *)
FillBuffer_get_stale(b, val, size) ==
    LET n == Min({Len(b.buf), size})
    IN  [val |-> val, size |-> Max({b.size, n}), n |-> n,
         buf |-> [i \in 1..Len(b.buf) |-> IF b.size < i /\ i =< n THEN val ELSE b.buf[i]]]

(* FillBuffer::get(): what of the buffer already holds the value is kept.   *)
FillBuffer_get(b, val, size) ==
    LET n == Min({Len(b.buf), size})
        have == IF b.val = val THEN b.size ELSE 0
    IN  [val |-> val, size |-> Max({have, n}), n |-> n,
         buf |-> [i \in 1..Len(b.buf) |-> IF have < i /\ i =< n THEN val ELSE b.buf[i]]]

(* Second pass: a fill chunk is written from the rest of the image buffer.  *)
fill_chunk(m, b, size, at, addr, scratch) ==
    LET write(x, o) == write_async([x EXCEPT !.at = addr, !.buf = Bytes(b.buf, 0, Min({b.n, size - o}))],
                                   at + o, scratch)
    IN  IF b.n = 0 THEN Fail(m, "hang")
        ELSE FoldLeft(LAMBDA x, i : Then(x, LAMBDA y : write(y, (i - 1) * b.n)), m,
                      [i \in 1..((size + b.n - 1) \div b.n) |-> i])

second_pass(a, info, bsz, base, addr, scratch) ==
    LET f == get_blocks_and_value(info)
        size == f.blks * bsz
        b == FillBuffer_get(a.b, f.val, size)
    IN  IF ~Ok(a.m) THEN a
        ELSE IF f.val = None THEN [a EXCEPT !.off = @ + size]
        ELSE [m |-> fill_chunk(a.m, b, size, base + a.off, addr, scratch), b |-> b, off |-> a.off + size]

write_fills(a, bsz, base, addr, scratch) ==
    LET used == a.fills * FILL_INFO
    IN
    FoldLeft(LAMBDA x, i : second_pass(x, Bytes(a.img, (i - 1) * FILL_INFO, FILL_INFO),
                                       bsz, base, addr + used, scratch),
             [m |-> a.m, off |-> 0,
              b |-> [val |-> None, size |-> 0, n |-> 0, buf |-> Bytes(a.img, used, Len(a.img) - used)]],
             [i \in 1..a.fills |-> i]).m

write_sparse_image(m, img, addr, base, scratch) ==
    write_fills(FoldLeft(LAMBDA a, i : first_pass(a, blk_sz(img), base, addr, scratch),
                         [m |-> m, img |-> img, curr |-> HEADER, fills |-> 0, off |-> 0],
                         [i \in 1..img[6] |-> i]),
                blk_sz(img), base, addr, scratch)

write_sparse(m, io, off, img, addr, scratch) ==
    IF ~is_sparse_image(img) THEN Fail(m, "InvalidInput")
    ELSE OrOutOfRange(m, check_rw_range(io, off, data_size(img)),
                      LAMBDA x, base : write_sparse_image(x, img, addr, base, scratch))

=============================================================================
