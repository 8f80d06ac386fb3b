------------------------------ MODULE BlockIo ------------------------------
(***************************************************************************)
(* Unaligned access to a block device (libstorage algorithm.rs, lib.rs and *)
(* ram_block.rs), as functions on one access.  An access is a record m:    *)
(*   bs, nb, al   BlockInfo: block size, number of blocks, alignment       *)
(*   st           the bytes of the device                                  *)
(*   at, buf      address and content of the buffer read into or written   *)
(*   left         calls of the device that succeed before one fails        *)
(*   calls, res   reads and writes done; "ok", an error, or "panic"         *)
(* Offsets and addresses count from 0, sequences from 1.                   *)
(***************************************************************************)
EXTENDS Integers, Sequences, FiniteSetsExt

RoundDown(v, k) == v - (v % k)
RoundUp(v, k) == RoundDown(v + k - 1, k)
is_aligned(v, k) == v % k = 0

Bytes(s, off, n) == SubSeq(s, off + 1, off + n)

Splice(s, off, t) ==
    [i \in 1..Len(s) |-> IF off < i /\ i =< off + Len(t) THEN t[i - off] ELSE s[i]]

Ok(m) == m.res = "ok"
Fail(m, e) == IF Ok(m) THEN [m EXCEPT !.res = e] ELSE m

(* `?`: the rest of a function runs only after success.                     *)
Then(m, Rest(_)) == IF Ok(m) THEN Rest(m) ELSE m

debug_assert(m, holds) == IF holds THEN m ELSE Fail(m, "panic")

(* check_range(): its assertions, then the end against the device.          *)
check_range(m, off, addr, n) ==
    Then(debug_assert(m, is_aligned(off, m.bs) /\ is_aligned(n, m.bs) /\ is_aligned(addr, m.al)),
         LAMBDA x : IF off \div m.bs + n \div m.bs =< m.nb THEN x ELSE Fail(x, "BadIndex"))

(* RamBlockIo::checks(): a call of the device, which may fail.              *)
device_call(m, kind) ==
    Then(m, LAMBDA x : IF x.left = 0 THEN Fail(x, "BlockIoError")
                       ELSE [x EXCEPT !.left = @ - 1, !.calls[kind] = @ + 1])

(* read_blocks() into n bytes of the buffer from lo on.                     *)
read_aligned_all(m, off, lo, n) ==
    Then(device_call(check_range(m, off, m.at + lo, n), "read"),
         LAMBDA x : [x EXCEPT !.buf = Splice(@, lo, Bytes(x.st, off, n))])

(* The block at off into the scratch block, from where n bytes that start   *)
(* skip bytes into it go to the buffer.                                     *)
read_partial(m, off, skip, lo, n) ==
    Then(device_call(check_range(m, off, 0, m.bs), "read"),
         LAMBDA x : [x EXCEPT !.buf = Splice(@, lo, Bytes(x.st, off + skip, n))])

read_aligned_offset_and_buffer(m, off, lo, n) ==
    LET whole == RoundDown(n, m.bs)
        start == debug_assert(m, is_aligned(off, m.bs) /\ is_aligned(m.at + lo, m.al))
        first == IF whole > 0 THEN read_aligned_all(start, off, lo, whole) ELSE start
    IN  Then(first, LAMBDA x : IF whole = n THEN x
                               ELSE read_partial(x, off + whole, 0, lo + whole, n - whole))

(* What starts at a block boundary, rel bytes in: straight into its place   *)
(* or, if that is misaligned, to the front of the buffer and then moved.    *)
read_tail(m, off, lo, n, rel) ==
    LET front == read_aligned_offset_and_buffer(m, off + rel, lo, n - rel)
    IN  IF rel >= n THEN m
        ELSE IF is_aligned(m.at + lo + rel, m.al)
        THEN read_aligned_offset_and_buffer(m, off + rel, lo + rel, n - rel)
        ELSE Then(front, LAMBDA x : [x EXCEPT !.buf = Splice(@, lo + rel, Bytes(@, lo, n - rel))])

(* After the tail the head, through the scratch block.                      *)
read_aligned_buffer(m, off, lo, n) ==
    LET rel == Min({RoundUp(off, m.bs), off + n}) - off
        start == debug_assert(m, is_aligned(m.at + lo, m.al))
    IN  IF is_aligned(off, m.bs) THEN read_aligned_offset_and_buffer(start, off, lo, n)
        ELSE Then(Then(start, LAMBDA x : read_tail(x, off, lo, n, rel)),
                  LAMBDA x : read_partial(x, RoundDown(off, m.bs), off % m.bs, lo, rel))

(* Where scratch memory of len bytes at addr is split: alignment - 1 bytes, *)
(* and behind them an aligned block, unless blocks are single bytes.        *)
split_scratch(m, addr, len) ==
    LET one == RoundUp(addr, m.al) - addr
        two == RoundUp(addr + one + m.al - 1, m.al) - addr
        need == IF m.bs = 1 THEN 0 ELSE m.bs
    IN  CASE one > len            -> Fail(m, "BufferTooSmall")
          [] one =< len /\ one + m.al - 1 > len -> Fail(m, "panic")
          [] one + m.al - 1 =< len /\ two > len -> Fail(m, "BufferTooSmall")
          [] two =< len /\ two + need > len     -> Fail(m, "panic")
          [] OTHER -> m

scratch_size(m) == (m.al - 1) * 2 + (IF m.bs = 1 THEN 0 ELSE m.bs)

(* Disk::new(), and new_alloc_scratch() which allocates what it asks for.   *)
Disk_new(m, len) == IF len < scratch_size(m) THEN Fail(m, "BufferTooSmall") ELSE m

(* The bytes before the first aligned address go through the first scratch  *)
(* part, the others directly.                                               *)
read_async(m, off, scratch) ==
    LET n == Len(m.buf)
        head == Min({RoundUp(m.at, m.al) - m.at, n})
        inner(x) == read_aligned_buffer([x EXCEPT !.at = 0, !.buf = Bytes(@, 0, head)], off, 0, head)
        outer(x, y) == [y EXCEPT !.at = x.at, !.buf = IF Ok(y) THEN Splice(x.buf, 0, y.buf) ELSE x.buf]
    IN  Then(split_scratch(m, scratch, scratch_size(m)), LAMBDA x :
          IF is_aligned(m.at, m.al) THEN read_aligned_buffer(x, off, 0, n)
          ELSE Then(outer(x, inner(x)), LAMBDA y :
                 IF head = n THEN y ELSE read_aligned_buffer(y, off + head, head, n - head)))

-----------------------------------------------------------------------------
write_aligned_all(m, off, lo, n) ==
    Then(device_call(check_range(m, off, m.at + lo, n), "write"),
         LAMBDA x : [x EXCEPT !.st = Splice(@, off, Bytes(x.buf, lo, n))])

(* Mutant: the rest of the block is not read first. *)
read_modify_write_blind(m, off, skip, lo, n) ==
    Then(device_call(device_call(check_range(m, off, 0, m.bs), "read"), "write"),
         LAMBDA x : [x EXCEPT !.st = Splice(Splice(@, off, [i \in 1..m.bs |-> 0]),
                                            off + skip, Bytes(x.buf, lo, n))])

(* A block is read to scratch, changed there and written back.              *)
read_modify_write(m, off, skip, lo, n) ==
    Then(device_call(device_call(check_range(m, off, 0, m.bs), "read"), "write"),
         LAMBDA x : [x EXCEPT !.st = Splice(@, off + skip, Bytes(x.buf, lo, n))])

write_aligned_offset_and_buffer(m, off, lo, n) ==
    LET whole == RoundDown(n, m.bs)
        start == debug_assert(m, is_aligned(off, m.bs) /\ is_aligned(m.at + lo, m.al))
        first == IF whole > 0 THEN write_aligned_all(start, off, lo, whole) ELSE start
    IN  Then(first, LAMBDA x : IF whole = n THEN x
                               ELSE read_modify_write(x, off + whole, 0, lo + whole, n - whole))

(* Rotation of n bytes of the buffer from lo on.                            *)
rotate_left(m, lo, n, sz) ==
    [m EXCEPT !.buf = Splice(@, lo, Bytes(@, lo + sz, n - sz) \o Bytes(@, lo, sz))]

rotate_right(m, lo, n, sz) ==
    [m EXCEPT !.buf = Splice(@, lo, Bytes(@, lo + n - sz, sz) \o Bytes(@, lo, n - sz))]

(* As for a read; a misaligned tail is rotated to the front of the caller's *)
(* buffer and back, whether the write worked or not.                        *)
write_tail(m, off, lo, n, rel) ==
    LET turned == rotate_left(m, lo, n, rel)
    IN  IF rel >= n THEN m
        ELSE IF is_aligned(m.at + lo + rel, m.al)
        THEN write_aligned_offset_and_buffer(m, off + rel, lo + rel, n - rel)
        ELSE rotate_right(write_aligned_offset_and_buffer(turned, off + rel, lo, n - rel), lo, n, rel)

write_aligned_buffer(m, off, lo, n) ==
    LET rel == Min({RoundUp(off, m.bs), off + n}) - off
        start == debug_assert(m, is_aligned(m.at + lo, m.al))
    IN  IF is_aligned(off, m.bs) THEN write_aligned_offset_and_buffer(start, off, lo, n)
        ELSE Then(Then(start, LAMBDA x : write_tail(x, off, lo, n, rel)),
                  LAMBDA x : read_modify_write(x, RoundDown(off, m.bs), off % m.bs, lo, rel))

write_async(m, off, scratch) ==
    LET n == Len(m.buf)
        head == Min({RoundUp(m.at, m.al) - m.at, n})
        inner(x) == write_aligned_buffer([x EXCEPT !.at = 0, !.buf = Bytes(@, 0, head)], off, 0, head)
        outer(x, y) == [y EXCEPT !.at = x.at, !.buf = x.buf]
    IN  Then(split_scratch(m, scratch, scratch_size(m)), LAMBDA x :
          IF is_aligned(m.at, m.al) THEN write_aligned_buffer(x, off, 0, n)
          ELSE Then(outer(x, inner(x)), LAMBDA y :
                 IF head = n THEN y ELSE write_aligned_buffer(y, off + head, head, n - head)))

=============================================================================
