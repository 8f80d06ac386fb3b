------------------------------ MODULE BootData ------------------------------
(***************************************************************************)
(* The small data formats of a boot: the kernel command line and its       *)
(* parser, the bootconfig section (libbootparams, libxbc), compressed      *)
(* kernels (libgbl decompress.rs) and device tree tables (libdttable).     *)
(* The unit of memory is a cell <<tag, n>>, a character is a cell too; the *)
(* results of a builder carry res as the accesses of BlockIo do.           *)
(***************************************************************************)
EXTENDS PartitionIo

NUL == <<"nul", 0>>
SPACE == <<" ", 0>>
EQUALS == <<"=", 0>>
QUOTE == <<"quote", 0>>

-----------------------------------------------------------------------------
(* CommandlineBuilder: cap bytes of buffer that hold text and a null.       *)
cmdline_new(cap) ==
    [cap |-> cap, text |-> <<>>, res |-> IF cap < 1 THEN "BufferTooSmall" ELSE "ok"]

(* A buffer that holds a null-terminated text already, or has no null.      *)
cmdline_from_prefix(cap, text) ==
    [cap |-> cap, text |-> text, res |-> IF Len(text) < cap THEN "ok" ELSE "InvalidInput"]

cmdline_remaining(b) == b.cap - Len(b.text) - 1

(* add_with(): the reader gets what remains but for a new null; its text    *)
(* follows a space that takes the place of the old null.                    *)
cmdline_add_with(b, read) ==
    LET room == IF cmdline_remaining(b) = 0 THEN 0 ELSE cmdline_remaining(b) - 1
    IN  CASE ~Ok(b) -> b
          [] Ok(b) /\ Len(read) > room -> Fail(b, "BufferTooSmall")
          [] Ok(b) /\ Len(read) =< room /\ read = <<>> -> b
          [] Ok(b) /\ Len(read) =< room /\ NUL \in Range(read) -> Fail(b, "InvalidInput")
          [] OTHER -> [b EXCEPT !.text = @ \o <<SPACE>> \o read]

cmdline_add(b, text) ==
    IF text = <<>> THEN b
    ELSE IF cmdline_remaining(b) < Len(text) + 1 THEN Fail(b, "BufferTooSmall")
    ELSE cmdline_add_with(b, text)

-----------------------------------------------------------------------------
(* CommandlineParser.  s is the text, a position counts what was consumed.  *)
TakeWhile(s, P(_)) ==
    LET ends == {i \in DOMAIN s : ~P(s[i])}
    IN  IF ends = {} THEN Len(s) ELSE Min(ends) - 1

Drop(s, n) == SubSeq(s, n + 1, Len(s))
Take(s, n) == SubSeq(s, 1, n)

parse_key(s) ==
    LET t == Drop(s, TakeWhile(s, LAMBDA c : c = SPACE))
        n == TakeWhile(t, LAMBDA c : c # SPACE /\ c # EQUALS)
    IN  [key |-> Take(t, n), rest |-> Drop(t, n)]

(* After "=": up to the next blank, or between quotes; a quote that is not  *)
(* closed swallows the rest as an error.                                    *)
parse_value(s) ==
    LET v == Drop(s, 1)
        q == TakeWhile(Drop(v, 1), LAMBDA c : c # QUOTE)
        n == TakeWhile(v, LAMBDA c : c # SPACE)
    IN  IF s = <<>> \/ s[1] = SPACE THEN [value |-> None, rest |-> s, ok |-> TRUE]
        ELSE IF v # <<>> /\ v[1] = QUOTE
             THEN IF q + 1 < Len(v) THEN [value |-> Take(Drop(v, 1), q), rest |-> Drop(v, q + 2), ok |-> TRUE]
                  ELSE [value |-> None, rest |-> <<>>, ok |-> FALSE]
             ELSE [value |-> Take(v, n), rest |-> Drop(v, n), ok |-> TRUE]

(* The iterator: the entries up to the end, "err" for one that is not       *)
(* valid; every entry takes at least a character.                           *)
parse_step(a) ==
    LET k == parse_key(a.rest)
        v == parse_value(k.rest)
    IN  IF a.done \/ k.key = <<>> THEN [a EXCEPT !.done = TRUE]
        ELSE [done |-> FALSE, rest |-> v.rest,
              entries |-> Append(a.entries, IF v.ok THEN [key |-> k.key, value |-> v.value] ELSE "err")]

parse_entries(s) ==
    FoldLeft(LAMBDA a, i : parse_step(a), [done |-> FALSE, rest |-> s, entries |-> <<>>],
             [i \in 1..(Len(s) + 1) |-> i]).entries

(* Display of an Entry.                                                     *)
entry_text(e) == IF e.value = None THEN e.key ELSE e.key \o <<EQUALS>> \o e.value

-----------------------------------------------------------------------------
(* BootConfigBuilder, in u32 units: a trailer of size, checksum and magic   *)
(* follows the text at all times.                                           *)
BOOTCONFIG_MAGIC == <<"#BOOTCONFIG", 0>>
BOOTCONFIG_TRAILER_SIZE == 3
Word == 2^8   \* stands for 2^32

checksum(s) == FoldLeft(LAMBDA a, v : (a + v[2]) % Word, 0, s)

update_trailer(b) ==
    [b EXCEPT !.trailer = <<<<"size", Len(b.text)>>, <<"sum", checksum(b.text)>>, BOOTCONFIG_MAGIC>>]

bootconfig_new(cap) ==
    IF cap < BOOTCONFIG_TRAILER_SIZE THEN [cap |-> cap, text |-> <<>>, trailer |-> <<>>, res |-> "BufferTooSmall"]
    ELSE update_trailer([cap |-> cap, text |-> <<>>, trailer |-> <<>>, res |-> "ok"])

bootconfig_remaining(b) == b.cap - Len(b.text) - BOOTCONFIG_TRAILER_SIZE

config_bytes(b) == b.text \o b.trailer

(* Mutant: the trailer is left as it was. *)
bootconfig_add_with_stale(b, read) ==
    IF Len(read) > bootconfig_remaining(b) THEN Fail(b, "BufferTooSmall")
    ELSE Then(b, LAMBDA x : [x EXCEPT !.text = @ \o read])

(* add_with() a reader that asks for more than remains if it must.          *)
bootconfig_add_with(b, read) ==
    IF Len(read) > bootconfig_remaining(b) THEN Fail(b, "BufferTooSmall")
    ELSE Then(b, LAMBDA x : update_trailer([x EXCEPT !.text = @ \o read]))

bootconfig_add(b, config) ==
    IF bootconfig_remaining(b) < Len(config) THEN Fail(b, "BufferTooSmall")
    ELSE bootconfig_add_with(b, config)

(* libxbc: the same section in memory the caller owns.  A section may have  *)
(* its trailer or not; the results are the memory and the units added.      *)
isTrailerPresent(mem, end) == end >= 1 /\ end =< Len(mem) /\ mem[end] = BOOTCONFIG_MAGIC

addBootConfigTrailer(mem, size) ==
    IF size = 0 \/ isTrailerPresent(mem, size) THEN [mem |-> mem, added |-> 0]
    ELSE [mem |-> Splice(mem, size, <<<<"size", size>>, <<"sum", checksum(Take(mem, size))>>, BOOTCONFIG_MAGIC>>),
          added |-> BOOTCONFIG_TRAILER_SIZE]

addBootConfigParameters(mem, params, size) ==
    LET old == IF isTrailerPresent(mem, size) THEN BOOTCONFIG_TRAILER_SIZE ELSE 0
        t == addBootConfigTrailer(Splice(mem, size - old, params), size - old + Len(params))
    IN  IF params = <<>> THEN [mem |-> mem, added |-> 0]
        ELSE [mem |-> t.mem, added |-> Len(params) - old + t.added]

-----------------------------------------------------------------------------
(* Compressed kernels.  A cell <<"z", n>> inflates to n cells of kernel.    *)
Inflate(z) == [i \in 1..z[2] |-> <<"K", i>>]

is_gzip_compressed(data) == data # <<>> /\ data[1] = <<"gz", 0>>
is_lz4_compressed(data) == data # <<>> /\ data[1] = <<"lz4", 0>>

(* LZ4BlocksIterator: blocks of a length and content, up to a length of 0;  *)
(* one that is cut off is an error.                                         *)
lz4_block(a) ==
    LET n == a.rest[1][2]
    IN  IF a.done \/ a.rest = <<>> \/ n = 0 THEN [a EXCEPT !.done = TRUE]
        ELSE IF Len(a.rest) - 1 < n THEN [a EXCEPT !.done = TRUE, !.res = "Other"]
        ELSE [a EXCEPT !.out = @ \o FlattenSeq([i \in 1..n |-> Inflate(a.rest[i + 1])]),
                       !.rest = Drop(@, n + 1)]

decompress_lz4(content) ==
    FoldLeft(LAMBDA a, i : lz4_block(a), [done |-> FALSE, res |-> "ok", out |-> <<>>, rest |-> content],
             [i \in 1..(Len(content) + 1) |-> i])

(* The cells of kernel, or an error if room is too small for them; only a   *)
(* gzip or plain kernel says how much it would need.                        *)
decompress_kernel(kernel, room) ==
    LET lz4 == decompress_lz4(Drop(kernel, 1))
        plain == IF is_gzip_compressed(kernel) THEN Inflate(kernel[2])
                 ELSE IF is_lz4_compressed(kernel) THEN lz4.out ELSE kernel
        err == IF is_lz4_compressed(kernel) THEN "Other" ELSE "BufferTooSmall"
    IN  IF is_lz4_compressed(kernel) /\ lz4.res # "ok" THEN [res |-> lz4.res, out |-> <<>>]
        ELSE IF Len(plain) > room THEN [res |-> err, out |-> <<>>]
        ELSE [res |-> "ok", out |-> plain]

-----------------------------------------------------------------------------
(* DtTableImage t: a header of count and place of the entries; an entry is  *)
(* offset and size of a tree in the image.                                  *)
DT_HEADER == 2
DT_ENTRY == 2

DtTable(count, at) == <<<<"dttable", count>>, <<"entries", at>>>>
DtEntry(off, size) == <<<<"off", off>>, <<"size", size>>>>

entries_count(t) == t[1][2]

dttable_from_bytes(t) ==
    CASE Len(t) < DT_HEADER -> "BufferTooSmall"
      [] Len(t) >= DT_HEADER /\ t[1][1] # "dttable" -> "BadMagic"
      [] Len(t) >= DT_HEADER /\ t[1][1] = "dttable" /\ t[2][2] + DT_ENTRY * t[1][2] > Len(t) -> "BufferTooSmall"
      [] OTHER -> "ok"

(* The tree of entry n, or an error if it does not lie in the image; the    *)
(* iterator over the entries unwraps it, which panics.                      *)
nth_entry(t, n) ==
    LET at == t[2][2] + n * DT_ENTRY
        off == t[at + 1][2]
        size == t[at + 2][2]
    IN  CASE n >= entries_count(t) -> [res |-> "BadIndex", dtb |-> <<>>]
          [] n < entries_count(t) /\ off + size > Len(t) -> [res |-> "BufferTooSmall", dtb |-> <<>>]
          [] OTHER -> [res |-> "ok", dtb |-> Bytes(t, off, size)]

=============================================================================
