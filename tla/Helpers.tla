------------------------------ MODULE Helpers -------------------------------
(***************************************************************************)
(* The helpers everything else is built on: checked arithmetic             *)
(* (libsafemath), the C functions of the third-party libraries (libc) and  *)
(* the buffer of an image (libgbl image_buffer.rs).  A machine word holds  *)
(* 0..MAX_WORD; a character is a number, as in C, and 0 ends a string.     *)
(***************************************************************************)
EXTENDS HandOff

MAX_WORD == WORD - 1

(* SafeNum: a word, or None once anything went wrong.                       *)
From(v) == IF v \in 0..MAX_WORD THEN v ELSE None
TryInto(x, max) == IF x = None THEN None ELSE IF x > max THEN None ELSE x

Checked(op, a, b) ==
    CASE op = "add" -> From(a + b)
      [] op = "sub" -> From(a - b)
      [] op = "mul" -> From(a * b)
      [] op = "div" -> IF b = 0 THEN None ELSE a \div b
      [] op = "rem" -> IF b = 0 THEN None ELSE a % b

Arith(op, a, b) == IF a = None THEN a ELSE IF b = None THEN b ELSE Checked(op, a, b)

num_round_down(a, k) == Arith("sub", a, Arith("rem", a, k))
num_round_up(a, k) == num_round_down(Arith("sub", Arith("add", a, k), 1), k)

-----------------------------------------------------------------------------
(* C memory, in bytes: a byte is the i-th one of some word, so that a word  *)
(* that was partly overwritten cannot be read as one.                       *)
WORD_BYTES == 4
POOL_ALIGNMENT == WORD_BYTES   \* EFI_ALLOCATE_POOL_ALIGNMENT, the 8 bytes of a word
PREFIX == 2 * WORD_BYTES       \* size and offset, kept below the address returned
Junk == <<None, 0>>

StoreWord(mem, a, v) == [x \in DOMAIN mem |-> IF x \in a..(a + WORD_BYTES - 1) THEN <<v, x - a>> ELSE mem[x]]
LoadWord(mem, a) == IF \A i \in 0..(WORD_BYTES - 1) : mem[a + i] = <<mem[a][1], i>> THEN mem[a][1] ELSE None

(* Mutant: room for the prefix, none for the way to an aligned address. *)
MallocSize_short(request, align) == Arith("add", request, PREFIX)

MallocSize(request, align) == Arith("add", request, Arith("add", align, PREFIX))

(* gbl_malloc(): the allocator is asked for memory of alignment 1 and puts  *)
(* the block at ptr.                                                        *)
gbl_malloc(m, request, align, ptr) ==
    LET size == MallocSize(request, align)
        ret == num_round_up(Arith("add", ptr, PREFIX), align)
    IN  IF size = None \/ ret = None THEN m
        ELSE [mem |-> StoreWord(StoreWord(m.mem, ret - PREFIX, size), ret - WORD_BYTES, ret - ptr),
              blocks |-> Append(m.blocks, [ret |-> ret, request |-> request, ptr |-> ptr, size |-> size])]

(* EfiAllocator::dealloc(): what goes to FreePool().  Over-aligned memory   *)
(* is taken to start where the word behind it says.                         *)
EfiDealloc(mem, ptr, size, align) ==
    IF align =< POOL_ALIGNMENT THEN ptr ELSE Arith("sub", ptr, LoadWord(mem, ptr + size))

(* gbl_free(): the memory is given back with the alignment of the caller.   *)
gbl_free(m, ret, align) ==
    IF ret = 0 THEN None
    ELSE LET ptr == Arith("sub", ret, LoadWord(m.mem, ret - WORD_BYTES))
             size == LoadWord(m.mem, ret - PREFIX)
         IN  IF ptr = None \/ size = None THEN None ELSE EfiDealloc(m.mem, ptr, size, align)

(* Strings: s is what lies behind a pointer, up to and with the null.       *)
memchr(s, ch, count) ==
    LET hits == {i \in 1..count : s[i] = ch % 256} IN IF hits = {} THEN None ELSE Min(hits) - 1
strnlen(s, max) == LET n == memchr(s, 0, max) IN IF n = None THEN max ELSE n
strlen(s) == Min({i \in DOMAIN s : s[i] = 0}) - 1
strchr(s, ch) == LET hits == {i \in 1..(strlen(s) + 1) : s[i] = ch} IN IF hits = {} THEN None ELSE Min(hits) - 1
strrchr(s, ch) == LET hits == {i \in 1..(strlen(s) + 1) : s[i] = ch} IN IF hits = {} THEN None ELSE Max(hits) - 1

Sign(a, b) == IF a < b THEN -1 ELSE IF a > b THEN 1 ELSE 0
strncmp(s, t, n) ==
    LET stops == {i \in 1..n : s[i] # t[i] \/ s[i] = 0}
    IN  IF stops = {} THEN 0 ELSE Sign(s[Min(stops)], t[Min(stops)])
strcmp(s, t) == strncmp(s, t, Max({strlen(s), strlen(t)}) + 1)

-----------------------------------------------------------------------------
(* strtoul() over the characters " ", "+", "-", "x" and digits "0".."f".    *)
Digit == [c \in {"0", "1", "7", "9", "a", "f"} |->
            CASE c = "0" -> 0 [] c = "1" -> 1 [] c = "7" -> 7 [] c = "9" -> 9 [] c = "a" -> 10 [] OTHER -> 15]
IsDigit(c, base) == IF c \in DOMAIN Digit THEN Digit[c] < base ELSE FALSE

strtoul(s, base0) ==
    LET blanks == TakeWhile(s, LAMBDA c : c = " ")
        sign == IF blanks < Len(s) /\ s[blanks + 1] \in {"+", "-"} THEN 1 ELSE 0
        negative == sign = 1 /\ s[blanks + 1] = "-"
        p == blanks + sign
        hex == base0 \in {16, 0} /\ p < Len(s) - 1 /\ s[p + 1] = "0" /\ s[p + 2] = "x"
        q == IF hex THEN p + 2 ELSE p
        base1 == IF hex THEN 16 ELSE base0
        oct == base1 \in {8, 0} /\ q < Len(s) /\ s[q + 1] = "0"
        r == IF oct THEN q + 1 ELSE q
        base == IF oct THEN 8 ELSE IF base1 = 0 THEN 10 ELSE base1
        n == TakeWhile(Drop(s, r), LAMBDA c : IsDigit(c, base))
        digits == Take(Drop(s, r), n)
        value == FoldLeft(LAMBDA a, c : Arith("add", Arith("mul", a, base), Digit[c]), 0, digits)
    IN  IF s = <<>> /\ base0 \in {0, 16} THEN [res |-> "panic"]      \* bytes.len() - 1
        ELSE [res |-> "ok", end |-> r + n,
              value |-> IF value = None THEN MAX_WORD ELSE IF negative THEN (WORD - value) % WORD ELSE value]

(* format.c: the digits of a number, cut off at the end of the buffer.      *)
DigitsOf[v \in Nat, base \in {8, 10, 16}] == IF v = 0 THEN <<>> ELSE Append(DigitsOf[v \div base, base], v % base)
Cut(s, room) == Take(s, Min({room, Len(s)}))
format_number_unsigned(v, room, base) == Cut(IF v = 0 THEN <<0>> ELSE DigitsOf[v, base], room)
format_number_signed(v, room) ==
    IF v < 0 THEN Cut(<<"-">>, room) \o format_number_unsigned(-v, IF room = 0 THEN 0 ELSE room - 1, 10)
    ELSE format_number_unsigned(v, room, 10)

-----------------------------------------------------------------------------
(* ImageBuffer: used bytes of a capacity.                                   *)
advance_used(b, len) ==
    IF Arith("add", b.used, len) = None THEN [b EXCEPT !.last = "Other"]
    ELSE IF b.used + len > b.cap THEN [b EXCEPT !.last = "BufferTooSmall"]
    ELSE [b EXCEPT !.used = @ + len, !.last = "ok"]
get_split(b) == [used |-> b.used, tail |-> b.cap - b.used]

-----------------------------------------------------------------------------
(* relocate_to_tail() of the Fuchsia boot: the kernel is copied behind the  *)
(* container of `used` units, at an aligned address, as a container of its  *)
(* own (a header and the item) with the memory it reserves after it.        *)
RelocationSize(j) == 1 + j.item + j.reserved

zircon_relocate_kernel(j, dest) ==
    LET rest == j.size - dest - 1 - j.item
    IN  IF (j.base + dest) % j.align # 0 THEN "InvalidAlignment"
        ELSE IF rest < 0 \/ j.reserved > rest THEN "BufferTooSmall" ELSE "ok"

relocate_to_tail(j) ==
    LET start == RoundUp(j.base + j.used, j.align) - j.base
        off == num_round_down(From(j.size - start - RelocationSize(j)), j.align)
    IN  IF start > j.size THEN [res |-> "BufferTooSmall"]
        ELSE IF off = None THEN [res |-> "Other"]
        ELSE [res |-> zircon_relocate_kernel(j, start + off), at |-> start + off]

(* GblAvbOps::read_from_partition(): an offset below 0 counts from the end. *)
avb_read_from_partition(size, offset, len) ==
    LET from == IF offset < 0 THEN Arith("sub", size, -offset) ELSE From(offset)
        rest == Arith("sub", size, from)
    IN  IF rest = None THEN [res |-> "RangeOutsidePartition"]
        ELSE [res |-> "ok", at |-> from, n |-> Min({len, rest})]

(* split_slotted(): a name is the words between its underscores; a suffix   *)
(* is a word of one character that is a slot.                               *)
split_slotted(name) ==
    IF Len(name) < 2 \/ Last(name) \notin {"a", "b", "r"} THEN None
    ELSE [base |-> Front(name), slot |-> Last(name)]

(* GblAvbOps::partition_size(), and get_size_of_partition(), where an image *)
(* loaded before for the slot comes first.                                  *)
avb_partition_size(parts, name) == IF name \in DOMAIN parts THEN parts[name] ELSE None
get_size_of_partition(j) ==
    LET s == split_slotted(j.name)
        base == CASE j.slot = None -> j.name
                  [] j.slot # None /\ s # None -> IF s.slot = j.slot THEN s.base ELSE None
                  [] OTHER -> None
    IN  IF base # None /\ base \in DOMAIN j.preloaded THEN [size |-> j.preloaded[base]]
        ELSE [size |-> avb_partition_size(j.parts, j.name)]

(* handle_verification_result(): the partition each version is taken from.  *)
handle_verification_result(parts) ==
    LET from(p) == IF p \in Range(parts) THEN p ELSE "vbmeta"
    IN  IF "vbmeta" \notin Range(parts) THEN [res |-> "NoSuchPartition"]
        ELSE [res |-> "ok", boot |-> from("boot"), system |-> from("vbmeta_system"), vendor |-> from("vbmeta_vendor")]

-----------------------------------------------------------------------------
(* The calls to check.                                                      *)
Ops == {"add", "sub", "mul", "div", "rem", "up", "down"}
ChainJobs == {[op |-> "chain", a |-> a, steps |-> s, max |-> x] :
                a \in {0, 1, 5, MAX_WORD - 1, MAX_WORD}, s \in [1..2 -> Ops \X {-1, 0, 1, 2, 4, MAX_WORD}], x \in {7, MAX_WORD}}

(* Two blocks of memory, as far apart as the allocator happens to put them. *)
MallocJobs == {[op |-> "malloc", req |-> r, align |-> k, ptr |-> <<q, q + MallocSize(r[1], k) + gap>>] :
                 r \in {<<0, 1>>, <<1, 1>>, <<3, 2>>, <<2, 0>>}, k \in {1, 2, 4, 8}, q \in 1..8, gap \in 0..1}

Strings == UNION {[1..n -> {1, 2}] : n \in 0..2}
StringJobs == {[op |-> "string", s |-> s, t |-> t, n |-> n, ch |-> c] : s, t \in Strings, n \in 0..3, c \in 0..2}

NumberTexts == UNION {[1..n -> {" ", "-", "x", "0", "9", "f"}] : n \in 0..3} \cup [1..4 -> {"-", "0", "1", "x"}]
NumberJobs == {[op |-> "number", s |-> s, base |-> b] : s \in NumberTexts, b \in {0, 8, 10, 16}}
FormatJobs == {[op |-> "format", v |-> v, room |-> r, base |-> b] : v \in -12..12, r \in 0..3, b \in {8, 10, 16}}

UsedJobs == {[op |-> "used", cap |-> c, lens |-> l] : c \in {0, 3, MAX_WORD - 1}, l \in [1..3 -> {0, 1, 2, MAX_WORD - 3}]}

RelocateJobs == {[op |-> "to_tail", base |-> b, size |-> n, used |-> u, item |-> 2, reserved |-> r, align |-> 4] :
                   b \in 0..3, n \in 4..14, u \in 2..4, r \in 0..3}
SlotParts == <<"k", "a">> :> 1 @@ <<"k", "b">> :> 2 @@ <<"k">> :> 3
Preloaded == <<"k">> :> 4
AvbJobs == {[op |-> "avb", size |-> n, offset |-> o, len |-> l] : n \in 0..4, o \in -5..5, l \in 0..5}
           \cup {[op |-> "avb_size", slot |-> s, name |-> n, parts |-> SlotParts, preloaded |-> Preloaded] :
                   s \in {None, "a", "b"}, n \in {<<"k">>, <<"k", "a">>, <<"k", "b">>, <<"k", "c">>, <<"k", "a", "a">>}}
           \cup {[op |-> "versions", parts |-> p] :
                    p \in UNION {[1..n -> {"vbmeta", "boot", "vbmeta_system", "vbmeta_vendor", "dtbo"}] : n \in 0..3}}

HelperOps == {"chain", "malloc", "string", "number", "format", "used", "to_tail", "avb", "avb_size", "versions"}

Step(a, s) ==
    CASE s[1] = "up"   -> num_round_up(a, From(s[2]))
      [] s[1] = "down" -> num_round_down(a, From(s[2]))
      [] OTHER         -> Arith(s[1], a, From(s[2]))

Ended(s) == s \o <<0, 0, 0, 0>>

HelperPerform(j) ==
    CASE j.op = "chain" -> [num |-> TryInto(FoldLeft(Step, j.a, j.steps), j.max)]
      [] j.op = "malloc" -> gbl_malloc(gbl_malloc([mem |-> [a \in 0..MAX_WORD |-> Junk], blocks |-> <<>>], j.req[1], j.align, j.ptr[1]),
                                       j.req[2], j.align, j.ptr[2])
      [] j.op = "string" -> [nlen |-> strnlen(Ended(j.s), j.n), chr |-> strchr(Ended(j.s), j.ch), rchr |-> strrchr(Ended(j.s), j.ch),
                             ncmp |-> strncmp(Ended(j.s), Ended(j.t), j.n), cmp |-> strcmp(Ended(j.s), Ended(j.t))]
      [] j.op = "number" -> strtoul(j.s, j.base)
      [] j.op = "format" -> [u |-> format_number_unsigned(IF j.v < 0 THEN 0 ELSE j.v, j.room, j.base), s |-> format_number_signed(j.v, j.room)]
      [] j.op = "used" -> get_split(FoldLeft(advance_used, [cap |-> j.cap, used |-> 0, last |-> "ok"], j.lens))
      [] j.op = "to_tail" -> relocate_to_tail(j)
      [] j.op = "avb" -> avb_read_from_partition(j.size, j.offset, j.len)
      [] j.op = "avb_size" -> get_size_of_partition(j)
      [] j.op = "versions" -> handle_verification_result(j.parts)

-----------------------------------------------------------------------------
(* Exact integers, for comparison: None where no integer or no word is      *)
(* meant.  Rounding up may give up where its sum does not fit.              *)
Exact(a, s) ==
    LET k == s[2]
    IN  IF a = None THEN a
        ELSE IF k < 0 \/ (k = 0 /\ s[1] \in {"div", "rem", "up", "down"}) THEN None
        ELSE LET v == CASE s[1] = "add" -> a + k
                        [] s[1] = "sub" -> a - k
                        [] s[1] = "mul" -> a * k
                        [] s[1] = "div" -> CHOOSE q \in 0..a : q * k =< a /\ a < (q + 1) * k
                        [] s[1] = "rem" -> CHOOSE m \in 0..(k - 1) : \E q \in 0..a : q * k + m = a
                        [] s[1] = "up"  -> IF a + k > MAX_WORD THEN -1 ELSE CHOOSE u \in a..(a + k - 1) : \E q \in 0..u : u = q * k
                        [] OTHER        -> CHOOSE u \in 0..a : u + k > a /\ \E q \in 0..a : u = q * k
             IN  IF v \in 0..MAX_WORD THEN v ELSE None

(* The memory after every caller has written all of its own.                *)
Filled(o) ==
    [o EXCEPT !.mem = [a \in DOMAIN @ |->
       IF \E i \in DOMAIN o.blocks : a \in o.blocks[i].ret..(o.blocks[i].ret + o.blocks[i].request - 1) THEN Junk ELSE @[a]]]

Freed(j, o) == \A i \in DOMAIN o.blocks : gbl_free(Filled(o), o.blocks[i].ret, j.align) = o.blocks[i].ptr

(* Memory is aligned and lies, with what is kept below it, inside its own   *)
(* block; a free gives back the block the allocator gave, if the alignment  *)
(* is one the EFI pool has by itself.                                       *)
MallocRight(j, o) ==
    /\ \A i \in DOMAIN o.blocks :
          LET b == o.blocks[i]
          IN  b.ret % j.align = 0 /\ b.ptr =< b.ret - PREFIX /\ b.ret + b.request =< b.ptr + b.size
    /\ j.align =< POOL_ALIGNMENT => Freed(j, o)

StringRight(j, o) ==
    LET common == {k \in 0..Min({Len(j.s), Len(j.t)}) : \A i \in 1..k : j.s[i] = j.t[i]}
        first(n) == Min({Max(common) + 1, n})
        order(n) == IF Max(common) >= n THEN 0 ELSE Sign(Ended(j.s)[first(n)], Ended(j.t)[first(n)])
    IN  /\ o.nlen = Min({j.n, Len(j.s)})
        /\ o.ncmp = order(j.n) /\ o.cmp = order(3)
        /\ IF j.ch \in Range(j.s) \cup {0} THEN Ended(j.s)[o.chr + 1] = j.ch /\ o.chr =< o.rchr /\ o.rchr =< Len(j.s)
           ELSE o.chr = None /\ o.rchr = None

(* What C's strtoul() answers: value, and the place behind the number, the  *)
(* start if there is none.                                                  *)
CNumber(s, base0) ==
    LET blanks == TakeWhile(s, LAMBDA c : c = " ")
        p == blanks + (IF blanks < Len(s) /\ s[blanks + 1] = "-" THEN 1 ELSE 0)
        rest == Drop(s, p)
        hex == base0 \in {0, 16} /\ Len(rest) > 2 /\ Take(rest, 2) = <<"0", "x">> /\ IsDigit(rest[3], 16)
        base == CASE hex -> 16
                  [] ~hex /\ base0 = 0 -> IF rest # <<>> /\ rest[1] = "0" THEN 8 ELSE 10
                  [] OTHER -> base0
        text == IF hex THEN Drop(rest, 2) ELSE rest
        n == TakeWhile(text, LAMBDA c : IsDigit(c, base))
        exact == FoldLeft(LAMBDA a, c : a * base + Digit[c], 0, Take(text, n))
    IN  [value |-> CASE exact > MAX_WORD -> MAX_WORD
                     [] exact =< MAX_WORD /\ p > blanks -> (WORD - exact) % WORD
                     [] OTHER -> exact,
         end |-> IF n = 0 THEN 0 ELSE Len(s) - Len(text) + n]

(* The value is C's for every text but the empty one, the end too where     *)
(* there is a number that is not just the "0" of a "0x".                    *)
NumberRight(j, o) ==
    LET c == CNumber(j.s, j.base)
    IN  IF o.res = "panic" THEN j.s = <<>>
        ELSE o.value = c.value /\ (c.end # 0 /\ o.end # c.end => Take(Drop(j.s, c.end - 1), 2) = <<"0", "x">>)

(* The digits are those of the number, the first of them if room is short.  *)
FormatRight(j, o) ==
    LET whole == format_number_unsigned(j.v, 9, j.base)
    IN  /\ j.v >= 0 => /\ FoldLeft(LAMBDA a, d : a * j.base + d, 0, whole) = j.v
                       /\ o.u = Cut(whole, j.room) /\ (whole[1] = 0 => j.v = 0)
        /\ Len(o.s) =< j.room /\ (j.v < 0 /\ j.room > 0 => o.s[1] = "-")

(* The copy lies clear of the original and its reserved memory inside the   *)
(* buffer, and is refused only when no aligned place would do.              *)
RelocateRight(j, o) ==
    LET places == {d \in j.used..j.size : (j.base + d) % j.align = 0 /\ d + RelocationSize(j) =< j.size}
    IN  IF o.res = "ok" THEN o.at \in places ELSE places = {}

(* What is read is what lies at that place of the partition, all of it that *)
(* there is and fits.                                                       *)
AvbRight(j, o) ==
    LET at == IF j.offset < 0 THEN j.size + j.offset ELSE j.offset
    IN  IF at \in 0..j.size THEN o = [res |-> "ok", at |-> at, n |-> Min({j.len, j.size - at})]
        ELSE o.res = "RangeOutsidePartition"

HelperRight(j, o) ==
    CASE j.op = "chain" -> o.num = TryInto(FoldLeft(Exact, j.a, j.steps), j.max)
      [] j.op = "malloc" -> MallocRight(j, o)
      [] j.op = "string" -> StringRight(j, o)
      [] j.op = "number" -> NumberRight(j, o)
      [] j.op = "format" -> FormatRight(j, o)
      [] j.op = "used" -> /\ o.used + o.tail = j.cap
                          /\ \E S \in SUBSET DOMAIN j.lens : o.used = FoldSet(LAMBDA i, a : a + j.lens[i], 0, S)
                                 /\ \A i \in DOMAIN j.lens \ S : o.used + j.lens[i] > j.cap
      [] j.op = "to_tail" -> RelocateRight(j, o)
      [] j.op = "avb" -> AvbRight(j, o)
      [] j.op = "avb_size" ->   \* an image stands for the partition of its own slot only
           o.size = IF j.name = <<"k">> \o (IF j.slot = None THEN <<>> ELSE <<j.slot>>) THEN 4
                    ELSE IF j.name \in DOMAIN j.parts THEN j.parts[j.name] ELSE None
      [] j.op = "versions" -> IF \E i \in DOMAIN j.parts : j.parts[i] = "vbmeta"
                              THEN {o.boot, o.system, o.vendor} \subseteq {j.parts[i] : i \in DOMAIN j.parts}
                              ELSE o.res = "NoSuchPartition"
=============================================================================
