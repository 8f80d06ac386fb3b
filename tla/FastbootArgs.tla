---------------------------- MODULE FastbootArgs ----------------------------
(***************************************************************************)
(* What fastboot commands are given and asked for: partition arguments     *)
(* (libgbl fastboot/mod.rs), variables (fastboot/vars.rs), files staged    *)
(* for Zircon and the images of "fastboot boot".  A word is a sequence of  *)
(* symbols, a partition argument the sequence of words between its         *)
(* slashes; disks[1] is disk 0.  A disk has, besides its table, bs, the    *)
(* block size, and busy, whether an IO is under way.                       *)
(***************************************************************************)
EXTENDS Helpers

HexDigits == <<"0", "1", "2", "3", "4", "5", "6", "7", "8", "9", "a", "b", "c", "d", "e", "f">>
MAX_U64 == 255

(* Formatting: {:x} and {:#x}.                                              *)
hex(n) == IF n < 16 THEN <<HexDigits[n + 1]>> ELSE <<HexDigits[(n \div 16) + 1], HexDigits[(n % 16) + 1]>>
prefixed_hex(n) == <<"0x">> \o hex(n)

Some(v) == [err |-> FALSE, v |-> v]
Refused == [err |-> TRUE, v |-> None]
IfOk(r, Rest(_)) == IF r.err THEN r ELSE Rest(r.v)

(* hex_to_u64(): Rust's number parser also takes a plus sign.               *)
hex_to_u64(word) ==
    LET strip(w, sym) == IF w # <<>> /\ w[1] = sym THEN Tail(w) ELSE w
        digits == strip(strip(word, "0x"), "+")
        value == FoldLeft(LAMBDA a, d : Min({16 * a + IndexFirstSubSeq(<<d>>, HexDigits) - 1, MAX_U64 + 1}), 0, digits)
    IN  IF digits = <<>> \/ \E i \in DOMAIN digits : digits[i] \notin Range(HexDigits) THEN Refused
        ELSE IF value > MAX_U64 THEN Refused ELSE Some(value)

next_arg(args, i) == IF i > Len(args) THEN None ELSE IF args[i] = <<>> THEN None ELSE args[i]
next_arg_u64(args, i) == IF next_arg(args, i) = None THEN Some(None) ELSE hex_to_u64(next_arg(args, i))

check_next_arg_blk_id(fb, args, i) ==
    IfOk(next_arg_u64(args, i), LAMBDA v :
        CASE v # None -> IF v < Len(fb.disks) THEN Some(v) ELSE Refused
          [] v = None /\ fb.default # None -> Some(fb.default)
          [] OTHER -> Some(IF Len(fb.disks) = 1 THEN 0 ELSE None))

(* None in Some() is Ok(None): not a GPT command.                           *)
parse_flash_gpt_args(fb, args) ==
    IF next_arg(args, 1) # <<"gpt">> THEN Some(None)
    ELSE IfOk(check_next_arg_blk_id(fb, args, 2), LAMBDA blk :
           IF blk = None \/ next_arg(args, 3) \notin {None, <<"resize">>} THEN Refused
           ELSE Some([blk |-> blk, resize |-> next_arg(args, 3) = <<"resize">>]))

(* The closure find(): which disk a name is on, or why there is none.       *)
find(fb, blk, part) ==
    LET on(i) == find_partition(fb.disks[i], part) # None
    IN  CASE blk # None -> IF on(blk + 1) THEN [res |-> "ok", blk |-> blk] ELSE [res |-> "NotFound"]
          [] blk = None /\ part = None -> [res |-> "Other"]
          [] OTHER -> LET res == check_part_unique(fb.disks, part)
                      IN  IF res = "ok" THEN [res |-> res, blk |-> CHOOSE i \in 0..(Len(fb.disks) - 1) : on(i + 1)]
                          ELSE [res |-> res]

(* part_sz - window_size - window_offset is a u64.                          *)
window_fits(part_sz, off, size) == part_sz - size - off >= 0

parse_partition(fb, args) ==
    LET part == next_arg(args, 1)
    IN  IfOk(check_next_arg_blk_id(fb, args, 2), LAMBDA blk :
        IfOk(next_arg_u64(args, 3), LAMBDA window_offset :
        IfOk(next_arg_u64(args, 4), LAMBDA window_size :
           LET first == find(fb, blk, part)
               legacy == first.res = "NotFound" /\ part = <<"fvm">>
               actual == IF legacy THEN <<"fuchsia-fvm">> ELSE part
               found == IF legacy THEN find(fb, blk, actual) ELSE first
               off == IF window_offset = None THEN 0 ELSE window_offset
               part_sz == partition_size(find_partition(fb.disks[found.blk + 1], actual))
               size == IF window_size = None THEN part_sz - off ELSE window_size
           IN  IF found.res # "ok" THEN Refused
               ELSE IF off > part_sz \/ ~window_fits(part_sz, off, size) THEN Refused
               ELSE Some([part |-> actual, blk |-> found.blk, off |-> off, size |-> size]))))

(* parse_and_get_partition_io(), once the disk is ready: what a command     *)
(* works on.                                                                *)
parse_and_get_partition_io(fb, args) ==
    IfOk(parse_partition(fb, args), LAMBDA p :
        LET io == sub(find_partition(fb.disks[p.blk + 1], p.part), p.off, p.size)
        IN  IF io = None THEN Refused ELSE Some([blk |-> p.blk, io |-> io]))

-----------------------------------------------------------------------------
(* Variables: an argument of getvar is a partition argument or one word.    *)
OneWord(arg) == IF Len(arg) = 1 THEN arg[1] ELSE <<"/">>
Panicked == [err |-> TRUE, v |-> "panic"]

get_var_partition_size(fb, args) ==
    IF args = <<>> THEN Refused
    ELSE IfOk(parse_partition(fb, args[1]), LAMBDA p : Some(prefixed_hex(p.size)))

get_var_partition_type(fb, args) ==
    IF args = <<>> THEN Refused ELSE IfOk(parse_partition(fb, args[1]), LAMBDA p : Some(<<"raw">>))

(* The values of a disk; status() is to_str() of BlockStatus.               *)
BlockValues(disk) ==
    <<"total-blocks">> :> prefixed_hex(disk.total \div disk.bs) @@ <<"block-size">> :> prefixed_hex(disk.bs)
    @@ <<"status">> :> (IF disk.busy THEN <<"IO pending">> ELSE <<"idle">>)

(* The index into the disks is not checked.                                 *)
get_var_block_device(fb, args) ==
    LET words == [i \in DOMAIN args |-> OneWord(args[i])]
        type == next_arg(words, 2)
    IN  IfOk(next_arg_u64(words, 1), LAMBDA id :
           CASE id = None \/ type = None -> Refused
             [] id # None /\ type # None /\ id >= Len(fb.disks) -> Panicked
             [] OTHER -> LET values == BlockValues(fb.disks[id + 1])
                         IN  IF type \in DOMAIN values THEN Some(values[type]) ELSE Refused)

get_var_default_block(fb) == IF fb.default = None THEN <<"None">> ELSE prefixed_hex(fb.default)

VERSION_BOOTLOADER_VAL == <<"1.0">>
MAX_FETCH_SIZE_VAL == <<"0x", "f", "f">>

(* fb.platform: the variables of the platform (external), without arguments.*)
get_var_internal(fb, name, args) ==
    CASE name = "version-bootloader" -> Some(VERSION_BOOTLOADER_VAL)
      [] name = "max-fetch-size"     -> Some(MAX_FETCH_SIZE_VAL)
      [] name = "partition-size"     -> get_var_partition_size(fb, args)
      [] name = "partition-type"     -> get_var_partition_type(fb, args)
      [] name = "block-device"       -> get_var_block_device(fb, args)
      [] name = "gbl-default-block"  -> Some(get_var_default_block(fb))
      [] OTHER -> IF name \in DOMAIN fb.platform THEN Some(fb.platform[name]) ELSE Refused

(* Mutant: every partition is listed without its disk. *)
get_all_partition_size_type_plain(fb, i) ==
    LET line(part, name) == [name |-> name, args |-> <<<<part>>>>,
              val |-> IF name = "partition-type" THEN <<"raw">>
                      ELSE prefixed_hex(partition_size(find_partition(fb.disks[i], part)))]
    IN  FlattenSeq([k \in 1..Cardinality(DOMAIN fb.disks[i].parts) |->
            LET part == SetToSeq(DOMAIN fb.disks[i].parts)[k]
            IN  <<line(part, "partition-size"), line(part, "partition-type")>>])

(* The lines of "getvar all" for disk i.                                    *)
get_all_partition_size_type(fb, i) ==
    LET line(part, name) == [name |-> name, args |-> <<<<part, hex(i - 1)>>>>,
              val |-> IF name = "partition-type" THEN <<"raw">>
                      ELSE prefixed_hex(partition_size(find_partition(fb.disks[i], part)))]
    IN  FlattenSeq([k \in 1..Cardinality(DOMAIN fb.disks[i].parts) |->
            LET part == SetToSeq(DOMAIN fb.disks[i].parts)[k]
            IN  <<line(part, "partition-size"), line(part, "partition-type")>>])

get_all_block_device(fb, i) ==
    LET types == <<<<"total-blocks">>, <<"block-size">>, <<"status">>>>
    IN  [k \in 1..3 |-> [name |-> "block-device", args |-> <<<<hex(i - 1)>>, <<types[k]>>>>,
                         val |-> BlockValues(fb.disks[i])[types[k]]]]

get_var_all_internal(fb) ==
    LET plain(name, val) == [name |-> name, args |-> <<>>, val |-> val]
        each(Lines(_)) == FlattenSeq([i \in DOMAIN fb.disks |-> Lines(i)])
        names == SetToSeq(DOMAIN fb.platform)
    IN  <<plain("version-bootloader", VERSION_BOOTLOADER_VAL), plain("max-fetch-size", MAX_FETCH_SIZE_VAL)>>
        \o each(LAMBDA i : get_all_block_device(fb, i)) \o <<plain("gbl-default-block", get_var_default_block(fb))>>
        \o each(LAMBDA i : get_all_partition_size_type(fb, i))
        \o [k \in DOMAIN names |-> plain(names[k], fb.platform[names[k]])]

-----------------------------------------------------------------------------
(* add_staged_bootloader_file(): a name length of one byte, the name and    *)
(* the file, in one item of the container.                                  *)
add_staged_bootloader_file(z, name, data) ==
    LET room == get_next_payload(z)
        size == 1 + name.len + data.len
    IN  IF room < size \/ name.len > 255 THEN z
        ELSE create_entry(z, [name |-> name, data |-> data], size)

(* split_loaded_android(): off.. and len.. of the parts of a buffer of n.   *)
split_loaded_android(info, n) ==
    LET take(rest, skip, len) ==
          IF rest.n = None THEN rest
          ELSE IF skip < 0 \/ skip + len > rest.n THEN [rest EXCEPT !.n = None]
          ELSE [off |-> rest.off + skip + len, n |-> rest.n - skip - len,
                parts |-> Append(rest.parts, [off |-> rest.off + skip, n |-> len])]
        ramdisk == take([off |-> 0, n |-> n, parts |-> <<>>], info.ramdisk.off, info.ramdisk.n)
        fdt == take(ramdisk, info.fdt.off - (info.ramdisk.off + info.ramdisk.n), info.fdt.n)
    IN  take(fdt, info.kernel.off - (info.fdt.off + info.fdt.n), info.kernel.n)

-----------------------------------------------------------------------------
(* Jobs and what is right about them.                                       *)
At8(parts) == [table |-> "gpt", parts |-> parts, total |-> 24, bs |-> 4, busy |-> FALSE]
Whole(name) == [table |-> "raw", parts |-> [p \in {name} |-> None], total |-> 17, bs |-> 1, busy |-> TRUE]
Ranges == [start |-> 4, end |-> 10]
Sets == {<<At8(<<"fvm">> :> Ranges @@ <<"a">> :> [start |-> 10, end |-> 24])>>,
         <<At8(<<"fuchsia-fvm">> :> Ranges @@ <<"gpt">> :> [start |-> 12, end |-> 12]), Whole(<<"a">>)>>,
         <<At8(<<"a">> :> Ranges), Whole(<<"a">>), Whole(<<"fvm">>)>>}
Fbs == {[disks |-> ds, default |-> d, platform |-> p] :
          ds \in Sets, d \in {None, 0}, p \in {"serial" :> <<"s">>, <<>>}}

Names4 == {<<>>, <<"a">>, <<"fvm">>, <<"gpt">>}
Numbers4 == {<<>>, <<"0">>, <<"0x", "2">>, <<"7">>, <<"1", "1">>, <<"f", "f", "f">>, <<"0x">>, <<"resize">>}
ArgJobs ==
    {[op |-> "partition", fb |-> fb, args |-> args] :
       fb \in {x \in Fbs : x.platform = <<>>},
       args \in {<<p>> : p \in Names4} \cup {<<p, b>> : p \in Names4, b \in Numbers4}
                \cup {<<p, b, o>> : p \in Names4, b \in Numbers4, o \in Numbers4}
                \cup {<<p, b, o, s>> : p \in Names4, b \in {<<>>, <<"0">>}, o \in Numbers4, s \in Numbers4}}
VarJobs ==
    {[op |-> "getvar_all", fb |-> fb] : fb \in Fbs}
    \cup {[op |-> "block_device", fb |-> fb, args |-> args] : fb \in Fbs,
            args \in {<<>>} \cup {<<<<w>>>> : w \in Numbers4} \cup {<<<<w>>, <<t>>>> : w \in Numbers4, t \in {<<"status">>, <<"size">>, <<>>}}}
StagedFiles == [name : {[id |-> 1, len |-> 3], [id |-> 2, len |-> 0], [id |-> 3, len |-> 256]}, data : {[id |-> 4, len |-> 5]}]
StagedJobs == {[op |-> "staged", left |-> left, files |-> fs] : left \in {4, 12, 13, 14, 20, 26, 300}, fs \in UNION {[1..n -> StagedFiles] : n \in 0..3}}
LoadedInfos == {[ramdisk |-> [off |-> r, n |-> a], fdt |-> [off |-> f, n |-> b], kernel |-> [off |-> k, n |-> c]] :
                  r \in 0..1, a \in 0..2, f \in 0..3, b \in 0..2, k \in 0..6, c \in 0..3}
SplitJobs == {[op |-> "split", n |-> n, info |-> i] : n \in {6, 9}, i \in LoadedInfos}

ArgOps == {"partition", "getvar_all", "block_device", "staged", "split"}

ArgPerform(j) ==
    CASE j.op = "partition" -> [io |-> parse_and_get_partition_io(j.fb, j.args), gpt |-> parse_flash_gpt_args(j.fb, j.args)]
      [] j.op = "getvar_all" -> [lines |-> get_var_all_internal(j.fb)]
      [] j.op = "block_device" -> get_var_internal(j.fb, "block-device", j.args)
      [] j.op = "staged" -> FoldLeft(LAMBDA z, f : add_staged_bootloader_file(z, f.name, f.data), [left |-> j.left, items |-> <<>>], j.files)
      [] j.op = "split" -> split_loaded_android(j.info, j.n)

(* The window an argument means: of the only partition of that name, or of  *)
(* the legacy one where it is missing, on the disks it allows.              *)
Meant(fb, args) ==
    LET word(i) == IF i > Len(args) THEN <<>> ELSE args[i]
        number(i) == hex_to_u64(word(i)).v
        ids == 0..(Len(fb.disks) - 1)
        disks == CASE word(2) # <<>> -> ids \cap {number(2)}
                   [] word(2) = <<>> /\ fb.default # None -> {fb.default}
                   [] OTHER -> ids
        named(name) == {i \in disks : name \in DOMAIN fb.disks[i + 1].parts}
        name == IF word(1) = <<"fvm">> /\ named(word(1)) = {} THEN <<"fuchsia-fvm">> ELSE word(1)
        range(i) == find_partition(fb.disks[i + 1], IF name = <<>> THEN None ELSE name)
        off == IF word(3) = <<>> THEN 0 ELSE number(3)
        window(r) == [start |-> r.start + off, end |-> IF word(4) = <<>> THEN r.end ELSE r.start + off + number(4)]
        on == IF name = <<>> THEN disks ELSE named(name)
        fits(r) == window(r).start =< window(r).end /\ window(r).end =< r.end
    IN  IF Cardinality(on) # 1 \/ \E i \in 3..Len(args) : word(i) # <<>> /\ hex_to_u64(word(i)).err THEN {}
        ELSE {[blk |-> i, io |-> window(range(i))] : i \in {x \in on : fits(range(x))}}

ArgRight(j, o) ==
    CASE j.op = "partition" ->
           /\ Meant(j.fb, j.args) = IF o.io.err THEN {} ELSE {o.io.v}
           /\ ~o.gpt.err /\ o.gpt.v # None => j.args[1] = <<"gpt">> /\ o.gpt.v.blk < Len(j.fb.disks)
      [] j.op = "getvar_all" ->
           /\ \A l \in Range(o.lines) : get_var_internal(j.fb, l.name, l.args) = Some(l.val)
           /\ \A i, k \in DOMAIN o.lines : i # k => o.lines[i].name # o.lines[k].name \/ o.lines[i].args # o.lines[k].args
           /\ \A i \in DOMAIN j.fb.disks : \A p \in DOMAIN j.fb.disks[i].parts :
                 \E l \in Range(o.lines) : l.name = "partition-size" /\ l.args = <<<<p, hex(i - 1)>>>>
      [] j.op = "block_device" -> o = Panicked => hex_to_u64(OneWord(j.args[1])).v >= Len(j.fb.disks)
      [] j.op = "staged" ->
           LET sized(f) == ZBI_HEADER + 1 + f.name.len + f.data.len
           IN  /\ o.left = j.left - FoldLeft(LAMBDA s, f : s + sized(f), 0, o.items) /\ o.left >= 0
               /\ \E kept \in SUBSET DOMAIN j.files :
                     /\ [k \in 1..Cardinality(kept) |-> j.files[SetToSortSeq(kept, <)[k]]] = o.items
                     /\ \A k \in DOMAIN j.files \ kept : j.files[k].name.len > 255 \/ o.left < sized(j.files[k])
                                                         \/ \E i \in kept : i > k
      [] j.op = "split" ->
           LET parts == <<j.info.ramdisk, j.info.fdt, j.info.kernel>>
               apart == \A i \in 1..2 : parts[i].off + parts[i].n =< parts[i + 1].off
           IN  IF apart /\ parts[3].off + parts[3].n =< j.n
               THEN o.parts = parts /\ o.off = parts[3].off + parts[3].n /\ o.off + o.n = j.n
               ELSE o.n = None
=============================================================================
