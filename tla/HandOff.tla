------------------------------ MODULE HandOff -------------------------------
(***************************************************************************)
(* What GBL leaves behind for the kernel: the memory tables made from the  *)
(* firmware's map (efi/fuchsia_boot.rs, android_boot.rs, utils.rs), the    *)
(* start of a kernel on x86, AArch64 and RISC-V (libboot), and GBL's own   *)
(* relocation at entry (libelf).  Addresses count pages in the memory      *)
(* tables and cells of memory elsewhere.                                   *)
(***************************************************************************)
EXTENDS BootLayout

RUNTIME == "runtime"

(* EfiMemoryDescriptor takes DESC cells; a map may keep its descriptors     *)
(* further apart, at a stride the firmware tells.                           *)
DESC == 5
Region(type, start, pages, attr) == [type |-> type, start |-> start, pages |-> pages, attr |-> attr]
DescCells(d, stride) == <<d.type, d.start, 0, d.pages, d.attr>> \o [i \in 1..(stride - DESC) |-> 0]
Desc(buf, off) == Region(buf[off + 1], buf[off + 2], buf[off + 4], buf[off + 5])

(* EfiMemoryMap: the firmware fills its buffer with whole descriptors.      *)
MapLen(map) == Len(map.buf) \div map.stride
MapItems(map) == [i \in 1..MapLen(map) |-> Desc(map.buf, (i - 1) * map.stride)]

(* get_efi_mem_attr(): the first table of the configuration that is one.    *)
TableNew(t) == IF t.guid = "EMAT" THEN [count |-> t.count, stride |-> t.stride, tail |-> Take(t.cells, t.count * t.stride)] ELSE None
get_efi_mem_attr(tables) ==
    LET found == SelectSeq(tables, LAMBDA t : TableNew(t) # None)
    IN  IF found = <<>> THEN None ELSE TableNew(found[1])
TableItems(emat) == [i \in 1..(Len(emat.tail) \div emat.stride) |-> Desc(emat.tail, (i - 1) * emat.stride)]

-----------------------------------------------------------------------------
(* ZbiContainer (external): left cells for further items and their headers. *)
ZBI_HEADER == 4
get_next_payload(z) == z.left - ZBI_HEADER
create_entry(z, item, used) == [z EXCEPT !.left = @ - ZBI_HEADER - used, !.items = Append(@, item)]

(* w collects the regions of one table; base and size are what remains of   *)
(* the descriptor at hand.                                                  *)
Emit(w, r, n) ==
    IF ~Ok(w) \/ w.left < DESC THEN Fail(w, "BufferTooSmall")
    ELSE [w EXCEPT !.left = @ - DESC, !.regions = Append(@, r), !.base = @ + n, !.size = @ - n]

(* Mutant: base stays where it was. *)
EmatItem_stuck(w, item) ==
    IF item.start > w.base
    THEN [Emit(w, Region(item.type, w.base, item.start - w.base, {RUNTIME}), item.start - w.base) EXCEPT !.base = w.base]
    ELSE Emit(w, item, item.pages)

(* A gap before the item becomes a region, or else the item does.           *)
EmatItem(w, item) ==
    IF item.start > w.base
    THEN Emit(w, Region(item.type, w.base, item.start - w.base, {RUNTIME}), item.start - w.base)
    ELSE Emit(w, item, item.pages)

(* One descriptor of the memory map: skip_while() and take_while() keep the *)
(* base and size from before the loop.                                      *)
RuntimeRegions(w, emat, d) ==
    LET skipped == Drop(TableItems(emat), TakeWhile(TableItems(emat), LAMBDA i : i.start < d.start))
        taken == Take(skipped, TakeWhile(skipped, LAMBDA i : i.start < d.start + d.pages))
        last == FoldLeft(EmatItem, [w EXCEPT !.base = d.start, !.size = d.pages], taken)
    IN  IF RUNTIME \notin d.attr THEN w
        ELSE IF Ok(last) /\ last.size # 0 THEN Emit(last, Region(d.type, last.base, last.size, {RUNTIME}), last.size)
        ELSE last

EMAT_HEADER == 2
generate_efi_memory_attributes_table_item(z, map, emat) ==
    LET payload == get_next_payload(z)
        w == FoldLeft(LAMBDA a, d : RuntimeRegions(a, emat, d),
                      [left |-> payload - EMAT_HEADER, regions |-> <<>>, base |-> 0, size |-> 0, res |-> "ok"], MapItems(map))
        used == payload - w.left
    IN  CASE payload < 0 -> Fail(z, "TooBig")
          [] payload >= 0 /\ payload < EMAT_HEADER -> Fail(z, "BadBufferSize")
          [] payload >= EMAT_HEADER /\ ~Ok(w) -> Fail(z, w.res)
          [] OTHER -> create_entry(z, [type |-> "EMAT", count |-> used \div DESC, regions |-> w.regions], used)

Usable == {"LOADER_CODE", "LOADER_DATA", "BOOT_SERVICES_CODE", "BOOT_SERVICES_DATA", "CONVENTIONAL"}
efi_to_zbi_mem_range_type(t) == IF t \in Usable THEN "RAM" ELSE "RESERVED"

MEM_RANGE == 3
generate_mem_config_item(z, map) ==
    LET payload == get_next_payload(z)
        used == MEM_RANGE * MapLen(map)
        range(d) == [paddr |-> d.start, length |-> d.pages, type |-> efi_to_zbi_mem_range_type(d.type)]
    IN  CASE payload < 0 -> Fail(z, "TooBig")
          [] payload >= 0 /\ payload < used -> Fail(z, "BufferTooSmall")
          [] OTHER -> create_entry(z, [type |-> "MEM_CONFIG", ranges |-> [i \in 1..MapLen(map) |-> range(MapItems(map)[i])]], used)

add_memory_items(z, map, emat) ==
    Then(generate_efi_memory_attributes_table_item(z, map, emat), LAMBDA x : generate_mem_config_item(x, map))

(* efi_fuchsia_boot() on x86, up to the jump.                               *)
efi_fuchsia_boot(z, map, tables) ==
    IF get_efi_mem_attr(tables) = None THEN Fail(z, "InvalidInput")
    ELSE add_memory_items(z, map, get_efi_mem_attr(tables))

(* e820 entries for Linux; a type it does not know panics.                  *)
efi_to_e820_mem_type(t) ==
    CASE t \in Usable -> "RAM"
      [] t \in {"RUNTIME_SERVICES_CODE", "RUNTIME_SERVICES_DATA", "MMIO", "RESERVED"} -> "RESERVED"
      [] t = "UNUSABLE" -> "UNUSABLE"
      [] t = "ACPI_RECLAIM" -> "ACPI"
      [] t = "ACPI_NVS" -> "NVS"
      [] t = "PERSISTENT" -> "PMEM"
      [] OTHER -> "panic"

e820_entries(map, room) ==
    LET entry(d) == [addr |-> d.start, size |-> d.pages, type |-> efi_to_e820_mem_type(d.type)]
        entries == [i \in 1..MapLen(map) |-> entry(MapItems(map)[i])]
    IN  CASE MapLen(map) > room -> [res |-> "MemoryMapCallbackError", e820 |-> <<>>]
          [] MapLen(map) =< room /\ \E i \in DOMAIN entries : entries[i].type = "panic" -> [res |-> "panic", e820 |-> <<>>]
          [] OTHER -> [res |-> "ok", e820 |-> entries]

(* is_fuchsia_gpt(): each partition under one of its names, on one disk.    *)
FUCHSIA_PARTITIONS ==
    {{"zircon_a", "zircon-a"}, {"zircon_b", "zircon-b"}, {"zircon_r", "zircon-r"},
     {"vbmeta_a"}, {"vbmeta_b"}, {"vbmeta_r"}, {"misc", "durable_boot"}}
is_fuchsia_gpt(disks) ==
    \A names \in FUCHSIA_PARTITIONS : \E n \in names : check_part_unique(disks, n) = "ok"

-----------------------------------------------------------------------------
(* x86.  Memory is a sequence of cells from address 0; the first cell of a  *)
(* bzImage holds its setup header.  Bounds scaled down: a sector is a cell. *)
SECTOR_SIZE == 1
BOOT_SETUP_LOAD_SIZE == 2
LOW_MEM_MAX == 3        \* 0x9_0000
IO_HOLE == 7            \* 0x0A_0000
LOAD_ADDR_HIGH == 8     \* 0x10_0000
ENTRY_POINT_OFFSET(arch) == IF arch = "x86_64" THEN SECTOR_SIZE ELSE 0   \* 0x200
U32_LIMIT == 24         \* 2^32
E820_MAX == 2

check(h) ==
    CASE ~h.magic -> "BadMagic"
      [] h.magic /\ ~(h.version >= 6 /\ h.high) -> "UnsupportedVersion"
      [] OTHER -> "ok"

setup_sects(h) == IF h.sects = 0 THEN 4 ELSE h.sects
kernel_off(h) == (1 + setup_sects(h)) * SECTOR_SIZE

(* kernel and ramdisk are ranges of memory, cmdline lies in the tree.       *)
boot_linux_bzimage(w, kernel, ramdisk, cmdline, map, low, arch) ==
    LET h == w.mem[kernel.off + 1][2]
        cmdline_start == low + BOOT_SETUP_LOAD_SIZE
        copied == Splice(w.mem, LOAD_ADDR_HIGH, Bytes(w.mem, kernel.off + kernel_off(h), kernel.n - kernel_off(h)))
        cleared == Splice(copied, low, [i \in 1..BOOT_SETUP_LOAD_SIZE |-> <<"zero", 0>>])
        written == Splice(cleared, cmdline_start, cmdline)
        e820 == e820_entries(map, E820_MAX)
        params == [hdr |-> cleared[kernel.off + 1][2], cmd_line_ptr |-> cmdline_start, cmdline_size |-> Len(cmdline),
                   ramdisk_image |-> ramdisk.off, ramdisk_size |-> ramdisk.n, type_of_loader |-> 255, e820 |-> e820.e820]
        after(m) == [w EXCEPT !.mem = m]
    IN  CASE kernel.n = 0 -> Fail(w, "BufferTooSmall")
          [] kernel.n > 0 /\ check(h) # "ok" -> Fail(w, check(h))
          [] kernel.n > 0 /\ check(h) = "ok" ->
               IF low > LOW_MEM_MAX \/ cmdline_start + Len(cmdline) > IO_HOLE \/ kernel.n < kernel_off(h) THEN Fail(w, "panic")
               ELSE IF ramdisk.off >= U32_LIMIT THEN Fail(after(written), "ArithmeticOverflow")
               ELSE IF e820.res # "ok" THEN Fail(after(written), e820.res)
               ELSE [after(Splice(written, low, <<<<"params", params>>>>))
                     EXCEPT !.jump = [pc |-> LOAD_ADDR_HIGH + ENTRY_POINT_OFFSET(arch), arg |-> low]]

(* ZBI kernels, on x86 and AArch64, say where they start.                   *)
zbi_boot(w, kernel, entry, data) == [w EXCEPT !.jump = [pc |-> kernel.off + entry, arg |-> data.off]]

(* AArch64.  The jump turns the caches off: what was not flushed is stale.  *)
flush_dcache_buffer(w, range) == [w EXCEPT !.dirty = @ \ (range.off..(range.off + range.n - 1))]
jump_kernel(w, pc, arg) ==
    [w EXCEPT !.jump = [pc |-> pc, arg |-> arg], !.mem = [i \in DOMAIN @ |-> IF i - 1 \in w.dirty THEN <<"stale", 0>> ELSE @[i]]]
FlushAll(w, ranges) == FoldLeft(flush_dcache_buffer, w, ranges)
jump_linux_el2_or_lower(w, el, kernel, ramdisk, fdt) ==
    IF el = 3 THEN Fail(w, "panic") ELSE jump_kernel(FlushAll(w, <<kernel, ramdisk, fdt>>), kernel.off, fdt.off)
jump_zircon_el2_or_lower(w, el, kernel, entry, zbi) ==
    IF el = 3 THEN Fail(w, "panic") ELSE jump_kernel(FlushAll(w, <<kernel, zbi>>), kernel.off + entry, zbi.off)

(* RISC-V: address translation off, caches stay coherent.                   *)
jump_linux(w, kernel, hart, fdt) == [w EXCEPT !.jump = [pc |-> kernel.off, arg |-> <<hart, fdt.off>>]]

-----------------------------------------------------------------------------
(* ApplyRelocation(): mem maps offsets in the program to their values,      *)
(* words wrap at WORD.  A table is a sequence of [off, type, addend].       *)
WORD == 64

SizeTag(kind) == IF kind = "RELA" THEN "RELASZ" ELSE "RELSZ"

GetRelxAddend(mem, entry, kind) == IF kind = "RELA" THEN entry.addend ELSE mem[entry.off]

FixUpRelxTable(p, base, table, kind) ==
    FoldLeft(LAMBDA a, e : IF ~Ok(a) \/ e.type # "RELATIVE" THEN Fail(a, "false")
                           ELSE [a EXCEPT !.mem[e.off] = (base + GetRelxAddend(a.mem, e, kind)) % WORD], p, table)

ApplyRelx(p, base, info, kind, tables) ==
    IF (info[kind] = None) # (info[SizeTag(kind)] = None) THEN Fail(p, "false")
    ELSE IF info[kind] = None THEN p
    ELSE FixUpRelxTable(p, base, Take(tables[info[kind]], info[SizeTag(kind)]), kind)

Tags == {"REL", "RELSZ", "RELA", "RELASZ", "SYMTAB"}

ApplyRelocation(p, base, dynamic, tables) ==
    LET seen == Take(dynamic, TakeWhile(dynamic, LAMBDA d : d.tag # "NULL"))
        info == FoldLeft(LAMBDA a, d : IF d.tag \in Tags THEN [a EXCEPT ![d.tag] = d.val] ELSE a, [t \in Tags |-> None], seen)
    IN  IF (\E i \in DOMAIN seen : seen[i].tag \in {"RELR", "JMPREL"}) \/ info["SYMTAB"] = None THEN Fail(p, "false")
        ELSE Then(ApplyRelx(p, base, info, "REL", tables), LAMBDA q : ApplyRelx(q, base, info, "RELA", tables))
-----------------------------------------------------------------------------
Text(c, n) == [i \in 1..n |-> <<c, i>>]

(* The calls to check.  The firmware's tables are as UEFI has them: ordered *)
(* by address and apart, each attribute inside one runtime descriptor.      *)
Maps(types) ==
    {<<Region(t, 0, n, a), Region(u, 4, 2, b)>> : t, u \in types, n \in {2, 4}, a, b \in {{}, {RUNTIME}}} \cup
    {<<Region(t, 1, 3, {RUNTIME})>> : t \in types}

Inside(item, map) == \E i \in DOMAIN map : /\ RUNTIME \in map[i].attr
                                           /\ map[i].start =< item.start
                                           /\ item.start + item.pages =< map[i].start + map[i].pages

Emats(map) ==
    LET items == {i \in {Region("RUNTIME_SERVICES_CODE", s, n, {RUNTIME, "RO"}) : s \in 0..5, n \in 1..2} : Inside(i, map)}
        apart(S) == \A x, y \in S : x # y => x.start + x.pages =< y.start \/ y.start + y.pages =< x.start
    IN  {SetToSortSeq(S, LAMBDA x, y : x.start < y.start) : S \in {T \in kSubset(0, items) \cup kSubset(1, items) \cup kSubset(2, items) : apart(T)}}

MapOf(ds, stride) == [buf |-> FlattenSeq([i \in DOMAIN ds |-> DescCells(ds[i], stride)]), stride |-> stride]
TableOf(ds, stride) == [guid |-> "EMAT", count |-> Len(ds), stride |-> stride, cells |-> MapOf(ds, stride).buf]
OtherTable == [guid |-> "ACPI", count |-> 0, stride |-> DESC, cells |-> <<>>]

ItemJobs ==
    UNION {{[op |-> "items", map |-> m, emat |-> e, stride |-> s, room |-> r, tables |-> t] :
              e \in Emats(m), s \in DESC..(DESC + 1), r \in {3, 5, 12, 25, 60}, t \in BOOLEAN} :
           m \in Maps({"RUNTIME_SERVICES_CODE", "CONVENTIONAL"})}

Header(magic, version, high, sects) == [magic |-> magic, version |-> version, high |-> high, sects |-> sects]
Headers == {Header(TRUE, 6, TRUE, s) : s \in 0..1} \cup
           {Header(FALSE, 6, TRUE, 1), Header(TRUE, 5, TRUE, 1), Header(TRUE, 6, FALSE, 1)}
Places == {[off |-> o, n |-> 3] : o \in {13, 20, 24}}

LinuxJobs ==
    {[op |-> "linux", hdr |-> h, kernel |-> [off |-> 14, n |-> k], ramdisk |-> r, cmdline |-> c, map |-> m, low |-> l, arch |-> a] :
        a \in {"x86", "x86_64"}, h \in Headers, k \in {0, 1, 6}, r \in {p \in Places : p.off > 14}, c \in {Text("c", 1), Text("c", 4)},
        m \in {<<>>, <<Region("LOADER_DATA", 0, 1, {})>>, <<Region("vendor", 0, 1, {})>>,
               <<Region("MMIO", 0, 1, {}), Region("ACPI_NVS", 1, 1, {}), Region("PERSISTENT", 2, 1, {})>>,
               <<Region("UNUSABLE", 0, 1, {}), Region("ACPI_RECLAIM", 1, 1, {})>>}, l \in 3..4}

JumpJobs ==
    {[op |-> o, el |-> el, kernel |-> [off |-> 2, n |-> 4], ramdisk |-> [off |-> 7, n |-> 3], fdt |-> [off |-> 12, n |-> 2],
      entry |-> e, dirty |-> d] :
        o \in {"arm_linux", "arm_zircon", "x86_zircon", "riscv"}, el \in 0..3, e \in 0..3, d \in {1..3, 0..15, 6..12}}

Dynamics ==
    LET e(t, v) == [tag |-> t, val |-> v]
        base == <<e("SYMTAB", 0), e("REL", 1), e("RELSZ", 2), e("RELA", 2), e("RELASZ", 1), e("NULL", 0)>>
    IN  {base, Tail(base), Drop(base, 2), <<e("RELA", 2)>> \o Drop(base, 4), <<e("SYMTAB", 0), e("RELA", 2), e("RELASZ", 2), e("NULL", 0)>>,
         <<e("RELR", 0)>> \o base, base \o <<e("RELR", 0)>>, <<e("DEBUG", 0)>> \o base, <<e("SYMTAB", 0), e("RELASZ", 1), e("NULL", 0)>>}

RelocationJobs ==
    LET entries == {[off |-> o, type |-> t, addend |-> 9] : o \in 1..2, t \in {"RELATIVE", "OTHER"}}
    IN  {[op |-> "relocate", base |-> b, dyn |-> d, tables |-> <<r, ra>>] :
           b \in {0, WORD - 4}, d \in Dynamics, r, ra \in [1..2 -> entries]}

(* Fuchsia's partitions on one or two disks, some under the other name, one *)
(* missing or held by both disks.                                           *)
FuchsiaJobs ==
    {[op |-> "fuchsia", names |-> [g \in FUCHSIA_PARTITIONS |-> IF g \in two THEN CHOOSE n \in g : TRUE ELSE CHOOSE n \in g : g = {n} \/ n # CHOOSE k \in g : TRUE],
      missing |-> x, both |-> y] :
        two \in {{}, FUCHSIA_PARTITIONS}, x, y \in FUCHSIA_PARTITIONS \cup {{}}}

FuchsiaDisks(j) ==
    LET disk(gs) == [table |-> "gpt", total |-> 12, parts |-> [n \in {j.names[g] : g \in gs} |-> [start |-> 0, end |-> 1]]]
    IN  <<disk(FUCHSIA_PARTITIONS \ {j.missing}), disk({j.both} \ {{}})>>

Loaded(j) == [mem |-> Splice(Text("m", 30), j.kernel.off, IF j.kernel.n = 0 THEN <<>> ELSE <<<<"setup", j.hdr>>>>), jump |-> None, res |-> "ok"]
Warm(j) == [mem |-> Text("m", 16), dirty |-> j.dirty, jump |-> None, res |-> "ok"]

HandOffOps == {"items", "linux", "arm_linux", "arm_zircon", "x86_zircon", "riscv", "relocate", "fuchsia"}

HandOffPerform(j) ==
    CASE j.op = "items" -> efi_fuchsia_boot([left |-> j.room, items |-> <<>>, res |-> "ok"], MapOf(j.map, j.stride),
                              <<OtherTable>> \o (IF j.tables THEN <<TableOf(j.emat, j.stride)>> ELSE <<>>))
      [] j.op = "linux" -> boot_linux_bzimage(Loaded(j), j.kernel, j.ramdisk, j.cmdline, MapOf(j.map, DESC), j.low, j.arch)
      [] j.op = "arm_linux"  -> jump_linux_el2_or_lower(Warm(j), j.el, j.kernel, j.ramdisk, j.fdt)
      [] j.op = "arm_zircon" -> jump_zircon_el2_or_lower(Warm(j), j.el, j.kernel, j.entry, j.fdt)
      [] j.op = "x86_zircon" -> zbi_boot(Warm(j), j.kernel, j.entry, j.fdt)
      [] j.op = "riscv"      -> jump_linux(Warm(j), j.kernel, 0, j.fdt)
      [] j.op = "relocate"   -> ApplyRelocation([mem |-> [o \in 1..3 |-> o], res |-> "ok"], j.base, j.dyn, j.tables)
      [] j.op = "fuchsia"    -> [res |-> IF is_fuchsia_gpt(FuchsiaDisks(j)) THEN "ok" ELSE "NotFound"]

-----------------------------------------------------------------------------
Pages(r) == r.start..(r.start + r.pages - 1)
RuntimePages(map) == UNION {Pages(map[i]) : i \in {k \in DOMAIN map : RUNTIME \in map[k].attr}}

(* The attributes of an item are kept in the table made of it.              *)
ItemKept(item, table) == \E i \in DOMAIN table.regions : table.regions[i] = item

(* Nothing of its descriptor before the item is left out by the others.     *)
NoGapBefore(item, j) ==
    LET d == CHOOSE x \in Range(j.map) : item.start \in Pages(x)
    IN  \A a \in d.start..(item.start - 1) : \E i \in DOMAIN j.emat : a \in Pages(j.emat[i])

(* The regions of the new table are in order, apart, and cover exactly the  *)
(* runtime memory, with the attributes the firmware gives it as long as it  *)
(* leaves out nothing of a descriptor before them; the other table has      *)
(* every descriptor, as memory the kernel may use or not.  Both fit unless  *)
(* the space is small.                                                      *)
ItemsRight(j, o) ==
    IF Ok(o)
    THEN LET table == o.items[1] rs == table.regions
         IN  /\ j.tables /\ table.count = Len(rs)
             /\ UNION {Pages(rs[i]) : i \in DOMAIN rs} = RuntimePages(j.map)
             /\ \A i \in 2..Len(rs) : rs[i - 1].start + rs[i - 1].pages =< rs[i].start
             /\ \A i \in DOMAIN rs : RUNTIME \in rs[i].attr /\ rs[i].pages > 0
             /\ \A i \in DOMAIN j.emat : NoGapBefore(j.emat[i], j) => ItemKept(j.emat[i], table)
             /\ o.items[2].ranges = [i \in DOMAIN j.map |-> [paddr |-> j.map[i].start, length |-> j.map[i].pages,
                                       type |-> IF j.map[i].type = "CONVENTIONAL" THEN "RAM" ELSE "RESERVED"]]
    ELSE ~j.tables \/ j.room < 2 * ZBI_HEADER + EMAT_HEADER + DESC * (Len(j.emat) + Len(j.map)) + MEM_RANGE * Len(j.map)

(* What the kernel finds: its code, entered where the protocol says, 0x200  *)
(* bytes into it with 64 bits; the ramdisk and command line it is told of,  *)
(* unchanged; and nothing else of memory touched.                           *)
LinuxRight(j, o) ==
    LET start == (IF j.hdr.sects = 0 THEN 5 ELSE 2) + j.kernel.off
        old == Loaded(j).mem
    IN  IF o.jump = None THEN ~Ok(o)
        ELSE LET p == o.mem[o.jump.arg + 1][2]
                 code == SubSeq(old, start + 1, j.kernel.off + j.kernel.n)
             IN  /\ Bytes(o.mem, o.jump.pc - (IF j.arch = "x86_64" THEN 1 ELSE 0), Len(code)) = code
                 /\ Bytes(o.mem, p.ramdisk_image, p.ramdisk_size) = Bytes(old, j.ramdisk.off, j.ramdisk.n)
                 /\ Bytes(o.mem, p.cmd_line_ptr, p.cmdline_size) = j.cmdline
                 /\ p.hdr = j.hdr /\ Len(p.e820) = Len(j.map)
                 /\ \A i \in DOMAIN old : \/ o.mem[i] = old[i]
                                          \/ i \in (j.low + 1)..IO_HOLE
                                          \/ i \in (LOAD_ADDR_HIGH + 1)..(LOAD_ADDR_HIGH + Len(code))

(* Nothing the kernel is given is stale when it starts.                     *)
JumpRight(j, o) ==
    Ok(o) => /\ o.jump.pc \in Pages([start |-> j.kernel.off, pages |-> j.kernel.n])
             /\ \A r \in {j.kernel, j.fdt} \cup (IF j.op = "arm_linux" THEN {j.ramdisk} ELSE {}) :
                   Bytes(o.mem, r.off, r.n) = Bytes(Warm(j).mem, r.off, r.n)

(* What a linker means by the tables: the last RELA record of a word gives  *)
(* its value, else each REL record adds the base; a section that GBL cannot *)
(* handle is refused.                                                       *)
RelocationRight(j, o) ==
    LET has(t) == \E i \in DOMAIN j.dyn : j.dyn[i].tag = t /\ \A k \in 1..i : j.dyn[k].tag # "NULL"
        used(t, n) == IF has(t) THEN Take(j.tables[IF t = "REL" THEN 1 ELSE 2], n) ELSE <<>>
        size(t) == IF has(t) THEN (CHOOSE d \in Range(j.dyn) : d.tag = t).val ELSE 0
        rel == used("REL", size("RELSZ"))
        rela == used("RELA", size("RELASZ"))
        at(s, c) == {i \in DOMAIN s : s[i].off = c}
        fine == /\ has("SYMTAB") /\ ~has("RELR") /\ has("REL") = has("RELSZ") /\ has("RELA") = has("RELASZ")
                /\ \A e \in Range(rel) \cup Range(rela) : e.type = "RELATIVE"
    IN  /\ Ok(o) = fine
        /\ fine => \A c \in 1..3 :
             o.mem[c] = IF at(rela, c) # {} THEN (j.base + 9) % WORD ELSE (c + j.base * Cardinality(at(rel, c))) % WORD

HandOffRight(j, o) ==
    CASE j.op = "items" -> ItemsRight(j, o)
      [] j.op = "linux" -> LinuxRight(j, o)
      [] j.op = "relocate" -> RelocationRight(j, o)
      [] j.op = "fuchsia" -> Ok(o) = (j.missing = j.both)
      [] OTHER -> JumpRight(j, o)
=============================================================================
