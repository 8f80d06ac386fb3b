----------------------------- MODULE Algorithms -----------------------------
(***************************************************************************)
(* The pure parts of the boot loader, checked against what they are meant  *)
(* to compute: a job is one call with its inputs, and performing it sets   *)
(* the output.                                                             *)
(***************************************************************************)
EXTENDS FastbootArgs

CONSTANTS
    ScratchAddrs,   \* where the scratch memory of a disk may start
    FillSizes,      \* sizes of the buffer an erase is given
    LoadSizes       \* sizes of the buffer images are loaded to

ASSUME JobAssumption == None # "p"

VARIABLES job, out

vars == <<job, out>>

-----------------------------------------------------------------------------
Total == 12
Part == [start |-> 4, end |-> 12]
Infos == {<<1, 1>>, <<4, 1>>, <<4, 2>>, <<2, 4>>, <<4, 4>>, <<1, 2>>}  \* block size, alignment

Access(info, at, buf, left) ==
    [bs |-> info[1], nb |-> Total \div info[1], al |-> info[2],
     st |-> [i \in 1..Total |-> 100 + i], at |-> at, buf |-> buf,
     left |-> left, calls |-> [read |-> 0, write |-> 0], res |-> "ok"]

Gpt(parts) == [table |-> "gpt", parts |-> parts, total |-> Total]
Raw(name) == [table |-> "raw", parts |-> [p \in {name} |-> None], total |-> Total]
OneDisk == <<Gpt([p \in {"p"} |-> Part]), Raw("other")>>

DataJob ==
    \E op \in {"read", "write"}, info \in Infos, sa \in ScratchAddrs, at \in 0..3,
       off \in 0..9, n \in 0..9, left \in {0, 1, 2, 3, 99} :
         job = [op |-> op, disks |-> OneDisk, win |-> None, off |-> off, sa |-> sa,
                m |-> Access(info, at, [i \in 1..n |-> i], left)]

WindowJob ==
    \E op \in {"read", "write"}, disks \in {OneDisk, OneDisk \o <<Raw("p")>>, <<Raw("p")>>, <<Raw("q")>>},
       win \in {None, <<0, 8>>, <<3, 4>>, <<3, 6>>}, off \in 0..4, n \in 0..5 :
         job = [op |-> op, disks |-> disks, win |-> win, off |-> off, sa |-> 0,
                m |-> Access(<<4, 2>>, 1, [i \in 1..n |-> i], 99)]

FillJob ==
    \E info \in Infos, addr \in 0..3, len \in FillSizes, left \in {0, 1, 99} :
         job = [op |-> "zeroize", sa |-> 0, addr |-> addr, len |-> len, m |-> Access(info, 0, <<>>, left)]

(* Chunks: [type, blks, val]; the image is laid out as the tools do it.     *)
Chunks == {[type |-> "RAW", blks |-> b, val |-> 7] : b \in 0..2} \cup
          {[type |-> "FILL", blks |-> b, val |-> v] : b \in 1..2, v \in {8, 9}} \cup
          {[type |-> "DONT_CARE", blks |-> 1, val |-> 0], [type |-> "CRC32", blks |-> 0, val |-> 5]}

Payload(c, bsz) ==
    CASE c.type = "RAW" -> [i \in 1..(c.blks * bsz) |-> c.val + 10 * i]
      [] c.type \in {"FILL", "CRC32"} -> <<c.val>>
      [] OTHER -> <<>>

ChunkCells(c, bsz) == <<c.type, c.blks, CHUNK_HEADER + Len(Payload(c, bsz))>> \o Payload(c, bsz)

Blocks(cs) == FoldLeft(LAMBDA n, c : n + c.blks, 0, cs)

Image(cs, bsz, total) ==
    FoldLeft(LAMBDA s, c : s \o ChunkCells(c, bsz), SparseHeader(bsz, total, Len(cs)), cs)

Flash(cs, total, bsz, part, off, addr, m) ==
    [op |-> "sparse", cs |-> cs, total |-> total, bsz |-> bsz, part |-> part, off |-> off,
     addr |-> addr, sa |-> 0, m |-> m]

SparseJob ==
    \E n \in 0..3 : \E cs \in [1..n -> Chunks], bsz \in 1..2, off \in {0, 1}, addr \in {0, 1},
       info \in {<<1, 1>>, <<2, 4>>}, left \in {2, 99} :
         job = Flash(cs, Blocks(cs), bsz, Part, off, addr, Access(info, 0, <<>>, left))

(* The header states another number of blocks than the chunks have.         *)
MisstatedJob ==
    \E n \in 0..2 : \E cs \in [1..n -> Chunks], total \in 0..5, off \in {0, 2},
       info \in {<<1, 1>>, <<2, 4>>}, left \in {2, 99} :
         job = Flash(cs, total, 2, [start |-> 2, end |-> 8], off, 0, Access(info, 0, <<>>, left))

(* Fills longer than the fill buffer, on a disk with room for them.         *)
LongFillJob ==
    \E n \in 1..2 : \E blks \in [1..n -> {10, 14}], vals \in [1..n -> {8, 9}], addr \in {0, 1},
       info \in {<<1, 1>>, <<2, 4>>}, left \in {3, 99} :
         LET cs == [i \in 1..n |-> [type |-> "FILL", blks |-> blks[i], val |-> vals[i]]]
             m == [Access(info, 0, <<>>, left) EXCEPT !.nb = 32 \div info[1],
                                                      !.st = [i \in 1..32 |-> 100 + i]]
         IN  job = Flash(cs, Blocks(cs), 1, [start |-> 3, end |-> 32], 0, addr, m)

-----------------------------------------------------------------------------
Words == {<<>>, Text("a", 1), Text("b", 3), <<NUL>>}

BuilderJob ==
    \E op \in {"cmdline", "bootconfig"}, cap \in 0..9, pre \in {Text("p", 2), <<>>}, x, y \in Words, with \in BOOLEAN :
         job = [op |-> op, cap |-> cap, pre |-> pre, x |-> x, y |-> y, with |-> with]

ParseJob ==
    \E n \in 0..6 : \E s \in [1..n -> {<<"a", 0>>, SPACE, EQUALS, QUOTE}] : job = [op |-> "parse", s |-> s]

XbcJob ==
    \E text, more \in {Text("a", 1), Text("b", 3), <<>>}, end \in BOOLEAN :
         job = [op |-> "xbc", text |-> text, more |-> more, end |-> end /\ text # <<>>]

Table(trees) ==
    LET n == Len(trees)
        start(i) == DT_HEADER + n * DT_ENTRY + FoldLeft(LAMBDA a, t : a + Len(t), 0, SubSeq(trees, 1, i - 1))
    IN  DtTable(n, DT_HEADER) \o FlattenSeq([i \in 1..n |-> DtEntry(start(i), Len(trees[i]))]) \o FlattenSeq(trees)

BaseTree == Tree(Text("base", 1))
ArgsTree == Tree(<<<<"bootargs", 2>>, <<"c", 1>>, NUL>>)
Overlay == Tree(Text("over", 1))
Kernels == {Text("k", 3), <<<<"gz", 0>>, <<"z", 5>>>>,
            <<<<"lz4", 0>>, <<"len", 1>>, <<"z", 2>>, <<"len", 1>>, <<"z", 3>>>>, <<<<"lz4", 0>>, <<"len", 9>>, <<"z", 2>>>>}

CustomTree == Tree(Text("custom", 1))
LongTree == <<<<"fdt", 9>>, <<"used", 3>>, <<"base", 1>>>>   \* says it is longer than it is

Boot(ver, kernel, ramdisk, dtb, dtbo, dtb_part, select) ==
    LET sizes == IF ver = 4 THEN [sig |-> 1, table |-> 1, bc |-> 2] ELSE [sig |-> 0, table |-> 0, bc |-> 0]
    IN  [ver |-> ver, kernel |-> kernel, ramdisk |-> ramdisk, second |-> 1, dtb |-> dtb,
         recovery |-> [off |-> 0, size |-> 0], cmdline_valid |-> TRUE, custom |-> None,
         sig |-> sizes.sig, table |-> sizes.table, vendor_bootconfig |-> Text("vb", sizes.bc),
         init_ramdisk |-> Text("i", 1), vendor_ramdisk |-> Text("v", 3),
         bootconfig |-> Text("bc", 2), fixup |-> Text("fix", 1), dtbo |-> dtbo,
         dtb_part |-> dtb_part, select |-> select, cmdline |-> Text("cl", 1),
         vendor_cmdline |-> Text("vl", 2), cmdline_fixup |-> Text("cf", 1), fdt_fixup |-> Text("ff", 1)]

LoadJob ==
    \E ver \in 2..4, base \in 0..1, size \in LoadSizes, kernel \in Kernels, ramdisk \in {<<>>, Text("r", 3)},
       dtb \in {<<>>, BaseTree, ArgsTree, BaseTree \o BaseTree, Table(<<BaseTree>>), Text("x", 2)},
       dtbo \in {<<>>, Table(<<Overlay>>), DtTable(1, DT_HEADER) \o DtEntry(4, 99)},
       dtb_part \in {<<>>, Table(<<ArgsTree, BaseTree>>)}, select \in {None, {1, 2}} :
         job = [op |-> "load", base |-> base, size |-> size,
                d |-> Boot(ver, kernel, ramdisk, dtb, dtbo, dtb_part, select)]

(* Headers with a recovery dtbo in any place, or a command line that is no  *)
(* string; a tree that is too long; a tree of the platform.                 *)
OddLoadJob ==
    \E ver \in 0..4, size \in LoadSizes, ramdisk \in {<<>>, Text("r", 3)}, dtb \in {BaseTree, LongTree},
       dtbo \in {<<>>, Table(<<Overlay>>)}, valid \in BOOLEAN, custom \in {None, CustomTree, LongTree},
       rec \in {None, -1, 0, 1} :
         LET d == Boot(ver, Text("k", 3), ramdisk, dtb, dtbo, <<>>, None)
         IN  job = [op |-> "load", base |-> 0, size |-> size,
                    d |-> [d EXCEPT !.cmdline_valid = valid, !.custom = custom,
                             !.recovery = IF rec = None THEN @ ELSE [off |-> SecondEnd(d) + rec, size |-> 1]]]

Built(j) ==
    LET b == IF j.op = "bootconfig" THEN bootconfig_new(j.cap)
             ELSE IF j.pre = <<>> THEN cmdline_new(j.cap) ELSE cmdline_from_prefix(j.cap, j.pre)
        add(x, t) == CASE j.op = "cmdline" /\ j.with  -> cmdline_add_with(x, t)
                       [] j.op = "cmdline" /\ ~j.with -> cmdline_add(x, t)
                       [] j.op = "bootconfig" /\ j.with -> bootconfig_add_with(x, t)
                       [] OTHER -> bootconfig_add(x, t)
    IN  Then(Then(b, LAMBDA x : add(x, j.x)), LAMBDA x : add(x, j.y))

Trailer(text) == <<<<"size", Len(text)>>, <<"sum", checksum(text)>>, BOOTCONFIG_MAGIC>>
Section(j) == j.text \o (IF j.end THEN Trailer(j.text) ELSE <<>>)

Perform(j) ==
    CASE j.op = "read"    -> read_unique_partition(j.m, j.disks, "p", j.win, j.off, j.sa)
      [] j.op = "write"   -> write_unique_partition(j.m, j.disks, "p", j.win, j.off, j.sa)
      [] j.op = "zeroize" -> zeroize(j.m, Part, j.addr, j.len, j.sa)
      [] j.op = "sparse"  -> write_sparse(j.m, j.part, j.off, Image(j.cs, j.bsz, j.total), j.addr, j.sa)
      [] j.op \in {"cmdline", "bootconfig"} -> Built(j)
      [] j.op = "parse" -> parse_entries(j.s)
      [] j.op = "xbc"   -> addBootConfigParameters(Section(j) \o Text("junk", 6), j.more, Len(Section(j)))
      [] j.op \in HelperOps -> HelperPerform(j)
      [] j.op \in HandOffOps -> HandOffPerform(j)
      [] j.op \in ArgOps -> ArgPerform(j)
      [] j.op = "load"  -> android_load_verify_fixup([base |-> j.base, mem |-> Text("junk", j.size), res |-> "ok"], j.d)

Init ==
    /\ \/ DataJob
       \/ WindowJob
       \/ FillJob
       \/ SparseJob
       \/ MisstatedJob
       \/ LongFillJob
       \/ BuilderJob
       \/ ParseJob
       \/ XbcJob
       \/ LoadJob
       \/ OddLoadJob
       \/ job \in ItemJobs
       \/ job \in LinuxJobs
       \/ job \in JumpJobs
       \/ job \in RelocationJobs
       \/ job \in FuchsiaJobs
       \/ job \in ChainJobs
       \/ job \in MallocJobs
       \/ job \in StringJobs
       \/ job \in NumberJobs
       \/ job \in FormatJobs
       \/ job \in UsedJobs \/ job \in RelocateJobs \/ job \in AvbJobs
       \/ job \in ArgJobs \/ job \in VarJobs \/ job \in StagedJobs \/ job \in SplitJobs
    /\ out = None

Run == out = None /\ out' = Perform(job) /\ UNCHANGED job

Next == Run

Spec == Init /\ [][Next]_vars

-----------------------------------------------------------------------------
(* What became of a write of new bytes from off on: all of it on success,   *)
(* after an error each byte is the old or the new one, the others are old.  *)
WrittenExactly(old, off, new) ==
    IF Ok(out) THEN out.st = Splice(old, off, new)
    ELSE \A i \in DOMAIN old :
           \/ out.st[i] = old[i]
           \/ i \in (off + 1)..(off + Len(new)) /\ out.st[i] = new[i - off]

(* "Returns success when exactly `data.len()` number of bytes are written"  *)
(* (Disk::write, read_async, PartitionIo): a read or write of any range, at *)
(* any alignment of offset, length and buffer, moves exactly those bytes,   *)
(* succeeds unless the partition is not unique, the range leaves it or its  *)
(* window, or the device fails, gives the caller its buffer back as it was, *)
(* takes at most six reads and six writes, and no assertion fails.          *)
AccessExact ==
    out # None /\ job.op \in {"read", "write"} =>
       LET holders == {i \in DOMAIN job.disks : "p" \in DOMAIN job.disks[i].parts}
           whole == IF job.disks[Min(holders)].table = "gpt" THEN Part ELSE [start |-> 0, end |-> Total]
           start == IF job.win = None THEN whole.start ELSE whole.start + job.win[1]
           end == IF job.win = None THEN whole.end ELSE start + job.win[2]
           fits == Cardinality(holders) = 1 /\ end =< whole.end /\ start + job.off + Len(job.m.buf) =< end
       IN
       /\ IF fits THEN Ok(out) \/ (out.res = "BlockIoError" /\ out.left = 0)
          ELSE ~Ok(out) /\ out = Fail(job.m, out.res)
       /\ out.calls.read =< 6 /\ out.calls.write =< 6
       /\ job.op = "read" =>
             out.st = job.m.st /\ (Ok(out) => out.buf = Bytes(job.m.st, start + job.off, Len(out.buf)))
       /\ job.op = "write" =>
             out.buf = job.m.buf /\ (fits => WrittenExactly(job.m.st, start + job.off, job.m.buf))

(* What a sparse image stands for, on a disk that holds old.                *)
Expand(old, cs, bsz, at) ==
    FoldLeft(LAMBDA a, c :
               LET n == c.blks * bsz
                   new == CASE c.type = "RAW"  -> Payload(c, bsz)
                            [] c.type = "FILL" -> [i \in 1..n |-> c.val]
                            [] OTHER -> Bytes(a.st, a.off, n)
               IN  [st |-> Splice(a.st, a.off, new), off |-> a.off + n],
             [st |-> old, off |-> at], cs).st

(* Flashing a sparse image, whose buffer doubles as the list of fills and   *)
(* as the fill buffer, leaves what the image stands for, in the partition   *)
(* and nowhere else, as long as its header does not understate its blocks;  *)
(* after an error each word is the old or the new one.  Erasing a partition *)
(* leaves zeroes in it, with any buffer to write from but an empty one and  *)
(* one that ends just where the first aligned address would be.             *)
BulkWritesExact ==
    out # None =>
       /\ job.op = "sparse" =>
            LET new == Expand(job.m.st, job.cs, job.bsz, job.part.start + job.off)
                fits == job.part.start + job.off + job.total * job.bsz =< job.part.end
            IN  IF ~fits THEN out = Fail(job.m, "OutOfRange")
                ELSE job.total >= Blocks(job.cs) =>
                        WrittenExactly(job.m.st, 0, new) /\ (Ok(out) \/ out.res = "BlockIoError")
       /\ job.op = "zeroize" =>
            /\ WrittenExactly(job.m.st, Part.start, [i \in 1..partition_size(Part) |-> 0])
            /\ IF job.len = 0 THEN out.res = "InvalidInput"
               ELSE \/ out.res \in {"ok", "BlockIoError"}
                    \/ job.addr + job.len = RoundUp(job.addr, job.m.al)

(* "Returns Err(Error::InvalidInput) if size of `scratch` is 0" (Disk::fill,*)
(* which zeroize() calls): with any other buffer it comes to an end.  The   *)
(* code does not keep this (README, section 5).                             *)
FillEnds == out # None /\ job.op = "zeroize" => out.res # "hang"

(* "Writes sparse image to the partition" (PartitionIo::write_sparse): the  *)
(* image is written to the partition and not beyond its end.  The code does *)
(* not keep this (README, section 5).                                       *)
SparseInside ==
    out # None /\ job.op = "sparse" =>
        \A i \in DOMAIN out.st : i \in (job.part.start + 1)..job.part.end \/ out.st[i] = job.m.st[i]

-----------------------------------------------------------------------------
(* The words of a command line without quotes, up to one without a name.    *)
WordsOf(s) ==
    LET starts == {i \in DOMAIN s : s[i] # SPACE /\ (i = 1 \/ s[i - 1] = SPACE)}
        word(i) == Take(Drop(s, i - 1), TakeWhile(Drop(s, i - 1), LAMBDA c : c # SPACE))
        bad == {i \in starts : s[i] = EQUALS}
        good == {i \in starts : \A j \in bad : i < j}
    IN  [k \in 1..Cardinality(good) |-> word(SetToSortSeq(good, <)[k])]

Entry(word) ==
    LET n == TakeWhile(word, LAMBDA c : c # EQUALS)
    IN  [key |-> Take(word, n), value |-> IF n = Len(word) THEN None ELSE Drop(word, n + 1)]

Joined(pre, x) == IF x = <<>> THEN pre ELSE pre \o <<SPACE>> \o x

(* CommandlineBuilder never holds more than its buffer, null included, and  *)
(* holds what was added with single spaces; what it refuses would not fit,  *)
(* or has a null in it.  BootConfigBuilder's trailer is that of its text at *)
(* any time.  libxbc leaves one section with one trailer, whether or not    *)
(* there was one before, and says by how much it grew.  The parser finds    *)
(* the words of the line, in order.                                         *)
FormatsRight ==
    out # None =>
       /\ job.op = "cmdline" =>
            LET full == Joined(Joined(job.pre, job.x), job.y)
            IN  IF Ok(out) THEN out.text = full /\ Len(full) < job.cap
                ELSE Len(full) >= job.cap \/ NUL \in Range(full)
       /\ job.op = "bootconfig" =>
            IF Ok(out) THEN out.text = job.x \o job.y /\ out.trailer = Trailer(out.text)
                            /\ Len(config_bytes(out)) =< job.cap
            ELSE Len(job.x \o job.y) + BOOTCONFIG_TRAILER_SIZE > job.cap
       /\ job.op = "xbc" =>
            LET text == job.text \o job.more
                want == IF job.more = <<>> THEN Section(job) ELSE text \o Trailer(text)
            IN  Len(Section(job)) + out.added = Len(want) /\ Take(out.mem, Len(want)) = want
       /\ job.op = "parse" /\ QUOTE \notin Range(job.s) =>
            out = [i \in DOMAIN WordsOf(job.s) |-> Entry(WordsOf(job.s)[i])]

Before(a, b) == a.off + a.n =< b.off
Holds(w, p, content) == Bytes(w.mem, p.off, Len(content)) = content
HasCells(s, t) == \E i \in 0..(Len(s) - Len(t)) : Bytes(s, i, Len(t)) = t

(* What a kernel of the jobs unpacks to.                                    *)
Unpacked(kernel) ==
    CASE is_gzip_compressed(kernel) -> Text("K", 5)
      [] is_lz4_compressed(kernel)  -> Text("K", 2) \o Text("K", 3)
      [] OTHER -> Padded(kernel, PAGE_SIZE)

(* The images are moved over each other in one buffer.  After a successful  *)
(* load ramdisk, device tree and kernel lie apart and in this order in the  *)
(* buffer, tree and kernel aligned; the ramdisk is the vendor's, then the   *)
(* generic one, then one bootconfig with its trailer; the kernel is whole   *)
(* and unpacked; the tree says how large it is and where the ramdisk is,    *)
(* is the platform's where it has one, holds the overlays and the joined    *)
(* command line.  A load that fails does so with an error; what panics is a *)
(* buffer too small for a header, a table with a tree outside of it, a tree *)
(* longer than its image and, up to v2, a header whose command line is no   *)
(* string or whose recovery dtbo lies among the images before it.           *)
LoadedExact ==
    out # None /\ job.op = "load" =>
      LET d == job.d
          lo == RoundUp(job.base + Len(d.dtbo), FDT_ALIGNMENT) - job.base + Len(d.dtb_part)
          images == lo + Len(VendorBoot(d)) + Len(BootV3(d))
          tree == Bytes(out.w.mem, out.fdt.off, out.fdt.n)
          config == d.bootconfig \o d.fixup \o (IF d.ver >= 3 THEN d.vendor_bootconfig ELSE <<>>)
          ramdisk == IF d.ver < 3 THEN Padded(d.ramdisk, PAGE_SIZE)
                     ELSE Padded(d.vendor_ramdisk, PAGE_SIZE)
                          \o Padded(IF d.ramdisk = <<>> THEN d.init_ramdisk ELSE d.ramdisk, PAGE_SIZE)
          args == \E pre \in {<<>>, <<<<"c", 1>>>>} :
                     HasCells(tree, Joined(Joined(Joined(pre, d.cmdline),
                         IF d.ver >= 3 THEN d.vendor_cmdline ELSE <<>>), d.cmdline_fixup) \o <<NUL>>)
      IN  IF Ok(out.w)
          THEN /\ Before(out.ramdisk, out.fdt) /\ Before(out.fdt, out.kernel) /\ Before(out.kernel, out.unused)
               /\ out.unused.off + out.unused.n = job.size
               /\ is_aligned(job.base + out.fdt.off, FDT_ALIGNMENT)
               /\ is_aligned(job.base + out.kernel.off, KERNEL_ALIGNMENT)
               /\ Bytes(out.w.mem, out.ramdisk.off, out.ramdisk.n) = ramdisk \o config \o Trailer(config)
               /\ Bytes(out.w.mem, out.kernel.off, out.kernel.n) = Unpacked(d.kernel)
               /\ fdt_check_buffer(tree) /\ HasCells(tree, Text("ff", 1)) /\ args
               /\ HasCells(tree, <<<<"initrd-start", 1>>, <<"addr", job.base + out.ramdisk.off>>>>)
               /\ HasCells(tree, <<<<"initrd-end", 1>>, <<"addr", job.base + out.ramdisk.off + out.ramdisk.n>>>>)
               /\ (d.custom # None) = HasCells(tree, Text("custom", 1))
               /\ (d.custom = None /\ d.dtbo # <<>> /\ d.select # None) = HasCells(tree, Text("over", 1))
          ELSE out.w.res = "panic" => \/ \E i \in DOMAIN d.dtbo : d.dtbo[i] = <<"size", 99>>
                                      \/ job.size < lo + PAGE_SIZE
                                      \/ d.ver >= 3 /\ d.ramdisk = <<>> /\ job.size < images + PAGE_SIZE
                                      \/ d.ver =< 2 /\ ~d.cmdline_valid
                                      \/ d.ver \in {1, 2} /\ d.recovery.off \in 1..(SecondEnd(d) - 1)
                                      \/ d.custom = None /\ d.dtb = LongTree

(* "We now have the following layout: ... vendor bootconfig, avb + board    *)
(* bootconfig" (load_verify_v3_and_v4): in this order behind the ramdisks.  *)
(* The code does not keep this (README, section 5).                         *)
VendorConfigFirst ==
    out # None /\ job.op = "load" =>
      LET d == job.d
          config == d.vendor_bootconfig \o d.bootconfig \o d.fixup
          at == out.ramdisk.off + out.ramdisk.n - Len(config) - BOOTCONFIG_TRAILER_SIZE
      IN  Ok(out.w) /\ d.ver = 4 => Bytes(out.w.mem, at, Len(config)) = config

-----------------------------------------------------------------------------
(* The kernel is handed what it needs: memory tables that cover the runtime *)
(* memory exactly once, with its attributes where nothing before it is left *)
(* out; its code, ramdisk and command line where the protocol says, none of *)
(* it stale in the caches; GBL's own relocation gives every word the        *)
(* linker's value or refuses; a Fuchsia disk is known as one only if each   *)
(* of its partitions is found on one disk.                                  *)
HandOffExact == out # None /\ job.op \in HandOffOps => HandOffRight(job, out)

(* "Create a region for [base ... emat_item->PhysicalStart), because that   *)
(* region is not covered by the EMAT": what the EMAT covers keeps the       *)
(* attributes it has there.  The code does not keep this (README, section   *)
(* 5).                                                                      *)
AttributesKept ==
    out # None /\ job.op = "items" =>
        (Ok(out) => \A i \in DOMAIN job.emat : ItemKept(job.emat[i], out.items[1]))

(* Checked arithmetic gives the exact integer or an error, whatever went    *)
(* before; C memory is aligned, whole and, up to the alignment of the EFI   *)
(* pool, given back as the block it came from even when its users fill it;  *)
(* the string functions agree with C's on strings, strtoul() on every text  *)
(* but the empty one, up to where it says a text without a number ends.  A  *)
(* buffer's used part is what fitted.                                       *)
HelpersExact == out # None /\ job.op \in HelperOps => HelperRight(job, out)

(* "gbl_free must be called with the same alignment as the corresponding    *)
(* gbl_malloc call": called like that it gives back what malloc was given,  *)
(* for any alignment.  The code does not keep this (README, section 5).     *)
FreedAsAllocated == out # None /\ job.op = "malloc" => Freed(job, out)

(* "Empty input, end_ptr should point to the start": strtoul() has an       *)
(* answer for the empty text, in every base, as for any other.  The code    *)
(* does not keep this (README, section 5).                                  *)
EmptyTextAnswered == out # None /\ job.op = "number" /\ job.s = <<>> => out.res = "ok" /\ out.end = 0

(* A partition argument, with its disk, window and legacy name, stands for  *)
(* one window inside one partition, or is refused; what "getvar all" lists  *)
(* answers the same when asked for by itself and leaves out no partition;   *)
(* staged files are kept in order, whole, as long as there is room; the     *)
(* images of "fastboot boot" are found again where they were loaded.  Only  *)
(* a block device that does not exist panics.                               *)
ArgumentsRight == out # None /\ job.op \in ArgOps => ArgRight(job, out)

(* What GBL writes for the kernel and reads from the host: a boot text holds*)
(* what was added to it and nothing is lost on the way, and an argument or  *)
(* a variable names the same thing wherever it is read.                     *)
TextsExact == FormatsRight /\ ArgumentsRight

=============================================================================
