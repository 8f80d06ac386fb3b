----------------------------- MODULE BootLayout -----------------------------
(***************************************************************************)
(* Where the Android images go in the load buffer (libgbl android_boot     *)
(* load.rs and mod.rs, device_tree.rs, libfdt): they are read one behind   *)
(* the other, verified, and then moved over each other into place.  The    *)
(* buffer w.mem starts at address w.base; offsets count from 0.  A job d   *)
(* describes what the partitions hold.                                     *)
(***************************************************************************)
EXTENDS BootData

CONSTANTS
    MAXIMUM_OVERLAYS_TO_APPLY,
    PAGE_SIZE, FDT_ALIGNMENT, KERNEL_ALIGNMENT,
    MAXIMUM_DEVICE_TREE_COMPONENTS,
    CMDLINE_SPARE      \* what is reserved for separators and fixups (1024)

Cells(tag, n) == [i \in 1..n |-> <<tag, i>>]
Padded(s, page) == s \o [i \in 1..(RoundUp(Len(s), page) - Len(s)) |-> <<"pad", 0>>]

page_aligned_range(start, sz, page) == [start |-> start, end |-> RoundUp(start + sz, page)]
RangeLen(r) == r.end - r.start
offset_range(r, off) == [start |-> r.start + off, end |-> r.end + off]

(* What the partitions hold, and where their headers say it is.             *)
BootImage(d, kernel, ramdisk) ==
    Padded(<<<<"hdr", 0>>>>, PAGE_SIZE) \o Padded(kernel, PAGE_SIZE) \o Padded(ramdisk, PAGE_SIZE)

(* Headers up to v2: v1 and v2 have a recovery dtbo, at a place of their    *)
(* own choice, v2 a device tree.  0 stands for no place; a place before the *)
(* end of the second image, or a command line that is no string, is an      *)
(* error.                                                                   *)
SecondEnd(d) ==
    LET k == page_aligned_range(PAGE_SIZE, Len(d.kernel), PAGE_SIZE)
        r == page_aligned_range(k.end, Len(d.ramdisk), PAGE_SIZE)
    IN  page_aligned_range(r.end, d.second, PAGE_SIZE).end

BootImageV2Info(d) ==
    LET k == page_aligned_range(PAGE_SIZE, Len(d.kernel), PAGE_SIZE)
        r == page_aligned_range(k.end, Len(d.ramdisk), PAGE_SIZE)
        start == SecondEnd(d)
        rec == IF d.ver \in {1, 2} THEN d.recovery ELSE [off |-> start, size |-> 0]
        o == IF rec.off >= start THEN page_aligned_range(rec.off, rec.size, PAGE_SIZE)
             ELSE page_aligned_range(start, 0, PAGE_SIZE)
        dtb_sz == IF d.ver = 2 THEN Len(d.dtb) ELSE 0
        t == page_aligned_range(o.end, dtb_sz, PAGE_SIZE)
    IN  [kernel |-> k, ramdisk |-> r, dtb |-> t, dtb_sz |-> dtb_sz, size |-> t.end,
         res |-> IF d.cmdline_valid /\ (rec.off = 0 \/ rec.off >= start) THEN "ok" ELSE "Other"]

BootImageV3Info(kernel, ramdisk, sig) ==
    LET k == page_aligned_range(PAGE_SIZE, Len(kernel), PAGE_SIZE)
        r == page_aligned_range(k.end, Len(ramdisk), PAGE_SIZE)
    IN  [kernel |-> k, ramdisk |-> r, size |-> page_aligned_range(r.end, sig, PAGE_SIZE).end]

VendorBootImageInfo(d) ==
    LET r == page_aligned_range(PAGE_SIZE, Len(d.vendor_ramdisk), PAGE_SIZE)
        t == page_aligned_range(r.end, Len(d.dtb), PAGE_SIZE)
        table == page_aligned_range(t.end, d.table, PAGE_SIZE)
        b == [start |-> table.end, end |-> table.end + Len(d.vendor_bootconfig)]
    IN  [hdr |-> PAGE_SIZE, ramdisk |-> r, dtb |-> t, bootconfig |-> b, size |-> RoundUp(b.end, PAGE_SIZE)]

BootV2(d) ==
    LET info == BootImageV2Info(d)
        images == BootImage(d, d.kernel, d.ramdisk) \o Padded(Cells("second", d.second), PAGE_SIZE)
    IN  images \o Cells("recovery", info.dtb.start - Len(images)) \o Padded(Take(d.dtb, info.dtb_sz), PAGE_SIZE)
BootV3(d) == BootImage(d, d.kernel, d.ramdisk) \o Padded(Cells("sig", d.sig), PAGE_SIZE)
InitBoot(d) == BootImage(d, <<>>, d.init_ramdisk)
VendorBoot(d) == Padded(<<<<"vhdr", 0>>>>, PAGE_SIZE) \o Padded(d.vendor_ramdisk, PAGE_SIZE)
                 \o Padded(d.dtb, PAGE_SIZE) \o Padded(Cells("table", d.table), PAGE_SIZE)
                 \o Padded(d.vendor_bootconfig, PAGE_SIZE)

-----------------------------------------------------------------------------
(* Steps on the buffer: w is [base, mem, res].                              *)
Size(w) == Len(w.mem)

split(w, off, n) == IF off + n > Size(w) THEN Fail(w, "BufferTooSmall") ELSE w
Slice(w, off, n) == IF off + n > Size(w) THEN Fail(w, "panic") ELSE w
read_from_partition(w, off, img) == Then(split(w, off, Len(img)), LAMBDA x : [x EXCEPT !.mem = Splice(@, off, img)])
copy_within(w, from, n, to) == Then(w, LAMBDA x : [x EXCEPT !.mem = Splice(@, to, Bytes(@, from, n))])

load_entire_part(w, off, part) == IF part = <<>> THEN w ELSE read_from_partition(w, off, part)

aligned_subslice(w, off, k) == RoundUp(w.base + off, k) - w.base

(* Where in [off, end) a tail of n units with an aligned start begins;      *)
(* below off there is no room.                                              *)
aligned_tail_offset(w, end, n, k) == RoundDown(w.base + end - n, k) - w.base

split_aligned_tail(w, off, end, n, k) ==
    IF end - n < off \/ aligned_tail_offset(w, end, n, k) < off THEN Fail(w, "Arithmetic") ELSE w

(* Mutant: the kernel is unpacked, but not moved. *)
relocate_kernel_unmoved(w, kernel, off) ==
    LET k == decompress_kernel(kernel, Size(w) - off)
    IN  Then(w, LAMBDA x :
          IF k.res # "ok" THEN Fail(x, k.res)
          ELSE split_aligned_tail([x EXCEPT !.mem = Splice(@, off, k.out)], off, Size(x), Len(k.out), KERNEL_ALIGNMENT))

(* relocate_kernel(): unpacked at the front of [off, Size), then moved to   *)
(* its tail.                                                                *)
relocate_kernel(w, kernel, off) ==
    LET k == decompress_kernel(kernel, Size(w) - off)
        n == Len(k.out)
        tail == aligned_tail_offset(w, Size(w), n, KERNEL_ALIGNMENT)
    IN  Then(w, LAMBDA x :
          IF k.res # "ok" THEN Fail(x, k.res)
          ELSE Then(split_aligned_tail([x EXCEPT !.mem = Splice(@, off, k.out)], off, Size(x), n, KERNEL_ALIGNMENT),
                    LAMBDA y : copy_within(y, off, n, tail)))

(* The bootconfig behind the images: libavb's, the loader's and the         *)
(* platform's, for v3 and v4 also that of vendor_boot.                      *)
Bootconfig(w, off, d, vendor) ==
    bootconfig_add_with(bootconfig_add_with(bootconfig_add(bootconfig_new(Size(w) - off),
        d.bootconfig), d.fixup), vendor)

StoreBootconfig(w, off, b) ==
    IF ~Ok(b) THEN Fail(w, b.res)
    ELSE Then(w, LAMBDA x : [x EXCEPT !.mem = Splice(@, off, config_bytes(b))])

(* Output of a load: places of what LoadedImages holds.                     *)
At(off, n) == [off |-> off, n |-> n]
Nowhere(w) == [w |-> w, ramdisk |-> At(0, 0), unused |-> At(0, 0), dtb |-> At(0, 0), kernel |-> At(0, 0),
               fdt |-> At(0, 0)]

-----------------------------------------------------------------------------
(* The kernel in the images, and where at the tail it goes when unpacked.   *)
Packed(w, p) == Bytes(w.mem, p.kernel.start, RangeLen(p.kernel))

KernelPlace(w, unpacked) == At(aligned_tail_offset(w, Size(w), Len(unpacked), KERNEL_ALIGNMENT), Len(unpacked))

(* What is moved over what once the images at p are verified, with n units  *)
(* of bootconfig at p.end: kernel k and dtb to the tail, the ramdisk over   *)
(* the kernel, the bootconfig behind it.                                    *)
MoveV2(w, p, k, n, d) ==
    LET tlen == RangeLen(p.dtb)
        toff == aligned_tail_offset(w, k.off, tlen, FDT_ALIGNMENT)
        rsz == RangeLen(p.ramdisk)
        unused == p.kernel.start + rsz + n
        moved == copy_within(
                   copy_within(
                     Then(Then(relocate_kernel(w, Packed(w, p), p.end + n),
                               LAMBDA x : split_aligned_tail(x, p.end + n, k.off, tlen, FDT_ALIGNMENT)),
                          LAMBDA x : copy_within(x, p.dtb.start, tlen, toff)),
                     p.ramdisk.start, rsz, p.kernel.start),
                   p.end, n, p.kernel.start + rsz)
    IN  [w |-> moved, ramdisk |-> At(p.kernel.start, rsz + n), unused |-> At(unused, toff - unused),
         dtb |-> At(toff, p.dtb_sz), kernel |-> k]

(* For v3 and v4 kernel, boot header and dtb move to the tail, the generic  *)
(* ramdisk behind the vendor ramdisk, the bootconfig behind that.           *)
MoveV3(w, p, k, n, d) ==
    LET hoff == k.off - PAGE_SIZE
        tlen == RangeLen(p.dtb)
        toff == aligned_tail_offset(w, hoff, tlen, FDT_ALIGNMENT)
        gsz == RangeLen(p.generic)
        to == p.ramdisk.end
        header == Then(Then(relocate_kernel(w, Packed(w, p), p.end + n),
                            LAMBDA x : split_aligned_tail(x, p.end + n, k.off, PAGE_SIZE, 1)),
                       LAMBDA x : copy_within(x, p.boot, PAGE_SIZE, hoff))
        moved == copy_within(
                   copy_within(
                     Then(Then(header, LAMBDA x : split_aligned_tail(x, p.end + n, hoff, tlen, FDT_ALIGNMENT)),
                          LAMBDA x : copy_within(x, p.dtb.start, tlen, toff)),
                     p.generic.start, gsz, to),
                   p.end, n, to + gsz)
    IN  [w |-> moved, ramdisk |-> At(p.ramdisk.start, RangeLen(p.ramdisk) + gsz + n),
         unused |-> At(to + gsz + n, toff - to - gsz - n), dtb |-> At(toff, p.dtb_sz), kernel |-> k]

Move(w, p, k, n, d) == IF d.ver >= 3 THEN MoveV3(w, p, k, n, d) ELSE MoveV2(w, p, k, n, d)

(* The bootconfig b is in place, or did not fit; w holds the images.        *)
Arrange(w, p, b, d) ==
    IF Ok(w) /\ Ok(b)
    THEN Move(StoreBootconfig(w, p.end, b), p,
              KernelPlace(w, decompress_kernel(Packed(w, p), Size(w)).out), Len(config_bytes(b)), d)
    ELSE Nowhere(Fail(w, b.res))

Placed(L) == IF Ok(L.w) THEN L ELSE Nowhere(L.w)

(* load_verify_v2_and_lower() from offset lo on.                            *)
load_verify_v2_and_lower(w, d, lo) ==
    LET info == BootImageV2Info(d)
        p == [kernel |-> offset_range(info.kernel, lo), ramdisk |-> offset_range(info.ramdisk, lo),
              dtb |-> offset_range(info.dtb, lo), dtb_sz |-> info.dtb_sz, end |-> lo + info.size]
        unwrapped == IF info.res = "ok" THEN w ELSE Fail(w, "panic")
    IN  Placed(Arrange(Then(unwrapped, LAMBDA x : read_from_partition(x, lo, BootV2(d))), p,
                        Bootconfig(w, lo + info.size, d, <<>>), d))

(* Where the images of v3 and v4 and their parts are: vendor_boot, boot     *)
(* and, if boot has no ramdisk, init_boot.                                  *)
ImagesV3(d, lo, vinfo, binfo, iinfo) ==
    LET boot == lo + vinfo.size
        next == boot + binfo.size
        init == RangeLen(binfo.ramdisk) = 0
    IN  [boot |-> boot, init |-> init, next |-> next, end |-> IF init THEN next + iinfo.size ELSE next,
         ramdisk |-> offset_range(vinfo.ramdisk, lo), dtb |-> offset_range(vinfo.dtb, lo), dtb_sz |-> Len(d.dtb),
         kernel |-> offset_range(binfo.kernel, boot),
         generic |-> IF init THEN offset_range(iinfo.ramdisk, next) ELSE offset_range(binfo.ramdisk, boot)]

LoadV3(w, d, lo, p) ==
    LET loaded == read_from_partition(read_from_partition(w, lo, VendorBoot(d)), p.boot, BootV3(d))
    IN  IF p.init THEN Then(Slice(loaded, p.next, PAGE_SIZE), LAMBDA x : read_from_partition(x, p.next, InitBoot(d)))
        ELSE loaded

load_verify_v3_and_v4(w, d, lo) ==
    LET p == ImagesV3(d, lo, VendorBootImageInfo(d), BootImageV3Info(d.kernel, d.ramdisk, d.sig),
                      BootImageV3Info(<<>>, d.init_ramdisk, 0))
        L == Arrange(LoadV3(w, d, lo, p), p, Bootconfig(w, p.end, d, d.vendor_bootconfig), d)
    IN  Placed(IF d.cmdline_valid THEN L ELSE [L EXCEPT !.w = Fail(@, "Other")])

(* android_load_verify(): dtbo, dtb, then by the version of boot's header.  *)
android_load_verify(w, d) ==
    LET w1 == load_entire_part(w, 0, d.dtbo)
        dtb == aligned_subslice(w, Len(d.dtbo), FDT_ALIGNMENT)
        w2 == Then(w1, LAMBDA x : load_entire_part(IF dtb > Size(x) THEN Fail(x, "BufferTooSmall") ELSE x,
                                                   dtb, d.dtb_part))
        lo == dtb + Len(d.dtb_part)
        w3 == Then(w2, LAMBDA x : Slice(x, lo, PAGE_SIZE))
    IN  IF d.ver >= 3 THEN load_verify_v3_and_v4(w3, d, lo) ELSE load_verify_v2_and_lower(w3, d, lo)

-----------------------------------------------------------------------------
(* Device trees.  A tree is cells: its totalsize, what it uses, the rest;   *)
(* a property is a cell with its name and length, and its value.            *)
FDT_HEADER_SIZE == 2
Tree(body) == <<<<"fdt", Len(body) + 2>>, <<"used", Len(body) + 2>>>> \o body

fdt_check_header(b) == Len(b) >= FDT_HEADER_SIZE /\ b[1][1] = "fdt"
totalsize(b) == b[1][2]
fdt_check_buffer(b) == fdt_check_header(b) /\ totalsize(b) =< Len(b)

(* DeviceTreeComponentsRegistry r: components with place and source, and    *)
(* the part [at, end) of the buffer that trees are copied to for alignment. *)
is_base_device_tree(c) == c.source # "Dtbo"

push(r, source, off, n) ==
    [r EXCEPT !.comps = Append(@, [source |-> source, off |-> off, n |-> n])]

copy_aligned(r, source, dtb, err) ==
    LET at == aligned_subslice(r.w, r.at, FDT_ALIGNMENT)
    IN  CASE at > r.end -> [r EXCEPT !.w = Fail(@, "BufferTooSmall")]
          [] at =< r.end /\ at + Len(dtb) > r.end -> [r EXCEPT !.w = Fail(@, err)]
          [] OTHER -> push([r EXCEPT !.w.mem = Splice(@, at, dtb), !.at = at + Len(dtb)], source, at, Len(dtb))

append_from_dttable(r, source, t) ==
    LET add(x, n) == LET e == nth_entry(t, n)
                     IN  IF e.res # "ok" THEN [x EXCEPT !.w = Fail(@, "panic")]
                         ELSE copy_aligned(x, source, e.dtb, "Other")
    IN  IF dttable_from_bytes(t) # "ok" THEN [r EXCEPT !.w = Fail(@, dttable_from_bytes(t))]
        ELSE IF entries_count(t) > MAXIMUM_DEVICE_TREE_COMPONENTS - Len(r.comps)
             THEN [r EXCEPT !.w = Fail(@, "Other")]
        ELSE FoldLeft(LAMBDA x, i : IF Ok(x.w) THEN add(x, i - 1) ELSE x, r, [i \in 1..entries_count(t) |-> i])

(* One tree more of a sequence of trees: data is what is left of it.  The   *)
(* header is copied to the buffer to be looked at, which may not fit.       *)
append_from_multifdt_buffer(a) ==
    LET at == aligned_subslice(a.r.w, a.r.at, FDT_ALIGNMENT)
        size == totalsize(a.data)
        stop == at + FDT_HEADER_SIZE > a.r.end \/ Len(a.data) < FDT_HEADER_SIZE \/ ~fdt_check_header(a.data)
        err(e) == [a EXCEPT !.done = TRUE, !.r.w = Fail(@, e)]
    IN  IF a.done \/ stop \/ ~Ok(a.r.w) THEN [a EXCEPT !.done = TRUE]
        ELSE IF Len(a.r.comps) = MAXIMUM_DEVICE_TREE_COMPONENTS \/ size > Len(a.data) THEN err("Other")
        ELSE [a EXCEPT !.r = copy_aligned(@, "Boot", Take(a.data, size), "Other"), !.data = Drop(@, size)]

append(r, source, off, n) ==
    LET fdt == Bytes(r.w.mem, off, n)
        size == totalsize(fdt)
    IN  IF Len(r.comps) = MAXIMUM_DEVICE_TREE_COMPONENTS THEN [r EXCEPT !.w = Fail(@, "Other")]
        ELSE IF size > n THEN [r EXCEPT !.w = Fail(@, "panic")]
        ELSE FoldLeft(LAMBDA a, i : append_from_multifdt_buffer(a),
                      [done |-> FALSE, data |-> Drop(fdt, size), r |-> push(r, source, off, size)],
                      [i \in 1..(n + 1) |-> i]).r

(* What the platform selects, sel, or autoselect(): indices of components.  *)
autoselect(r) ==
    LET base == {i \in DOMAIN r.comps : is_base_device_tree(r.comps[i])}
    IN  IF Cardinality(base) = 1 THEN base ELSE None

selected(r, sel) ==
    LET base == {i \in sel : is_base_device_tree(r.comps[i])}
    IN  IF sel # None /\ Cardinality(base) = 1
        THEN [base |-> CHOOSE i \in base : TRUE, overlays |-> SetToSortSeq(sel \ base, <)]
        ELSE None

(* libfdt (external) on a tree f in a buffer of cap cells: the header says  *)
(* how much of the buffer may be used.                                      *)
set_property(f, name, val) ==
    LET old == {i \in DOMAIN f.cells : f.cells[i][1] = name}
        at == IF old = {} THEN Len(f.cells) ELSE Min(old) - 1
        gone == IF old = {} THEN 0 ELSE 1 + f.cells[at + 1][2]
        new == Take(f.cells, at) \o <<<<name, Len(val)>>>> \o val \o Drop(f.cells, at + gone)
    IN  IF Len(new) > f.total THEN Fail(f, "Other")
        ELSE Then(f, LAMBDA x : [x EXCEPT !.cells = new])

get_property(f, name) ==
    LET at == Min({i \in DOMAIN f.cells : f.cells[i][1] = name})
    IN  IF \E i \in DOMAIN f.cells : f.cells[i][1] = name THEN Bytes(f.cells, at, f.cells[at][2]) ELSE <<>>

new_from_init(cap, init) ==
    LET f == [cap |-> cap, cells |-> Take(init, init[2][2]), total |-> cap, res |-> "ok"]
    IN  IF ~fdt_check_buffer(init) THEN Fail(f, "InvalidInput")
        ELSE IF totalsize(init) > cap THEN Fail(f, "Other") ELSE f

shrink_to_fit(f) == [f EXCEPT !.total = Len(f.cells)]

(* multioverlay_apply(): what the overlays hold is merged in; an error of   *)
(* ufdt is one of room.                                                     *)
multioverlay_apply(f, overlays) ==
    LET new == f.cells \o FlattenSeq([i \in DOMAIN overlays |-> Drop(overlays[i], FDT_HEADER_SIZE)])
    IN  CASE overlays = <<>> -> f
          [] Len(overlays) > MAXIMUM_OVERLAYS_TO_APPLY -> Fail(f, "Other")
          [] overlays # <<>> /\ Len(overlays) =< MAXIMUM_OVERLAYS_TO_APPLY /\ Len(new) > f.cap -> Fail(f, "Other")
          [] OTHER -> Then(f, LAMBDA x : [x EXCEPT !.cells = new, !.total = x.cap])

UntilNul(val) == Take(val, TakeWhile(val, LAMBDA c : c # NUL))

(* The command line: that of the tree, boot's, vendor_boot's and what the   *)
(* platform adds, in a property with room to spare.                         *)
Commandline(f, d) ==
    LET dt == UntilNul(get_property(f, "bootargs"))
        vendor == IF d.ver >= 3 THEN d.vendor_cmdline ELSE <<>>
        len == Len(dt) + Len(d.cmdline) + Len(vendor) + CMDLINE_SPARE
        b == cmdline_add_with(cmdline_add(cmdline_add(cmdline_from_prefix(len, dt), d.cmdline), vendor), d.cmdline_fixup)
    IN  IF ~Ok(b) THEN Fail(f, b.res)
        ELSE set_property(f, "bootargs", b.text \o [i \in 1..(len - Len(b.text)) |-> NUL])

(* The components of a boot: from dtbo, from boot or vendor_boot, from dtb. *)
Components(L, d) ==
    LET r0 == [w |-> L.w, comps |-> <<>>, at |-> L.unused.off, end |-> L.unused.off + L.unused.n]
        dtb == Bytes(L.w.mem, L.dtb.off, L.dtb.n)
        r1 == IF d.dtbo = <<>> THEN r0 ELSE append_from_dttable(r0, "Dtbo", Bytes(L.w.mem, 0, Len(d.dtbo)))
        r2 == CASE ~Ok(r1.w) \/ dtb = <<>> -> r1
                [] Ok(r1.w) /\ dtb # <<>> /\ fdt_check_header(dtb) -> append(r1, "Boot", L.dtb.off, L.dtb.n)
                [] Ok(r1.w) /\ dtb # <<>> /\ ~fdt_check_header(dtb) /\ dttable_from_bytes(dtb) = "ok" ->
                       append_from_dttable(r1, "Boot", dtb)
                [] OTHER -> [r1 EXCEPT !.w = Fail(@, "Other")]
    IN  IF ~Ok(r2.w) \/ d.dtb_part = <<>> THEN r2
        ELSE append_from_dttable(r2, "Dtb", Bytes(L.w.mem, aligned_subslice(L.w, Len(d.dtbo), FDT_ALIGNMENT),
                                                  Len(d.dtb_part)))

(* The final tree, from the trees selected, in the room from off to end.    *)
FinalTree(L, s, off, end, d) ==
    LET ramdisk == L.w.base + L.ramdisk.off
        f1 == set_property(set_property(new_from_init(end - off, s.base),
                                        "initrd-start", <<<<"addr", ramdisk>>>>),
                           "initrd-end", <<<<"addr", ramdisk + L.ramdisk.n>>>>)
        f2 == Then(f1, LAMBDA x : Commandline(x, d))
        f3 == Then(f2, LAMBDA x : multioverlay_apply(x, s.overlays))
    IN  shrink_to_fit(Then(f3, LAMBDA x : set_property([x EXCEPT !.total = x.cap], "fixup", d.fdt_fixup)))

(* The tree f goes to off, and the kernel forward to new, to follow it.     *)
PlaceTree(L, w, off, f, new) ==
    LET stored == [w EXCEPT !.mem = Splice(@, off, <<<<"fdt", f.total>>, <<"used", f.total>>>>
                                                      \o Drop(f.cells, FDT_HEADER_SIZE))]
    IN  [w |-> copy_within(stored, L.kernel.off, L.kernel.n, new),
         ramdisk |-> L.ramdisk, fdt |-> At(off, new - off), kernel |-> At(new, L.kernel.n),
         dtb |-> L.dtb, unused |-> At(new + L.kernel.n, Size(w) - new - L.kernel.n)]

Finish(L, w, off, f) ==
    IF Ok(f) THEN PlaceTree(L, w, off, f, aligned_subslice(w, off + Len(f.cells), KERNEL_ALIGNMENT))
    ELSE Nowhere(Fail(w, f.res))

(* The trees s go into the memory from at on, what is unused of it.         *)
FixupWith(L, w, s, at, d) ==
    LET off == aligned_subslice(w, at, FDT_ALIGNMENT)
        end == L.unused.off + L.unused.n
    IN  IF off > end THEN Nowhere(Fail(w, "BufferTooSmall"))
        ELSE Finish(L, w, off, FinalTree(L, s, off, end, d))

FixupComponents(L, r, d) ==
    LET s == selected(r, IF d.select = None THEN autoselect(r) ELSE d.select \cap DOMAIN r.comps)
        tree(i) == Bytes(r.w.mem, r.comps[i].off, r.comps[i].n)
    IN  IF ~Ok(r.w) THEN Nowhere(r.w)
        ELSE IF s = None THEN Nowhere(Fail(r.w, "Other"))
        ELSE FixupWith(L, r.w, [base |-> tree(s.base), overlays |-> [i \in DOMAIN s.overlays |-> tree(s.overlays[i])]], r.at, d)

(* A tree of the platform comes before all those of the images.             *)
FixupLoaded(L, d) ==
    CASE ~Ok(L.w) -> L
      [] Ok(L.w) /\ d.custom # None -> FixupWith(L, L.w, [base |-> d.custom, overlays |-> <<>>], L.unused.off, d)
      [] OTHER -> FixupComponents(L, Components(L, d), d)

(* android_load_verify_fixup(): the final tree goes behind the components,  *)
(* the kernel is moved forward to follow it.                                *)
android_load_verify_fixup(w, d) == FixupLoaded(android_load_verify(w, d), d)

=============================================================================
