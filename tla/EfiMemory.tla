------------------------------ MODULE EfiMemory ------------------------------
(***************************************************************************)
(* Memory of the EFI application: the global allocator over AllocatePool() *)
(* (libefi allocation.rs), the image buffers the platform reserves         *)
(* (gbl_efi_image_loading.rs, efi/src/ops.rs, utils.rs) and the end of the *)
(* boot services (libefi lib.rs), after which nothing may call them.       *)
(***************************************************************************)
EXTENDS Naturals, Sequences, SequencesExt, FiniteSets

CONSTANTS
    MemTop,          \* the firmware's pool is 0..MemTop-1
    EFI_ALLOCATE_POOL_ALIGNMENT,
    USIZE,           \* size_of::<usize>()
    Layouts,         \* <<size, align>> of what GBL allocates
    Images,          \* images, a name to the <<size, align>> of its buffer
    Reserved,        \* memory the platform reserves for images
    MAX_ARRAY_SIZE,  \* how many of them GBL keeps track of
    MaxMapChanges    \* times the firmware changes the memory map on its own

ASSUME MemAssumption ==
    /\ MemTop \in Nat /\ USIZE \in Nat \ {0} /\ EFI_ALLOCATE_POOL_ALIGNMENT \in Nat \ {0}
    /\ \A l \in Layouts \cup {Images[i] : i \in DOMAIN Images} :
          /\ l[1] \in Nat \ {0} /\ l[2] \in Nat \ {0}
          /\ l[2] =< EFI_ALLOCATE_POOL_ALIGNMENT =>    \* powers of two
                EFI_ALLOCATE_POOL_ALIGNMENT % l[2] = 0
    /\ MAX_ARRAY_SIZE \in Nat /\ MaxMapChanges \in Nat

VARIABLES
    efi,      \* EfiState: "Uninitialized", "Initialized", "Exited"
    rt,       \* are the runtime services known?
    services, \* are there boot services?
    pool,     \* the firmware's live blocks: <<address, length>>
    live,     \* what GBL has been given: [ptr, size, align]
    offsets,  \* the offsets stored behind over-aligned memory: <<address, offset>>
    returned, \* RETURNED_BUFFERS
    users,    \* who holds reserved memory: <<how, address>>
    key,      \* the memory map's key, and the one GBL got
    gotKey,
    mpc,      \* where the application stands
    late      \* has a boot service been called after the exit?

memVars == <<efi, rt, services, pool, live, offsets, returned, users, key, gotKey, mpc, late>>

MemInit ==
    /\ efi = "Uninitialized" /\ rt = FALSE /\ services = TRUE
    /\ pool = {} /\ live = {} /\ offsets = {} /\ returned = <<>> /\ users = <<>>
    /\ key = 0 /\ gotKey = 0 /\ mpc = "entry" /\ late = FALSE

Bytes(a, n) == a..(a + n - 1)
Taken == UNION {Bytes(b[1], b[2]) : b \in pool}
Room(n) == {a \in 0..(MemTop - n) : a % EFI_ALLOCATE_POOL_ALIGNMENT = 0 /\ Bytes(a, n) \cap Taken = {}}
EveryPlace == 0..MemTop

(* internal_efi_entry_and_rt(): a boot service is called only through an    *)
(* entry that is registered.                                                *)
Entry == efi = "Initialized"
Called == late' = (late \/ (Entry /\ ~services))

(* efi_main(): a second one would be refused.                               *)
initialize ==
    /\ mpc = "entry" /\ efi = "Uninitialized" /\ efi' = "Initialized" /\ mpc' = "up"
    /\ rt' \in BOOLEAN
    /\ UNCHANGED <<services, pool, live, offsets, returned, users, key, gotKey, late>>

(* EfiAllocator::alloc(): at is where the firmware puts the block; memory    *)
(* that is aligned more strictly moves up inside a larger block, the        *)
(* distance kept behind it.                                                 *)
Offset(at, align) == IF align =< EFI_ALLOCATE_POOL_ALIGNMENT THEN 0 ELSE align - (at % align)

(* Mutant: no room for the stored distance. *)
PoolSize_short(size, align) == IF align =< EFI_ALLOCATE_POOL_ALIGNMENT THEN size ELSE size + align

PoolSize(size, align) == IF align =< EFI_ALLOCATE_POOL_ALIGNMENT THEN size ELSE size + align + USIZE

Given(size, align, at) == [ptr |-> at + Offset(at, align), size |-> size, align |-> align]
Store(size, align, at) ==
    IF align =< EFI_ALLOCATE_POOL_ALIGNMENT THEN offsets
    ELSE LET w == at + Offset(at, align) + size
         IN {o \in offsets : Bytes(o[1], USIZE) \cap Bytes(w, USIZE) = {}} \cup {<<w, Offset(at, align)>>}

allocate(size, align, ok, null) ==
    \/ /\ Entry
       /\ \E at \in EveryPlace :
             /\ at \in Room(PoolSize(size, align))
             /\ pool' = pool \cup {<<at, PoolSize(size, align)>>}
             /\ live' = live \cup {Given(size, align, at)}
             /\ offsets' = Store(size, align, at)
       /\ key' = key /\ ok
    \/ /\ ~Entry \/ Room(PoolSize(size, align)) = {}
       /\ UNCHANGED <<pool, live, offsets, key>> /\ null

(* Memory for GBL itself; handle_alloc_error() is a panic.                  *)
alloc ==
    /\ mpc \in {"up", "left"}
    /\ \E l \in Layouts : allocate(l[1], l[2], mpc' = mpc, mpc' = "panic")
    /\ Called
    /\ UNCHANGED <<efi, rt, services, returned, users, gotKey>>

(* EfiAllocator::dealloc(): the block starts where the stored distance says.*)
(* A block the firmware does not know is an error that is only logged.      *)
BlockOf(a) ==
    IF a.align =< EFI_ALLOCATE_POOL_ALIGNMENT THEN a.ptr
    ELSE a.ptr - (CHOOSE o \in offsets : o[1] = a.ptr + a.size)[2]
dealloc ==
    /\ mpc \in {"up", "left"}
    /\ \E a \in live :
          /\ ~\E u \in Range(users) : u[1] = "allocated" /\ u[2] = a.ptr   \* leaked on purpose
          /\ live' = live \ {a} /\ offsets' = {o \in offsets : o[1] # a.ptr + a.size}
          /\ IF Entry THEN pool' = {b \in pool : b[1] # BlockOf(a)} ELSE UNCHANGED pool
    /\ Called
    /\ UNCHANGED <<efi, rt, services, returned, users, key, gotKey, mpc>>

(* GBL_EFI_IMAGE_LOADING.GetBuffer(), external: an error or too little, a   *)
(* size to allocate, or memory it has reserved, perhaps once more.          *)
FwBuffers == {<<"error">>, <<"size">>} \cup {<<"memory", a>> : a \in Reserved}

(* EfiImageBuffer::new(): the same memory is not given out twice.           *)
Tracked(r) == r[2] \in Range(returned)
EfiImageBuffer_new(r) == r[1] = "memory" /\ ~Tracked(r)
Push(r) == returned' = Append(returned, r[2])
Overfull(r) == EfiImageBuffer_new(r) /\ Len(returned) = MAX_ARRAY_SIZE   \* push() panics

(* get_image_buffer(): the argument of or() is computed first, so memory is *)
(* allocated, and leaked, even when the platform has some.                  *)
get_image_buffer ==
    /\ mpc = "up" /\ Len(users) =< MAX_ARRAY_SIZE
    /\ \E r \in FwBuffers, i \in DOMAIN Images :
          IF Overfull(r)
          THEN mpc' = "panic" /\ UNCHANGED <<pool, live, offsets, returned, users, key>>
          ELSE /\ IF EfiImageBuffer_new(r) THEN Push(r) ELSE UNCHANGED returned
               /\ allocate(Images[i][1], Images[i][2],
                     /\ mpc' = mpc
                     /\ \E a \in live' \ live :
                           users' = users \o <<<<"allocated", a.ptr>>>>
                                          \o (IF EfiImageBuffer_new(r) THEN <<<<"reserved", r[2]>>>> ELSE <<>>),
                     mpc' = "panic" /\ UNCHANGED users)
    /\ Called
    /\ UNCHANGED <<efi, rt, services, gotKey>>

(* get_platform_buffer_info(): reserved memory is kept for good, anything   *)
(* else is allocated by the caller.                                         *)
get_platform_buffer_info ==
    /\ mpc = "up"
    /\ \E r \in FwBuffers :
          /\ EfiImageBuffer_new(r)
          /\ IF Overfull(r) THEN mpc' = "panic" /\ UNCHANGED <<returned, users>>
             ELSE Push(r) /\ users' = Append(users, <<"reserved", r[2]>>) /\ UNCHANGED mpc
    /\ Called
    /\ UNCHANGED <<efi, rt, services, pool, live, offsets, key, gotKey>>

(* EfiImageBuffer::drop(): memory that is not taken is released; the last   *)
(* address takes the place of the first one that is equal.                  *)
release(s, addr) ==
    LET pos == CHOOSE i \in DOMAIN s : s[i] = addr /\ \A j \in 1..(i - 1) : s[j] # addr
    IN  [i \in 1..(Len(s) - 1) |-> IF i = pos THEN s[Len(s)] ELSE s[i]]
drop_image_buffer ==
    /\ mpc = "up"
    /\ \E r \in FwBuffers :
          /\ EfiImageBuffer_new(r) /\ Len(returned) < MAX_ARRAY_SIZE
          /\ returned' = release(Append(returned, r[2]), r[2])
    /\ Called
    /\ UNCHANGED <<efi, rt, services, pool, live, offsets, users, key, gotKey, mpc>>

(* exit_boot_services(): the memory map, then the exit with its key; the    *)
(* firmware may change the map in between.  Nothing is retried.             *)
get_memory_map ==
    /\ mpc = "up"
    /\ \/ gotKey' = key /\ mpc' = "mapped"
       \/ mpc' = "panic" /\ UNCHANGED gotKey   \* the buffer is too small or not aligned
    /\ Called
    /\ UNCHANGED <<efi, rt, services, pool, live, offsets, returned, users, key>>

exit_boot_services ==
    /\ mpc = "mapped" /\ Called
    /\ IF gotKey = key THEN services' = FALSE /\ efi' = "Exited" /\ mpc' = "left"
       ELSE mpc' = "panic" /\ UNCHANGED <<services, efi>>
    /\ UNCHANGED <<rt, pool, live, offsets, returned, users, key, gotKey>>

FwChangesMap ==
    /\ key < MaxMapChanges /\ services /\ key' = key + 1
    /\ UNCHANGED <<efi, rt, services, pool, live, offsets, returned, users, gotKey, mpc, late>>

(* The handoff; a failure after the exit is a panic as any other.           *)
jump_kernel ==
    /\ mpc = "left" /\ mpc' \in {"kernel", "panic"}
    /\ UNCHANGED <<efi, rt, services, pool, live, offsets, returned, users, key, gotKey, late>>

(* panic(): print if there is a console, then reset() through the runtime   *)
(* services, which outlive the exit; without them it hangs.                 *)
panic ==
    /\ mpc = "panic" /\ Called /\ mpc' = IF rt THEN "reset" ELSE "hang"
    /\ UNCHANGED <<efi, rt, services, pool, live, offsets, returned, users, key, gotKey>>

MemNext ==
    \/ initialize \/ alloc \/ dealloc \/ get_image_buffer \/ get_platform_buffer_info
    \/ drop_image_buffer \/ get_memory_map \/ exit_boot_services \/ FwChangesMap \/ jump_kernel \/ panic
    \/ (mpc \in {"kernel", "reset", "hang"} /\ UNCHANGED memVars)

(* Every piece of memory GBL holds is aligned, lies with its stored         *)
(* distance in a block of its own, and a block is freed with what lies in   *)
(* it; reserved memory has one user; no boot service is called after the    *)
(* exit, not even by a panic.                                               *)
Within(a, b) ==
    a.ptr >= b[1] /\ a.ptr + a.size + (IF a.align =< EFI_ALLOCATE_POOL_ALIGNMENT THEN 0 ELSE USIZE) =< b[1] + b[2]
MemoryExact ==
    /\ \A a \in live : a.ptr % a.align = 0
    /\ services => /\ \A a \in live : \E b \in pool : Within(a, b)
                   /\ \A b \in pool : Cardinality({a \in live : Within(a, b)}) = 1
    /\ \A i, j \in 1..Len(users) : users[i] = users[j] => i = j
    /\ ~late
=============================================================================
