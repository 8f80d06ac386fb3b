# A verification project for GBL, the Generic Boot Loader

GBL (`gbl/`) is an EFI application that takes an Android or Fuchsia device from
firmware to kernel: it repairs partition tables, serves fastboot, chooses a slot,
loads and verifies images and jumps.  This project states what makes that correct
as TLA+ specifications translated from the source, checks them with TLC on small
instances, and proves the central ones with TLAPS for every instance.

## 1. The system

| Component | State it keeps | Operations | Talks to |
|---|---|---|---|
| `libabr` | A/B/R metadata on storage: priority, tries, success mark per slot, one-shot flags, CRC | `get_boot_slot`, `mark_slot_{active,successful,unbootable}`, one-shot flags | Fuchsia boot flow, fastboot, running system; storage through `Ops` |
| `libstorage/gpt.rs` | Two copies of header and entries on disk, load buffer in memory | `load_and_sync`, `update_gpt`, `erase_gpt`, `GptBuilder` | `GblDisk`, fastboot (`flash gpt`, `oem gbl-erase-gpt`), start-up |
| `libgbl/fastboot` | Download buffer and size, buffer pool, task container, disk borrows | `download`, `flash`, `erase`, `fetch`, `boot`, `continue`, `reboot*`, `set_active`, oem commands | `libfastboot` (transport), disks, boot flow (`GblFastbootResult`) |
| `libgbl/android_boot` | Locals of `android_main`: boot mode, reason, slot, load buffer | misc command, fastboot entry, slot choice, load, verify, fix up, hand off | misc partition, firmware slot protocol, libavb, fastboot |
| `libgbl/gbl_avb`, `vboot.rs` | Lock state, colour reported | `avb_verify_slot`, AVB callbacks | libavb, firmware AVB protocol |
| `libgbl/slots`, `libefi/ab_slots` | Slot metadata cache (clean or dirty), boot token | `get_boot_target`, `mark_boot_attempt`, `set_active_slot`, write-back | A/B partition or firmware |
| `libstorage` block I/O, `partition.rs`, `sparse.rs` | Scratch buffer, borrowed sub-ranges | unaligned reads and writes, sparse chunks | disks |
| `libfastboot` | Session | packet parsing, dispatch, download, upload | TCP, USB |
| `libgbl/fuchsia_boot` | Loaded ZBI, rollback indexes | load, verify, slot choice | `libabr`, libavb |
| `libgbl/device_tree.rs`, `libdttable`, `libfdt` | Registry of device tree components | select, apply overlays | load flow |
| `libbootparams`, `libxbc` | Boot configuration, command line | add, check trailer | load flow |
| `efi/`, `libefi` | Protocol handles, allocations, network, fastboot channels | entry, `exit_boot_services`, reset on panic | firmware |
| `libasync` | List of futures | poll in turn | fastboot |
| `libboot`, `libelf` | Memory and registers at the jump | start a kernel, self-relocation | load flow, firmware |
| `libc`, `libsafemath`, `libutils` | C heap with its bookkeeping | `gbl_malloc`, strings, checked arithmetic | third-party C libraries, everything |

`PROJECT.json` lists all of them with what is modelled of each, and the reason where
something is not.

What is hard here:

* **Persistence with failures.**  Metadata and tables are changed by several writes;
  power may fail between them or inside one, and a read or write may return an error
  the code treats as corruption.
* **Cooperating futures.**  The fastboot loop and the background writes share disks
  (`RefCell`) and buffers; every `await` is a point where another one runs.
* **State carried across steps.**  The misc command, the slot set active, the image
  loaded by `fastboot boot` and the downloaded size are read long after they were
  written, with other commands in between.
* **Memory shared with the firmware.**  Network frames, disk requests and image buffers
  are lent to the firmware, which works on them on its own time and may fail a call
  without saying whether it is done.
* **One buffer for everything.**  Boot images are moved over each other, a sparse image
  is parsed in the buffer it is written from, an unaligned transfer goes through one
  scratch block: what is right depends on sizes and alignments few tests have.
* **Boot loops.**  Every error ends in a reset, and only a counter written earlier
  makes the next boot different.

What makes the parts correct: slot metadata is never misread and requests are
honoured once; a table is replaced as a whole or not at all; what fastboot
acknowledged is what reaches the disk, and no command waits for ever; a locked device
starts only what was verified; attempts are counted exactly once, so that bad slots
are given up.

## 2. Plan

Done, in order of importance:

1. `Abr`: the A/B/R library.
2. `Gpt` with the abstract `GptTable`, and `GptEntries`: partition tables.
3. `GblFastboot`: commands and background tasks.
4. `AndroidBoot`: the boot flow, which uses 3 by its effects.
5. `SlotManager`: both metadata formats and the EFI backend behind one interface.
6. `BlockIo`, `PartitionIo`: unaligned I/O, partition windows, erase, sparse images.
7. `BootData`, `BootLayout`: boot texts and device tree tables, and where the images lie
   in the load buffer.
8. `FastbootLink`: the conversation with the host over USB and TCP.
9. `AbrC`, `FuchsiaBoot`: the C interface and the Fuchsia boot over `Abr`.
10. `EfiNetwork`, `EfiRequests`, `EfiMemory`, `EfiOps`: the EFI layer.
11. `HandOff`, `Helpers`, `FastbootArgs`: the jump to the kernel, C runtime and
    arithmetic, fastboot arguments and variables.

Proved for every instance (section 6): the properties of 1 to 5 and 8 to 10 and the
reads and writes of 6, except the liveness ones.

To model: `GptBuilder` over a load buffer with a stale tail; more than one TCP host.

How the modules hang together:

```
GptTable <- Gpt <- GptProofs                    GptEntries <- GptProofs
Abr <- AbrC <- FuchsiaBoot <- FuchsiaProofs     FastbootLink <- LinkProofs
SlotManager <- SlotProofs                       AndroidBoot <- AndroidBootProofs
GblFastboot <- GblFastbootProofs
EfiNetwork, EfiRequests, EfiMemory <- MCEfi <- EfiProofs      EfiOps <- EfiProofs
BlockIo <- PartitionIo <- BootData <- BootLayout <- HandOff <- Helpers <- FastbootArgs <- Algorithms
EfiOps, Algorithms <- MCAlgorithms              Algorithms <- AccessProofs
```

## 3. Modules

### Abr, AbrC, FuchsiaBoot

In `Abr` one variable, `disk`, is the metadata on storage, with all bytes a slot has.
Its `kind` says what `load_metadata` makes of it: valid, of a newer version, or with a
bad magic or CRC.  Every library call is one action that loads, changes and saves; `rd`
and `wr` say how the read and the write went.  A torn write leaves an image with a bad
CRC.  `promise` is history: what the callers were told is recorded.

| Action | Code |
|---|---|
| `mark_slot_active`, `mark_slot_unbootable`, `mark_slot_successful`, `set_one_shot`, `get_and_clear_one_shot_flag` | the functions of `libabr/src/lib.rs` with these names |
| `zircon_check_enter_fastboot` | `get_and_clear_one_shot_bootloader` and the platform trigger |
| `BootWithoutMetadata`, `BootOneShotRecovery`, `BootSlot` | the three ways through `get_boot_slot(true)` |
| `FastbootContinue`, `Reset`, `Settle` | the device around it |

`AbrC` adds the C interface (`c_staticlib.rs`): a host has a table of callbacks, some of
them missing, and every call ends in a result code, `reply`.  `FuchsiaBoot` puts
`zircon_load_verify` between the slot choice of `Abr` and the running system: `step`
runs through load, verify, raising the rollback indexes one location at a time (`todo`)
and running; `stored` holds the indexes, `vouched` is history, the images a success mark
stood for: those that marked themselves successful and those fastboot flashed over a marked
slot (`flash`, which leaves the metadata alone).  Power may be cut at each step, and the
running system writes updates.  The model assumes of the updater, which is not GBL's,
that it marks a slot unbootable before it writes to it.

### SlotManager

`libgbl/src/slots` and `libefi/src/ab_slots.rs` as one machine: `disk` is the durable
metadata, `data` and `status` the cached copy and whether it is clean, `token` the boot
token.  Android's and Fuchsia's blocks differ in the operators for priorities, tries
and one-shot requests, the EFI format in what `flush` does.  `WriteBack` is the
destructor of the cursor, with the panic of a failed write; `TornWrite` leaves a block
that does not validate.  The initial blocks are all a partition may hold.

### GptTable, Gpt, GptEntries

`GptTable` is the promise: a register holding one table and a spare of it, replaced in
one step or not at all; a failure may only let the spare take the place of the table.
`Gpt` is the code as single disk accesses over four regions (primary and secondary
header and entries).  `LoadPrimary`, `LoadSecondary` and `Resolve` are `load_and_sync`;
`todo` holds the writes an operation still has to issue, in the code's order.
`DiskWrite`, `DiskWriteError` and `PowerFail` are what can happen to the next one; a
half-written region is junk unless old and new are equal.  The load buffer is `mem`,
what its primary entries begin with, and `rest`, what stands behind the end of a table
with fewer entries (`Short`): a load reads only as many entries as the header says, a
restore copies the whole buffer, the secondary's own tail (`srest`)
included.  `RefinesTable` states that `Gpt` implements `GptTable` with `View(disk)`, the
table a fault-free restart would load, as the register, and the secondary copy as the
spare.

`GptEntries` is the inside of a table: `check_entries`, the resize of `update_gpt`,
and `GptBuilder` (`new`, `remove`, `add`, `persist`) on an array of entries with block
ranges.  Both sorts of the code are `sort_unstable_by_key`: `sortings` are the arrays one
may leave, any order of equal keys (empty partitions) unless the array is in order
already.  A disk's table is one that `check_entries` accepts however it breaks ties.

### GblFastboot, FastbootLink

A step is what runs between two awaits.  In `GblFastboot`, `step` is where the command
loop stands: waiting for a disk (`wait_partition_io`), for a buffer
(`get_download_buffer`), for room in the container (`Launch`), or done.  A task owns a
disk and a buffer from `BuildTask` to `TaskEnds`.  `promised` and `staged` are history:
what each disk will hold once accepted work is done, and the download the host last
made.  `getvar` of the download size waits for a buffer and takes it, as a download
does.  An image is a value and `Scrap` stands for anything else, because the properties
only ask whether bytes are those that were downloaded.

`FastbootLink` is the other end of the same session: host, wire and device.  `to_dev` and
`to_host` are the byte streams or USB packets, `sock` the single TCP socket, `prefetched`
the USB packet in hand, `prefix` a TCP length that was read without its message.  The
command loop fetches a USB packet or accepts a TCP connection, exchanges the handshake,
parses a command, and the backend answers with INFOs, an upload or a download and a
result.  `host` is the host: whether it is connected and greeted, the command it has
sent last (its number, kind and size), whether it waits for a result, what it has still
to write and what it has read since that command; it sends any number of commands over
one connection.  Messages carry the number of the command they belong to, so that a
property can say an answer is the answer to this command.  Sends fail, hosts leave or
vanish, timers run out, packets are larger than the command's buffer (`BufferTooSmall`).
`listen` aborts the socket and listens again before the network is polled, so no reset
goes out: the host is "left" with a connection that is no more, until it sends something
or gives up (`HostReset`).  `Conversation` says what a host may read, message by message
against message: everything belongs to its last command, INFOs come before the result,
DATA at most once, uploaded bytes after the DATA, in order, inside its size and all of
them before the result.

### AndroidBoot

`pc` runs through `android_main`: `misc`, `clear`, `reason`, `decide`, `fastboot`,
`reply`, `leave`, `slot`, `load`, `verify`, `fixup`, `boot`, then `os`.  Any error the
code returns is a reset, because `efi_main` unwraps it and the panic handler resets.
A layout says what kind of boot image a slot holds, which other partitions exist and
which of them are not what was signed; `load_verify` follows the header version to the
partitions that are loaded and the ones handed to libavb.  `color` is the match in
`avb_verify_slot`.  `Charge`, `SetActive` and `NextSlot` are the firmware, modelled
from how the flow uses it.  `run` holds the locals, among them two history fields:
`charged`, the attempts marked since the reset, and `overwritten`, whether the load
buffer was used again after `loaded_image_info` was set.

The fastboot session is reduced to what it can do to the flow (flash a slot or misc,
`set_active`, `boot`, `continue`, reboot); `GblFastboot` shows that a session hands
over only when its writes are on the disk.

### The pure parts: BlockIo to Algorithms

These modules hold operators only, one per function of the code, each extending the one
before.  An access, a buffer or a result is a record with a field `res`: "ok", an error
or "panic", and every operation leaves a failed record as it is, as `?` does.

| Module | Code |
|---|---|
| `BlockIo` | `libstorage` `algorithm.rs`, `lib.rs`, `ram_block.rs`: unaligned reads and writes, `fill`, a device that fails after a number of calls |
| `PartitionIo` | `partition.rs` lookup and windows, erase, `sparse.rs` |
| `BootData` | command line, bootconfig, libxbc, compressed kernels, device tree tables |
| `BootLayout` | `load.rs`, `android_load_verify_fixup`, `device_tree.rs`: a whole load in one buffer of cells |
| `HandOff` | memory tables for Zircon and Linux, bzImage, jumps and caches, relocation, `is_fuchsia_gpt` |
| `Helpers` | `libsafemath` at a small word, `libc`'s memory, strings and numbers, image buffers, partition sizes for libavb |
| `FastbootArgs` | partition arguments, variables, staged files, the images of `fastboot boot` |

`Algorithms` turns them into a specification: a behaviour is one job, a call with its
inputs, and its output.  The properties compare the output with a definition that does
not follow the code (a byte array with a slice replaced, the words of a line, the
concatenation of the images).

### The EFI layer

`EfiNetwork`: the frame pool of `net.rs` over Simple Network; `held` frames are the
firmware's, `sent` ones wait to be given back, and another service of the firmware may
take them.  `EfiRequests`: block requests, USB sends with a timeout and the local timer
as futures under the cyclic executor; `fw` says whether the firmware still works on a
request.  `EfiMemory`: the allocator with over-aligned blocks, reserved image buffers,
the memory map and the exit from boot services.  `EfiOps`: every question GBL asks the
platform, with a protocol that is missing, refuses to open, lacks a function, or
answers with any status and size; `store` and `regs` are what the platform keeps.

## 4. Runs

| Run | Instance | Shows |
|---|---|---|
| `abr` | priorities and tries up to 2, bytes one above each maximum | from any metadata, with failing reads and lost or torn writes at every call: no panic, the slot last marked active is chosen while it is bootable, one-shot requests exact, at most one successful slot; a system that never comes up ends in recovery or a proven slot |
| `fuchsia_boot` | 1 try, three kinds of image, two locations, all hosts | a locked device runs only what verified; rollback indexes only rise, and only as far as an image a success mark stood for (also one flashed over a marked slot); C callers are told the truth |
| `slots` | 2 slots, priority and retries up to 2, three formats | what the cursor leaves is durable, an active slot is the one to boot, unbootable systems are given up |
| `gpt` | 3 tables, one of them short, power failures, torn writes and write errors | atomicity, reported results, a buffer that holds the whole table, refinement of `GptTable` |
| `gpt_builder` | 3 entries, 3 blocks, 2 new names | every accepted table and edit sequence |
| `fastboot` | 2 disks, 2 buffers, room for 1 task, a raw and a sparse image, disk and transport errors | ownership, ordering and contents; a command is answered, or is a download that has its buffer and waits for the host |
| `link` | USB and TCP, 2 commands, 2 units of data, 2 faults, 1 INFO | each command gets its own answer and no other; downloads arrive whole; a TCP host is served or its connection given up |
| `android_boot` | 3 slots, 1 try, 2 layouts, 2 downloads, 3 platforms, 1 fault | boot safety and fallback over any number of boots |
| `efi` | 2 frames, 2 disk, 1 USB and 1 local request, 3 network and 1 I/O fault, 14 cells of pool | lent memory is left alone, senders and requests get on, memory is aligned, apart and freed once |
| `algorithms` | 12 bytes of disk, 6 block geometries, 3 chunks, load buffers of 8 to 96 cells, words of 64 values and 4 bytes, 1 persistent value | every pure part computes what it is meant to (one property each for accesses, bulk writes, texts and arguments, helpers, loads, hand-off); platform answers are truthful |
| `gpt_read_error` (violation) | 2 tables, read errors | `update_gpt` returns Ok with the old table restored |
| `fastboot_stale_download` (violation) | 1 buffer, a host that flashes after a fetch or a failed download | bytes nobody downloaded are flashed |

**Bounds.**  In `Abr` and `SlotManager` each byte goes to one above its maximum or
through every value, so every branch of the normalisation is taken; behaviours are
unbounded.  In `FuchsiaBoot` an image has a version for each location, so that indexes
can be raised in part.  In `Gpt` three tables let the old, the new and a left-over one
meet, in a buffer that one of them does not fill; every content of the four regions is
an initial state.  Three entries are the fewest with a gap between two of them and one
to move.  In `GblFastboot` two of everything shared and room for one task make every
wait happen.  In `FastbootLink` two commands are the fewest where an answer can be taken
for another's, two faults let a host leave and a send fail in one session.  In
`AndroidBoot` the third slot is beyond the two `avb_verify_slot` accepts, one try makes
fallback happen in every order, and one fault is enough to separate any two steps; the
theorems lift all of these bounds.  In the EFI layer the second frame makes the ring
wrap and the second disk makes the executor's swap happen.  In `Algorithms` block sizes
1, 2 and 4 with alignments 1, 2 and 4 and all offsets and lengths reach every
combination of unaligned head, body, tail and memory; the load buffers end inside every
phase of a load.  In `Helpers` a word is four bytes, each with its own place in memory,
and blocks start at any byte, so that the padding of `gbl_malloc` has one byte to spare,
as in the code, and no more.  Scratch memory starts at aligned addresses only: one past
a multiple of the alignment is the first `libstorage` defect of section 5.  Erase runs
with every buffer from none to eight bytes; `BulkWritesExact` names the ones on which it
does not end. `MaxFaults`, `MaxNetFaults`, `MaxIoFaults`, `MaxCommands`, `MaxData`,
`MaxInfos` and `MaxMapChanges` are the counters that are capped.

**Deadlock** is checked except for `GptEntries`, which ends with `persist()`, and
`Algorithms`, where a job is one call.  A bootloader the firmware will not start
(`FirmwareStuck`), a finished fastboot run (`Over`), a panic and a started kernel
stutter explicitly.

**Fairness.**  `Abr`, `SlotManager`: the boot flow is a straight-line program, an
operator leaves fastboot, and a system that does not come up is restarted by its
watchdog.  `EventuallyFallsBack` and `GivesUp` speak of a device whose storage works and
whose users are quiet from some point on (`Settle`).  `GblFastboot`: `join()` polls the
loop and each task in turn, every disk answers with success or an error, and a send ends
with its timeout; nothing is assumed of the host, not even that it sends the data of its
download, since a USB receive waits without a limit.  `FastbootLink`: the command loop
is polled for ever, timers run, and a host that is there reads and writes what it has
begun to; nothing makes it begin, or stay.  `AndroidBoot`: firmware starts GBL, and
GBL's own steps go on; a fastboot session, the running system and power cuts owe
nothing.  EFI layer: the application polls, timers expire, and disks answer; the
firmware need never return a frame or finish a USB send.

## 5. Findings

The two violation runs are disagreements between the code and what it says of itself:

* **An update that did not happen returns Ok** (`gpt_read_error`): a transient read
  error on the primary just written makes the sync restore the old secondary.
* **Stale download size** (`fastboot_stale_download`): fetch and failed downloads use
  the download buffer and leave the size of the download before.

Ten more sentences of the repository are stated as definitions which the models refute.
No passing property depends on them; each becomes visible when it is added as an
INVARIANT to the cfg of its run:

| Definition (run) | What the repository says | What the code does |
|---|---|---|
| `UnbootableCanonical` (`fuchsia_boot`) | "Unbootable slots should always have priority 0" | `set_slot_unbootable` clears tries and success mark only, and `slot_normalize` goes through it; `get_slot_last_marked_active` needs the priority kept |
| `EntriesEndWithTable` (`gpt`) | "Return the list of GPT entries" | a table with fewer entries loaded over a larger one leaves the old tail in the buffer, and `entries` runs into it |
| `NoTableNoEntries` (`gpt`) | "If there is not a valid GPT, the method returns Error" | a sync that finds no table sets `block_size`, and lookups answer from the old buffer |
| `FailureRejects` (`algorithms`) | `gbl_efi_avb_protocol.md`: any status but success is fatal, and the boot is rejected | `UNSUPPORTED`, `TIMEOUT` and every status without an AVB error of its own count as "not implemented": the key as valid, the device as unlocked |
| `FillEnds` (`algorithms`) | `fill` returns an error if the buffer is empty | with a buffer that ends at the next aligned address it writes nothing, for ever |
| `SparseInside` (`algorithms`) | "Writes sparse image to the partition" | only the total in the image's header is compared with the partition; chunks beyond it are written past its end |
| `VendorConfigFirst` (`algorithms`) | the drawn layout has the vendor's boot configuration first | it is added last |
| `AttributesKept` (`algorithms`) | regions made for gaps are "not covered by the EMAT" | an item that does not start where its descriptor starts is skipped, and its pages end up in such a region |
| `FreedAsAllocated` (`algorithms`) | memory is freed with the alignment it was allocated with | `gbl_malloc` allocates with alignment 1, `gbl_free` frees with the caller's; above 8 the allocator reads a distance nobody wrote |
| `EmptyTextAnswered` (`algorithms`) | an empty number ends at its start | `strtoul("")` panics in base 0 and 16 |

These show too, when a constant or an exception is changed; the passing runs
leave them out:

* `libabr`: `load_metadata` gives up only on `Error::Other`; after any other read error
  it goes on with defaults and writes them, over metadata of a newer version as well.
  (In `Abr`, `disk.kind` goes from "newer" to "valid" with the outcome "err".)
* `GptBuilder::new` counts entries up to the first null one and sorts afterwards, so
  that entries behind a hole are lost (`Holes = TRUE` violates `BuilderExact`).
* A `boot` whose reply is lost leaves `loaded_image_info`; a second `boot` that fails
  overwrites the buffer it describes, and the kernel starts from it (`run.overwritten`
  in `AndroidBoot`, excepted in `VerifiedBoot` and `ColorTruthful`).
* TCP: a client that vanishes inside the TCP handshake leaves the only socket half open
  for ever; `accept_new` looks at the time only when the socket is inactive.
* USB: a send that timed out may still be delivered; the next command then reads an
  answer to the one before (`LateSends = TRUE` violates `Conversation`).
* `Disk::scratch_size` is one byte short of what `split_scratch` takes at exactly the
  addresses one past a multiple of the alignment, where the access panics or is refused
  (`ScratchAddrs`; theorem `ScratchSplit`).
* Fuchsia: what fastboot flashes over a slot marked successful inherits the mark and
  raises the rollback indexes without having run (`flash` in `FuchsiaBoot`; with
  `vouched` restricted to images that ran, `RollbackSound` is violated).

Seen while modelling:

* `gpt.rs`: `update_gpt(resize)` extends the last entry of the array, which need not be
  last on the disk, and unwraps the check.  `GptBuilder` over a buffer with a stale tail
  counts the left-over entries as its own (not modelled: `GptEntries` starts from a table
  that fills its array).
* `libgbl/fastboot`: an I/O error of a background task panics; `gbl_fastboot.md` says
  later requests are rejected.  `getvar block-device` with an id no disk has panics.
  `check_part_unique` passes over a busy disk.  `libfastboot`: a failed `boot` ends the
  session as a successful one does; a message of exactly 256 bytes fails an assertion;
  a USB packet larger than the command's buffer stays prefetched, and the loop fails on
  it for ever; a USB receive has no timeout.  `getvar max-download-size` and `getvar all`
  allocate the download buffer, so that a flash with nothing downloaded is not refused:
  it writes no bytes, or a sparse image the buffer still holds.
* TCP: a host whose connection is given up is not told, since `abort` and `listen` follow
  each other without a poll in between; one that only waits, waits for ever.
* Boot flow: `gbl_ab_boot_flow.md` promises more than two slots, `avb_verify_slot`
  refuses an index above 1; `RebootReason::FastbootD` is read and ignored; no slot is
  ever marked unbootable for a failed verification, so one marked successful whose
  images stop verifying resets for ever, on Android as on Fuchsia; a misc partition that
  cannot be read resets before an attempt is counted.  The EFI `Ops` answers
  `Unsupported` to all slot calls outside tests, so that slot a is always used there.
* Slot managers: `mark_boot_attempt` takes a try before it looks for the boot token;
  `slots/fuchsia.rs` reads a one-shot byte with both bits set as no request and never
  clears it, while `libabr` sets and serves the bits one by one.
* Load flow: these panic instead of returning an error: a buffer that ends inside a
  header page, a header of version 2 or less that does not parse or whose recovery tree
  is not where it should be, a device tree table that points outside of itself, a tree
  that says it is larger than its image.
* Platform: a protocol that refuses to open counts as missing (index 0, empty value).  The
  size a platform reports for a persistent value is passed on unchecked.  A disk that
  opens without a media description panics `find_block_devices`.  `get_image_buffer`
  allocates a buffer even where the platform's is used.  `exit_boot_services` does not
  try again with a fresh map key.

## 6. Proofs

32 theorems in eight modules; `PROJECT.json` lists them.  Each safety theorem has the
same shape: an inductive invariant, TLC-checked as an invariant of the run's instance
before it was proved, one lemma per action or group of actions, and a last step that
reads the property off the invariant.

**`FuchsiaProofs`, first part** (`AbrSafe`, `AbrActiveMark`, `AbrOneShots`,
`AbrOneSuccessful`), of the library alone: for all
limits, initial images and patterns of failing reads and lost or torn writes.  `NoPanic`
needs what normalisation gives at every load: a slot that `get_active_slot` chooses has
a positive normalised priority, hence a success mark equal to 1 or at least one try, so
that the subtraction is defined.  The other three need `HistoryInv`: what the callers
were told (`promise`) is exactly what a load of the metadata would tell them now, also
after a torn write and after the second write that always follows a failed attempt to
clear a request; normalising again on the next load changes neither (`NormalizeKeeps`).
That the slot marked active is chosen while it is bootable follows because no other
action gives a slot a priority as high.

**`FuchsiaProofs`, second part** (`FuchsiaVerified`, `FuchsiaRollback`,
`FuchsiaReplies`): every step of the Fuchsia flow and of a C caller is one library call
or none (`LibStep`), so the invariant of `Abr` carries over.  `FInv` adds: the flow
works on the chosen slot, whose image nobody replaces before it runs (`FlowInv`);
indexes are raised only to versions of a verified image that is vouched for
(`RaiseInv`); slots called successful on storage hold such images, whether they ran or
were flashed over a marked slot.  `FuchsiaRollback` is an action property.

**`GptProofs`** (`GptAtomic`, `GptCompleted`, `GptCacheCoherent`, `GptRefinesTable`):
for every set of tables, every content of the disk, power failures, failing and torn
writes, under `ReadErrors = FALSE`; with failing reads the properties are false, which
is the run `gpt_read_error`.  `GptCacheCoherent` speaks of the entries of the table, all
that its header counts; what stands behind them is `EntriesEndWithTable` of section
5.  `IInv` lists how far the writes of each operation are and which copy stands
meanwhile: the good one until the other is complete (`RestorePrimary`,
`RestoreSecondary`), the secondary until the primary is erased, the primary until the
new secondary is complete (`PersistWrites`).  The refinement maps each write to a step
of the register of `GptTable` or to a stutter.

**`GptProofs`, the entries** (`GptBuilderExact`): for every size of table and
disk, under `Holes = FALSE` (a table with a hole loses entries, section 5).  `BuilderInv`:
the used entries come first, in the order of the disk, disjoint, with distinct names, and
are the ones the caller wants.  That a sort ends with the used entries first is a
counting argument over permutations (`Prefix`); that it can end at all is the choice of
the smallest remaining key again and again (`SortExists`).  `persist()` does not panic
because an ordered array is left alone by the sort in `check_entries`.

**`GblFastbootProofs`** (`FastbootAccounted`, `FastbootNeverBusy`, `FastbootSynced`,
`FastbootFlashes`): for every number of disks, buffers and tasks and every set of images.
`IInv`: every buffer has exactly one owner (`BufferOwners`), a borrowed disk has exactly
one task, a disk that was waited for stays free because only the command itself launches
tasks (`DiskWaited`), `sync_all_blocks` has let go of the disks it passed (`SyncAt`), and
a disk without a task holds what was promised (`Promises`).  `FlashInv` adds that what is
staged is one whole download; it needs `Disciplined = TRUE`, a host that downloads before
it flashes, without which the property is false (run `fastboot_stale_download`).

**`AndroidBootProofs`** (`BootSafe`, `BootColor`, `BootSlots`, `BootOnceIsConsumed`): for
any number of slots, attempts and faults and any sets of layouts, downloads and
platforms (`BootAssumption`).  The properties speak of the moment a kernel is started;
`IInv` says how they get there:

* `SessionInv`: `ram` is set only while something is being loaded, and a boot from the
  disk never begins with a loaded image.
* `CheckedInv`: what is loaded is what libavb was asked about; after verification the
  images deserve the colour reported; and an image kept by `fastboot boot` stays
  checked until it is started or overwritten, through any number of other commands.
* `SlotInv`: an attempt is on record exactly during a boot from the disk of a slotless
  bootloader, and that boot is of the slot set active.
* `MiscInv`: between the write that clears it and fastboot, the one-shot command is
  not on the disk.

**`SlotProofs`** (`SlotDurable`, `SlotActive`): for every number of slots, priority and
number of tries in all three formats.  `SInv`: a clean cache is the block on the disk
(`CleanInv`), an attempt is paid for in the cache before the system starts and on the
disk once it runs (`Paid`), and the slot set active leads all others by priority
(`PromiseInv`), through the packing of the fields into a word.

**`EfiProofs`** (`EfiLent`, `EfiMemorySafe`, `PlatformAnswers`): for every number of
frames and futures and every set of layouts and addresses.  `NetInv`: the frames of the
firmware, the sent ones and GBL's are disjoint and allocated.  `IoInv`: the firmware
works on a request only while its event is clear and its future waits.  `MemInv`: each
piece of memory GBL holds has a pool block of its own, and what is stored behind
over-aligned memory leads back to the start of that block.  `PlatformAnswers` (of
`OpsSpec`, the part of the `algorithms` run that asks the platform) first settles what a
call becomes on a platform that can or cannot be used (`Wrapped`, `WrappedSized`,
`AvbFailed`): a missing protocol or a status without an AVB error of its own is "not
implemented" (against the protocol's document, `FailureRejects` in section 5, so the
theorem names those statuses), and only a value that is there is too large.  `OpsInv`
adds what lies between two questions: a size told to a caller is the one the platform
reported, of a value that is still there.

**`LinkProofs`** (`LinkConversation`, `LinkDownloadExact`): for every number of commands,
units of data, INFOs and faults, over USB and TCP, under `~LateSends`.  With a USB send
that is delivered after it timed out both are false: the host reads an answer twice, or
answers a DATA the device has given up, and its bytes are read as commands.  The two
properties look at what the host has read and at what the device has received; `LinkInv`
follows the messages between them:

* `ChannelInv`: nothing of an old connection is left when the next one is accepted, and
  after an error nothing is sent on the old one.
* `HostInv`: the rules of `Conversation` hold of the whole of what is read, on the wire
  and still to be sent (`Wire`), and a host that waits for nothing has nothing to read.
* `Quiet`: while the device is attentive to a new command, at most one is under way to
  it, the last thing the host wrote.
* `ServedInv`: the command being served is the one the host waits for.  `UploadInv`: the
  bytes said so far are all but the remaining ones.  `DownloadInv`: what the device has
  and what host and wire still hold are together the bytes of this download, one packet
  per unit or one for all.  `AskedInv`: until the host has read DATA, none of its bytes
  is anywhere.

That the bytes of a download cannot be taken for a command, nor a command for bytes, is
the meeting of the last three with `Quiet` at the end of a download that failed: over TCP
the connection goes with it, over USB the host has not been asked.

**`AccessProofs`** (`AccessSafe`, `ReadExact`, `WriteExact`, `ScratchSplit`,
`NotOnOneDisk`): a read or write of a partition on a device of any size, block size and
alignment, for any window, offset, length and buffer address, any kind of byte values
and a device that fails at any call.  There is no state to be inductive over; the
argument is compositional.  `Reads` and `Writes` say what a part of an access did (the
range of the device, the part of the buffer, the bytes outside both untouched, the
number of device calls), and each function of `algorithm.rs` is shown to be one: whole
blocks, one block through the scratch (`read_modify_write`), head, body and tail, and
the rotation of the buffer to an aligned address and back (`Glues`).  Two such parts that
meet make one (`ReadForward`, `ReadBackward`, `WriteJoin`), which is where the bound of
six calls comes from.  After a failed
call a write leaves each byte of the range old or new and the caller's buffer as it was,
since the rotation is undone before the result is looked at.  `partition.rs` then places
the window on the disk (`Located`, `Enclosed`), and a partition of no disk or of several
is refused untouched.  `AccessSafe` is the run's `AccessExact`; it assumes `RoomyScratch`,
scratch memory that does not start one past a multiple of the alignment, and
`ScratchSplit` shows that these are exactly the addresses where the size is not enough.

The assumptions on constants are those of the modules (`...Assumption`), each checked by
TLC on the instances.  The ones a proof made explicit: buffers are finitely many
(`FastbootAssumption`), no model value stands for two things (`NoneIsNoTask`,
`NoneAssumption`, `JobAssumption`), alignments are powers of two (`MemAssumption`, what
Rust's `Layout` guarantees).

**Only model-checked:** liveness (`EventuallyFallsBack`, `CommandsAnswered`,
`FallsBack`, `GivesUp`, `TcpHostServed`, `TxProgress`, `RequestsEnd`), which is out of
this prover's reach; and `BulkWritesExact`, `TextsExact`,
`HelpersExact`, `LoadedExact` and `HandOffExact`: erase, sparse images,
boot texts, numbers, loads and memory tables are folds over
chunks, words, images and descriptors, so that what they compute for every input would
take induction over data.  The read and write of each chunk of the first is covered by
`WriteExact`.

## 7. Limits

Not modelled, besides the components listed as such: CRC and GUID arithmetic (a header
that names a table carries its CRC), the wording of replies, libavb's internals (a
partition matches its digest or not), the zbi, decompression and device tree libraries
beyond their effect, printing, the boot reason protocol (test code only), the received
bytes and addresses of the network, a host that sends nothing, hardware that hangs
without an answer.  The modules meet through their promises rather than in one product:
`AndroidBoot` takes a fastboot session by its effects, `FastbootLink` takes a backend as
anything that answers, `Gpt` takes a disk write as at most torn.  A product of two of
them would have more states than can be searched and show no step that is not already in
one of the two.
