---------------------------- MODULE SlotManager ----------------------------
(***************************************************************************)
(* The boot slot managers of libgbl/src/slots and libefi/src/ab_slots.rs:  *)
(* one interface over three representations.  "android" and "fuchsia"      *)
(* cache a metadata block of a partition (SlotBlock) and write it back     *)
(* when the cursor is dropped; "efi" forwards every call to the firmware,  *)
(* whose own copy is made durable by flush().  A boot gets one cursor and  *)
(* one boot token.                                                         *)
(***************************************************************************)
EXTENDS Naturals, FiniteSets, FiniteSetsExt

CONSTANTS
    Formats,            \* the representations to look at
    MAX_SLOTS,          \* slots a block has room for (4, and 2 for fuchsia)
    DEFAULT_PRIORITY, DEFAULT_RETRIES,
    None

ASSUME ConstantsAssumption ==
    /\ Formats \subseteq {"android", "fuchsia", "efi"}
    /\ MAX_SLOTS \in Nat \ {0} /\ DEFAULT_PRIORITY \in 1..15 /\ DEFAULT_RETRIES \in 1..7
    /\ None \notin Nat

Idx == 0..(MAX_SLOTS - 1)

VARIABLES
    format,   \* which of the three this device has
    disk,     \* durable metadata: [ok: it validates, data: its content]
    data,     \* SlotBlock::data, or the firmware's working copy
    status,   \* SlotBlock::cache_status: "Clean" | "Dirty"
    phase,    \* "off" | "cursor" | "loader" (cursor dropped) | "os"
    token,    \* boot token: "gbl" | "manager" | "caller"
    last,     \* ABManager::last_set_active_idx
    target,   \* what mark_boot_attempt() let the caller boot: a slot, "R", or None
    left,     \* history: the tries the target had before it was marked
    promise,  \* history: slot set active since when nothing else was asked for
    kept,     \* history: the promise that is on the disk
    settled   \* history: no more failures and no more requests

devVars == <<format, disk, data, status, phase, token, last, target>>
vars == <<devVars, left, promise, kept, settled>>

-----------------------------------------------------------------------------
(* Bit fields of a word; a mask is 2^k - 1.                                 *)
get_field(base, offset, mask) == (base \div 2^offset) % (mask + 1)

set_field(base, val, offset, mask) ==
    base - get_field(base, offset, mask) * 2^offset + (val % (mask + 1)) * 2^offset

(* SlotMetaData of the android block: priority 4 bits, tries 3 bits,        *)
(* successful and verity_corrupted one bit each.                            *)
SlotMetaData == 0..(2^9 - 1)
word_priority(w) == get_field(w, 0, 15)
word_tries(w) == get_field(w, 4, 7)
word_successful(w) == get_field(w, 7, 1) # 0
set_priority(w, p) == set_field(w, p, 0, 15)
set_tries(w, t) == set_field(w, t, 4, 7)
set_successful(w, b) == set_field(w, IF b THEN 1 ELSE 0, 7, 1)
default_word == set_tries(set_priority(0, DEFAULT_PRIORITY), DEFAULT_RETRIES)

Reasons == {"Unknown", "NoMoreTries", "SystemUpdate", "UserRequested", "VerificationFailure"}

(* AbrSlotData of the fuchsia block.                                        *)
default_abr_slot == [priority |-> DEFAULT_PRIORITY, tries |-> DEFAULT_RETRIES,
                     successful |-> 0, reason |-> "Unknown"]

(* Default of BootloaderControl: it asks for 4 slots whatever there are.    *)
default_control ==
    [slots |-> [i \in Idx |-> default_word], nb |-> 4, active |-> 0]

default_abr == [slots |-> [i \in Idx |-> default_abr_slot], flags |-> {}]

(* ControlBits::nb_slots(): a 3-bit field, never above MAX_SLOTS.           *)
nb_slots(d) == Min({get_field(d.nb, 0, 7), MAX_SLOTS})

(* get_slot_by_number() for every number: the slots a manager shows.        *)
android_slot(w) ==
    [priority |-> word_priority(w),
     tries |-> word_tries(w),
     bootability |-> IF word_successful(w) THEN "Successful"
                     ELSE IF word_tries(w) > 0 THEN "Retriable" ELSE "Unbootable",
     reason |-> "Unknown"]

fuchsia_slot(s) ==
    [priority |-> s.priority,
     tries |-> s.tries,
     bootability |-> IF s.successful # 0 THEN "Successful"
                     ELSE IF s.tries > 0 THEN "Retriable" ELSE "Unbootable",
     reason |-> s.reason]

(* The firmware's GblEfiSlotInfo becomes a Slot the same way.               *)
efi_slot(info) ==
    [priority |-> info.priority,
     tries |-> info.tries,
     bootability |-> CASE info.successful # 0 -> "Successful"
                       [] info.successful = 0 /\ info.tries > 0 -> "Retriable"
                       [] OTHER -> "Unbootable",
     reason |-> info.reason]

slots_iter(d) ==
    CASE format = "android" -> [i \in {j \in Idx : j < nb_slots(d)} |-> android_slot(d.slots[i])]
      [] format = "fuchsia" -> [i \in Idx |-> fuchsia_slot(d.slots[i])]
      [] format = "efi"     -> [i \in Idx |-> efi_slot(d.slots[i])]

is_bootable(slot) == slot.bootability # "Unbootable"

(* max_by_key (priority, rank): the earlier suffix wins between equals.     *)
max_by_priority(slots, S) ==
    CHOOSE i \in S : \A j \in S : slots[i].priority > slots[j].priority
                                  \/ (slots[i].priority = slots[j].priority /\ i =< j)

(* The trait's default, used by both blocks; None is an Err.                *)
get_slot_last_set_active(d) ==
    LET s == slots_iter(d) IN IF DOMAIN s = {} THEN None ELSE max_by_priority(s, DOMAIN s)

(* ABManager: the slot set in this session, else the firmware's current one.*)
efi_last_set_active(d) == IF last # None THEN last ELSE d.current

-----------------------------------------------------------------------------
(* get_boot_target(): a boot of a slot, of recovery in a slot or in a       *)
(* partition of its own, or an Err (None).                                  *)
normal_boot(i) == [kind |-> "normal", slot |-> i]
slotted_recovery(i) == [kind |-> "recovery", slot |-> i]
dedicated_recovery == [kind |-> "recovery", slot |-> None]

BlockBootTarget(d, fallback) ==
    LET s == slots_iter(d)
        up == {i \in DOMAIN s : is_bootable(s[i])}
    IN  IF up # {} THEN normal_boot(max_by_priority(s, up)) ELSE fallback

(* The fallback is computed first: without any slot this is an Err.         *)
android_boot_target(d) ==
    IF get_slot_last_set_active(d) = None THEN None
    ELSE BlockBootTarget(d, slotted_recovery(get_slot_last_set_active(d)))

fuchsia_boot_target(d) == BlockBootTarget(d, dedicated_recovery)

efi_boot_target(d) ==
    IF d.boot_reason = "recovery" THEN slotted_recovery(efi_last_set_active(d))
    ELSE normal_boot(efi_last_set_active(d))

get_boot_target(d) ==
    CASE format = "android" -> android_boot_target(d)
      [] format = "fuchsia" -> fuchsia_boot_target(d)
      [] format = "efi"     -> efi_boot_target(d)

(* OneShotFlags: only a byte with exactly one known bit is a request.       *)
fuchsia_oneshot(flags) ==
    CASE flags = {"recovery"} -> "recovery"
      [] flags = {"bootloader"} -> "bootloader"
      [] OTHER -> None

efi_oneshot(d) == IF d.boot_reason = "bootloader" THEN "bootloader" ELSE None

get_oneshot_status(d) ==
    CASE format = "android" -> None
      [] format = "fuchsia" -> fuchsia_oneshot(d.flags)
      [] format = "efi"     -> efi_oneshot(d)

(* With a one-shot recovery the active slot is not looked at.               *)
attempt_target(d) ==
    IF format = "fuchsia" /\ get_oneshot_status(d) = "recovery" THEN dedicated_recovery
    ELSE get_boot_target(d)

-----------------------------------------------------------------------------
(* What the changes do to the block.                                        *)
android_activate(d, i) ==
    [d EXCEPT !.slots = [j \in Idx |-> IF j = i THEN default_word
                                       ELSE set_priority(d.slots[j], DEFAULT_PRIORITY - 1)],
              !.active = i]

(* Mutant: the slots not chosen keep their priority. *)
fuchsia_activate_alone(d, i) == [d EXCEPT !.slots[i] = default_abr_slot]

fuchsia_activate(d, i) ==
    [d EXCEPT !.slots = [j \in Idx |-> IF j = i THEN default_abr_slot
                                       ELSE [d.slots[j] EXCEPT !.priority = DEFAULT_PRIORITY - 1]]]

(* The firmware: SetActiveSlot makes the slot bootable and current.         *)
efi_activate(d, i) == [d EXCEPT !.slots[i] = default_abr_slot, !.current = i]

android_disable(d, i, r) ==
    [d EXCEPT !.slots[i] = set_successful(set_tries(@, 0), FALSE)]

fuchsia_disable(d, i, r) ==
    [d EXCEPT !.slots[i].reason = r, !.slots[i].tries = 0, !.slots[i].successful = 0]

efi_disable(d, i, r) ==
    [d EXCEPT !.slots[i].reason = r, !.slots[i].tries = 0, !.slots[i].successful = 0]

android_charge(d, i) == [d EXCEPT !.slots[i] = set_tries(@, word_tries(@) - 1)]

fuchsia_charge(d, i) ==
    [d EXCEPT !.slots[i].tries = @ - 1,
              !.slots[i].reason = IF d.slots[i].tries = 1 THEN "NoMoreTries" ELSE @]

(* SlotBlock::get_mut_data(): whoever asks for it dirties the cache.        *)
get_mut_data(new) == data' = new /\ status' = "Dirty"

-----------------------------------------------------------------------------
(* deserialize(): metadata that does not validate is replaced by defaults,  *)
(* which are dirty from the start.                                          *)
(* Mutant: the defaults count as clean. *)
deserialize_clean(default) == data' = (IF disk.ok THEN disk.data ELSE default) /\ status' = "Clean"

(* Mutant: a block with no slot left to try is replaced as well. *)
deserialize_revive(default) ==
    IF disk.ok /\ \E i \in DOMAIN slots_iter(disk.data) : is_bootable(slots_iter(disk.data)[i])
    THEN data' = disk.data /\ status' = "Clean"
    ELSE data' = default /\ status' = "Dirty"

deserialize(default) ==
    IF disk.ok THEN data' = disk.data /\ status' = "Clean"
    ELSE data' = default /\ status' = "Dirty"

(* Gbl::load_slot_interface(): the token moves into the manager, so that    *)
(* there is one cursor for each start.  Firmware loads its own copy.        *)
load_slot_interface ==
    /\ phase = "off"
    /\ phase' = "cursor" /\ token' = "manager" /\ last' = None /\ target' = None /\ left' = 0
    /\ promise' = IF disk.ok /\ format # "efi" THEN kept ELSE None
    /\ CASE format = "android" -> deserialize(default_control)
         [] format = "fuchsia" -> deserialize(default_abr)
         [] format = "efi"     -> data' = disk.data /\ status' = "Clean"
    /\ UNCHANGED <<format, disk, kept, settled>>

CallerActs == phase = "cursor" /\ token = "manager" /\ ~settled

set_active_slot(i) ==
    /\ CallerActs /\ i \in DOMAIN slots_iter(data)
    /\ CASE format = "android" -> get_mut_data(android_activate(data, i)) /\ UNCHANGED last
         [] format = "fuchsia" -> get_mut_data(fuchsia_activate(data, i)) /\ UNCHANGED last
         [] format = "efi"     -> data' = efi_activate(data, i) /\ last' = i /\ UNCHANGED status
    /\ promise' = i
    /\ UNCHANGED <<format, disk, phase, token, target, left, kept, settled>>

(* A slot that is unbootable for this reason already is left alone.         *)
set_slot_unbootable(i, r) ==
    LET s == slots_iter(data)
    IN  /\ CallerActs /\ i \in DOMAIN s
        /\ format = "efi" \/ is_bootable(s[i]) \/ s[i].reason # r
        /\ CASE format = "android" -> get_mut_data(android_disable(data, i, r))
             [] format = "fuchsia" -> get_mut_data(fuchsia_disable(data, i, r))
             [] format = "efi"     -> data' = efi_disable(data, i, r) /\ UNCHANGED status
        /\ promise' = IF promise = i THEN None ELSE promise
        /\ UNCHANGED <<format, disk, phase, token, last, target, left, kept, settled>>

(* Requests the format cannot express are refused.                          *)
set_oneshot_status(o) ==
    /\ CallerActs /\ get_oneshot_status(data) # o
    /\ \/ format = "fuchsia" /\ get_mut_data([data EXCEPT !.flags = {o}])
       \/ /\ format = "efi" /\ o = "bootloader"
          /\ data' = [data EXCEPT !.boot_reason = o] /\ UNCHANGED status
    /\ UNCHANGED <<format, disk, phase, token, last, target, left, promise, kept, settled>>

clear_oneshot_status ==
    /\ CallerActs /\ get_oneshot_status(data) # None
    /\ \/ format = "fuchsia" /\ get_mut_data([data EXCEPT !.flags = {}])
       \/ format = "efi" /\ data' = [data EXCEPT !.boot_reason = "empty"] /\ UNCHANGED status
    /\ UNCHANGED <<format, disk, phase, token, last, target, left, promise, kept, settled>>

(* mark_boot_attempt(): a slot that has not proven itself pays a try; the   *)
(* token goes to the caller.                                                *)
mark_boot_attempt ==
    LET t == attempt_target(data)
        pays == t.kind = "normal" /\ slots_iter(data)[t.slot].bootability = "Retriable"
    IN  /\ phase = "cursor" /\ token = "manager"
        /\ t # None
        /\ t.kind = "normal" /\ format # "efi" =>
              slots_iter(data)[t.slot].bootability # "Unbootable"
        /\ CASE format = "android" /\ pays -> get_mut_data(android_charge(data, t.slot))
             [] format = "fuchsia" /\ pays -> get_mut_data(fuchsia_charge(data, t.slot))
             [] OTHER -> UNCHANGED <<data, status>>
        /\ token' = "caller" /\ target' = t
        /\ left' = IF pays THEN slots_iter(data)[t.slot].tries ELSE 0
        /\ promise' = IF pays /\ promise = t.slot /\ left' = 1 THEN None ELSE promise
        /\ UNCHANGED <<format, disk, phase, last, kept, settled>>

(* The token is gone, yet a slot pays again before that is noticed.         *)
mark_boot_attempt_again ==
    LET t == attempt_target(data)
        pays == t.kind = "normal" /\ slots_iter(data)[t.slot].bootability = "Retriable"
    IN  /\ phase = "cursor" /\ token = "caller" /\ ~settled /\ format # "efi"
        /\ t # None /\ pays
        /\ get_mut_data(IF format = "android" THEN android_charge(data, t.slot)
                        ELSE fuchsia_charge(data, t.slot))
        /\ promise' = IF promise = t.slot /\ slots_iter(data)[t.slot].tries = 1 THEN None ELSE promise
        /\ UNCHANGED <<format, disk, phase, token, last, target, left, kept, settled>>

(* Drop for Cursor: write_back().  A clean block is not written; an error   *)
(* panics, which resets the device.                                         *)
WriteBack(ok) ==
    /\ phase = "cursor" /\ (settled /\ token = "manager" => attempt_target(data) = None)
    /\ IF format # "efi" /\ status = "Clean"
       THEN ok /\ UNCHANGED <<disk, kept>>
       ELSE IF ok THEN disk' = [ok |-> TRUE, data |-> data] /\ kept' = promise
       ELSE ~settled /\ UNCHANGED <<disk, kept>>
    /\ status' = IF ok THEN "Clean" ELSE status
    /\ phase' = IF ~ok THEN "off" ELSE IF token = "caller" THEN "os" ELSE "loader"
    /\ UNCHANGED <<format, data, token, last, target, left, promise, settled>>

(* The write is torn by an error or a power failure; the block's CRC then   *)
(* does not match.  Firmware is taken to write its copy atomically.         *)
TornWrite ==
    /\ phase = "cursor" /\ status = "Dirty" /\ ~settled
    /\ disk' = [disk EXCEPT !.ok = FALSE] /\ kept' = None
    /\ phase' = "off"
    /\ UNCHANGED <<format, data, status, token, last, target, left, promise, settled>>

(* The system came up and says so (its own boot control service).           *)
MarkSuccessful ==
    /\ phase = "os" /\ ~settled /\ target.kind = "normal" /\ disk.ok
    /\ disk' = [disk EXCEPT !.data.slots[target.slot] =
                    IF format = "android" THEN set_successful(@, TRUE)
                    ELSE [@ EXCEPT !.successful = 1]]
    /\ UNCHANGED <<format, data, status, phase, token, last, target, left, promise, kept, settled>>

(* Reset, power failure, or a system that never came up.                    *)
Reset ==
    /\ phase # "off" /\ (settled => phase # "cursor")
    /\ phase' = "off"
    /\ UNCHANGED <<format, disk, data, status, token, last, target, left, promise, kept, settled>>

Settle ==
    /\ ~settled /\ phase = "off" /\ settled' = TRUE
    /\ UNCHANGED <<devVars, left, promise, kept>>

Init ==
    /\ format \in Formats
    /\ \E ok \in BOOLEAN :
         \/ /\ format = "android"
            /\ \E w \in [Idx -> {default_word, 0, set_successful(2^8 + 15, TRUE)}], n \in {0, 1, 7} :
                 disk = [ok |-> ok, data |-> [slots |-> w, nb |-> n, active |-> 0]]
         \/ /\ format = "fuchsia"
            /\ \E f \in SUBSET {"recovery", "bootloader"} :
                 disk = [ok |-> ok, data |-> [default_abr EXCEPT !.flags = f]]
         \/ /\ format = "efi" /\ ok
            /\ \E c \in Idx, r \in {"empty", "bootloader", "recovery"} :
                 disk = [ok |-> ok, data |-> [slots |-> default_abr.slots, current |-> c, boot_reason |-> r]]
    /\ data = disk.data /\ status = "Clean" /\ phase = "off" /\ token = "gbl"
    /\ last = None /\ target = None /\ left = 0
    /\ promise = None /\ kept = None /\ settled = FALSE

Next ==
    \/ load_slot_interface
    \/ \E i \in Idx : set_active_slot(i) \/ \E r \in {"Unknown", "UserRequested"} : set_slot_unbootable(i, r)
    \/ \E o \in {"recovery", "bootloader"} : set_oneshot_status(o)
    \/ clear_oneshot_status
    \/ mark_boot_attempt \/ mark_boot_attempt_again
    \/ \E ok \in BOOLEAN : WriteBack(ok)
    \/ TornWrite \/ MarkSuccessful \/ Reset \/ Settle

(* The boot flow is a straight-line program, and a system that does not     *)
(* come up is restarted.                                                    *)
GoesOn == settled /\ (load_slot_interface \/ mark_boot_attempt \/ WriteBack(TRUE) \/ Reset)

Spec == Init /\ [][Next]_vars /\ WF_vars(GoesOn)

-----------------------------------------------------------------------------
(* Slots as the durable metadata has them.                                  *)
DiskTries(i) == slots_iter(disk.data)[i].tries

(* "Slot metadata is the same as on disk" (CacheStatus::Clean), "Returns    *)
(* Ok(BootToken) on success to verify that boot attempt metadata has been   *)
(* updated" (mark_boot_attempt): a clean block equals the one on the disk,  *)
(* nothing is left unwritten once the cursor is dropped, and a system runs  *)
(* only after the try its unproven slot paid is on the disk, whatever       *)
(* writes failed or were torn before.                                       *)
DroppedMeansDurable ==
    format # "efi" =>
       /\ phase \in {"cursor", "loader"} /\ status = "Clean" => disk = [ok |-> TRUE, data |-> data]
       /\ phase \in {"loader", "os"} => status = "Clean" /\ disk.ok
       /\ phase = "os" /\ left > 0 => DiskTries(target.slot) < left

(* A slot that was set active is the one to boot, in this session and after *)
(* restarts, until another one is set active or it is disabled or runs out  *)
(* of tries (set_active_slot and get_boot_target of each manager).          *)
ActiveHonoured ==
    phase = "cursor" /\ promise # None => get_boot_target(data).slot = promise
                                         /\ (format # "efi" => get_boot_target(data).kind = "normal")

(* A device whose systems never come up ends in recovery or in a slot that  *)
(* has proven itself: tries run out.  A block without slots boots nothing.  *)
GivesUp ==
    settled /\ format # "efi" ~>
        \/ phase = "os" /\ (target.kind = "recovery" \/ left = 0)
        \/ phase = "cursor" /\ attempt_target(data) = None

=============================================================================
