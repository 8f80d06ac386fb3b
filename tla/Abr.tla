-------------------------------- MODULE Abr --------------------------------
(***************************************************************************)
(* The Fuchsia A/B/R slot library (gbl/libabr) driven by the Fuchsia boot  *)
(* flow of libgbl: the metadata on persistent storage, every operation of  *)
(* the library that loads, changes and saves it, and the device around it  *)
(* (power-on, fastboot, running system).  Reads and writes of the storage  *)
(* may fail, and a failed write may leave a torn image whose CRC is wrong. *)
(***************************************************************************)
EXTENDS Integers, FiniteSets

CONSTANTS
    MaxPriority,    \* ABR_MAX_PRIORITY (15)
    MaxTries,       \* ABR_MAX_TRIES_REMAINING (7)
    ReadOutcomes    \* what Ops::read_abr_metadata may return, see Reads

(* "ok": the bytes; "other": Error::Other; "err": any other Error variant.  *)
Reads == {"ok", "other", "err"}
(* "ok": written; "lost": an error, nothing written; "torn": an error, and  *)
(* the bytes on storage no longer carry a matching CRC.                     *)
Writes == {"ok", "lost", "torn"}

ASSUME ConstantsAssumption ==
    /\ MaxPriority \in Nat \ {0, 1}
    /\ MaxTries \in Nat \ {0}
    /\ ReadOutcomes \subseteq Reads /\ "ok" \in ReadOutcomes

Slots == {"A", "B"}
OneShots == {"recovery", "bootloader"}
(* A byte of the metadata: the values above `limit` are handled alike, and   *)
(* one of them stands for all.                                              *)
Byte(limit) == 0..(limit + 1)
AbrSlotData == [priority: Byte(MaxPriority), tries: Byte(MaxTries), success: Byte(1)]
(* "valid": magic, CRC and version are good; "newer": a major version this  *)
(* library does not know; "invalid": bad magic or bad CRC.                  *)
AbrData == [kind: {"valid", "newer", "invalid"},
            slots: [Slots -> AbrSlotData], flags: SUBSET OneShots]

VARIABLES
    disk,       \* the metadata on persistent storage
    phase,      \* "reset" | "load" | "fastboot" | "os" | "panic"
    booted,     \* the slot get_boot_slot() last chose, "none" before
    proven,     \* its is_slot_marked_successful result
    promise,    \* history: what callers were told is recorded
    refreshed,  \* history: a boot or a success mark reached storage
    settled     \* the users and the storage faults have gone quiet

vars == <<disk, phase, booted, proven, promise, refreshed, settled>>

Least(a, b) == IF a =< b THEN a ELSE b
other(s) == IF s = "A" THEN "B" ELSE "A"

-----------------------------------------------------------------------------
(* AbrSlotData *)

(* Mutant: any non-zero byte taken for the success mark. *)
is_slot_bootable_nonzero(d) == d.priority > 0 /\ (d.success # 0 \/ d.tries > 0)

is_slot_bootable(d) == d.priority > 0 /\ (d.success = 1 \/ d.tries > 0)

set_slot_unbootable(d) == [d EXCEPT !.tries = 0, !.success = 0]

get_normalized_priority(d) == IF is_slot_bootable(d) THEN d.priority ELSE 0

slot_normalize(d) ==
    IF d.priority = 0 THEN set_slot_unbootable(d)
    ELSE LET illegal == d.tries > 0 /\ d.success = 1 IN
         [priority |-> Least(d.priority, MaxPriority),
          tries    |-> IF illegal THEN MaxTries ELSE Least(d.tries, MaxTries),
          success  |-> IF illegal THEN 0 ELSE d.success]

(* AbrData *)

default ==
    [kind  |-> "valid",
     slots |-> [s \in Slots |->
                  [priority |-> IF s = "A" THEN MaxPriority ELSE MaxPriority - 1,
                   tries |-> MaxTries, success |-> 0]],
     flags |-> {}]

get_active_slot(d) ==
    LET pa == get_normalized_priority(d.slots["A"])
        pb == get_normalized_priority(d.slots["B"])
    IN  IF pb > pa THEN "B" ELSE IF pa > 0 THEN "A" ELSE "R"

(* An image that is not usable; what it holds is never looked at.           *)
Unreadable(kind) == [default EXCEPT !.kind = kind]

(* load_metadata(): the data the library works on, and when it gives up.    *)
load_fails(rd) == rd = "other" \/ (rd = "ok" /\ disk.kind = "newer")

usable(rd) == rd = "ok" /\ disk.kind = "valid"

load_metadata(rd) ==
    LET raw == IF usable(rd) THEN disk ELSE default
    IN  [raw EXCEPT !.slots = [s \in Slots |-> slot_normalize(raw.slots[s])]]

(* Storage after save_metadata() of d over content m.                       *)
save_metadata(m, d, wr) ==
    CASE wr = "ok"   -> d
      [] wr = "lost" -> m
      [] wr = "torn" -> Unreadable("invalid")

(* abr_data == abr_data_orig; the original of unusable data is null().      *)
unchanged(d, rd) == usable(rd) /\ d = disk

save_metadata_if_changed(m, d, rd, wr) ==
    IF unchanged(d, rd) THEN m ELSE save_metadata(m, d, wr)

-----------------------------------------------------------------------------
(* History: the promise a caller may rely on is the slot it last marked     *)
(* active and the one-shot requests it made; metadata that cannot be used   *)
(* starts again from the default.                                           *)
DefaultPromise == [active |-> "A", owed |-> {}]
base(rd) == IF usable(rd) THEN promise ELSE DefaultPromise
durable(d, rd, wr) == unchanged(d, rd) \/ wr = "ok"

(* The library call ends by saving d; p is what its caller is promised.     *)
Commit(d, rd, wr, p) ==
    /\ disk' = save_metadata_if_changed(disk, d, rd, wr)
    /\ promise' = IF durable(d, rd, wr) THEN p
                  ELSE IF wr = "torn" THEN DefaultPromise ELSE promise

(* Calls from fastboot commands or from the running system.                 *)
Serving == phase \in {"fastboot", "os"} /\ ~settled

(* Mutant: the other slot keeps its priority.                               *)
marked_active_alone(d, s) ==
    [d EXCEPT !.slots[s] = [priority |-> MaxPriority, tries |-> MaxTries, success |-> 0]]

(* The metadata once a slot is marked active, unbootable or successful, and *)
(* once a one-shot request is set or withdrawn.                             *)
marked_active(d, s) ==
    [d EXCEPT !.slots =
        [d.slots EXCEPT ![s] = [priority |-> MaxPriority, tries |-> MaxTries, success |-> 0],
                        ![other(s)].priority = Least(@, MaxPriority - 1)]]

marked_unbootable(d, s) == [d EXCEPT !.slots[s] = set_slot_unbootable(@)]

(* The slot that just proved itself is kept; a success mark on the other    *)
(* slot is turned back into a full set of tries.                            *)
marked_successful(d, s) ==
    [d EXCEPT !.slots =
        [d.slots EXCEPT
            ![s].tries = 0, ![s].success = 1,
            ![other(s)] = IF is_slot_bootable(@)
                          THEN [@ EXCEPT !.tries = MaxTries, !.success = 0] ELSE @]]

with_one_shot(flags, f, enable) == IF enable THEN flags \cup {f} ELSE flags \ {f}

mark_slot_active(s, rd, wr) ==
    /\ Serving /\ ~load_fails(rd)
    /\ Commit(marked_active(load_metadata(rd), s), rd, wr, [base(rd) EXCEPT !.active = s])
    /\ UNCHANGED <<phase, booted, proven, refreshed, settled>>

mark_slot_unbootable(s, rd, wr) ==
    /\ Serving /\ ~load_fails(rd)
    /\ Commit(marked_unbootable(load_metadata(rd), s), rd, wr, base(rd))
    /\ UNCHANGED <<phase, booted, proven, refreshed, settled>>

mark_slot_successful(s, rd, wr) ==
    LET d == load_metadata(rd)
        new == marked_successful(d, s)
    IN  /\ Serving /\ ~load_fails(rd)
        /\ is_slot_bootable(d.slots[s])
        /\ Commit(new, rd, wr, base(rd))
        /\ refreshed' = (refreshed \/ durable(new, rd, wr))
        /\ UNCHANGED <<phase, booted, proven, settled>>

(* set_one_shot_recovery() and set_one_shot_bootloader().                   *)
set_one_shot(f, enable, rd, wr) ==
    /\ Serving /\ ~load_fails(rd)
    /\ Commit([load_metadata(rd) EXCEPT !.flags = with_one_shot(@, f, enable)], rd, wr,
              [base(rd) EXCEPT !.owed = with_one_shot(@, f, enable)])
    /\ UNCHANGED <<phase, booted, proven, refreshed, settled>>

get_and_clear_one_shot_flag(rd, wr) ==
    LET d == load_metadata(rd)
    IN  /\ Serving /\ ~load_fails(rd)
        /\ Commit([d EXCEPT !.flags = {}], rd, wr, [base(rd) EXCEPT !.owed = {}])
        /\ UNCHANGED <<phase, booted, proven, refreshed, settled>>

(* zircon_check_enter_fastboot(): get_and_clear_one_shot_bootloader(), any  *)
(* error of which counts as "not set", then the platform's own trigger.     *)
zircon_check_enter_fastboot(rd, wr, trigger) ==
    LET d == load_metadata(rd)
        new == [d EXCEPT !.flags = @ \ {"bootloader"}]
        requested == /\ ~load_fails(rd) /\ durable(new, rd, wr)
                     /\ "bootloader" \in d.flags
    IN  /\ phase = "reset"
        /\ IF load_fails(rd) THEN UNCHANGED <<disk, promise>>
           ELSE Commit(new, rd, wr, [base(rd) EXCEPT !.owed = @ \ {"bootloader"}])
        /\ phase' = IF requested \/ trigger THEN "fastboot" ELSE "load"
        /\ UNCHANGED <<booted, proven, refreshed, settled>>

(***************************************************************************)
(* get_boot_slot(update_metadata = true), called by                        *)
(* zircon_load_verify_abr() before the kernel is started.                  *)
(***************************************************************************)
HandOff(slot, successful) ==
    /\ phase' = "os" /\ booted' = slot /\ proven' = successful
    /\ UNCHANGED settled

(* Metadata cannot be loaded: recovery, and storage is left alone.          *)
BootWithoutMetadata(rd) ==
    /\ phase = "load" /\ load_fails(rd)
    /\ HandOff("R", FALSE)
    /\ UNCHANGED <<disk, promise, refreshed>>

(* Mutant: recovery is entered without saving that the request is used up. *)
BootOneShotRecovery_unsaved(rd) ==
    /\ phase = "load" /\ ~load_fails(rd)
    /\ "recovery" \in load_metadata(rd).flags
    /\ promise' = [promise EXCEPT !.owed = @ \ {"recovery"}]
    /\ HandOff("R", FALSE)
    /\ UNCHANGED <<disk, refreshed>>

(* A one-shot recovery request is honoured only once its clearing is saved. *)
BootOneShotRecovery(rd) ==
    LET d == load_metadata(rd)
        new == [d EXCEPT !.flags = @ \ {"recovery"}]
    IN  /\ phase = "load" /\ ~load_fails(rd)
        /\ "recovery" \in d.flags
        /\ disk' = save_metadata(disk, new, "ok")
        /\ promise' = [promise EXCEPT !.owed = @ \ {"recovery"}]
        /\ HandOff("R", FALSE)
        /\ UNCHANGED refreshed

(* Mutants: no try is ever taken; the other slot stays successful.          *)
boot_update_never(d, slot) ==
    [d EXCEPT !.slots = [s \in Slots |->
        IF s # slot /\ d.slots[s].success = 1
        THEN [d.slots[s] EXCEPT !.tries = MaxTries, !.success = 0]
        ELSE d.slots[s]]]
boot_update_keep(d, slot) ==
    IF slot = "R" \/ d.slots[slot].success = 1 THEN d
    ELSE [d EXCEPT !.slots[slot].tries = @ - 1]

(* The metadata once slot has been chosen: a try is taken from an unproven  *)
(* slot, and the other slot is no longer known to be successful.            *)
boot_update(d, slot) ==
    [d EXCEPT !.slots = [s \in Slots |->
        IF s = slot
        THEN IF d.slots[s].success = 1 THEN d.slots[s]
             ELSE [d.slots[s] EXCEPT !.tries = @ - 1]
        ELSE IF d.slots[s].success = 1
             THEN [d.slots[s] EXCEPT !.tries = MaxTries, !.success = 0]
             ELSE d.slots[s]]]

(* checked_sub(1).unwrap() panics on a chosen, unproven slot with no tries. *)
tries_underflow(d, slot) ==
    slot # "R" /\ d.slots[slot].success # 1 /\ d.slots[slot].tries = 0

(* wr1: the failed attempt to clear a one-shot request, when there is one.  *)
(* It has left the CRC of the cleared data in abr_data, which therefore     *)
(* differs from the original: the second save is never skipped then.        *)
BootSlot(rd, wr1, wr2) ==
    LET d    == load_metadata(rd)
        slot == get_active_slot(d)
        tried == "recovery" \in d.flags
        mid  == IF tried THEN save_metadata(disk, d, wr1) ELSE disk
        new  == boot_update(d, slot)
        kept == ~tried /\ unchanged(new, rd)
    IN  /\ phase = "load" /\ ~load_fails(rd)
        /\ IF tried THEN wr1 # "ok" ELSE wr1 = "ok"
        /\ IF tries_underflow(d, slot)
           THEN /\ disk' = mid /\ phase' = "panic"
                /\ UNCHANGED <<booted, proven, refreshed, settled>>
           ELSE /\ disk' = IF kept THEN mid ELSE save_metadata(mid, new, wr2)
                /\ HandOff(slot, slot # "R" /\ d.slots[slot].success = 1)
                /\ refreshed' = (refreshed \/ kept \/ wr2 = "ok")
        /\ promise' = IF ~kept /\ wr2 = "ok" THEN base(rd)
                      ELSE IF (~kept /\ wr2 = "torn") \/ (wr1 = "torn") THEN DefaultPromise
                      ELSE promise

(* fastboot's "continue" leaves fastboot for the boot flow.                 *)
FastbootContinue ==
    /\ phase = "fastboot" /\ phase' = "load"
    /\ UNCHANGED <<disk, booted, proven, promise, refreshed, settled>>

(* A reboot command, a crash of the system or a power cut.                  *)
Reset ==
    /\ phase # "reset" /\ phase' = "reset" /\ booted' = "none" /\ proven' = FALSE
    /\ settled => phase # "load"
    /\ UNCHANGED <<disk, promise, refreshed, settled>>

(* From here on nobody calls the library but the boot flow, storage works,  *)
(* power is not cut during it and the platform does not ask for fastboot.   *)
Settle ==
    /\ ~settled /\ settled' = TRUE
    /\ UNCHANGED <<disk, phase, booted, proven, promise, refreshed>>

-----------------------------------------------------------------------------
InitImage(d) ==
    /\ disk = d /\ phase = "reset" /\ booted = "none" /\ proven = FALSE
    /\ promise = IF d.kind # "valid" THEN DefaultPromise
                 ELSE LET p(s) == slot_normalize(d.slots[s]).priority
                      IN  [active |-> IF p("B") > p("A") THEN "B" ELSE "A", owed |-> d.flags]
    /\ refreshed = FALSE /\ settled = FALSE

Init == \E d \in AbrData : (d.kind = "valid" \/ d = Unreadable(d.kind)) /\ InitImage(d)

Reading == IF settled THEN {"ok"} ELSE ReadOutcomes
Writing == IF settled THEN {"ok"} ELSE Writes

ClientCall ==
    \E rd \in Reading, wr \in Writing :
        \/ \E s \in Slots : \/ mark_slot_active(s, rd, wr)
                            \/ mark_slot_unbootable(s, rd, wr)
                            \/ mark_slot_successful(s, rd, wr)
        \/ \E f \in OneShots, e \in BOOLEAN : set_one_shot(f, e, rd, wr)
        \/ get_and_clear_one_shot_flag(rd, wr)

CheckFastboot ==
    \E rd \in Reading, wr \in Writing, t \in BOOLEAN :
        /\ settled => ~t
        /\ zircon_check_enter_fastboot(rd, wr, t)

GetBootSlot ==
    \E rd \in Reading :
        \/ BootWithoutMetadata(rd)
        \/ BootOneShotRecovery(rd)
        \/ \E wr1 \in Writes, wr2 \in Writing : (settled => wr1 = "ok") /\ BootSlot(rd, wr1, wr2)

Next == ClientCall \/ CheckFastboot \/ GetBootSlot \/ FastbootContinue \/ Reset \/ Settle

(* Once settled, the device goes on: the boot flow is a straight-line        *)
(* program, an operator at a fastboot prompt leaves it, and a system that    *)
(* does not work is restarted (by its watchdog).                            *)
GoesOn ==
    settled /\ (CheckFastboot \/ GetBootSlot \/ FastbootContinue \/ (phase = "os" /\ Reset))

Spec == Init /\ [][Next]_vars /\ WF_vars(GoesOn)

-----------------------------------------------------------------------------
(* What a caller sees when storage can be read.                             *)
Image == load_metadata("ok")

(* get_slot_last_marked_active() on loaded data.                            *)
last_marked_active(d) ==
    IF d.slots["B"].priority > d.slots["A"].priority THEN "B" ELSE "A"

(* get_slot_info(): the state of an A or B slot.                            *)
slot_state(d) == IF d.success = 1 THEN "Successful"
                 ELSE IF is_slot_bootable(d) THEN "Bootable" ELSE "Unbootable"

(* Type invariant: every metadata byte stays a byte; a slot is chosen       *)
(* before the system runs.                                                  *)
TypeOK ==
    /\ disk \in AbrData
    /\ phase \in {"reset", "load", "fastboot", "os", "panic"}
    /\ booted \in Slots \cup {"R", "none"}
    /\ proven \in BOOLEAN /\ refreshed \in BOOLEAN /\ settled \in BOOLEAN
    /\ promise \in [active: Slots, owed: SUBSET OneShots]

(* The checked_sub(1).unwrap() of get_boot_slot() never panics, whatever    *)
(* bytes with a good CRC storage held at first.                             *)
NoPanic == phase # "panic"

(* Across calls, boots, resets and failed writes, get_boot_slot() chooses   *)
(* the slot last marked active for as long as that slot is bootable;        *)
(* metadata that is lost counts as "A".                                     *)
MarkedActiveBoots ==
    disk.kind # "newer" /\ is_slot_bootable(Image.slots[promise.active])
        => get_active_slot(Image) = promise.active

(* "Ensures all unbootable or invalid states are marked as the canonical    *)
(* unbootable state.  That is priority=0, tries_remaining=0, and            *)
(* successful_boot=0" (slot_normalize), "Unbootable slots should always     *)
(* have priority 0" (AbrSlotData): so is every unbootable slot that a load  *)
(* returns.  The code does not keep this (README, section 5).               *)
UnbootableCanonical ==
    \A s \in Slots : slot_state(Image.slots[s]) = "Unbootable"
                       => Image.slots[s] = [priority |-> 0, tries |-> 0, success |-> 0]

(* One-shot requests are neither lost nor honoured twice: the flags on      *)
(* storage are exactly the requests not yet honoured or withdrawn, also     *)
(* when the write that clears a request fails.                              *)
OneShotExact == disk.kind # "newer" => Image.flags = promise.owed

(* Once a boot or a success mark reached storage, at most one slot is known *)
(* successful ("minimizes the risk we'll have an unhealthy slot marked      *)
(* successful_boot", get_boot_slot).                                        *)
AtMostOneSuccessful ==
    refreshed /\ disk.kind = "valid"
        => Cardinality({s \in Slots : slot_state(Image.slots[s]) = "Successful"}) =< 1

(* A device whose system never comes up ends in recovery, or in a slot that *)
(* is marked successful: the tries of unproven slots run out.               *)
EventuallyFallsBack ==
    settled ~> (phase = "os" /\ (booted = "R" \/ proven))

=============================================================================
