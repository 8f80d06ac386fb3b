---------------------------- MODULE AndroidBoot ----------------------------
(***************************************************************************)
(* The Android boot flow of GBL, from android_main()                       *)
(* (gbl/libgbl/src/android_boot) to the jump into the kernel: the misc     *)
(* partition's command, the reboot reason, fastboot, the choice of a slot, *)
(* loading, verification and hand-off, over any number of boots.  The      *)
(* vendor firmware keeps the slot metadata and starts GBL again after each *)
(* reset; the operating system and the fastboot host change what is on     *)
(* the disk between the steps.                                             *)
(***************************************************************************)
EXTENDS Naturals, Sequences, FiniteSets

CONSTANTS
    NumSlots,    \* Android slots, a = 0, b = 1, ...
    MaxTries,    \* boot attempts the firmware grants a slot
    Layouts,     \* what may be flashed into a slot
    Downloads,   \* boot images a host may send for "fastboot boot"
    Platforms,   \* devices: slotting, lock state, key and device tree source
    MaxFaults,   \* I/O errors, power cuts and firmware errors in a behaviour
    None

Slots == 0..(NumSlots - 1)
Parts == {"boot", "vendor_boot", "init_boot", "dtbo", "dtb"}
Additional == {"dtbo", "dtb"}
(* Commands, up to how they are read: "boot-fastboot" counts as              *)
(* "boot-recovery", an unknown or unterminated command as none.              *)
Commands == {"", "boot-recovery", "bootonce-bootloader"}
RebootReason == {"Normal", "Bootloader", "FastbootD", "Recovery"}
BootStateColor == {"Green", "Yellow", "Orange", "Red"}

(* A layout: the boot image's header version and whether it holds a ramdisk, *)
(* the other partitions of the slot, and those whose contents are not the    *)
(* signed ones.                                                              *)
Layout == [ver: {"v2", "v4", "bad"}, ramdisk: BOOLEAN,
           have: SUBSET (Parts \ {"boot"}), altered: SUBSET Parts]
Platform == [slots: {"slotless", "slotted", "unsupported"},
             lock: {"locked", "unlocked", "unimplemented"},
             key: {"Valid", "ValidCustomKey", "Invalid"}, custom_device_tree: BOOLEAN]

ASSUME BootAssumption ==
    /\ NumSlots \in Nat \ {0} /\ MaxTries \in Nat \ {0} /\ MaxFaults \in Nat
    /\ Layouts \subseteq Layout /\ Downloads \subseteq Layout
    /\ Platforms \subseteq Platform
    /\ None \notin Slots \cup Layout \cup BootStateColor

VARIABLES
    platform,
    misc,      \* the command field of the bootloader message
    part,      \* the layout flashed into each slot
    meta,      \* the firmware's record of each slot
    active,    \* the slot of highest priority
    current,   \* the slot the firmware started GBL from, if GBL is slotted
    pc,        \* how far this boot is
    run,       \* the locals of android_main() and the functions it calls
    faults

vars == <<platform, misc, part, meta, active, current, pc, run, faults>>
firmware == <<meta, active, current>>
disk == <<misc, part>>

(* `ram` is the image of "fastboot boot" while that command runs, and        *)
(* `reported` the colour the firmware was told last.  Two are history:       *)
(* `charged`, the boot attempts marked since the reset, and `overwritten`,   *)
(* whether the load buffer was used again after loaded_image_info was set.   *)
Fresh ==
    [boot_mode |-> "Normal", reboot_reason |-> "Normal", recovery |-> FALSE,
     last_set_active_slot |-> None, loaded_image_info |-> FALSE, overwritten |-> FALSE,
     ram |-> None, slot |-> None, is_recovery |-> FALSE,
     loaded |-> {}, altered |-> {}, to_verify |-> {},
     reported |-> None, charged |-> <<>>]

Run ==
    [boot_mode: {"Normal", "Recovery", "BootloaderBootOnce"}, reboot_reason: RebootReason,
     recovery: BOOLEAN, last_set_active_slot: Slots \cup {None},
     loaded_image_info: BOOLEAN, overwritten: BOOLEAN, ram: Downloads \cup {None},
     slot: Slots \cup {None}, is_recovery: BOOLEAN,
     loaded: SUBSET Parts, altered: SUBSET Parts, to_verify: SUBSET Parts,
     reported: BootStateColor \cup {None}, charged: Seq(Slots)]

Init ==
    /\ platform \in Platforms
    /\ misc \in Commands
    /\ part \in [Slots -> Layouts]
    /\ meta = [s \in Slots |-> [tries |-> MaxTries, successful |-> FALSE]]
    /\ active = 0 /\ current = None
    /\ pc = "off" /\ run = Fresh
    /\ faults = 0

-----------------------------------------------------------------------------
(* The vendor firmware: GBL_EFI_AB_SLOT_PROTOCOL as the flow uses it.        *)

Bootable(s) == meta[s].successful \/ meta[s].tries > 0
NextSlot ==
    IF Bootable(active) THEN active
    ELSE IF \E s \in Slots : Bootable(s) THEN CHOOSE s \in Slots : Bootable(s)
    ELSE None

Charge(s) ==
    meta' = IF meta[s].successful THEN meta ELSE [meta EXCEPT ![s].tries = @ - 1]

SetActive(s) ==
    /\ active' = s
    /\ meta' = [meta EXCEPT ![s] = [tries |-> MaxTries, successful |-> FALSE]]

Reset == pc' = "off" /\ run' = Fresh

Fault == faults < MaxFaults /\ faults' = faults + 1

(* Firmware starts GBL.  With an A/B bootloader it has chosen the slot and   *)
(* counted the attempt.                                                      *)
FirmwareStart ==
    /\ pc = "off" /\ pc' = "misc"
    /\ IF platform.slots = "slotted"
       THEN NextSlot # None /\ current' = NextSlot /\ Charge(NextSlot)
       ELSE UNCHANGED <<current, meta>>
    /\ UNCHANGED <<platform, misc, part, active, run, faults>>

(* An A/B bootloader with no bootable slot is never started.                 *)
FirmwareStuck ==
    /\ pc = "off" /\ platform.slots = "slotted" /\ NextSlot = None
    /\ UNCHANGED vars

PowerCut ==
    /\ pc \notin {"off", "os"} /\ Fault /\ Reset
    /\ UNCHANGED <<platform, disk, firmware>>

-----------------------------------------------------------------------------
(* android_main() up to the slot decision.                                   *)

(* BootloaderMessage::boot_mode(), with its error read as Normal.            *)
boot_mode(command) ==
    CASE command = "boot-recovery" -> "Recovery"
      [] command = "bootonce-bootloader" -> "BootloaderBootOnce"
      [] OTHER -> "Normal"

(* An error returned by android_main() is unwrapped in efi_main(), and the   *)
(* panic handler resets the machine.                                         *)
ReadMisc ==
    /\ pc = "misc"
    /\ \/ LET mode == boot_mode(misc)
          IN /\ run' = [run EXCEPT !.boot_mode = mode]
             /\ pc' = IF mode = "BootloaderBootOnce" THEN "clear" ELSE "reason"
             /\ UNCHANGED faults
       \/ Fault /\ Reset
    /\ UNCHANGED <<platform, disk, firmware>>

(* Mutant: goes on after a failed write.                                     *)
ClearCommandOrIgnore ==
    /\ pc = "clear"
    /\ \/ misc' = "" /\ pc' = "reason" /\ UNCHANGED <<run, faults>>
       \/ Fault /\ pc' = "reason" /\ UNCHANGED <<run, misc>>
    /\ UNCHANGED <<platform, part, firmware>>

ClearCommand ==
    /\ pc = "clear"
    /\ \/ misc' = "" /\ pc' = "reason" /\ UNCHANGED <<run, faults>>
       \/ Fault /\ Reset /\ UNCHANGED misc
    /\ UNCHANGED <<platform, part, firmware>>

(* The reason is whatever the firmware answers; an error counts as Normal.   *)
GetRebootReason ==
    /\ pc = "reason" /\ pc' = "decide"
    /\ \E r \in RebootReason : run' = [run EXCEPT !.reboot_reason = r]
    /\ UNCHANGED <<platform, disk, firmware, faults>>

EntersFastboot(stop) ==
    run.reboot_reason = "Bootloader" \/ run.boot_mode = "BootloaderBootOnce" \/ stop

(* The mode and the reason also decide whether a boot from the disk is one   *)
(* into recovery; neither is read again.                                     *)
CheckFastboot ==
    /\ pc = "decide"
    /\ run' = [run EXCEPT !.recovery = run.reboot_reason = "Recovery" \/ run.boot_mode = "Recovery",
                          !.boot_mode = "Normal", !.reboot_reason = "Normal"]
    /\ \E should_stop_in_fastboot \in BOOLEAN :
           pc' = IF EntersFastboot(should_stop_in_fastboot) THEN "fastboot" ELSE "leave"
    /\ UNCHANGED <<platform, disk, firmware, faults>>

-----------------------------------------------------------------------------
(* The slot to boot from, and None for an error.                             *)
get_boot_slot ==
    CASE platform.slots = "slotted" -> current
      [] platform.slots = "slotless" -> NextSlot
      [] platform.slots = "unsupported" -> 0

(* Mutants: the attempt is counted on the wrong bootloader, or never.        *)
MarksAttemptIfSlotted(mark_boot_attempt) == mark_boot_attempt /\ platform.slots = "slotted"
MarksNoAttempt(mark_boot_attempt) == FALSE

(* Only a slotless bootloader has the firmware count the attempt now.        *)
MarksAttempt(mark_boot_attempt) ==
    mark_boot_attempt /\ platform.slots = "slotless" /\ NextSlot # None

(* What a fastboot session can do to the flow; GblFastboot has the commands. *)
fastboot_flash ==
    /\ pc = "fastboot"
    /\ \/ misc' \in Commands /\ UNCHANGED part
       \/ \E s \in Slots, l \in Layouts : part' = [part EXCEPT ![s] = l] /\ UNCHANGED misc
    /\ UNCHANGED <<platform, firmware, pc, run, faults>>

fastboot_set_active ==
    /\ pc = "fastboot" /\ platform.slots # "unsupported"
    /\ \E s \in Slots : SetActive(s) /\ run' = [run EXCEPT !.last_set_active_slot = s]
    /\ UNCHANGED <<platform, disk, current, pc, faults>>

(* "boot" loads the downloaded image with the slot's other partitions, as a  *)
(* normal boot that counts no attempt.  Without a download or a slot it      *)
(* fails at once.                                                            *)
fastboot_boot ==
    /\ pc = "fastboot"
    /\ \/ \E d \in Downloads :
              /\ get_boot_slot # None /\ pc' = "load"
              /\ run' = [run EXCEPT !.ram = d, !.slot = get_boot_slot, !.is_recovery = FALSE]
       \/ pc' = "reply" /\ UNCHANGED run
    /\ UNCHANGED <<platform, disk, firmware, faults>>

fastboot_continue ==
    /\ pc = "fastboot" /\ pc' = "reply"
    /\ UNCHANGED <<platform, disk, firmware, run, faults>>

(* "boot" and "continue" end the session with their reply, whatever it says; *)
(* a reply that cannot be sent leaves the session open.                      *)
Reply ==
    /\ pc = "reply"
    /\ \/ pc' = "leave" /\ UNCHANGED faults
       \/ pc' = "fastboot" /\ Fault
    /\ UNCHANGED <<platform, disk, firmware, run>>

fastboot_reboot ==
    /\ pc = "fastboot" /\ Reset
    /\ UNCHANGED <<platform, disk, firmware, faults>>

LeaveFastboot ==
    /\ pc = "leave"
    /\ pc' = IF run.loaded_image_info THEN "boot" ELSE "slot"
    /\ UNCHANGED <<platform, disk, firmware, run, faults>>

(* Did fastboot set active another slot than the one about to boot?          *)
SlotChanged(slot) == run.last_set_active_slot \notin {None, slot}

ChooseSlot ==
    LET slot == get_boot_slot
        charged == IF MarksAttempt(TRUE) THEN Append(run.charged, slot) ELSE run.charged
    IN /\ pc = "slot"
       /\ IF MarksAttempt(TRUE) THEN Charge(slot) ELSE UNCHANGED meta
       /\ IF slot = None \/ SlotChanged(slot)
          THEN Reset
          ELSE /\ pc' = "load"
               /\ run' = [run EXCEPT !.slot = slot, !.is_recovery = run.recovery,
                                     !.charged = charged]
       /\ UNCHANGED <<platform, disk, active, current, faults>>

-----------------------------------------------------------------------------
(* android_load_verify_fixup().                                              *)

(* A failing "boot" command is over; it has used the load buffer and leaves  *)
(* loaded_image_info as it was.  A failing boot from the disk is a reset.    *)
Failed(r) ==
    IF r.ram # None
    THEN /\ pc' = "reply"
         /\ run' = [r EXCEPT !.ram = None, !.overwritten = r.loaded_image_info,
                             !.loaded = {}, !.altered = {}, !.to_verify = {}]
    ELSE Reset

(* The boot header decides which partitions follow: none up to version 2,    *)
(* otherwise vendor_boot, and init_boot if boot holds no ramdisk.            *)
Required(header) ==
    IF header.ver = "v2" THEN {}
    ELSE {"vendor_boot"} \cup (IF header.ramdisk THEN {} ELSE {"init_boot"})

(* Mutant: dtbo and dtb are loaded and not verified.                         *)
ImagesOnly(images, additional) == images

(* The partitions handed to libavb: the images of the branch taken and       *)
(* whichever of dtbo and dtb were found.                                     *)
PartitionsToVerify(images, additional) == images \cup additional

load_verify ==
    LET layout == part[run.slot]
        header == IF run.ram # None THEN run.ram ELSE layout
        images == {"boot"} \cup Required(header)
        additional == Additional \cap layout.have
        altered == (layout.altered \ {"boot"}) \cup ({"boot"} \cap header.altered)
    IN /\ pc = "load"
       /\ \/ /\ header.ver # "bad" /\ Required(header) \subseteq layout.have
             /\ pc' = "verify"
             /\ run' = [run EXCEPT !.loaded = images \cup additional,
                                   !.altered = altered \cap (images \cup additional),
                                   !.to_verify = PartitionsToVerify(images, additional)]
             /\ UNCHANGED faults
          \/ /\ header.ver = "bad" \/ ~(Required(header) \subseteq layout.have)
             /\ Failed(run) /\ UNCHANGED faults
          \/ Fault /\ Failed(run)
       /\ UNCHANGED <<platform, disk, firmware>>

(* A missing AVB protocol counts as an unlocked device.                      *)
Unlocked == platform.lock # "locked"

(* libavb's slot_verify(): every requested partition must match its signed   *)
(* digest and the key must be accepted.                                      *)
slot_verify(io_error) ==
    ~io_error /\ run.to_verify \cap run.altered = {} /\ platform.key # "Invalid"

(* Mutant: goes on with any verification data, locked or not.                *)
colorWithData(io_error) ==
    CASE slot_verify(io_error) /\ ~Unlocked -> "Green"
      [] ~io_error -> "Orange"
      [] OTHER -> "Red"

(* Verification errors leave data to boot with if the device is unlocked;    *)
(* an I/O error never does.                                                  *)
color(io_error) ==
    CASE slot_verify(io_error) /\ Unlocked -> "Orange"
      [] slot_verify(io_error) /\ ~Unlocked /\ platform.key = "ValidCustomKey" -> "Yellow"
      [] slot_verify(io_error) /\ ~Unlocked /\ platform.key = "Valid" -> "Green"
      [] ~slot_verify(io_error) /\ ~io_error /\ Unlocked -> "Orange"
      [] OTHER -> "Red"

Report(c) == [run EXCEPT !.reported = c]

avb_verify_slot ==
    /\ pc = "verify"
    /\ \/ run.slot > 1 /\ Failed(run) /\ UNCHANGED faults
       \/ run.slot <= 1 /\ Fault /\ Failed(run)               \* lock state unreadable
       \/ run.slot <= 1 /\ Fault /\ Failed(Report(color(TRUE)))
       \/ /\ run.slot <= 1 /\ UNCHANGED faults
          /\ IF color(FALSE) = "Red" THEN Failed(Report("Red"))
             ELSE pc' = "fixup" /\ run' = Report(color(FALSE))
       \/ run.slot <= 1 /\ Fault /\ Failed(Report(color(FALSE)))
    /\ UNCHANGED <<platform, disk, firmware>>

(* Boot configuration, device tree and command line fixups, each of which    *)
(* may fail, and the split of the load buffer into the images.               *)
Fixup ==
    /\ pc = "fixup"
    /\ \/ /\ IF run.ram # None
             THEN /\ pc' = "reply"
                  /\ run' = [run EXCEPT !.ram = None, !.loaded_image_info = TRUE,
                                        !.overwritten = FALSE]
             ELSE pc' = "boot" /\ UNCHANGED run
          /\ UNCHANGED faults
       \/ Fault /\ Failed(run)
    /\ UNCHANGED <<platform, disk, firmware>>

(* exit_boot_services() and the jump; of GBL's state only the slot is known  *)
(* to the kernel.                                                            *)
BootKernel ==
    /\ pc = "boot"
    /\ \/ pc' = "os" /\ run' = [Fresh EXCEPT !.slot = run.slot] /\ UNCHANGED faults
       \/ Fault /\ Reset
    /\ UNCHANGED <<platform, disk, firmware>>

-----------------------------------------------------------------------------
(* The running system: it confirms its slot, leaves a command for the next   *)
(* boot, installs an update in another slot, and restarts.                   *)

OsConfirm ==
    /\ pc = "os" /\ platform.slots # "unsupported"
    /\ meta' = [meta EXCEPT ![run.slot].successful = TRUE]
    /\ UNCHANGED <<platform, disk, active, current, pc, run, faults>>

OsCommand ==
    /\ pc = "os" /\ misc' \in Commands
    /\ UNCHANGED <<platform, part, firmware, pc, run, faults>>

OsUpdate ==
    /\ pc = "os" /\ platform.slots # "unsupported"
    /\ \E s \in Slots \ {run.slot}, l \in Layouts :
           part' = [part EXCEPT ![s] = l] /\ SetActive(s)
    /\ UNCHANGED <<platform, misc, current, pc, run, faults>>

OsRestart ==
    /\ pc = "os" /\ Reset
    /\ UNCHANGED <<platform, disk, firmware, faults>>

GblStep ==
    \/ ReadMisc \/ ClearCommand \/ GetRebootReason \/ CheckFastboot \/ Reply
    \/ LeaveFastboot \/ ChooseSlot \/ load_verify \/ avb_verify_slot \/ Fixup \/ BootKernel
Fastboot ==
    \/ fastboot_flash \/ fastboot_set_active \/ fastboot_boot \/ fastboot_continue
    \/ fastboot_reboot
System == OsConfirm \/ OsCommand \/ OsUpdate \/ OsRestart

Next == FirmwareStart \/ FirmwareStuck \/ PowerCut \/ GblStep \/ Fastboot \/ System

Spec == Init /\ [][Next]_vars /\ WF_vars(FirmwareStart) /\ WF_vars(GblStep)

-----------------------------------------------------------------------------
(* Every variable has its type.                                              *)
TypeOK ==
    /\ platform \in Platforms /\ misc \in Commands /\ part \in [Slots -> Layouts]
    /\ meta \in [Slots -> [tries: 0..MaxTries, successful: BOOLEAN]]
    /\ active \in Slots /\ current \in Slots \cup {None}
    /\ pc \in {"off", "misc", "clear", "reason", "decide", "fastboot", "reply", "leave",
               "slot", "load", "verify", "fixup", "boot", "os"}
    /\ run \in Run
    /\ run.altered \subseteq run.loaded
    /\ faults \in 0..MaxFaults

(* What the kernel is given: a device tree of the platform's own replaces    *)
(* those of dtbo and dtb.                                                    *)
HandedOver == IF platform.custom_device_tree THEN run.loaded \ Additional ELSE run.loaded

(* A locked device starts no kernel with an image, ramdisk or device tree    *)
(* from a partition whose contents are not the signed ones, whichever header *)
(* version, optional partitions or "fastboot boot" download brought it in;   *)
(* the exception is a kernel started from an overwritten load buffer.        *)
VerifiedBoot ==
    pc = "boot" /\ ~Unlocked /\ ~run.overwritten => HandedOver \cap run.altered = {}

(* When a kernel is started, the colour the firmware was told last is *)
(* the one these images deserve: never Red, Orange exactly on an unlocked    *)
(* device, Green only with the built-in key; an earlier failed "fastboot     *)
(* boot" leaves no colour behind, an overwritten load buffer excepted.       *)
ColorTruthful ==
    pc = "boot" /\ ~run.overwritten =>
        /\ run.reported \in {"Green", "Yellow", "Orange"}
        /\ run.reported = "Orange" <=> Unlocked
        /\ run.reported = "Green" => platform.key = "Valid"

(* Slotless bootloader: a boot from the disk has marked exactly one attempt, *)
(* on the slot that runs, and "fastboot boot" has marked none, even where a  *)
(* failed "boot" came first.                                                 *)
AttemptMarkedOnce ==
    pc = "boot" /\ platform.slots = "slotless" =>
        run.charged = IF run.loaded_image_info THEN <<>> ELSE <<run.slot>>

(* After "set_active" the kernel started from the disk is of the slot last   *)
(* set active; where the firmware would boot another one, GBL resets.        *)
SetActiveHonoured ==
    pc = "boot" /\ ~run.loaded_image_info =>
        run.last_set_active_slot \in {None, run.slot}

(* The boot from the disk is of the slot asked for and on its account.       *)
SlotAccounted == AttemptMarkedOnce /\ SetActiveHonoured

(* The bootonce-bootloader command is off the disk before fastboot starts,   *)
(* so that a power cut or reset in the session does not bring it back.       *)
BootOnceConsumed ==
    [][pc = "decide" /\ pc' = "fastboot" => misc # "bootonce-bootloader"]_vars

(* A device with slotting support keeps coming back to a running kernel or   *)
(* to fastboot until no slot is bootable: images that fail to load or verify *)
(* use up their slot's attempts and the next slot has its turn.  The one way *)
(* to reset forever is a slot already confirmed successful whose images      *)
(* stopped verifying, since nothing in the flow marks it unbootable.         *)
FallsBack ==
    platform.slots # "unsupported" =>
        []<>(\/ pc \in {"os", "fastboot"} \/ NextSlot = None
             \/ meta[NextSlot].successful)

=============================================================================
