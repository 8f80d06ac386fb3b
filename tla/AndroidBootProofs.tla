------------------------- MODULE AndroidBootProofs -------------------------
(***************************************************************************)
(* Proofs about AndroidBoot for any number of slots, attempts, layouts,    *)
(* downloads, platforms and faults.                                        *)
(***************************************************************************)
EXTENDS AndroidBoot, TLAPS

Loading == pc \in {"load", "verify", "fixup"}

(* The boot under way is one from the disk.                                  *)
FromDisk == \/ Loading /\ run.ram = None
            \/ pc = "boot" /\ ~run.loaded_image_info

(* The images in the buffer may be started, and the firmware was told so.    *)
Checked ==
    /\ ~Unlocked => run.loaded \cap run.altered = {}
    /\ run.reported \in {"Green", "Yellow", "Orange"}
    /\ run.reported = "Orange" <=> Unlocked
    /\ run.reported = "Green" => platform.key = "Valid"

(* "fastboot boot" runs only while it loads; a boot from the disk starts     *)
(* with nothing loaded.                                                      *)
SessionInv ==
    /\ run.ram # None => Loading
    /\ Loading => run.slot \in Slots
    /\ FromDisk \/ pc \in {"slot", "os"} => ~run.loaded_image_info
    /\ run.overwritten => run.loaded_image_info

(* What was checked stays checked until it is started or overwritten.        *)
CheckedInv ==
    /\ pc = "verify" => run.to_verify = run.loaded
    /\ pc = "fixup" => Checked
    /\ pc = "boot" /\ ~run.loaded_image_info => Checked
    /\ run.loaded_image_info /\ ~run.overwritten /\ ~Loading => Checked

(* An attempt is on record exactly for a boot from the disk of a slotless    *)
(* bootloader, and that boot is of the slot set active, if any.              *)
SlotInv ==
    /\ run.charged = IF FromDisk /\ platform.slots = "slotless" THEN <<run.slot>> ELSE <<>>
    /\ FromDisk => run.last_set_active_slot \in {None, run.slot}

(* Once past the point that clears it, the one-shot command is not there.    *)
MiscInv == pc \in {"reason", "decide"} => misc # "bootonce-bootloader"

IInv == TypeOK /\ SessionInv /\ CheckedInv /\ SlotInv /\ MiscInv

-----------------------------------------------------------------------------
LEMMA NextSlotType ==
  ASSUME TypeOK
  PROVE  NextSlot \in Slots \cup {None} /\ (NextSlot # None => Bootable(NextSlot))
BY BootAssumption DEF NextSlot, TypeOK

LEMMA BootSlotType ==
  ASSUME TypeOK
  PROVE  get_boot_slot \in Slots \cup {None}
<1>1. platform.slots \in {"slotless", "slotted", "unsupported"}
  BY BootAssumption DEF TypeOK, Platform
<1>2. 0 \in Slots
  BY BootAssumption DEF Slots
<1> QED BY <1>1, <1>2, NextSlotType DEF get_boot_slot, TypeOK

LEMMA FreshType == Fresh \in Run /\ Fresh.altered = {} /\ Fresh.loaded = {}
BY DEF Fresh, Run, RebootReason

LEMMA InitInv == Init => IInv
<1> SUFFICES ASSUME Init PROVE IInv
  OBVIOUS
<1>1. TypeOK
  BY FreshType, BootAssumption DEF Init, TypeOK, Slots
<1>2. SessionInv /\ CheckedInv /\ MiscInv
  BY DEF Init, Fresh, SessionInv, CheckedInv, MiscInv, Loading, FromDisk
<1>3. SlotInv
  BY DEF Init, Fresh, SlotInv, Loading, FromDisk
<1> QED BY <1>1, <1>2, <1>3 DEF IInv

-----------------------------------------------------------------------------
(* Types.                                                                    *)

LEMMA FaultType == TypeOK /\ Fault => faults' \in 0..MaxFaults
BY BootAssumption DEF TypeOK, Fault

LEMMA ResetType == Reset => run' \in Run /\ run'.altered \subseteq run'.loaded /\ pc' = "off"
BY FreshType DEF Reset

(* The firmware's bookkeeping stays well formed.                             *)
LEMMA ChargeType ==
  ASSUME TypeOK, NEW s \in Slots, Bootable(s), Charge(s)
  PROVE  meta' \in [Slots -> [tries: 0..MaxTries, successful: BOOLEAN]]
<1>1. meta[s] \in [tries: 0..MaxTries, successful: BOOLEAN]
  BY DEF TypeOK
<1>2. CASE meta[s].successful
  BY <1>2 DEF Charge, TypeOK
<1>3. CASE ~meta[s].successful
  <2>1. meta[s].tries \in 1..MaxTries
    BY <1>1, <1>3, BootAssumption DEF Bootable
  <2>2. [meta[s] EXCEPT !.tries = meta[s].tries - 1] \in [tries: 0..MaxTries, successful: BOOLEAN]
    BY <1>1, <2>1, BootAssumption
  <2>3. meta' = [meta EXCEPT ![s] = [meta[s] EXCEPT !.tries = meta[s].tries - 1]]
    BY <1>3 DEF Charge
  <2> QED BY <2>2, <2>3 DEF TypeOK
<1> QED BY <1>2, <1>3

LEMMA SetActiveType ==
  ASSUME TypeOK, NEW s \in Slots, SetActive(s)
  PROVE  active' \in Slots /\ meta' \in [Slots -> [tries: 0..MaxTries, successful: BOOLEAN]]
<1>1. [tries |-> MaxTries, successful |-> FALSE] \in [tries: 0..MaxTries, successful: BOOLEAN]
  BY BootAssumption
<1> QED BY <1>1 DEF SetActive, TypeOK

LEMMA BootModeType ==
  ASSUME NEW c \in Commands
  PROVE  /\ boot_mode(c) \in {"Normal", "Recovery", "BootloaderBootOnce"}
         /\ boot_mode(c) # "BootloaderBootOnce" => c # "bootonce-bootloader"
BY DEF boot_mode, Commands

LEMMA ColorType ==
  ASSUME NEW e \in BOOLEAN
  PROVE  color(e) \in BootStateColor
BY DEF color, BootStateColor

LEMMA DroppedType ==
  ASSUME NEW r \in Run
  PROVE  [r EXCEPT !.ram = None, !.overwritten = r.loaded_image_info,
                   !.loaded = {}, !.altered = {}, !.to_verify = {}] \in Run
BY DEF Run

LEMMA FailedType ==
  ASSUME NEW r \in Run, Failed(r)
  PROVE  run' \in Run /\ run'.altered \subseteq run'.loaded /\ pc' \in {"reply", "off"}
<1>1. CASE r.ram # None
  <2>1. run'.altered = {} /\ run'.loaded = {}
    BY <1>1 DEF Failed, Run
  <2> QED BY <1>1, <2>1, DroppedType DEF Failed
<1>2. CASE r.ram = None
  BY <1>2, ResetType DEF Failed
<1> QED BY <1>1, <1>2

(* The conjuncts about the run, for an action that leaves the rest alone.    *)
RunOK == run \in Run /\ run.altered \subseteq run.loaded
PcOK == pc \in {"off", "misc", "clear", "reason", "decide", "fastboot", "reply", "leave",
                "slot", "load", "verify", "fixup", "boot", "os"}

LEMMA TypeFrame ==
  ASSUME TypeOK, UNCHANGED <<platform, disk, firmware>>, PcOK', RunOK', faults' \in 0..MaxFaults
  PROVE  TypeOK'
BY DEF TypeOK, disk, firmware, PcOK, RunOK

LEMMA FirmwareTypes ==
  ASSUME TypeOK, FirmwareStart \/ FirmwareStuck \/ PowerCut
  PROVE  TypeOK'
<1>1. CASE FirmwareStart /\ platform.slots = "slotted"
  <2>1. NextSlot \in Slots /\ Bootable(NextSlot)
    BY <1>1, NextSlotType DEF FirmwareStart
  <2>2. Charge(NextSlot) /\ current' = NextSlot
    BY <1>1 DEF FirmwareStart
  <2> HIDE DEF NextSlot
  <2>3. meta' \in [Slots -> [tries: 0..MaxTries, successful: BOOLEAN]]
    BY <2>1, <2>2, ChargeType
  <2> QED BY <1>1, <2>1, <2>2, <2>3 DEF FirmwareStart, TypeOK
<1>2. CASE FirmwareStart /\ platform.slots # "slotted"
  BY <1>2 DEF FirmwareStart, TypeOK
<1>3. CASE FirmwareStuck
  BY <1>3 DEF FirmwareStuck, vars, TypeOK
<1>4. CASE PowerCut
  <2> USE <1>4 DEF PowerCut
  <2>1. faults' \in 0..MaxFaults
    BY FaultType
  <2>2. PcOK' /\ RunOK'
    BY ResetType DEF PcOK, RunOK
  <2> QED BY <2>1, <2>2, TypeFrame
<1> QED BY <1>1, <1>2, <1>3, <1>4

LEMMA DecisionTypes ==
  ASSUME TypeOK, ReadMisc \/ ClearCommand \/ GetRebootReason \/ CheckFastboot \/ Reply \/ LeaveFastboot
  PROVE  TypeOK'
<1> USE DEF TypeOK
<1>1. CASE ReadMisc
  <2>1. CASE Fault /\ Reset
    BY <1>1, <2>1, FaultType, ResetType, TypeFrame DEF ReadMisc, PcOK, RunOK
  <2>2. CASE UNCHANGED faults /\ run' = [run EXCEPT !.boot_mode = boot_mode(misc)]
    <3>1. run' \in Run /\ run'.altered = run.altered /\ run'.loaded = run.loaded
      BY <2>2, BootModeType DEF Run
    <3>2. pc' \in {"clear", "reason", "off"}
      BY <1>1, ResetType DEF ReadMisc
    <3> QED BY <1>1, <2>2, <3>1, <3>2, TypeFrame DEF ReadMisc, PcOK, RunOK
  <2> QED BY <1>1, <2>1, <2>2 DEF ReadMisc
<1>2. CASE ClearCommand
  <2>1. CASE Fault /\ Reset /\ UNCHANGED misc
    BY <1>2, <2>1, FaultType, ResetType, TypeFrame DEF ClearCommand, disk, PcOK, RunOK
  <2>2. CASE misc' = "" /\ pc' = "reason" /\ UNCHANGED <<run, faults>>
    BY <1>2, <2>2 DEF ClearCommand, firmware, Commands
  <2> QED BY <1>2, <2>1, <2>2 DEF ClearCommand
<1>3. CASE GetRebootReason
  <2>1. run' \in Run /\ run'.altered = run.altered /\ run'.loaded = run.loaded
    BY <1>3 DEF GetRebootReason, Run
  <2> QED BY <1>3, <2>1, TypeFrame DEF GetRebootReason, PcOK, RunOK
<1>4. CASE CheckFastboot
  <2>1. run' \in Run /\ run'.altered = run.altered /\ run'.loaded = run.loaded
    <3> DEFINE r == run.reboot_reason = "Recovery" \/ run.boot_mode = "Recovery"
    <3>1. run' = [run EXCEPT !.recovery = r, !.boot_mode = "Normal", !.reboot_reason = "Normal"]
      BY <1>4 DEF CheckFastboot
    <3>2. r \in BOOLEAN /\ run \in Run
      OBVIOUS
    <3>3. "Normal" \in RebootReason
      BY DEF RebootReason
    <3> HIDE DEF r, TypeOK
    <3> QED BY <3>1, <3>2, <3>3 DEF Run
  <2>2. pc' \in {"fastboot", "leave"}
    BY <1>4 DEF CheckFastboot
  <2> QED BY <1>4, <2>1, <2>2, TypeFrame DEF CheckFastboot, PcOK, RunOK
<1>5. CASE Reply
  BY <1>5, FaultType, TypeFrame DEF Reply, PcOK, RunOK
<1>6. CASE LeaveFastboot
  BY <1>6, TypeFrame DEF LeaveFastboot, PcOK, RunOK
<1> QED BY <1>1, <1>2, <1>3, <1>4, <1>5, <1>6

LEMMA FastbootTypes ==
  ASSUME TypeOK, Fastboot
  PROVE  TypeOK'
<1>1. CASE fastboot_flash
  <2>1. part' \in [Slots -> Layouts] /\ misc' \in Commands
    BY <1>1 DEF fastboot_flash, TypeOK
  <2> QED BY <1>1, <2>1 DEF fastboot_flash, firmware, TypeOK
<1>2. CASE fastboot_set_active
  <2>1. PICK s \in Slots : SetActive(s) /\ run' = [run EXCEPT !.last_set_active_slot = s]
    BY <1>2 DEF fastboot_set_active
  <2>2. active' \in Slots /\ meta' \in [Slots -> [tries: 0..MaxTries, successful: BOOLEAN]]
    BY <2>1, SetActiveType
  <2>3. run' \in Run /\ run'.altered = run.altered /\ run'.loaded = run.loaded
    BY <2>1 DEF TypeOK, Run
  <2> QED BY <1>2, <2>2, <2>3 DEF fastboot_set_active, disk, TypeOK
<1>3. CASE fastboot_boot
  <2>1. CASE pc' = "reply" /\ UNCHANGED run
    BY <1>3, <2>1, TypeFrame DEF fastboot_boot, TypeOK, PcOK, RunOK
  <2>2. CASE \E d \in Downloads :
              /\ get_boot_slot # None /\ pc' = "load"
              /\ run' = [run EXCEPT !.ram = d, !.slot = get_boot_slot, !.is_recovery = FALSE]
    <3>1. run' \in Run /\ run'.altered = run.altered /\ run'.loaded = run.loaded
      BY <2>2, BootSlotType, ZenonT(40) DEF TypeOK, Run
    <3> QED BY <1>3, <2>2, <3>1, TypeFrame DEF fastboot_boot, TypeOK, PcOK, RunOK
  <2> QED BY <1>3, <2>1, <2>2 DEF fastboot_boot
<1>4. CASE fastboot_continue
  BY <1>4, TypeFrame DEF fastboot_continue, TypeOK, PcOK, RunOK
<1>5. CASE fastboot_reboot
  BY <1>5, ResetType, TypeFrame DEF fastboot_reboot, TypeOK, PcOK, RunOK
<1> QED BY <1>1, <1>2, <1>3, <1>4, <1>5 DEF Fastboot

(* What a step that chooses a slot does, with the choice named.              *)
LEMMA MarkedSlot ==
  ASSUME TypeOK, MarksAttempt(TRUE)
  PROVE  get_boot_slot = NextSlot /\ NextSlot \in Slots /\ Bootable(NextSlot)
<1>1. get_boot_slot = NextSlot
  BY DEF MarksAttempt, get_boot_slot
<1>2. NextSlot # None
  BY DEF MarksAttempt
<1> QED BY <1>1, <1>2, NextSlotType

LEMMA ChooseSlotTypes ==
  ASSUME TypeOK, ChooseSlot
  PROVE  TypeOK'
<1> DEFINE slot == get_boot_slot
           charged == IF MarksAttempt(TRUE) THEN Append(run.charged, slot) ELSE run.charged
<1>1. meta' \in [Slots -> [tries: 0..MaxTries, successful: BOOLEAN]]
  <2>1. CASE MarksAttempt(TRUE)
    <3>1. slot \in Slots /\ Bootable(slot)
      BY <2>1, MarkedSlot
    <3>2. Charge(slot)
      BY <2>1 DEF ChooseSlot
    <3> HIDE DEF slot
    <3> QED BY <3>1, <3>2, ChargeType
  <2>2. CASE ~MarksAttempt(TRUE)
    BY <2>2 DEF ChooseSlot, TypeOK
  <2> QED BY <2>1, <2>2
<1>2. charged \in Seq(Slots)
  <2>1. run.charged \in Seq(Slots)
    BY DEF TypeOK, Run
  <2>2. CASE MarksAttempt(TRUE)
    <3>1. slot \in Slots
      BY <2>2, MarkedSlot
    <3> HIDE DEF slot
    <3> QED BY <2>1, <2>2, <3>1
  <2>3. CASE ~MarksAttempt(TRUE)
    BY <2>1, <2>3
  <2> QED BY <2>2, <2>3
<1>3. slot \in Slots \cup {None}
  BY BootSlotType
<1>4. RunOK' /\ pc' \in {"off", "load"}
  <2>1. CASE Reset
    BY <2>1, ResetType DEF RunOK
  <2>2. CASE /\ pc' = "load"
             /\ run' = [run EXCEPT !.slot = slot, !.is_recovery = run.recovery, !.charged = charged]
    <3> HIDE DEF slot, charged
    <3>1. run' \in Run /\ run'.altered = run.altered /\ run'.loaded = run.loaded
      BY <2>2, <1>2, <1>3 DEF TypeOK, Run
    <3> QED BY <2>2, <3>1 DEF TypeOK, RunOK
  <2> QED BY <2>1, <2>2 DEF ChooseSlot
<1> QED BY <1>1, <1>4 DEF ChooseSlot, TypeOK, disk, RunOK

LEMMA SystemTypes ==
  ASSUME TypeOK, System
  PROVE  TypeOK'
<1>1. CASE OsConfirm
  <2>1. \A s \in Slots : meta[s] \in [tries: 0..MaxTries, successful: BOOLEAN]
    BY DEF TypeOK
  <2>2. \A s \in Slots : [meta[s] EXCEPT !.successful = TRUE] \in [tries: 0..MaxTries, successful: BOOLEAN]
    BY <2>1
  <2>3. meta' \in [Slots -> [tries: 0..MaxTries, successful: BOOLEAN]]
    BY <1>1, <2>2 DEF OsConfirm, TypeOK
  <2> QED BY <1>1, <2>3 DEF OsConfirm, TypeOK, disk
<1>2. CASE OsCommand
  BY <1>2 DEF OsCommand, TypeOK, firmware
<1>3. CASE OsUpdate
  <2>1. PICK s \in Slots \ {run.slot}, l \in Layouts : part' = [part EXCEPT ![s] = l] /\ SetActive(s)
    BY <1>3 DEF OsUpdate
  <2>2. active' \in Slots /\ meta' \in [Slots -> [tries: 0..MaxTries, successful: BOOLEAN]]
    BY <2>1, SetActiveType
  <2>3. part' \in [Slots -> Layouts]
    BY <2>1 DEF TypeOK
  <2> QED BY <1>3, <2>2, <2>3 DEF OsUpdate, TypeOK
<1>4. CASE OsRestart
  BY <1>4, ResetType, TypeFrame DEF OsRestart, TypeOK, PcOK, RunOK
<1> QED BY <1>1, <1>2, <1>3, <1>4 DEF System

LEMMA ReportType ==
  ASSUME TypeOK, NEW c \in BootStateColor
  PROVE  /\ Report(c) \in Run /\ Report(c).reported = c
         /\ Report(c) = [run EXCEPT !.reported = c]
BY DEF TypeOK, Run, Report

(* What a successful load_verify leaves behind.                              *)
LoadsThese(images, additional, alt) ==
    /\ pc' = "verify"
    /\ run' = [run EXCEPT !.loaded = images \cup additional,
                          !.altered = alt \cap (images \cup additional),
                          !.to_verify = PartitionsToVerify(images, additional)]
Loads ==
    \E images \in SUBSET Parts, additional \in SUBSET Parts, alt \in SUBSET Parts :
        LoadsThese(images, additional, alt)

LEMMA LoadOutcome ==
  ASSUME TypeOK, load_verify
  PROVE  Loads \/ Failed(run)
<1> DEFINE layout == part[run.slot]
           header == IF run.ram # None THEN run.ram ELSE layout
           images == {"boot"} \cup Required(header)
           additional == Additional \cap layout.have
           alt == (layout.altered \ {"boot"}) \cup ({"boot"} \cap header.altered)
<1>1. images \in SUBSET Parts /\ additional \in SUBSET Parts
  BY DEF Required, Parts, Additional
<1>2. Failed(run) \/ LoadsThese(images, additional, alt)
  BY DEF load_verify, LoadsThese
<1>3. alt \cap (images \cup additional) = (alt \cap Parts) \cap (images \cup additional)
  BY <1>1
<1> HIDE DEF images, additional, alt
<1>4. Failed(run) \/ LoadsThese(images, additional, alt \cap Parts)
  BY <1>2, <1>3 DEF LoadsThese
<1> QED BY <1>1, <1>4 DEF Loads

LEMMA LoadTypes ==
  ASSUME TypeOK, load_verify \/ avb_verify_slot \/ Fixup \/ BootKernel
  PROVE  TypeOK'
<1> USE DEF TypeOK
<1>1. CASE load_verify
  <2>1. faults' \in 0..MaxFaults
    BY <1>1, FaultType DEF load_verify
  <2>2. PcOK' /\ RunOK'
    <3>1. CASE Failed(run)
      BY <3>1, FailedType DEF PcOK, RunOK
    <3>2. CASE Loads
      <4>1. PICK images \in SUBSET Parts, additional \in SUBSET Parts, alt \in SUBSET Parts :
               LoadsThese(images, additional, alt)
        BY <3>2 DEF Loads
      <4>2. images \cup additional \in SUBSET Parts
        OBVIOUS
      <4>3. /\ run' \in Run /\ run'.loaded = images \cup additional
            /\ run'.altered = alt \cap (images \cup additional)
        BY <4>1, <4>2 DEF LoadsThese, PartitionsToVerify, Run
      <4> QED BY <4>1, <4>3 DEF LoadsThese, PcOK, RunOK
    <3> QED BY <1>1, <3>1, <3>2, LoadOutcome
  <2> QED BY <1>1, <2>1, <2>2, TypeFrame DEF load_verify
<1>2. CASE avb_verify_slot
  <2>1. faults' \in 0..MaxFaults
    BY <1>2, FaultType DEF avb_verify_slot
  <2>2. /\ color(TRUE) \in BootStateColor /\ color(FALSE) \in BootStateColor
        /\ "Red" \in BootStateColor
    BY ColorType DEF BootStateColor
  <2>3. \/ Failed(run) \/ \E c \in BootStateColor : Failed(Report(c))
        \/ pc' = "fixup" /\ run' = Report(color(FALSE))
    BY <1>2, <2>2 DEF avb_verify_slot
  <2>4. PcOK' /\ RunOK'
    <3>1. CASE Failed(run)
      BY <3>1, FailedType DEF PcOK, RunOK
    <3>2. CASE \E c \in BootStateColor : Failed(Report(c))
      BY <3>2, FailedType, ReportType DEF PcOK, RunOK
    <3>3. CASE pc' = "fixup" /\ run' = Report(color(FALSE))
      <4>1. run'.altered = run.altered /\ run'.loaded = run.loaded /\ run' \in Run
        BY <3>3, <2>2, ReportType DEF Run, Report
      <4> QED BY <3>3, <4>1 DEF PcOK, RunOK
    <3> QED BY <2>3, <3>1, <3>2, <3>3
  <2> QED BY <1>2, <2>1, <2>4, TypeFrame DEF avb_verify_slot
<1>3. CASE Fixup
  <2>1. faults' \in 0..MaxFaults
    BY <1>3, FaultType DEF Fixup
  <2>2. CASE Failed(run)
    BY <1>3, <2>1, <2>2, FailedType, TypeFrame DEF Fixup, PcOK, RunOK
  <2>3. CASE /\ pc' = "reply"
             /\ run' = [run EXCEPT !.ram = None, !.loaded_image_info = TRUE, !.overwritten = FALSE]
    <3>1. run' \in Run /\ run'.altered = run.altered /\ run'.loaded = run.loaded
      BY <2>3 DEF Run
    <3> QED BY <1>3, <2>1, <2>3, <3>1, TypeFrame DEF Fixup, PcOK, RunOK
  <2>4. CASE pc' = "boot" /\ UNCHANGED run
    BY <1>3, <2>1, <2>4, TypeFrame DEF Fixup, PcOK, RunOK
  <2> QED BY <1>3, <2>2, <2>3, <2>4 DEF Fixup
<1>4. CASE BootKernel
  <2>1. faults' \in 0..MaxFaults
    BY <1>4, FaultType DEF BootKernel
  <2>2. CASE Reset
    BY <1>4, <2>1, <2>2, ResetType, TypeFrame DEF BootKernel, PcOK, RunOK
  <2>3. CASE pc' = "os" /\ run' = [Fresh EXCEPT !.slot = run.slot]
    <3>1. run' \in Run /\ run'.altered = {} /\ run'.loaded = {}
      BY <2>3, FreshType DEF Run
    <3> QED BY <1>4, <2>1, <2>3, <3>1, TypeFrame DEF BootKernel, PcOK, RunOK
  <2> QED BY <1>4, <2>2, <2>3 DEF BootKernel
<1> QED BY <1>1, <1>2, <1>3, <1>4

LEMMA TypeStep == TypeOK /\ [Next]_vars => TypeOK'
<1> SUFFICES ASSUME TypeOK, [Next]_vars PROVE TypeOK'
  OBVIOUS
<1>1. CASE UNCHANGED vars
  BY <1>1 DEF vars, TypeOK
<1>2. CASE Next
  BY <1>2, FirmwareTypes, DecisionTypes, FastbootTypes, ChooseSlotTypes, LoadTypes, SystemTypes
     DEF Next, GblStep
<1> QED BY <1>1, <1>2

-----------------------------------------------------------------------------
(* The rest of the invariant.                                                *)

Rest == SessionInv /\ CheckedInv /\ SlotInv /\ MiscInv

LEMMA ResetRest == Reset => Rest'
BY DEF Reset, Fresh, Rest, SessionInv, CheckedInv, SlotInv, MiscInv, Loading, FromDisk

(* Fields the invariant is about, besides the slots.                         *)
SameImages ==
    /\ run'.ram = run.ram /\ run'.loaded_image_info = run.loaded_image_info
    /\ run'.overwritten = run.overwritten /\ run'.loaded = run.loaded
    /\ run'.altered = run.altered /\ run'.reported = run.reported
    /\ run'.charged = run.charged

(* A step between states in which nothing is being loaded or started from    *)
(* the disk.                                                                 *)
LEMMA OutsideRest ==
  ASSUME IInv, platform' = platform, SameImages,
         ~Loading, pc # "boot", ~Loading',
         pc' = "boot" => run.loaded_image_info,
         pc' \in {"slot", "os"} => ~run.loaded_image_info,
         pc' \in {"reason", "decide"} => misc' # "bootonce-bootloader"
  PROVE  Rest'
<1> USE DEF IInv, SameImages
<1>1. ~FromDisk /\ ~FromDisk'
  BY DEF FromDisk
<1>2. SessionInv'
  BY <1>1 DEF SessionInv
<1>3. CheckedInv'
  <2>1. Checked => Checked'
    BY DEF Checked, Unlocked
  <2> QED BY <2>1 DEF CheckedInv, Loading
<1>4. SlotInv'
  BY <1>1 DEF SlotInv
<1>5. MiscInv'
  BY DEF MiscInv
<1> QED BY <1>2, <1>3, <1>4, <1>5 DEF Rest

(* A failing load drops the images of a "boot" command, or resets.           *)
LEMMA FailedRest ==
  ASSUME IInv, Loading, platform' = platform, NEW r \in Run, Failed(r),
         r.ram = run.ram, r.loaded_image_info = run.loaded_image_info,
         r.charged = run.charged
  PROVE  Rest'
<1>1. CASE r.ram = None
  BY <1>1, ResetRest DEF Failed
<1>2. CASE r.ram # None
  <2>1. /\ pc' = "reply" /\ run'.ram = None /\ run'.loaded_image_info = r.loaded_image_info
        /\ run'.overwritten = r.loaded_image_info /\ run'.charged = r.charged
    BY <1>2 DEF Failed, Run
  <2>2. ~FromDisk /\ ~FromDisk' /\ ~Loading'
    BY <1>2, <2>1 DEF FromDisk, Loading
  <2>3. SessionInv' /\ CheckedInv' /\ MiscInv'
    BY <2>1, <2>2 DEF SessionInv, CheckedInv, MiscInv
  <2>4. SlotInv'
    BY <2>1, <2>2 DEF SlotInv, IInv
  <2> QED BY <2>3, <2>4 DEF Rest
<1> QED BY <1>1, <1>2

LEMMA FirmwareRest ==
  ASSUME IInv, FirmwareStart \/ PowerCut
  PROVE  Rest'
<1>1. CASE FirmwareStart
  BY <1>1, OutsideRest DEF FirmwareStart, Loading, SameImages
<1>2. CASE PowerCut
  BY <1>2, ResetRest DEF PowerCut
<1> QED BY <1>1, <1>2

LEMMA DecisionRest ==
  ASSUME IInv, ReadMisc \/ ClearCommand \/ GetRebootReason \/ CheckFastboot \/ Reply \/ LeaveFastboot
  PROVE  Rest'
<1> USE DEF Loading, SameImages
<1>0. run \in Run /\ misc \in Commands
  BY DEF IInv, TypeOK
<1>1. CASE ReadMisc
  <2>1. CASE Reset
    BY <2>1, ResetRest
  <2>2. CASE /\ run' = [run EXCEPT !.boot_mode = boot_mode(misc)]
             /\ pc' = IF boot_mode(misc) = "BootloaderBootOnce" THEN "clear" ELSE "reason"
    <3>1. SameImages
      BY <1>0, <2>2 DEF Run
    <3>2. pc' \in {"clear", "reason"} /\ (pc' = "reason" => misc # "bootonce-bootloader")
      BY <1>0, <2>2, BootModeType
    <3> QED BY <1>1, <3>1, <3>2, OutsideRest DEF ReadMisc, disk
  <2> QED BY <1>1, <2>1, <2>2 DEF ReadMisc
<1>2. CASE ClearCommand
  <2>1. CASE Reset
    BY <2>1, ResetRest
  <2>2. CASE misc' = "" /\ pc' = "reason" /\ UNCHANGED <<run, faults>>
    BY <1>2, <2>2, OutsideRest DEF ClearCommand
  <2> QED BY <1>2, <2>1, <2>2 DEF ClearCommand
<1>3. CASE GetRebootReason
  <2>1. SameImages
    BY <1>0, <1>3 DEF GetRebootReason, Run
  <2>2. misc' # "bootonce-bootloader"
    BY <1>3 DEF GetRebootReason, disk, IInv, MiscInv
  <2> QED BY <1>3, <2>1, <2>2, OutsideRest DEF GetRebootReason
<1>4. CASE CheckFastboot
  <2>1. SameImages
    BY <1>0, <1>4 DEF CheckFastboot, Run
  <2>2. pc' \in {"fastboot", "leave"}
    BY <1>4 DEF CheckFastboot
  <2> QED BY <1>4, <2>1, <2>2, OutsideRest DEF CheckFastboot
<1>5. CASE Reply
  BY <1>5, OutsideRest DEF Reply
<1>6. CASE LeaveFastboot
  BY <1>6, OutsideRest DEF LeaveFastboot
<1> QED BY <1>1, <1>2, <1>3, <1>4, <1>5, <1>6

LEMMA FastbootRest ==
  ASSUME IInv, Fastboot
  PROVE  Rest'
<1> USE DEF Loading, SameImages
<1>0. run \in Run
  BY DEF IInv, TypeOK
<1>1. CASE fastboot_flash
  BY <1>1, OutsideRest DEF fastboot_flash
<1>2. CASE fastboot_set_active
  <2>1. SameImages
    BY <1>0, <1>2 DEF fastboot_set_active, Run
  <2> QED BY <1>2, <2>1, OutsideRest DEF fastboot_set_active
<1>3. CASE fastboot_boot
  <2>1. CASE pc' = "reply" /\ UNCHANGED run
    BY <1>3, <2>1, OutsideRest DEF fastboot_boot
  <2>2. CASE \E d \in Downloads :
              /\ get_boot_slot # None /\ pc' = "load"
              /\ run' = [run EXCEPT !.ram = d, !.slot = get_boot_slot, !.is_recovery = FALSE]
    <3>1. PICK d \in Downloads :
              /\ get_boot_slot # None /\ pc' = "load"
              /\ run' = [run EXCEPT !.ram = d, !.slot = get_boot_slot, !.is_recovery = FALSE]
      BY <2>2
    <3>2. get_boot_slot \in Slots /\ d # None
      BY <3>1, BootSlotType, BootAssumption DEF IInv
    <3>3. /\ run'.ram # None /\ run'.slot \in Slots
          /\ run'.loaded_image_info = run.loaded_image_info
          /\ run'.overwritten = run.overwritten /\ run'.charged = run.charged
      BY <1>0, <3>1, <3>2 DEF Run
    <3>4. pc = "fastboot" /\ platform' = platform
      BY <1>3 DEF fastboot_boot
    <3>5. ~FromDisk /\ ~FromDisk'
      BY <3>1, <3>3, <3>4 DEF FromDisk
    <3>6. SessionInv' /\ CheckedInv' /\ MiscInv'
      BY <3>1, <3>3, <3>5 DEF SessionInv, CheckedInv, MiscInv, IInv
    <3>7. SlotInv'
      BY <3>3, <3>5 DEF SlotInv, IInv
    <3> QED BY <3>6, <3>7 DEF Rest
  <2> QED BY <1>3, <2>1, <2>2 DEF fastboot_boot
<1>4. CASE fastboot_continue
  BY <1>4, OutsideRest DEF fastboot_continue
<1>5. CASE fastboot_reboot
  BY <1>5, ResetRest DEF fastboot_reboot
<1> QED BY <1>1, <1>2, <1>3, <1>4, <1>5 DEF Fastboot

(* On a slotless bootloader the choice marks the attempt, and the boot that  *)
(* goes on is of the slot set active.                                        *)
LEMMA ChooseSlotRest ==
  ASSUME IInv, ChooseSlot
  PROVE  Rest'
<1> DEFINE slot == get_boot_slot
           charged == IF MarksAttempt(TRUE) THEN Append(run.charged, slot) ELSE run.charged
<1>1. CASE Reset
  BY <1>1, ResetRest
<1>2. CASE ~Reset
  <2>1. /\ pc = "slot" /\ slot # None /\ ~SlotChanged(slot) /\ pc' = "load"
        /\ platform' = platform
        /\ run' = [run EXCEPT !.slot = slot, !.is_recovery = run.recovery, !.charged = charged]
    BY <1>2 DEF ChooseSlot
  <2>2. run \in Run /\ slot \in Slots
    BY <2>1, BootSlotType DEF IInv, TypeOK
  <2>3. run.ram = None /\ ~run.loaded_image_info /\ ~run.overwritten
    BY <2>1 DEF IInv, SessionInv, Loading
  <2>4. run.charged = <<>>
    BY <2>1 DEF IInv, SlotInv, FromDisk, Loading
  <2>5. charged = IF platform.slots = "slotless" THEN <<slot>> ELSE <<>>
    <3>1. CASE platform.slots = "slotless"
      <4>1. slot = NextSlot
        BY <3>1 DEF get_boot_slot
      <4>2. MarksAttempt(TRUE)
        BY <2>1, <3>1, <4>1 DEF MarksAttempt
      <4> HIDE DEF slot
      <4> QED BY <3>1, <4>2, <2>4
    <3>2. CASE platform.slots # "slotless"
      BY <3>2, <2>4 DEF MarksAttempt
    <3> QED BY <3>1, <3>2
  <2>6. run.last_set_active_slot \in {None, slot}
    BY <2>1 DEF SlotChanged
  <2> HIDE DEF slot, charged
  <2>7. /\ run'.ram = None /\ ~run'.loaded_image_info /\ ~run'.overwritten
        /\ run'.slot = slot /\ run'.charged = charged
        /\ run'.last_set_active_slot = run.last_set_active_slot
    BY <2>1, <2>2, <2>3 DEF Run
  <2>8. Loading' /\ FromDisk'
    BY <2>1, <2>7 DEF Loading, FromDisk
  <2>9. SessionInv' /\ CheckedInv' /\ MiscInv'
    BY <2>1, <2>2, <2>7, <2>8 DEF SessionInv, CheckedInv, MiscInv
  <2>10. SlotInv'
    BY <2>1, <2>5, <2>6, <2>7, <2>8 DEF SlotInv
  <2> QED BY <2>9, <2>10 DEF Rest
<1> QED BY <1>1, <1>2

(* A step from one state of the load to the next keeps what the invariant    *)
(* says of the session and of the slot.                                      *)
LEMMA LoadingRest ==
  ASSUME IInv, Loading, Loading', platform' = platform,
         run'.ram = run.ram, run'.loaded_image_info = run.loaded_image_info,
         run'.overwritten = run.overwritten, run'.slot = run.slot,
         run'.charged = run.charged, run'.last_set_active_slot = run.last_set_active_slot
  PROVE  SessionInv' /\ SlotInv' /\ MiscInv'
<1>1. FromDisk' <=> FromDisk
  BY DEF FromDisk, Loading
<1>2. SessionInv'
  BY <1>1 DEF IInv, SessionInv, Loading
<1>3. SlotInv'
  BY <1>1 DEF IInv, SlotInv
<1>4. MiscInv'
  BY DEF MiscInv, Loading
<1> QED BY <1>2, <1>3, <1>4

(* Every colour but Red says what it should of the images requested.         *)
LEMMA ColorMeaning ==
  ASSUME TypeOK, color(FALSE) # "Red"
  PROVE  /\ color(FALSE) \in {"Green", "Yellow", "Orange"}
         /\ color(FALSE) = "Orange" <=> Unlocked
         /\ color(FALSE) = "Green" => platform.key = "Valid"
         /\ ~Unlocked => run.to_verify \cap run.altered = {}
<1>1. platform.key \in {"Valid", "ValidCustomKey", "Invalid"}
  BY BootAssumption DEF TypeOK, Platform
<1>2. CASE slot_verify(FALSE) /\ Unlocked
  <2>1. color(FALSE) = "Orange"
    BY <1>2 DEF color
  <2> QED BY <1>2, <2>1
<1>3. CASE slot_verify(FALSE) /\ ~Unlocked /\ platform.key = "ValidCustomKey"
  <2>1. color(FALSE) = "Yellow"
    BY <1>3 DEF color
  <2> QED BY <1>3, <2>1 DEF slot_verify
<1>4. CASE slot_verify(FALSE) /\ ~Unlocked /\ platform.key = "Valid"
  <2>1. color(FALSE) = "Green"
    BY <1>4 DEF color
  <2> QED BY <1>4, <2>1 DEF slot_verify
<1>5. CASE ~slot_verify(FALSE) /\ Unlocked
  <2>1. color(FALSE) = "Orange"
    BY <1>5 DEF color
  <2> QED BY <1>5, <2>1
<1>6. CASE ~slot_verify(FALSE) /\ ~Unlocked
  BY <1>6 DEF color
<1> QED BY <1>1, <1>2, <1>3, <1>4, <1>5, <1>6 DEF slot_verify

LEMMA LoadRest ==
  ASSUME IInv, load_verify
  PROVE  Rest'
<1>1. run \in Run /\ Loading /\ platform' = platform
  BY DEF IInv, TypeOK, Loading, load_verify
<1>2. CASE Failed(run)
  BY <1>1, <1>2, FailedRest
<1>3. CASE Loads
  <2>1. PICK images \in SUBSET Parts, additional \in SUBSET Parts, alt \in SUBSET Parts :
           LoadsThese(images, additional, alt)
    BY <1>3 DEF Loads
  <2>2. /\ run'.ram = run.ram /\ run'.loaded_image_info = run.loaded_image_info
        /\ run'.overwritten = run.overwritten /\ run'.slot = run.slot
        /\ run'.charged = run.charged /\ run'.last_set_active_slot = run.last_set_active_slot
        /\ run'.to_verify = run'.loaded /\ pc' = "verify"
    BY <1>1, <2>1 DEF Run, LoadsThese, PartitionsToVerify
  <2>3. Loading'
    BY <2>2 DEF Loading
  <2>4. CheckedInv'
    BY <2>2, <2>3 DEF CheckedInv
  <2> QED BY <1>1, <2>2, <2>3, <2>4, LoadingRest DEF Rest
<1> QED BY <1>2, <1>3, LoadOutcome DEF IInv

LEMMA VerifyRest ==
  ASSUME IInv, avb_verify_slot
  PROVE  Rest'
<1>1. run \in Run /\ Loading /\ platform' = platform /\ pc = "verify" /\ TypeOK
  BY DEF IInv, TypeOK, Loading, avb_verify_slot
<1>2. color(TRUE) \in BootStateColor /\ color(FALSE) \in BootStateColor /\ "Red" \in BootStateColor
  BY ColorType DEF BootStateColor
<1>3. \/ Failed(run) \/ \E c \in BootStateColor : Failed(Report(c))
      \/ color(FALSE) # "Red" /\ pc' = "fixup" /\ run' = Report(color(FALSE))
  BY <1>2 DEF avb_verify_slot
<1>4. CASE Failed(run)
  BY <1>1, <1>4, FailedRest
<1>5. CASE \E c \in BootStateColor : Failed(Report(c))
  <2>1. PICK c \in BootStateColor : Failed(Report(c))
    BY <1>5
  <2>2. /\ Report(c) \in Run /\ Report(c).ram = run.ram /\ Report(c).charged = run.charged
        /\ Report(c).loaded_image_info = run.loaded_image_info
    BY <1>1 DEF Report, Run
  <2> QED BY <1>1, <2>1, <2>2, FailedRest
<1>6. CASE color(FALSE) # "Red" /\ pc' = "fixup" /\ run' = Report(color(FALSE))
  <2> DEFINE c == color(FALSE)
  <2>1. /\ c \in {"Green", "Yellow", "Orange"} /\ (c = "Orange" <=> Unlocked)
        /\ c = "Green" => platform.key = "Valid"
        /\ ~Unlocked => run.to_verify \cap run.altered = {}
    BY <1>1, <1>6, ColorMeaning
  <2>2. run' = [run EXCEPT !.reported = c]
    BY <1>6 DEF Report
  <2> HIDE DEF c
  <2>3. /\ run'.ram = run.ram /\ run'.loaded_image_info = run.loaded_image_info
        /\ run'.overwritten = run.overwritten /\ run'.slot = run.slot
        /\ run'.charged = run.charged /\ run'.last_set_active_slot = run.last_set_active_slot
        /\ run'.loaded = run.loaded /\ run'.altered = run.altered /\ run'.reported = c
    BY <1>1, <2>2 DEF Run
  <2>4. run.to_verify = run.loaded
    BY <1>1 DEF IInv, CheckedInv
  <2>5. Checked'
    BY <1>1, <2>1, <2>3, <2>4 DEF Checked, Unlocked
  <2>6. Loading' /\ CheckedInv'
    BY <1>6, <2>5 DEF Loading, CheckedInv
  <2> QED BY <1>1, <2>3, <2>6, LoadingRest DEF Rest
<1> QED BY <1>3, <1>4, <1>5, <1>6

(* The checked images of a "boot" command are kept, those of a boot from the *)
(* disk are about to be started.                                             *)
LEMMA FixupRest ==
  ASSUME IInv, Fixup
  PROVE  Rest'
<1>1. run \in Run /\ Loading /\ platform' = platform /\ pc = "fixup"
  BY DEF IInv, TypeOK, Loading, Fixup
<1>2. Checked
  BY <1>1 DEF IInv, CheckedInv
<1>3. CASE Failed(run)
  BY <1>1, <1>3, FailedRest
<1>4. CASE /\ run.ram # None /\ pc' = "reply"
           /\ run' = [run EXCEPT !.ram = None, !.loaded_image_info = TRUE, !.overwritten = FALSE]
  <2>1. /\ run'.ram = None /\ run'.loaded_image_info /\ ~run'.overwritten
        /\ run'.loaded = run.loaded /\ run'.altered = run.altered
        /\ run'.reported = run.reported /\ run'.charged = run.charged
    BY <1>1, <1>4 DEF Run
  <2>2. ~FromDisk /\ ~FromDisk' /\ ~Loading'
    BY <1>1, <1>4, <2>1 DEF FromDisk, Loading
  <2>3. Checked'
    BY <1>1, <1>2, <2>1 DEF Checked, Unlocked
  <2>4. SessionInv' /\ CheckedInv' /\ MiscInv'
    BY <1>4, <2>1, <2>2, <2>3 DEF SessionInv, CheckedInv, MiscInv
  <2>5. SlotInv'
    BY <2>1, <2>2 DEF SlotInv, IInv
  <2> QED BY <2>4, <2>5 DEF Rest
<1>5. CASE run.ram = None /\ pc' = "boot" /\ UNCHANGED run
  <2>1. FromDisk /\ ~run.loaded_image_info
    BY <1>1, <1>5 DEF FromDisk, IInv, SessionInv
  <2>2. FromDisk' /\ ~Loading'
    BY <1>5, <2>1 DEF FromDisk, Loading
  <2>3. Checked'
    BY <1>1, <1>2, <1>5 DEF Checked, Unlocked
  <2>4. SessionInv' /\ CheckedInv' /\ MiscInv'
    BY <1>5, <2>1, <2>2, <2>3 DEF SessionInv, CheckedInv, MiscInv, IInv
  <2>5. SlotInv'
    BY <1>1, <1>5, <2>1, <2>2 DEF SlotInv, IInv
  <2> QED BY <2>4, <2>5 DEF Rest
<1> QED BY <1>3, <1>4, <1>5 DEF Fixup

LEMMA SystemRest ==
  ASSUME IInv, BootKernel \/ System
  PROVE  Rest'
<1> USE DEF Loading, SameImages
<1>1. CASE BootKernel
  <2>1. CASE Reset
    BY <2>1, ResetRest
  <2>2. CASE pc' = "os" /\ run' = [Fresh EXCEPT !.slot = run.slot]
    BY <2>2 DEF Fresh, Rest, SessionInv, CheckedInv, SlotInv, MiscInv, FromDisk
  <2> QED BY <1>1, <2>1, <2>2 DEF BootKernel
<1>2. CASE OsConfirm \/ OsCommand \/ OsUpdate
  <2>1. ~run.loaded_image_info
    BY <1>2 DEF OsConfirm, OsCommand, OsUpdate, IInv, SessionInv
  <2> QED BY <1>2, <2>1, OutsideRest DEF OsConfirm, OsCommand, OsUpdate
<1>3. CASE OsRestart
  BY <1>3, ResetRest DEF OsRestart
<1> QED BY <1>1, <1>2, <1>3 DEF System

LEMMA NextInv == IInv /\ [Next]_vars => IInv'
<1> SUFFICES ASSUME IInv, [Next]_vars PROVE IInv'
  OBVIOUS
<1>1. TypeOK'
  BY TypeStep DEF IInv
<1>2. CASE UNCHANGED vars
  <2>1. Loading' = Loading /\ FromDisk' = FromDisk /\ Checked' = Checked
    BY <1>2 DEF vars, Loading, FromDisk, Checked, Unlocked
  <2> QED BY <1>1, <1>2, <2>1 DEF vars, IInv, SessionInv, CheckedInv, SlotInv, MiscInv
<1>3. CASE FirmwareStuck
  BY <1>2, <1>3 DEF FirmwareStuck
<1>4. CASE Next /\ ~FirmwareStuck
  <2>1. Rest'
    BY <1>4, FirmwareRest, DecisionRest, FastbootRest, ChooseSlotRest, LoadRest, VerifyRest,
       FixupRest, SystemRest DEF Next, GblStep
  <2> QED BY <1>1, <2>1 DEF Rest, IInv
<1> QED BY <1>2, <1>3, <1>4

-----------------------------------------------------------------------------
LEMMA Invariance == Spec => []IInv
BY InitInv, NextInv, PTL DEF Spec

(* What was checked is what the boot step is about to start.                 *)
LEMMA BootChecked ==
  ASSUME IInv, pc = "boot", ~run.overwritten
  PROVE  Checked
BY DEF IInv, CheckedInv, Loading

(* Whatever the slots, images, platforms and faults: a locked device starts  *)
(* no altered image.                                                         *)
THEOREM BootSafe == Spec => [](TypeOK /\ VerifiedBoot)
<1>1. IInv => TypeOK /\ VerifiedBoot
  BY BootChecked DEF IInv, VerifiedBoot, Checked, HandedOver
<1> QED BY <1>1, Invariance, PTL

(* The colour reported to the firmware is the one the images deserve: orange *)
(* exactly on an unlocked device, green only for the built-in key.           *)
THEOREM BootColor == Spec => []ColorTruthful
<1>1. IInv => ColorTruthful
  BY BootChecked DEF ColorTruthful, Checked
<1> QED BY <1>1, Invariance, PTL

(* A slotless bootloader marks exactly one attempt for a boot from the disk, *)
(* none for "fastboot boot", and the slot set active is the one started.     *)
THEOREM BootSlots == Spec => []SlotAccounted
<1>1. IInv => AttemptMarkedOnce
  BY DEF AttemptMarkedOnce, IInv, SlotInv, FromDisk, Loading
<1>2. IInv => SetActiveHonoured
  BY DEF SetActiveHonoured, IInv, SlotInv, FromDisk
<1>3. IInv => SlotAccounted
  BY <1>1, <1>2 DEF SlotAccounted
<1> QED BY <1>3, Invariance, PTL

(* The one-shot fastboot command is off the disk whenever fastboot starts,   *)
(* whatever write errors and power cuts came before.                         *)
THEOREM BootOnceIsConsumed == Spec => BootOnceConsumed
<1>1. IInv /\ [Next]_vars =>
        [pc = "decide" /\ pc' = "fastboot" => misc # "bootonce-bootloader"]_vars
  BY DEF IInv, MiscInv
<1> QED BY <1>1, Invariance, PTL DEF Spec, BootOnceConsumed

=============================================================================
