---------------------------- MODULE FuchsiaBoot ----------------------------
(***************************************************************************)
(* The Fuchsia boot of GBL around the A/B/R library: zircon_load_verify()  *)
(* reads the kernel of the chosen slot, verifies it through GblAvbOps,     *)
(* raises the rollback indexes of a slot that had booted successfully, and *)
(* collects the ZBI items; any step may fail and power may be cut between  *)
(* any two.  Around it the running system updates and marks its slots.     *)
(***************************************************************************)
EXTENDS AbrC, Sequences

CONSTANTS
    Names,      \* the partition names on the disk
    Images,     \* what a slot's zircon and vbmeta partitions may hold
    Factory,    \* the image every slot holds at first
    Locations,  \* rollback locations of the image
    KeyLocations \* rollback locations of the signing keys (PIK, PSK)

Rollbacks == Locations \cup KeyLocations
AllSlots == Slots \cup {"R"}

ASSUME FuchsiaAssumption ==
    /\ \A i \in Images : /\ i.kernel \in {"good", "bad"} /\ i.vbmeta \in {"good", "bad"}
                         /\ \A l \in Rollbacks : i.version[l] \in Nat
    /\ Factory \in Images /\ Locations \cap KeyLocations = {}

VARIABLES
    part,       \* the image in each slot
    stored,     \* the rollback index the firmware keeps at each location
    lock,       \* avb_read_is_device_unlocked: "locked", "unlocked", "missing"
    step,       \* where zircon_load_verify() is, "none" outside it
    kernel,     \* the image read into the kernel buffer
    verified,   \* slot_verify() returned Ok
    key_versions, \* GblAvbOps::key_versions: location -> version
    todo,       \* rollback locations still to be looked at
    items,      \* the ZBI items collected, in the order a kernel reads them
    vouched     \* history: the images a success mark has stood for: the one that
                \* ran when the slot was marked, and any flashed over it since

fvars == <<part, stored, lock, step, kernel, verified, key_versions, todo, items, vouched>>
NoImage == [kernel |-> "bad", vbmeta |-> "bad", version |-> [l \in Rollbacks |-> 0]]

-----------------------------------------------------------------------------
(* The first alias that exists; both names of a partition may be in use.    *)
find_part_aliases(aliases) ==
    LET found == SelectSeq(aliases, LAMBDA a : a \in Names)
    IN  IF found = <<>> THEN "NotFound" ELSE Head(found)

zircon_part_name_aliases(slot) ==
    CASE slot = "A" -> <<"zircon_a", "zircon-a">>
      [] slot = "B" -> <<"zircon_b", "zircon-b">>
      [] slot = "R" -> <<"zircon_r", "zircon-r">>
      [] OTHER      -> <<"zircon">>

(* GblAbrOps: the metadata lives at the start of durable_boot or misc; a    *)
(* partition that is not there is an error that is not Error::Other.        *)
AbrReading ==
    IF find_part_aliases(<<"durable_boot", "misc">>) = "NotFound" THEN {"err"} ELSE Reading

AbrWriting ==
    IF find_part_aliases(<<"durable_boot", "misc">>) = "NotFound" THEN {"lost"} ELSE Writing

-----------------------------------------------------------------------------
(* GblAvbOps *)

(* Mutant: any device is taken for unlocked. *)
read_is_device_unlocked_always == TRUE

(* A firmware without the call is taken for an unlocked device.             *)
read_is_device_unlocked == lock \in {"unlocked", "missing"}

(* The cert extension reports a key version; a location reported again      *)
(* keeps the larger value.                                                  *)
set_key_version(versions, loc, v) ==
    IF loc \in DOMAIN versions
    THEN [versions EXCEPT ![loc] = IF v > @ THEN v ELSE @]
    ELSE [l \in DOMAIN versions \cup {loc} |-> IF l = loc THEN v ELSE versions[l]]

(* A preloaded image answers only for the partition of the slot verified:   *)
(* the name before the suffix must match, and the suffix the slot.          *)
get_preloaded_partition(name, suffix) == name = "zircon" /\ suffix = booted

(* slot_verify() over the preloaded kernel and the vbmeta of the slot       *)
(* (libavb, external): "ok"; "data": refused, with the metadata; "nodata":  *)
(* refused without.                                                         *)
slot_verify(readable) ==
    LET i == IF get_preloaded_partition("zircon", booted) THEN kernel ELSE part[booted]
    IN  IF i.vbmeta = "bad" \/ ~readable THEN "nodata"
        ELSE IF i.kernel = "bad" \/ \E l \in Rollbacks : i.version[l] < stored[l] THEN "data"
        ELSE "ok"

-----------------------------------------------------------------------------
(* zircon_load_verify() *)

(* efi_fuchsia_load() returns the error and the application ends.           *)
Fail ==
    /\ step' = "failed"
    /\ UNCHANGED <<part, stored, lock, kernel, verified, key_versions, todo, items, vouched>>
Started == UNCHANGED <<vars, cvars>>

(* zircon_load_verify_abr(): the slot is chosen and a try taken from it     *)
(* before anything is known of its image.                                   *)
zircon_load_verify_abr ==
    /\ step = "none"
    /\ \E rd \in AbrReading :
        \/ BootWithoutMetadata(rd)
        \/ "ok" \in AbrWriting /\ BootOneShotRecovery(rd)
        \/ \E wr1 \in AbrWriting \cup {"ok"}, wr2 \in AbrWriting :
              (settled => wr1 = "ok") /\ BootSlot(rd, wr1, wr2)
    /\ step' = IF phase' = "os" THEN "load" ELSE "none"
    /\ Answer(NoReply)
    /\ UNCHANGED <<part, stored, lock, kernel, verified, key_versions, todo, items, vouched>>

(* The partition is found, its header read, the buffer large enough, the    *)
(* whole container read; the items behind the kernel are copied first, so   *)
(* that every later item overrides them.                                    *)
zircon_load_verify(io) ==
    /\ step = "load" /\ Started
    /\ IF ~io \/ find_part_aliases(zircon_part_name_aliases(booted)) = "NotFound" THEN Fail
       ELSE /\ step' = "verify" /\ kernel' = part[booted]
            /\ items' = Append(items, "image")
            /\ UNCHANGED <<part, stored, lock, verified, key_versions, todo, vouched>>

(* Mutant: the indexes are raised for a slot that has not proved itself.    *)
raise_allowed_unproven(ok) == ok

(* "Increases rollback indices if the slot has successfully booted."        *)
raise_allowed(ok) == ok /\ proven

(* zircon_verify_kernel(): a refused image goes on only on an unlocked      *)
(* device, without the vbmeta items when there is no metadata to take them  *)
(* from.                                                                    *)
zircon_verify_kernel(io, readable) ==
    LET res == slot_verify(readable)
        ok == res = "ok"
        metadata == res \in {"ok", "data"}
    IN  /\ step = "verify" /\ Started
        /\ IF ~io \/ (~ok /\ ~read_is_device_unlocked) THEN Fail
           ELSE /\ verified' = ok
                /\ items' = IF metadata THEN Append(items, "vbmeta") ELSE items
                /\ key_versions' =
                      IF ok THEN [l \in KeyLocations |-> set_key_version(<<>>, l, kernel.version[l])[l]]
                      ELSE <<>>
                /\ todo' = IF metadata /\ raise_allowed(ok) THEN Locations \cup DOMAIN key_versions' ELSE {}
                /\ step' = "raise"
                /\ UNCHANGED <<part, stored, lock, kernel, vouched>>

(* One turn of the loops over the rollback indexes and then the key         *)
(* versions: read, and write when the value differs.                        *)
write_rollback_index(l, io) ==
    LET v == IF l \in KeyLocations THEN key_versions[l] ELSE kernel.version[l]
    IN  /\ step = "raise" /\ Started
        /\ l \in todo /\ (l \in KeyLocations => todo \cap Locations = {})
        /\ IF ~io THEN Fail
           ELSE /\ stored' = IF (l \in Locations => v > 0) /\ stored[l] # v
                             THEN [stored EXCEPT ![l] = v] ELSE stored
                /\ todo' = todo \ {l}
                /\ UNCHANGED <<part, lock, step, kernel, verified, key_versions, items, vouched>>

(* The current slot, the device's own items and a staged bootloader file,   *)
(* when there is one that parses.                                           *)
append_zbi_items(io, staged) ==
    /\ step = "raise" /\ todo = {} /\ Started
    /\ IF ~io THEN Fail
       ELSE /\ step' = "run"
            /\ items' = items \o <<"slot", "device">> \o (IF staged THEN <<"file">> ELSE <<>>)
            /\ UNCHANGED <<part, stored, lock, kernel, verified, key_versions, todo, vouched>>

-----------------------------------------------------------------------------
(* The device around the boot flow *)

(* The system that runs, or fastboot, calls the library; a system marks     *)
(* itself successful, never the other slot.                                 *)
SystemCall ==
    /\ phase = "os" => step = "run"
    /\ \E rd \in AbrReading, wr \in AbrWriting :
          \E s \in Slots : mark_slot_active(s, rd, wr) \/ mark_slot_unbootable(s, rd, wr)
    /\ Answer(NoReply) /\ UNCHANGED fvars

MarkSelfSuccessful ==
    /\ phase = "os" /\ step = "run" /\ booted \in Slots
    /\ \E rd \in AbrReading, wr \in AbrWriting : mark_slot_successful(booted, rd, wr)
    /\ vouched' = vouched \cup {kernel}
    /\ Answer(NoReply)
    /\ UNCHANGED <<part, stored, lock, step, kernel, verified, key_versions, todo, items>>

(* The running system writes the slot it does not run from, and only while  *)
(* the metadata does not call it successful: its updater marks the slot     *)
(* unbootable first (external).                                             *)
Update(s, i) ==
    /\ phase = "os" /\ step = "run" /\ ~settled /\ s # booted
    /\ disk.kind = "valid" /\ slot_state(disk.slots[s]) # "Successful"
    /\ part' = [part EXCEPT ![s] = i]
    /\ UNCHANGED <<vars, cvars, stored, lock, step, kernel, verified, key_versions, todo, items, vouched>>

(* GblFastboot::flash() writes any partition and leaves the slot metadata   *)
(* alone: a slot keeps its success mark while its image is replaced.        *)
flash(s, i) ==
    LET marked == s \in Slots /\ disk.kind = "valid" /\ slot_state(disk.slots[s]) = "Successful"
    IN  /\ phase = "fastboot" /\ ~settled
        /\ part' = [part EXCEPT ![s] = i]
        /\ vouched' = IF marked THEN vouched \cup {i} ELSE vouched
        /\ UNCHANGED <<vars, cvars, stored, lock, step, kernel, verified, key_versions, todo, items>>

(* fastboot's lock and unlock are firmware commands (external).             *)
SetLock(l) ==
    /\ phase = "fastboot" /\ lock # "missing" /\ lock' = l
    /\ UNCHANGED <<vars, cvars, part, stored, step, kernel, verified, key_versions, todo, items, vouched>>

Forget ==
    /\ step' = "none" /\ kernel' = NoImage /\ verified' = FALSE
    /\ key_versions' = <<>> /\ todo' = {} /\ items' = <<>>

GblReset ==
    /\ Reset /\ Answer(NoReply) /\ Forget
    /\ UNCHANGED <<part, stored, lock, vouched>>

GblCheckFastboot ==
    /\ \E rd \in AbrReading, wr \in AbrWriting, t \in BOOLEAN :
          zircon_check_enter_fastboot(rd, wr, t)
    /\ Answer(NoReply) /\ UNCHANGED fvars

GblNext ==
    /\ ~Firmware
    /\ \/ GblCheckFastboot
       \/ FastbootContinue /\ Answer(NoReply) /\ UNCHANGED fvars
       \/ zircon_load_verify_abr
       \/ \E io \in BOOLEAN :
            \/ zircon_load_verify(io)
            \/ \E readable \in BOOLEAN : zircon_verify_kernel(io, readable)
            \/ \E l \in Rollbacks : write_rollback_index(l, io)
            \/ \E staged \in BOOLEAN : append_zbi_items(io, staged)
       \/ SystemCall
       \/ MarkSelfSuccessful
       \/ \E s \in Slots, i \in Images : Update(s, i)
       \/ \E s \in AllSlots, i \in Images : flash(s, i)
       \/ \E l \in {"locked", "unlocked"} : SetLock(l)
       \/ GblReset

-----------------------------------------------------------------------------
FuchsiaInit ==
    /\ host \in Hosts /\ reply = NoReply
    /\ \E flags \in {{}, {"recovery"}} : InitImage([default EXCEPT !.flags = flags])
    /\ part = [s \in AllSlots |-> Factory]
    /\ stored = [l \in Rollbacks |-> 0] /\ vouched = {}
    /\ lock \in {"locked", "missing"} /\ (Firmware => lock = "missing")
    /\ step = "none" /\ kernel = NoImage /\ verified = FALSE
    /\ key_versions = <<>> /\ todo = {} /\ items = <<>>

FuchsiaNext == (FirmwareNext /\ UNCHANGED fvars) \/ GblNext

FuchsiaVars == <<vars, cvars, fvars>>
FuchsiaSpec == FuchsiaInit /\ [][FuchsiaNext]_FuchsiaVars

-----------------------------------------------------------------------------
(* A locked device only hands over a kernel libavb accepted, and none older *)
(* than the rollback indexes, also when an update, a failed write or a      *)
(* power cut came between the locations written one by one: the indexes     *)
(* never rise past the image that is about to run.                          *)
RunsVerified ==
    step \in {"raise", "run"} /\ (lock = "locked" \/ verified) =>
        /\ kernel.kernel = "good" /\ kernel.vbmeta = "good"
        /\ \A l \in Rollbacks : kernel.version[l] >= stored[l]

(* zircon_verify_kernel() writes an index whenever it differs, and still a  *)
(* stored rollback index never goes down.                                   *)
RollbackOnlyRises == \A l \in Rollbacks : stored'[l] >= stored[l]

(* No index rises past the images a success mark stands for: until the new  *)
(* system has marked itself successful, the one before it still boots,      *)
(* through any mix of updates, resets and lost or torn metadata writes.     *)
(* What fastboot flashes over a slot that is marked successful inherits the *)
(* mark, and raises the indexes without having run.                         *)
RollbackVouched ==
    \A l \in Rollbacks : stored[l] > 0 => \E i \in vouched : i.version[l] >= stored[l]

(* The indexes only rise, and only as far as an image vouched for.          *)
RollbackSound == [][RollbackVouched' /\ RollbackOnlyRises]_FuchsiaVars

=============================================================================
