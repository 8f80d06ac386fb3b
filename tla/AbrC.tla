-------------------------------- MODULE AbrC --------------------------------
(***************************************************************************)
(* The C interface of libabr (c_staticlib.rs) that other Fuchsia firmware  *)
(* links: the callback table the metadata is read and written through, the *)
(* checks of a slot argument, and the result code of every call.           *)
(***************************************************************************)
EXTENDS Abr

VARIABLES
    host,   \* who links the library: GBL itself, or C firmware, see Hosts
    reply   \* what the last C call told its caller

(* "gbl": the Rust interface; "raw": a table with read_abr_metadata and     *)
(* write_abr_metadata; "custom": only the callbacks that pass the fields;   *)
(* "none": no callback at all.                                              *)
Hosts == {"gbl", "raw", "custom", "none"}
Firmware == host # "gbl"
cvars == <<host, reply>>

NoReply == [call |-> "none"]

(* AbrOpsSafe: a callback answers true or false; a missing one is           *)
(* Error::NotImplemented.  The custom callbacks pass the fields, so magic,  *)
(* CRC and version are the library's own and a write is all or nothing.     *)
read_abr_metadata(done) ==
    IF host = "none" THEN "err" ELSE IF done THEN "ok" ELSE "other"

write_abr_metadata ==
    CASE host = "none"   -> {"lost"}
      [] host = "custom" -> {"ok", "lost"}
      [] OTHER           -> Writes

(* Mutant: a failed write is not told to the caller. *)
unpack_result_deaf(e) ==
    CASE e = "InvalidInput" -> "INVALID_DATA"
      [] e = "UnsupportedVersion" -> "UNSUPPORTED_VERSION"
      [] OTHER -> "OK"

(* The integer code of a library result; "none" is Ok.                      *)
unpack_result(e) ==
    CASE e = "none" -> "OK"
      [] e = "InvalidInput" -> "INVALID_DATA"
      [] e = "UnsupportedVersion" -> "UNSUPPORTED_VERSION"
      [] OTHER -> "IO"

(* The error of load_metadata(), and of a call that then saves new.         *)
load_error(rd) == IF rd = "other" THEN "Other" ELSE "UnsupportedVersion"
save_error(new, rd, wr) == IF durable(new, rd, wr) THEN "none" ELSE "Other"

(* AbrSlotIndex: any C integer; SlotIndex::try_from() refuses the others.   *)
AbrSlotIndex == Slots \cup {"R", "beyond"}

Answer(r) == reply' = r /\ UNCHANGED host
(* The call returns before it changes anything.                             *)
Refuse(call, i, e) ==
    /\ Serving /\ UNCHANGED vars
    /\ Answer([call |-> call, slot |-> i, code |-> unpack_result(e)])

AbrMarkSlotActive(i, rd, wr) ==
    \/ i \notin Slots /\ Refuse("active", i, "InvalidInput")
    \/ i \in Slots /\ load_fails(rd) /\ Refuse("active", i, load_error(rd))
    \/ /\ i \in Slots /\ mark_slot_active(i, rd, wr)
       /\ Answer([call |-> "active", slot |-> i, code |-> unpack_result(
                     save_error(marked_active(load_metadata(rd), i), rd, wr))])

AbrMarkSlotUnbootable(i, rd, wr) ==
    \/ i \notin Slots /\ Refuse("unbootable", i, "InvalidInput")
    \/ i \in Slots /\ load_fails(rd) /\ Refuse("unbootable", i, load_error(rd))
    \/ /\ i \in Slots /\ mark_slot_unbootable(i, rd, wr)
       /\ Answer([call |-> "unbootable", slot |-> i, code |-> unpack_result(
                     save_error(marked_unbootable(load_metadata(rd), i), rd, wr))])

AbrMarkSlotSuccessful(i, rd, wr) ==
    \/ i \notin Slots /\ Refuse("successful", i, "InvalidInput")
    \/ i \in Slots /\ load_fails(rd) /\ Refuse("successful", i, load_error(rd))
    \/ /\ i \in Slots /\ ~load_fails(rd)
       /\ ~is_slot_bootable(load_metadata(rd).slots[i])
       /\ Refuse("successful", i, "InvalidInput")
    \/ /\ i \in Slots /\ mark_slot_successful(i, rd, wr)
       /\ Answer([call |-> "successful", slot |-> i, code |-> unpack_result(
                     save_error(marked_successful(load_metadata(rd), i), rd, wr))])

(* AbrSetOneShotRecovery() and AbrSetOneShotBootloader().                   *)
AbrSetOneShot(f, enable, rd, wr) ==
    \/ load_fails(rd) /\ Refuse("one_shot", f, load_error(rd))
    \/ /\ set_one_shot(f, enable, rd, wr)
       /\ Answer([call |-> "one_shot", slot |-> f, enable |-> enable,
                  code |-> unpack_result(save_error(
                     [load_metadata(rd) EXCEPT !.flags = with_one_shot(@, f, enable)], rd, wr))])

AbrGetAndClearOneShotFlags(rd, wr) ==
    \/ load_fails(rd) /\ Refuse("clear", "none", load_error(rd))
    \/ /\ get_and_clear_one_shot_flag(rd, wr)
       /\ Answer([call |-> "clear", slot |-> "none", flags |-> load_metadata(rd).flags,
                  code |-> unpack_result(
                     save_error([load_metadata(rd) EXCEPT !.flags = {}], rd, wr))])

-----------------------------------------------------------------------------
(* SlotInfo::from(get_slot_info()): slot R counts as successful.            *)
SlotInfo(d, i) ==
    LET state == IF i = "R" THEN "Successful" ELSE slot_state(d.slots[i])
        tries == IF state = "Bootable" THEN d.slots[i].tries ELSE 0
    IN  [is_bootable |-> state = "Successful" \/ tries > 0,
         is_active |-> get_active_slot(d) = i,
         is_marked_successful |-> state = "Successful", num_tries_remaining |-> tries]

AbrGetSlotInfo(i, rd) ==
    \/ i = "beyond" /\ Refuse("info", i, "InvalidInput")
    \/ i # "beyond" /\ load_fails(rd) /\ Refuse("info", i, load_error(rd))
    \/ /\ i # "beyond" /\ ~load_fails(rd) /\ Serving /\ UNCHANGED vars
       /\ Answer([call |-> "info", slot |-> i, code |-> "OK",
                  info |-> SlotInfo(load_metadata(rd), i)])

AbrGetSlotLastMarkedActive(rd) ==
    \/ load_fails(rd) /\ Refuse("last", "none", load_error(rd))
    \/ /\ ~load_fails(rd) /\ Serving /\ UNCHANGED vars
       /\ Answer([call |-> "last", slot |-> last_marked_active(load_metadata(rd)),
                  code |-> "OK"])

(* AbrGetBootSlot(): with update_metadata it is the boot; without, it only  *)
(* says what the boot would choose, one-shot requests left aside.           *)
AbrGetBootSlot(rd, wrs) ==
    /\ \/ BootWithoutMetadata(rd)
       \/ "ok" \in wrs /\ BootOneShotRecovery(rd)
       \/ \E wr1 \in wrs \cup {"ok"}, wr2 \in wrs : BootSlot(rd, wr1, wr2)
    /\ Answer([call |-> "boot", slot |-> booted', code |-> "OK"])

AbrPeekBootSlot(rd) ==
    /\ Serving /\ UNCHANGED vars
    /\ Answer([call |-> "peek", code |-> "OK",
               slot |-> IF load_fails(rd) THEN "R" ELSE get_active_slot(load_metadata(rd))])

(* The firmware's own flow around the library: it clears the one-shot flags *)
(* through the calls above and starts the chosen slot.                      *)
PowerOn ==
    /\ phase = "reset" /\ phase' \in {"load", "fastboot"}
    /\ UNCHANGED <<disk, booted, proven, promise, refreshed, settled>>
    /\ Answer(NoReply)

FirmwareCall(rd, wr) ==
    \/ \E i \in AbrSlotIndex : \/ AbrMarkSlotActive(i, rd, wr)
                               \/ AbrMarkSlotUnbootable(i, rd, wr)
                               \/ AbrMarkSlotSuccessful(i, rd, wr)
    \/ \E f \in OneShots, e \in BOOLEAN : AbrSetOneShot(f, e, rd, wr)
    \/ AbrGetAndClearOneShotFlags(rd, wr)

FirmwareQuery(rd) ==
    \/ \E i \in AbrSlotIndex : AbrGetSlotInfo(i, rd)
    \/ AbrGetSlotLastMarkedActive(rd)
    \/ AbrPeekBootSlot(rd)

(* The caller has looked at its answer; calls follow one another.           *)
Return == reply # NoReply /\ UNCHANGED vars /\ Answer(NoReply)

FirmwareNext ==
    /\ Firmware
    /\ \/ Return
       \/ /\ reply = NoReply
          /\ \E done \in BOOLEAN : LET rd == read_abr_metadata(done) IN
                \/ \E wr \in write_abr_metadata : FirmwareCall(rd, wr)
                \/ FirmwareQuery(rd)
                \/ AbrGetBootSlot(rd, write_abr_metadata)
       \/ PowerOn
       \/ (FastbootContinue \/ Reset) /\ Answer(NoReply)

-----------------------------------------------------------------------------
(* The result codes of the C interface are the truth: after ABR_RESULT_OK   *)
(* the metadata a later read returns shows the change the call asked for,   *)
(* whatever failed on the way, and a slot AbrGetBootSlot() would choose is  *)
(* one AbrGetSlotInfo() calls active and bootable.                          *)
RepliesTruthful ==
    reply # NoReply /\ reply.code = "OK" /\ host # "none" =>
        CASE reply.call = "active" ->
                /\ last_marked_active(Image) = reply.slot
                /\ SlotInfo(Image, reply.slot).num_tries_remaining = MaxTries
          [] reply.call = "unbootable" -> ~SlotInfo(Image, reply.slot).is_bootable
          [] reply.call = "successful" ->
                /\ SlotInfo(Image, reply.slot).is_marked_successful
                /\ ~SlotInfo(Image, other(reply.slot)).is_marked_successful
          [] reply.call = "one_shot" -> (reply.slot \in Image.flags) = reply.enable
          [] reply.call = "clear" -> Image.flags = {}
          [] reply.call = "peek" ->
                LET i == SlotInfo(Image, reply.slot)
                IN  reply.slot # "R" => i.is_active /\ i.is_bootable
          [] reply.call = "last" -> reply.slot = promise.active
          [] OTHER -> TRUE

=============================================================================
