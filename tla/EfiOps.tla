------------------------------- MODULE EfiOps -------------------------------
(***************************************************************************)
(* What GBL asks of the platform (gbl/efi/src/ops.rs) through the wrappers *)
(* of the GBL and UEFI protocols (gbl/libefi/src/protocol).  A protocol    *)
(* may be missing, may refuse to open or may lack a function, and the      *)
(* platform may answer a call with any status and report any size.         *)
(***************************************************************************)
EXTENDS Naturals, Sequences, SequencesExt, FiniteSets

CONSTANTS
    Names,      \* of persistent values
    MaxLen,     \* of a value, and of a buffer
    MAX_ARGS,   \* of a fastboot variable, its name included
    NoValue

ASSUME OpsAssumption == MaxLen \in Nat /\ MAX_ARGS \in Nat \ {0} /\ NoValue \notin Nat

VARIABLES
    store,  \* the platform's persistent values: their lengths
    regs,   \* its rollback index and locks
    ask,    \* what GBL asked last
    ans     \* and the answer

opsVars == <<store, regs, ask, ans>>

Lens == 0..MaxLen

Gives(v) == [r |-> "ok", v |-> v]
ErrSize(e, n) == [r |-> "err", v |-> <<e, n>>]
Err(e) == ErrSize(e, NoValue)
Panic == [r |-> "panic", v |-> "panic"]
AndThen(x, y) == IF x.r = "ok" THEN y ELSE x
MapErr(x, f(_)) == IF x.r = "err" THEN [x EXCEPT !.v = f(x.v)] ELSE x

(* How the platform meets a call: finding the protocol, opening it, the     *)
(* function pointer, and a status other than the one the call deserves.     *)
Found == {"open", "absent", "denied", "no interface", "no function"}
Statuses == {"DEVICE_ERROR", "OUT_OF_RESOURCES", "NOT_FOUND", "END_OF_FILE", "INVALID_PARAMETER", "UNSUPPORTED", "TIMEOUT"}
Platforms == [found : Found, fails : Statuses \cup {"no"}]
Answer(p, s) == IF p.fails = "no" THEN s ELSE p.fails

(* liberror: efi_status_to_result(), for the statuses a caller tells apart  *)
(* and some it does not; efi_call!, and with @bufsize, where the size the   *)
(* platform left behind goes into the error.                                *)
efi_status_to_result(s) ==
    CASE s = "SUCCESS"           -> Gives(0)
      [] s = "DEVICE_ERROR"      -> Err("DeviceError")
      [] s = "OUT_OF_RESOURCES"  -> Err("OutOfResources")
      [] s = "NOT_FOUND"         -> Err("NotFound")
      [] s = "END_OF_FILE"       -> Err("EndOfFile")
      [] s = "INVALID_PARAMETER" -> Err("InvalidInput")
      [] s = "UNSUPPORTED"       -> Err("Unsupported")
      [] s = "BUFFER_TOO_SMALL"  -> Err("BufferTooSmall")
      [] s = "NOT_READY"         -> Err("NotReady")
      [] s = "TIMEOUT"           -> Err("Timeout")
      [] OTHER                   -> Err("UnexpectedEfiError")

efi_call(p, s) == IF p.found = "no function" THEN Err("NotFound") ELSE efi_status_to_result(s)

efi_call_bufsize(p, s, size) ==
    IF p.found # "no function" /\ s = "BUFFER_TOO_SMALL" THEN ErrSize("BufferTooSmall", size) ELSE efi_call(p, s)

locate_handle_buffer_by_protocol(p) == IF p.found = "absent" THEN Err("NotFound") ELSE Gives(0)
open_protocol(p) == IF p.found = "denied" THEN Err("AccessDenied") ELSE Gives(0)
find_first_and_open(p) == AndThen(locate_handle_buffer_by_protocol(p), open_protocol(p))
interface(p) == IF p.found = "no interface" THEN Err("InvalidInput") ELSE Gives(0)

(* A wrapper without and with an output buffer; v is what the platform      *)
(* writes, size what it reports.                                            *)
Wrap(p, s, v) == AndThen(interface(p), AndThen(efi_call(p, Answer(p, s)), Gives(v)))
WrapSized(p, s, size) == AndThen(interface(p), AndThen(efi_call_bufsize(p, Answer(p, s), size), Gives(size)))

---------------------------------------------------------------------------
(* Verified boot.                                                          *)

efi_error_to_avb_error(e) ==
    CASE e[1] = "OutOfResources" -> <<"Oom", NoValue>>
      [] e[1] = "DeviceError"    -> <<"Io", NoValue>>
      [] e[1] = "NotFound"       -> <<"NoSuchValue", NoValue>>
      [] e[1] = "EndOfFile"      -> <<"RangeOutsidePartition", NoValue>>
      [] e[1] = "InvalidInput"   -> <<"InvalidValueSize", NoValue>>
      [] e[1] = "BufferTooSmall" -> <<"InsufficientSpace", IF e[2] = NoValue THEN 0 ELSE e[2]>>
      [] OTHER                   -> <<"NotImplemented", NoValue>>

Avb(p, x) ==
    IF find_first_and_open(p).r = "err" THEN Err("NotImplemented") ELSE MapErr(x, efi_error_to_avb_error)

avb_read_is_device_unlocked(p, unlocked) == Avb(p, Wrap(p, "SUCCESS", unlocked))
avb_read_rollback_index(p) == Avb(p, Wrap(p, "SUCCESS", regs.rollback))
avb_write_rollback_index(p) == Avb(p, Wrap(p, "SUCCESS", 0))
ReadStatus(n, cap) ==
    IF store[n] = NoValue THEN "NOT_FOUND" ELSE IF store[n] > cap THEN "BUFFER_TOO_SMALL" ELSE "SUCCESS"
avb_read_persistent_value(p, n, cap, size) == Avb(p, WrapSized(p, ReadStatus(n, cap), size))
avb_write_persistent_value(p) == Avb(p, Wrap(p, "SUCCESS", 0))

KeyStatuses == {"VALID", "VALID_CUSTOM_KEY", "INVALID", "unknown"}
to_avb_validation_status_or_panic(s) ==
    CASE s = "VALID" -> Gives("Valid") [] s = "VALID_CUSTOM_KEY" -> Gives("ValidCustomKey")
      [] s = "INVALID" -> Gives("Invalid") [] OTHER -> Panic
avb_validate_vbmeta_public_key(p, s) ==
    LET x == Wrap(p, "SUCCESS", s)
    IN Avb(p, IF x.r = "ok" THEN to_avb_validation_status_or_panic(s) ELSE x)
avb_handle_verification_result(p) ==
    IF find_first_and_open(p).r = "err" THEN Gives(0) ELSE MapErr(Wrap(p, "SUCCESS", 0), efi_error_to_avb_error)

(* GblAvbOps: what is not implemented has a default.  A protocol that does  *)
(* not open and every status without an AVB error of its own are "not       *)
(* implemented" here.                                                       *)

(* Mutant: any failure is answered with the default. *)
fallback_not_implemented_any(x, value) == IF x.r = "err" THEN Gives(value) ELSE x

fallback_not_implemented(x, value) ==
    IF x.r = "err" /\ x.v[1] = "NotImplemented" THEN Gives(value) ELSE x

GblAvb_read_is_device_unlocked(p, u) == fallback_not_implemented(avb_read_is_device_unlocked(p, u), TRUE)
GblAvb_read_rollback_index(p) == fallback_not_implemented(avb_read_rollback_index(p), 0)
GblAvb_write_rollback_index(p) == fallback_not_implemented(avb_write_rollback_index(p), 0)
GblAvb_read_persistent_value(p, n, cap, size) == fallback_not_implemented(avb_read_persistent_value(p, n, cap, size), 0)
GblAvb_write_persistent_value(p) == fallback_not_implemented(avb_write_persistent_value(p), 0)

(* The key is judged by the cert extension (external) where that is used,   *)
(* else by the platform; the judgement is kept for the color of the boot.   *)
GblAvb_validate_vbmeta_public_key(p, s, cert) ==
    IF cert THEN IF s = "unknown" THEN Err("Io") ELSE Gives(IF s = "VALID" THEN "Valid" ELSE "Invalid")
    ELSE fallback_not_implemented(avb_validate_vbmeta_public_key(p, s), "ValidCustomKey")
Accepts(status) == status \in {"Valid", "ValidCustomKey"}

(* Properties of the firmware's device tree, of any length or missing.      *)
avb_cert_read_permanent_attributes(len, size) ==
    CASE len = NoValue -> Err("NotImplemented") [] len = size -> Gives(len) [] OTHER -> Panic
avb_cert_read_permanent_attributes_hash(len, size) ==
    CASE len = NoValue -> Err("NotImplemented") [] len = size -> Gives(len) [] OTHER -> Err("Io")

---------------------------------------------------------------------------
(* The OS configuration: the protocol is optional, its functions are not.  *)

Optional(p, without, x) ==
    LET o == find_first_and_open(p)
    IN IF o.r = "ok" THEN x ELSE IF o.v[1] = "NotFound" THEN without ELSE o

(* The text ends at the first zero: nul is where the platform put it; the   *)
(* first byte is a zero when the platform writes nothing.                   *)
fixup_kernel_commandline(p, cap, s) == IF cap = 0 THEN Err("InvalidInput") ELSE WrapSized(p, s, cap)
fixup_os_commandline(p, cap, s, nul) ==
    Optional(p, Gives(NoValue),
        AndThen(fixup_kernel_commandline(p, cap, s), IF nul < cap THEN Gives(nul) ELSE Err("InvalidInput")))
protocol_fixup_bootconfig(p, cap, s, size) == IF cap = 0 THEN Err("InvalidInput") ELSE WrapSized(p, s, size)
fixup_bootconfig(p, cap, s, size) ==
    Optional(p, Gives(NoValue),
        AndThen(protocol_fixup_bootconfig(p, cap, s, size), IF size =< cap THEN Gives(size) ELSE Panic))
fixup_device_tree(p, cap, s) == Optional(p, Gives(0), AndThen(WrapSized(p, s, cap), Gives(0)))

(* The platform marks the device trees it wants; without it the only base   *)
(* tree is taken with no overlays.                                          *)
select_device_trees(p, selected, auto) == Optional(p, auto, Wrap(p, "SUCCESS", selected))

---------------------------------------------------------------------------
(* Fastboot.                                                               *)

get_var(p, args, cap, s, size) ==
    IF args + 1 > MAX_ARGS THEN Err("InvalidInput") ELSE WrapSized(p, s, size)
fastboot_variable(p, args, cap, s, size) == AndThen(find_first_and_open(p), get_var(p, args, cap, s, size))
get_var_all_cb(len) == IF len > MAX_ARGS THEN <<"exceeds limit">> ELSE <<"variable", len>>
fastboot_visit_all_variables(p, len) == Optional(p, Gives(<<>>), Wrap(p, "SUCCESS", get_var_all_cb(len)))
run_oem_function(p, cap, s, size, nul) ==
    LET text == IF nul < cap THEN nul ELSE cap
    IN AndThen(WrapSized(p, s, size), Gives(IF size < text THEN size ELSE text))
Locks == {"device"}
get_policy(p) == Wrap(p, "SUCCESS", regs.locks)
set_lock(p) == Wrap(p, "SUCCESS", 0)
should_stop(p, want) == p.found \notin {"no interface", "no function"} /\ want
update_local_session(p, s, size) == WrapSized(p, s, size)
serial_number(p, nul, cap) == AndThen(interface(p), Gives(IF nul < cap THEN nul ELSE cap))
start_local_session(p) == AndThen(find_first_and_open(p), Wrap(p, "SUCCESS", 0))

(* A property of the device tree decides, else a key within two seconds:    *)
(* the first that is a backspace, or an error.                              *)
Keys == {"backspace", "other", "none", "error"}
read_key_stroke(k) == CASE k = "error" -> Err("DeviceError") [] k = "none" -> Gives(NoValue) [] OTHER -> Gives(k)
wait_key_stroke(p, keys) ==
    LET i == SelectInSeq(keys, LAMBDA k : k = "backspace" \/ read_key_stroke(k).r = "err")
    IN AndThen(find_first_and_open(p), IF i = 0 THEN Gives(FALSE) ELSE AndThen(read_key_stroke(keys[i]), Gives(TRUE)))
should_stop_in_fastboot(p, prop, keys) ==
    IF prop # NoValue THEN Gives(prop # <<>> /\ prop[1] = 1)
    ELSE MapErr(wait_key_stroke(p, keys), LAMBDA e : <<"Other", NoValue>>)

---------------------------------------------------------------------------
(* Slots.  GBL does not use the protocol yet: all but the number of slots,  *)
(* the boot reason too, is refused.                                        *)

slots_metadata(p, n) == AndThen(find_first_and_open(p), Wrap(p, "SUCCESS", n))
get_current_slot(p) == Err("Unsupported")

---------------------------------------------------------------------------
(* Devices and the start of the application.                               *)

(* find_block_devices(): an asynchronous interface is preferred; the first  *)
(* handle that opens neither way ends the search, the first without media   *)
(* panics; parts of a disk are left out.  The disks are the handles kept,   *)
(* in the order of the handles.  Scratch of two 32-bit alignments and a     *)
(* 32-bit block, and the table's buffer of a fixed size, are always enough. *)
Handles == [io2 : BOOLEAN, io : BOOLEAN, media : BOOLEAN, logical_partition : BOOLEAN]
Opened(h) == h.io2 \/ h.io
FirstUnusable(hs, i) ==
    i \in DOMAIN hs /\ ~(Opened(hs[i]) /\ hs[i].media) /\ \A j \in 1..(i - 1) : Opened(hs[j]) /\ hs[j].media
find_block_devices(p, hs) ==
    IF p.found = "absent" THEN Err("NotFound")
    ELSE IF \E i \in DOMAIN hs : FirstUnusable(hs, i)
         THEN IF Opened(hs[CHOOSE i \in DOMAIN hs : FirstUnusable(hs, i)]) THEN Panic ELSE Err("AccessDenied")
         ELSE Gives({i \in DOMAIN hs : ~hs[i].logical_partition})

(* The text ends at the first zero.                                         *)
DevicePathText_new(text) ==
    SubSeq(text, 1, SelectInSeq(text, LAMBDA c : c = 0) - 1)

(* Configuration tables: the first with the wanted name, valid or not.      *)
Tables == [fdt : BOOLEAN, valid : BOOLEAN]
get_efi_fdt(ts) ==
    LET i == SelectInSeq(ts, LAMBDA t : t.fdt) IN IF i = 0 THEN NoValue ELSE IF ts[i].valid THEN i ELSE NoValue
get_target_os(var, gpt) == IF var.r = "ok" \/ gpt THEN "Fuchsia" ELSE "Android"
get_variable(p, len, cap) == WrapSized(p, IF len = NoValue THEN "NOT_FOUND" ELSE IF len > cap THEN "BUFFER_TOO_SMALL" ELSE "SUCCESS",
                                       IF len = NoValue THEN cap ELSE len)

---------------------------------------------------------------------------
OpsInit ==
    /\ store \in [Names -> {NoValue, MaxLen}] /\ regs = [rollback |-> 0, locks |-> {}]
    /\ ask = [op |-> "none"] /\ ans = Gives(0)

(* GBL asks, the platform answers, the caller goes on or asks for the same  *)
(* value again; what a write changes is changed when the platform says so.  *)
Idle == ask.op = "none"
Asks(q, a) == ask' = q /\ ans' = a
Reads(q, a) == Asks(q, a) /\ UNCHANGED <<store, regs>>
GoesOn == ~Idle /\ ask' = [op |-> "none"] /\ ans' = Gives(0) /\ UNCHANGED <<store, regs>>
Done(a) == a.r = "ok"

AskAvb == Idle /\ \E p \in Platforms :
    \/ \E u \in BOOLEAN : Reads([op |-> "unlocked", p |-> p, fw |-> u], avb_read_is_device_unlocked(p, u))
    \/ Reads([op |-> "rollback", p |-> p, fw |-> regs.rollback], avb_read_rollback_index(p))
    \/ \E s \in KeyStatuses : Reads([op |-> "key", p |-> p, fw |-> s], avb_validate_vbmeta_public_key(p, s))
    \/ Reads([op |-> "report", p |-> p], avb_handle_verification_result(p))
AskValue == (Idle \/ ask.op = "value") /\ \E p \in Platforms, n \in Names, c, z \in Lens :   \* z: the size reported
    Reads([op |-> "value", p |-> p, n |-> n, c |-> c, z |-> z], avb_read_persistent_value(p, n, c, z))
AskAvbWrite == Idle /\ \E p \in Platforms :
    \/ \E i \in 0..1 : /\ Asks([op |-> "set rollback", p |-> p, i |-> i], avb_write_rollback_index(p))
                       /\ regs' = (IF Done(ans') THEN [regs EXCEPT !.rollback = i] ELSE regs) /\ UNCHANGED store
    \/ \E n \in Names, l \in Lens \cup {NoValue} :   \* NoValue: erase
          /\ Asks([op |-> "set value", p |-> p, n |-> n, l |-> l], avb_write_persistent_value(p))
          /\ store' = (IF Done(ans') THEN [store EXCEPT ![n] = l] ELSE store) /\ UNCHANGED regs
AskGblAvb == Idle /\ \E p \in Platforms :
    \/ \E u \in BOOLEAN : Reads([op |-> "lock state", p |-> p, fw |-> u], GblAvb_read_is_device_unlocked(p, u))
    \/ Reads([op |-> "index", p |-> p, fw |-> regs.rollback], GblAvb_read_rollback_index(p))
    \/ \E n \in Names, c, z \in Lens :
          Reads([op |-> "stored", p |-> p, n |-> n, c |-> c, z |-> z], GblAvb_read_persistent_value(p, n, c, z))
    \/ \E s \in KeyStatuses, cert \in BOOLEAN :
          Reads([op |-> "key judged", p |-> p, fw |-> s, cert |-> cert], GblAvb_validate_vbmeta_public_key(p, s, cert))
    \/ \E n \in Names, l \in Lens \cup {NoValue} :
          /\ Asks([op |-> "store", p |-> p, n |-> n, l |-> l], GblAvb_write_persistent_value(p))
          /\ store' = (IF Done(avb_write_persistent_value(p)) THEN [store EXCEPT ![n] = l] ELSE store) /\ UNCHANGED regs
    \/ \E i \in 0..1 : /\ Asks([op |-> "set index", p |-> p, i |-> i], GblAvb_write_rollback_index(p))
                       /\ regs' = (IF Done(avb_write_rollback_index(p)) THEN [regs EXCEPT !.rollback = i] ELSE regs)
                       /\ UNCHANGED store
AskCert == Idle /\ \E len \in Lens \cup {NoValue} :
    \/ Reads([op |-> "attributes", fw |-> len], avb_cert_read_permanent_attributes(len, 1))
    \/ Reads([op |-> "hash", fw |-> len], avb_cert_read_permanent_attributes_hash(len, 1))
Sized == {"SUCCESS", "BUFFER_TOO_SMALL"}
AskConfig == Idle /\ \E p \in Platforms, c \in Lens, s \in Sized :
    \/ \E nul \in Lens : Reads([op |-> "commandline", p |-> p, c |-> c, fw |-> nul], fixup_os_commandline(p, c, s, nul))
    \/ \E n \in Lens : Reads([op |-> "bootconfig", p |-> p, c |-> c, fw |-> n], fixup_bootconfig(p, c, s, n))
    \/ Reads([op |-> "fdt", p |-> p, c |-> c, fw |-> s], fixup_device_tree(p, c, s))
    \/ \E w \in SUBSET Lens : Reads([op |-> "trees", p |-> p, fw |-> w], select_device_trees(p, w, Gives({0})))
AskFastboot == Idle /\ \E p \in Platforms, c \in Lens, s \in Sized :
    \/ \E n \in Lens, k \in 0..MAX_ARGS : Reads([op |-> "getvar", p |-> p, c |-> c, k |-> k, fw |-> n], fastboot_variable(p, k, c, s, n))
    \/ \E k \in 0..(MAX_ARGS + 1) : Reads([op |-> "getvar all", p |-> p, k |-> k], fastboot_visit_all_variables(p, k))
    \/ \E n, nul \in Lens : Reads([op |-> "oem", p |-> p, c |-> c, fw |-> n, nul |-> nul], run_oem_function(p, c, s, n, nul))
    \/ \E nul \in Lens : Reads([op |-> "serial", p |-> p, c |-> c], serial_number(p, nul, c))
    \/ Reads([op |-> "local", p |-> p], start_local_session(p))
    \/ \E prop \in {NoValue, <<>>, <<0>>, <<1>>, <<1, 0>>, <<2>>}, keys \in [1..2 -> Keys] :
          Reads([op |-> "stop", p |-> p, fw |-> prop, keys |-> keys], should_stop_in_fastboot(p, prop, keys))
AskSlots == Idle /\ \E p \in Platforms :
    \/ \E n \in Lens : Reads([op |-> "slots", p |-> p, fw |-> n], slots_metadata(p, n))
    \/ Reads([op |-> "slot", p |-> p], get_current_slot(p))
AskPolicy == Idle /\ \E p \in {q \in Platforms : find_first_and_open(q).r = "ok"} :
    \/ Reads([op |-> "policy", p |-> p, fw |-> regs.locks], get_policy(p))
    \/ \E w \in BOOLEAN : Reads([op |-> "stop wanted", p |-> p, fw |-> w], Gives(should_stop(p, w)))
    \/ \E s \in Sized, n \in Lens : Reads([op |-> "local update", p |-> p, fw |-> n], update_local_session(p, s, n))
    \/ \E l \in Locks, on \in BOOLEAN :
          /\ Asks([op |-> "lock", p |-> p, l |-> l, on |-> on], set_lock(p))
          /\ regs' = (IF Done(ans') THEN [regs EXCEPT !.locks = IF on THEN @ \cup {l} ELSE @ \ {l}] ELSE regs)
          /\ UNCHANGED store
AskDevices == Idle /\ \E p \in Platforms :
    \/ p.fails = "no" /\ \E hs \in [1..2 -> Handles] : Reads([op |-> "disks", p |-> p, fw |-> hs], find_block_devices(p, hs))
    \/ \E ts \in [1..2 -> Tables] : Reads([op |-> "tables", fw |-> ts], Gives(get_efi_fdt(ts)))
    \/ \E t \in [1..2 -> 0..1] : Reads([op |-> "path", fw |-> t], Gives(DevicePathText_new(t \o <<0>>)))
    \/ \E l \in Lens \cup {NoValue}, g \in BOOLEAN :
          Reads([op |-> "os", p |-> p, fw |-> l, g |-> g], Gives(get_target_os(get_variable(p, l, 1), g)))

OpsNext == AskAvb \/ AskGblAvb \/ AskValue \/ AskAvbWrite \/ AskCert \/ AskConfig \/ AskFastboot \/ AskPolicy \/ AskSlots \/ AskDevices \/ GoesOn
OpsSpec == OpsInit /\ [][OpsNext]_opsVars

(* What fallback_not_implemented() takes for a missing implementation.      *)
TakenForMissing(p) == p.found \in {"absent", "denied"} \/ (p.found = "open" /\ p.fails \in {"UNSUPPORTED", "TIMEOUT"})

(* Nothing is read out of a platform that is not there or has failed; what  *)
(* is read is what the platform holds, for a value as long as the platform  *)
(* reports its size honestly (GBL passes the size on unchecked).  Of verified *)
(* boot: a failure with an AVB error of its own always reaches libavb; a    *)
(* device is never taken for unlocked, a key for a good one, an index for   *)
(* stored, because of it.  The other failures are set aside here: for them  *)
(* GBL goes on with a default, which FailureRejects is about.  A panic      *)
(* needs a platform that breaks its contract.                               *)
Silent(q) == "p" \in DOMAIN q /\ (q.p.found # "open" \/ q.p.fails # "no")
Honest(q) == q.z = store[q.n]
AnswersTruthful ==
    /\ ask.op \in {"unlocked", "rollback", "value", "key", "policy"} /\ Silent(ask) => ans.r = "err"
    /\ ask.op \in {"unlocked", "rollback", "policy"} /\ ans.r = "ok" => ans.v = ask.fw
    /\ ask.op = "value" /\ ans.r = "ok" /\ Honest(ask) => ans.v = store[ask.n] /\ ans.v =< ask.c
    /\ ask.op = "key" /\ ans.r = "ok" /\ ans.v = "Valid" => ask.fw = "VALID"
    /\ ask.op \in {"lock state", "index"} /\ ans.r = "ok" => (ans.v = ask.fw /\ ~Silent(ask)) \/ TakenForMissing(ask.p)
    /\ ask.op = "key judged" /\ ans.r = "ok" /\ Accepts(ans.v) =>
          ask.fw \in {"VALID", "VALID_CUSTOM_KEY"} \/ (~ask.cert /\ TakenForMissing(ask.p))
    /\ ask.op = "stored" /\ ans.r = "ok" /\ Honest(ask) => ans.v = store[ask.n] \/ TakenForMissing(ask.p)
    /\ ask.op = "store" /\ ans.r = "ok" => store[ask.n] = ask.l \/ TakenForMissing(ask.p)
    /\ ask.op = "set index" /\ ans.r = "ok" => regs.rollback = ask.i \/ TakenForMissing(ask.p)
    /\ ask.op = "trees" /\ ans.r = "ok" /\ ask.p.found # "absent" => ans.v = ask.fw
    /\ ask.op \in {"commandline", "bootconfig", "oem"} /\ ans.r = "ok" /\ ans.v # NoValue => ans.v =< ask.c
    /\ ask.op = "disks" /\ ans.r = "ok" =>
          \A i \in DOMAIN ask.fw : Opened(ask.fw[i]) /\ ask.fw[i].media /\ (i \in ans.v <=> ~ask.fw[i].logical_partition)
    /\ ans.r = "panic" => CASE ask.op \in {"key", "key judged"} -> ask.fw = "unknown"
                            [] ask.op = "attributes" -> ask.fw # 1
                            [] ask.op = "bootconfig" -> ask.fw > ask.c
                            [] ask.op = "disks" -> \E i \in DOMAIN ask.fw : ~ask.fw[i].media
                            [] OTHER -> FALSE

(* A caller that is told, honestly, how much room a value needs, and asks   *)
(* again with that much, gets it; a write that fails changes nothing.       *)
Retry ==
    /\ ask.op = "value" /\ ask'.op = "value" /\ ask'.n = ask.n /\ ~Silent(ask') /\ Honest(ask)
    /\ ans.r = "err" /\ ans.v = <<"InsufficientSpace", ask'.c>>
RetryFits == (Retry => ans'.r = "ok") /\ (ans'.r # "ok" => UNCHANGED <<store, regs>>)

(* Both: what the platform is asked is answered truthfully, once and again. *)
PlatformTruthful == [][AnswersTruthful' /\ RetryFits]_opsVars

(* What docs/gbl_efi_avb_protocol.md says of a platform that has the        *)
(* protocol: "Any non `EFI_SUCCESS` return value from this method is        *)
(* treated as a fatal verification error" (of the key), and "GBL rejects    *)
(* continuing the boot process if this method returns any error" (of the    *)
(* lock state).  The code does not keep this (README, section 5).           *)
FailureRejects ==
    ask.op \in {"lock state", "key judged"} /\ ask.p.found = "open" /\ ask.p.fails # "no"
        /\ ("cert" \in DOMAIN ask => ~ask.cert) => ans.r = "err"
=============================================================================
