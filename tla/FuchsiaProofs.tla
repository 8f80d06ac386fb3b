--------------------------- MODULE FuchsiaProofs ---------------------------
(***************************************************************************)
(* Proofs about the A/B/R library (Abr), for every MaxPriority and         *)
(* MaxTries (15 and 7 in the code) and every set of read outcomes, and, on *)
(* top of them, about the C interface AbrC and about FuchsiaBoot, for      *)
(* every set of images, partition names and rollback locations.            *)
(***************************************************************************)
EXTENDS FuchsiaBoot, FiniteSetTheorems, TLAPS

(* The bytes of a slot stay bytes when it is normalised.                    *)
LEMMA NormalizeType ==
    ASSUME NEW d \in AbrSlotData
    PROVE  slot_normalize(d) \in AbrSlotData
<1>1. CASE d.priority = 0
  <2>1. 0 \in Byte(MaxTries) /\ 0 \in Byte(1)
    BY ConstantsAssumption DEF Byte
  <2>2. slot_normalize(d) = [d EXCEPT !.tries = 0, !.success = 0]
    BY <1>1 DEF slot_normalize, set_slot_unbootable
  <2> QED BY <2>1, <2>2 DEF AbrSlotData
<1>2. CASE d.priority # 0
  <2> DEFINE illegal == d.tries > 0 /\ d.success = 1
             t == IF illegal THEN MaxTries ELSE Least(d.tries, MaxTries)
             u == IF illegal THEN 0 ELSE d.success
             p == Least(d.priority, MaxPriority)
  <2>1. t \in Byte(MaxTries) /\ u \in Byte(1) /\ p \in Byte(MaxPriority)
    BY ConstantsAssumption DEF AbrSlotData, Byte, Least
  <2>2. slot_normalize(d) = [priority |-> p, tries |-> t, success |-> u]
    BY <1>2 DEF slot_normalize
  <2> QED BY <2>1, <2>2 DEF AbrSlotData
<1> QED BY <1>1, <1>2

LEMMA DefaultType == default \in AbrData /\ default.kind = "valid"
BY ConstantsAssumption DEF default, AbrData, AbrSlotData, Byte, Slots, OneShots

LEMMA UnreadableType ==
    ASSUME NEW k \in {"newer", "invalid"}
    PROVE  Unreadable(k) \in AbrData
BY DefaultType DEF Unreadable, AbrData

(* load_metadata() yields well-formed, valid data whatever storage returns. *)
LEMMA LoadType ==
    ASSUME TypeOK, NEW rd \in Reads
    PROVE  load_metadata(rd) \in AbrData /\ load_metadata(rd).kind = "valid"
<1> DEFINE raw == IF usable(rd) THEN disk ELSE default
<1>1. raw \in AbrData /\ raw.kind = "valid"
  BY DefaultType DEF TypeOK, usable
<1>2. [s \in Slots |-> slot_normalize(raw.slots[s])] \in [Slots -> AbrSlotData]
  BY <1>1, NormalizeType DEF AbrData
<1>3. load_metadata(rd) = [raw EXCEPT !.slots = [s \in Slots |-> slot_normalize(raw.slots[s])]]
  BY DEF load_metadata
<1> QED BY <1>1, <1>2, <1>3 DEF AbrData

LEMMA SaveType ==
    ASSUME NEW m \in AbrData, NEW d \in AbrData, NEW wr \in Writes
    PROVE  save_metadata(m, d, wr) \in AbrData
BY UnreadableType DEF save_metadata, Writes

LEMMA SaveIfChangedType ==
    ASSUME NEW m \in AbrData, NEW d \in AbrData, NEW rd \in Reads, NEW wr \in Writes
    PROVE  save_metadata_if_changed(m, d, rd, wr) \in AbrData
BY SaveType DEF save_metadata_if_changed

PromiseType == [active: Slots, owed: SUBSET OneShots]

LEMMA BaseType ==
    ASSUME TypeOK, NEW rd \in Reads
    PROVE  base(rd) \in PromiseType
BY DEF base, DefaultPromise, PromiseType, TypeOK, Slots, OneShots

LEMMA CommitType ==
    ASSUME TypeOK, NEW d \in AbrData, NEW rd \in Reads, NEW wr \in Writes,
           NEW p \in PromiseType, Commit(d, rd, wr, p)
    PROVE  disk' \in AbrData /\ promise' \in PromiseType
<1>1. disk' \in AbrData
  BY SaveIfChangedType DEF Commit, TypeOK
<1>2. promise' \in PromiseType
  BY DEF Commit, TypeOK, DefaultPromise, PromiseType, Slots, OneShots
<1> QED BY <1>1, <1>2

(* A slot that get_active_slot() chooses is bootable, so it is successful   *)
(* or has a try left to take.                                               *)
LEMMA ActiveSlotBootable ==
    ASSUME NEW d \in AbrData
    PROVE  /\ get_active_slot(d) \in Slots \cup {"R"}
           /\ get_active_slot(d) # "R" => is_slot_bootable(d.slots[get_active_slot(d)])
           /\ ~tries_underflow(d, get_active_slot(d))
<1>1. d.slots["A"] \in AbrSlotData /\ d.slots["B"] \in AbrSlotData
  BY DEF AbrData, Slots
<1>2. ASSUME NEW e \in AbrSlotData
      PROVE  /\ get_normalized_priority(e) \in Nat
             /\ get_normalized_priority(e) > 0 => is_slot_bootable(e)
             /\ is_slot_bootable(e) => ~(e.success # 1 /\ e.tries = 0)
  BY DEF get_normalized_priority, is_slot_bootable, AbrSlotData, Byte
<1> DEFINE a == d.slots["A"]
           b == d.slots["B"]
<1>3. /\ get_normalized_priority(a) \in Nat /\ get_normalized_priority(b) \in Nat
      /\ get_normalized_priority(a) > 0 => is_slot_bootable(a)
      /\ get_normalized_priority(b) > 0 => is_slot_bootable(b)
  BY <1>1, <1>2
<1>4. CASE get_normalized_priority(b) > get_normalized_priority(a)
  <2>1. get_active_slot(d) = "B" /\ is_slot_bootable(b)
    BY <1>3, <1>4 DEF get_active_slot
  <2> QED BY <1>1, <1>2, <2>1 DEF tries_underflow, Slots
<1>5. CASE ~(get_normalized_priority(b) > get_normalized_priority(a)) /\ get_normalized_priority(a) > 0
  <2>1. get_active_slot(d) = "A" /\ is_slot_bootable(a)
    BY <1>3, <1>5 DEF get_active_slot
  <2> QED BY <1>1, <1>2, <2>1 DEF tries_underflow, Slots
<1>6. CASE ~(get_normalized_priority(b) > get_normalized_priority(a)) /\ ~(get_normalized_priority(a) > 0)
  <2>1. get_active_slot(d) = "R"
    BY <1>6 DEF get_active_slot
  <2> QED BY <2>1 DEF tries_underflow
<1> QED BY <1>4, <1>5, <1>6

LEMMA BootUpdateType ==
    ASSUME NEW d \in AbrData, NEW slot \in Slots \cup {"R"}, ~tries_underflow(d, slot)
    PROVE  boot_update(d, slot) \in AbrData /\ boot_update(d, slot).kind = d.kind
<1> DEFINE f == [s \in Slots |->
        IF s = slot
        THEN IF d.slots[s].success = 1 THEN d.slots[s]
             ELSE [d.slots[s] EXCEPT !.tries = @ - 1]
        ELSE IF d.slots[s].success = 1
             THEN [d.slots[s] EXCEPT !.tries = MaxTries, !.success = 0]
             ELSE d.slots[s]]
<1>1. ASSUME NEW s \in Slots PROVE f[s] \in AbrSlotData
  <2>1. d.slots[s] \in AbrSlotData
    BY DEF AbrData
  <2> DEFINE e == d.slots[s]
  <2>2. MaxTries \in Byte(MaxTries) /\ 0 \in Byte(1)
    BY ConstantsAssumption DEF Byte
  <2>3. CASE s = slot /\ e.success # 1
    <3>1. e.tries - 1 \in Byte(MaxTries)
      BY <2>1, <2>3, ConstantsAssumption DEF tries_underflow, AbrSlotData, Byte, Slots
    <3>2. f[s] = [e EXCEPT !.tries = @ - 1]
      BY <2>3
    <3> QED BY <2>1, <3>1, <3>2 DEF AbrSlotData
  <2>4. CASE s # slot /\ e.success = 1
    <3>1. f[s] = [e EXCEPT !.tries = MaxTries, !.success = 0]
      BY <2>4
    <3> QED BY <2>1, <2>2, <3>1 DEF AbrSlotData
  <2> QED BY <2>1, <2>3, <2>4
<1>2. f \in [Slots -> AbrSlotData]
  BY <1>1
<1>3. boot_update(d, slot) = [d EXCEPT !.slots = f]
  BY DEF boot_update
<1> QED BY <1>2, <1>3 DEF AbrData

-----------------------------------------------------------------------------
LEMMA InitTypeOK == Init => TypeOK
<1> SUFFICES ASSUME NEW d \in AbrData, InitImage(d) PROVE TypeOK
  BY DEF Init
<1>1. promise \in PromiseType
  BY DEF InitImage, DefaultPromise, PromiseType, AbrData, Slots, OneShots
<1> QED BY <1>1 DEF InitImage, TypeOK, PromiseType

LEMMA ReadingType == TypeOK => Reading \subseteq Reads /\ Writing \subseteq Writes
BY ConstantsAssumption DEF Reading, Writing, Reads, Writes

(* A call of the library, whatever its reads and writes turn out to be: by  *)
(* a fastboot command or the running system, by the check for fastboot, and *)
(* by the boot.                                                             *)
LibraryCall(rd, wr) ==
    \/ \E s \in Slots : \/ mark_slot_active(s, rd, wr)
                        \/ mark_slot_unbootable(s, rd, wr)
                        \/ mark_slot_successful(s, rd, wr)
    \/ \E f \in OneShots, e \in BOOLEAN : set_one_shot(f, e, rd, wr)
    \/ get_and_clear_one_shot_flag(rd, wr)

LibraryCheck(rd, wr) == \E t \in BOOLEAN : zircon_check_enter_fastboot(rd, wr, t)

LibraryBoot(rd) ==
    \/ BootWithoutMetadata(rd)
    \/ BootOneShotRecovery(rd)
    \/ \E wr1 \in Writes, wr2 \in Writes : BootSlot(rd, wr1, wr2)

LEMMA CallsAreLibrary ==
    ASSUME TypeOK
    PROVE  /\ ClientCall => \E rd \in Reads, wr \in Writes : LibraryCall(rd, wr)
           /\ CheckFastboot => \E rd \in Reads, wr \in Writes : LibraryCheck(rd, wr)
           /\ GetBootSlot => \E rd \in Reads : LibraryBoot(rd)
<1>1. ClientCall => \E rd \in Reads, wr \in Writes : LibraryCall(rd, wr)
  BY ReadingType DEF ClientCall, LibraryCall
<1>2. CheckFastboot => \E rd \in Reads, wr \in Writes : LibraryCheck(rd, wr)
  BY ReadingType DEF CheckFastboot, LibraryCheck
<1>3. GetBootSlot => \E rd \in Reads : LibraryBoot(rd)
  BY ReadingType DEF GetBootSlot, LibraryBoot
<1> QED BY <1>1, <1>2, <1>3

(* The library calls of fastboot commands and of the running system.        *)
LEMMA ClientTypeOK ==
    ASSUME TypeOK, NEW rd \in Reads, NEW wr \in Writes, LibraryCall(rd, wr)
    PROVE  TypeOK'
<1>1. \/ \E s \in Slots : \/ mark_slot_active(s, rd, wr)
                          \/ mark_slot_unbootable(s, rd, wr)
                          \/ mark_slot_successful(s, rd, wr)
      \/ \E f \in OneShots, e \in BOOLEAN : set_one_shot(f, e, rd, wr)
      \/ get_and_clear_one_shot_flag(rd, wr)
  BY DEF LibraryCall
<1> DEFINE d == load_metadata(rd)
<1>2. d \in AbrData
  BY LoadType
<1>3. base(rd) \in PromiseType
  BY BaseType
<1>4. /\ MaxTries \in Byte(MaxTries) /\ 0 \in Byte(MaxTries)
      /\ MaxPriority \in Byte(MaxPriority) /\ MaxPriority - 1 \in Byte(MaxPriority)
      /\ 0 \in Byte(1) /\ 1 \in Byte(1)
  BY ConstantsAssumption DEF Byte
<1> HIDE DEF d
<1>5. ASSUME NEW s \in Slots, mark_slot_active(s, rd, wr) PROVE TypeOK'
  <2> DEFINE o == other(s)
             slots == [d.slots EXCEPT
                    ![s] = [priority |-> MaxPriority, tries |-> MaxTries, success |-> 0],
                    ![o].priority = Least(@, MaxPriority - 1)]
  <2>1. slots \in [Slots -> AbrSlotData]
    <3>1. o \in Slots /\ o # s
      BY DEF other, Slots
    <3>2. d.slots[o] \in AbrSlotData
      BY <1>2, <3>1 DEF AbrData
    <3>3. [d.slots[o] EXCEPT !.priority = Least(@, MaxPriority - 1)] \in AbrSlotData
      BY <3>2, <1>4 DEF AbrSlotData, Least
    <3>4. [priority |-> MaxPriority, tries |-> MaxTries, success |-> 0] \in AbrSlotData
      BY <1>4 DEF AbrSlotData
    <3> QED BY <1>2, <3>1, <3>3, <3>4 DEF AbrData
  <2>2. [d EXCEPT !.slots = slots] \in AbrData
    BY <1>2, <2>1 DEF AbrData
  <2>3. [base(rd) EXCEPT !.active = s] \in PromiseType
    BY <1>3 DEF PromiseType
  <2>4. Commit([d EXCEPT !.slots = slots], rd, wr, [base(rd) EXCEPT !.active = s])
    BY <1>5 DEF mark_slot_active, marked_active, d
  <2>5. disk' \in AbrData /\ promise' \in PromiseType
    BY <2>2, <2>3, <2>4, CommitType
  <2> QED BY <2>5, <1>5 DEF mark_slot_active, TypeOK, PromiseType
<1>6. ASSUME NEW s \in Slots, mark_slot_unbootable(s, rd, wr) PROVE TypeOK'
  <2>1. d.slots[s] \in AbrSlotData
    BY <1>2 DEF AbrData
  <2>2. set_slot_unbootable(d.slots[s]) \in AbrSlotData
    BY <2>1, <1>4 DEF set_slot_unbootable, AbrSlotData
  <2>3. [d EXCEPT !.slots[s] = set_slot_unbootable(@)] \in AbrData
    BY <1>2, <2>2 DEF AbrData
  <2>4. Commit([d EXCEPT !.slots[s] = set_slot_unbootable(@)], rd, wr, base(rd))
    BY <1>6 DEF mark_slot_unbootable, marked_unbootable, d
  <2>5. disk' \in AbrData /\ promise' \in PromiseType
    BY <1>3, <2>3, <2>4, CommitType
  <2> QED BY <2>5, <1>6 DEF mark_slot_unbootable, TypeOK, PromiseType
<1>7. ASSUME NEW s \in Slots, mark_slot_successful(s, rd, wr) PROVE TypeOK'
  <2> DEFINE o == other(s)
             slots == [d.slots EXCEPT
                    ![s].tries = 0, ![s].success = 1,
                    ![o] = IF is_slot_bootable(@)
                           THEN [@ EXCEPT !.tries = MaxTries, !.success = 0] ELSE @]
             new == [d EXCEPT !.slots = slots]
  <2>1. slots \in [Slots -> AbrSlotData]
    <3>1. o \in Slots /\ o # s
      BY DEF other, Slots
    <3>2. d.slots[o] \in AbrSlotData /\ d.slots[s] \in AbrSlotData
      BY <1>2, <3>1 DEF AbrData
    <3>3. [d.slots[o] EXCEPT !.tries = MaxTries, !.success = 0] \in AbrSlotData
      BY <3>2, <1>4 DEF AbrSlotData
    <3>4. [d.slots[s] EXCEPT !.tries = 0, !.success = 1] \in AbrSlotData
      BY <3>2, <1>4 DEF AbrSlotData
    <3>5. slots = [t \in Slots |-> IF t = s THEN [d.slots[s] EXCEPT !.tries = 0, !.success = 1]
                     ELSE IF is_slot_bootable(d.slots[o])
                          THEN [d.slots[o] EXCEPT !.tries = MaxTries, !.success = 0]
                          ELSE d.slots[o]]
      BY <1>2, <3>1 DEF AbrData, Slots, other
    <3> QED BY <3>2, <3>3, <3>4, <3>5
  <2>2. new \in AbrData
    BY <1>2, <2>1 DEF AbrData
  <2>4. Commit(new, rd, wr, base(rd))
    BY <1>7 DEF mark_slot_successful, marked_successful, d
  <2>5. disk' \in AbrData /\ promise' \in PromiseType
    BY <1>3, <2>2, <2>4, CommitType
  <2>6. refreshed' \in BOOLEAN
    BY <1>7 DEF mark_slot_successful, durable, TypeOK
  <2> QED BY <2>5, <2>6, <1>7 DEF mark_slot_successful, TypeOK, PromiseType
<1>8. ASSUME NEW f \in OneShots, NEW e \in BOOLEAN, set_one_shot(f, e, rd, wr) PROVE TypeOK'
  <2>1. [d EXCEPT !.flags = with_one_shot(@, f, e)] \in AbrData
    BY <1>2 DEF AbrData, with_one_shot
  <2>2. [base(rd) EXCEPT !.owed = with_one_shot(@, f, e)] \in PromiseType
    BY <1>3 DEF PromiseType, with_one_shot
  <2>3. Commit([d EXCEPT !.flags = with_one_shot(@, f, e)], rd, wr,
               [base(rd) EXCEPT !.owed = with_one_shot(@, f, e)])
    BY <1>8 DEF set_one_shot, d
  <2>4. disk' \in AbrData /\ promise' \in PromiseType
    BY <2>1, <2>2, <2>3, CommitType
  <2> QED BY <2>4, <1>8 DEF set_one_shot, TypeOK, PromiseType
<1>9. ASSUME get_and_clear_one_shot_flag(rd, wr) PROVE TypeOK'
  <2>1. [d EXCEPT !.flags = {}] \in AbrData
    BY <1>2 DEF AbrData
  <2>2. [base(rd) EXCEPT !.owed = {}] \in PromiseType
    BY <1>3 DEF PromiseType
  <2>3. Commit([d EXCEPT !.flags = {}], rd, wr, [base(rd) EXCEPT !.owed = {}])
    BY <1>9 DEF get_and_clear_one_shot_flag, d
  <2>4. disk' \in AbrData /\ promise' \in PromiseType
    BY <2>1, <2>2, <2>3, CommitType
  <2> QED BY <2>4, <1>9 DEF get_and_clear_one_shot_flag, TypeOK, PromiseType
<1> QED BY <1>1, <1>5, <1>6, <1>7, <1>8, <1>9

LEMMA CheckFastbootTypeOK ==
    ASSUME TypeOK, NEW rd \in Reads, NEW wr \in Writes, LibraryCheck(rd, wr)
    PROVE  TypeOK'
<1>1. PICK t \in BOOLEAN : zircon_check_enter_fastboot(rd, wr, t)
  BY DEF LibraryCheck
<1> DEFINE d == load_metadata(rd)
           new == [d EXCEPT !.flags = @ \ {"bootloader"}]
           p == [base(rd) EXCEPT !.owed = @ \ {"bootloader"}]
<1>2. d \in AbrData
  BY LoadType
<1>3. new \in AbrData
  <2> HIDE DEF d
  <2> QED BY <1>2 DEF AbrData
<1>4. p \in PromiseType
  BY BaseType DEF PromiseType
<1>5. UNCHANGED <<disk, promise>> \/ Commit(new, rd, wr, p)
  BY <1>1 DEF zircon_check_enter_fastboot
<1>6. disk' \in AbrData /\ promise' \in PromiseType
  <2>1. CASE UNCHANGED <<disk, promise>>
    BY <2>1 DEF TypeOK, PromiseType
  <2>2. CASE Commit(new, rd, wr, p)
    <3> HIDE DEF new, p
    <3> QED BY <2>2, <1>3, <1>4, CommitType
  <2> QED BY <1>5, <2>1, <2>2
<1> QED BY <1>1, <1>6 DEF zircon_check_enter_fastboot, TypeOK, PromiseType

(* get_boot_slot(): the try it takes is there, so the byte does not wrap.   *)
LEMMA BootTypeOK ==
    ASSUME TypeOK, NEW rd \in Reads, LibraryBoot(rd)
    PROVE  TypeOK' /\ phase' = "os"
<1>1. \/ BootWithoutMetadata(rd)
      \/ BootOneShotRecovery(rd)
      \/ \E wr1 \in Writes, wr2 \in Writes : BootSlot(rd, wr1, wr2)
  BY DEF LibraryBoot
<1> DEFINE d == load_metadata(rd)
<1>2. d \in AbrData
  BY LoadType
<1>3. CASE BootWithoutMetadata(rd)
  BY <1>3 DEF BootWithoutMetadata, HandOff, TypeOK
<1>4. CASE BootOneShotRecovery(rd)
  <2>1. [d EXCEPT !.flags = @ \ {"recovery"}] \in AbrData
    <3> HIDE DEF d
    <3> QED BY <1>2 DEF AbrData
  <2>2. disk' \in AbrData
    BY <1>4, <2>1 DEF BootOneShotRecovery, save_metadata
  <2>3. promise' \in PromiseType
    BY <1>4 DEF BootOneShotRecovery, TypeOK, PromiseType
  <2> QED BY <1>4, <2>2, <2>3 DEF BootOneShotRecovery, HandOff, TypeOK, PromiseType
<1>5. ASSUME NEW wr1 \in Writes, NEW wr2 \in Writes, BootSlot(rd, wr1, wr2)
      PROVE  TypeOK' /\ phase' = "os"
  <2> DEFINE slot == get_active_slot(d)
             tried == "recovery" \in d.flags
             mid == IF tried THEN save_metadata(disk, d, wr1) ELSE disk
             new == boot_update(d, slot)
             kept == ~tried /\ unchanged(new, rd)
  <2>1. slot \in Slots \cup {"R"} /\ ~tries_underflow(d, slot)
    BY <1>2, ActiveSlotBootable
  <2>2. new \in AbrData
    BY <1>2, <2>1, BootUpdateType
  <2>3. mid \in AbrData
    BY <1>2, SaveType DEF TypeOK
  <2>4. /\ disk' = IF kept THEN mid ELSE save_metadata(mid, new, wr2)
        /\ HandOff(slot, slot # "R" /\ d.slots[slot].success = 1)
        /\ refreshed' = (refreshed \/ kept \/ wr2 = "ok")
    BY <1>5, <2>1 DEF BootSlot
  <2>5. disk' \in AbrData
    BY <2>2, <2>3, <2>4, SaveType
  <2>6. promise' \in PromiseType
    BY <1>5, BaseType DEF BootSlot, TypeOK, DefaultPromise, PromiseType, Slots, OneShots
  <2>7. proven' \in BOOLEAN /\ refreshed' \in BOOLEAN
    BY <2>4 DEF HandOff
  <2>8. phase' = "os" /\ booted' \in Slots \cup {"R"} /\ settled' = settled
    BY <2>1, <2>4 DEF HandOff
  <2> QED BY <2>5, <2>6, <2>7, <2>8 DEF TypeOK, PromiseType
<1> QED BY <1>1, <1>3, <1>4, <1>5 DEF BootWithoutMetadata, BootOneShotRecovery, HandOff

Safe == TypeOK /\ NoPanic

(* Every step keeps the metadata well formed, and none panics.              *)
LEMMA NextSafe == Safe /\ [Next]_vars => Safe'
<1> SUFFICES ASSUME Safe, [Next]_vars PROVE Safe'
  OBVIOUS
<1>1. CASE ClientCall
  <2>1. phase' = phase
    <3>1. \A s, rd, wr : mark_slot_active(s, rd, wr) => phase' = phase
      BY DEF mark_slot_active
    <3>2. \A s, rd, wr : mark_slot_unbootable(s, rd, wr) => phase' = phase
      BY DEF mark_slot_unbootable
    <3>3. \A s, rd, wr : mark_slot_successful(s, rd, wr) => phase' = phase
      BY DEF mark_slot_successful
    <3>4. \A f, e, rd, wr : set_one_shot(f, e, rd, wr) => phase' = phase
      BY DEF set_one_shot
    <3>5. \A rd, wr : get_and_clear_one_shot_flag(rd, wr) => phase' = phase
      BY DEF get_and_clear_one_shot_flag
    <3> QED BY <1>1, <3>1, <3>2, <3>3, <3>4, <3>5 DEF ClientCall
  <2> QED BY <1>1, <2>1, ClientTypeOK, CallsAreLibrary DEF Safe, NoPanic
<1>2. CASE CheckFastboot
  <2>1. phase' \in {"fastboot", "load"}
    BY <1>2 DEF CheckFastboot, zircon_check_enter_fastboot
  <2> QED BY <1>2, <2>1, CheckFastbootTypeOK, CallsAreLibrary DEF Safe, NoPanic
<1>3. CASE GetBootSlot
  BY <1>3, BootTypeOK, CallsAreLibrary DEF Safe, NoPanic
<1>4. CASE FastbootContinue
  BY <1>4 DEF FastbootContinue, Safe, TypeOK, NoPanic
<1>5. CASE Reset
  BY <1>5 DEF Reset, Safe, TypeOK, NoPanic
<1>6. CASE Settle
  BY <1>6 DEF Settle, Safe, TypeOK, NoPanic
<1>7. CASE UNCHANGED vars
  BY <1>7 DEF vars, Safe, TypeOK, NoPanic
<1> QED BY <1>1, <1>2, <1>3, <1>4, <1>5, <1>6, <1>7 DEF Next

(* Whatever bytes storage holds at first and however its reads and writes   *)
(* fail, the metadata stays well formed and get_boot_slot() never panics.   *)
THEOREM AbrSafe == Spec => [](TypeOK /\ NoPanic)
<1>1. Init => Safe
  BY InitTypeOK DEF Init, InitImage, Safe, NoPanic
<1>2. Safe <=> TypeOK /\ NoPanic
  BY DEF Safe
<1> QED BY <1>1, <1>2, NextSafe, PTL DEF Spec


-----------------------------------------------------------------------------
(***************************************************************************)
(* What callers were told against what storage holds.  A call of the       *)
(* library works on load_metadata(rd) and ends in Commit; so it is enough  *)
(* that the data it saves tells exactly what its caller is promised.       *)
(***************************************************************************)

(* What metadata d tells a later boot: the slot last marked active and the  *)
(* one-shot requests.                                                       *)
Told(d) ==
    [active |-> IF Least(d.slots["B"].priority, MaxPriority)
                     > Least(d.slots["A"].priority, MaxPriority) THEN "B" ELSE "A",
     owed   |-> d.flags]

(* At most one of the slots of d counts as successful once loaded.          *)
AtMostOne(d) ==
    ~(slot_normalize(d.slots["A"]).success = 1 /\ slot_normalize(d.slots["B"]).success = 1)

(* Loaded data: no success mark without priority, no priority over the limit.*)
Normal(d) == \A s \in Slots : /\ d.slots[s].success = 1 => d.slots[s].priority > 0
                              /\ d.slots[s].priority =< MaxPriority

HistoryInv ==
    /\ disk.kind = "valid" => promise = Told(disk)
    /\ disk.kind = "invalid" => promise = DefaultPromise
    /\ refreshed /\ disk.kind = "valid" => AtMostOne(disk)

(* Normalising a slot clamps its priority and never adds a success mark, so *)
(* doing it again on every load changes neither.                            *)
LEMMA NormalizeKeeps ==
    ASSUME NEW d \in AbrSlotData
    PROVE  /\ slot_normalize(d).priority = Least(d.priority, MaxPriority)
           /\ slot_normalize(d).success = 1 => d.success = 1
           /\ slot_normalize(d).success = 1 => slot_normalize(d).priority > 0
<1>1. CASE d.priority = 0
  <2>1. slot_normalize(d) = [d EXCEPT !.tries = 0, !.success = 0]
    BY <1>1 DEF slot_normalize, set_slot_unbootable
  <2>2. slot_normalize(d).priority = 0 /\ slot_normalize(d).success = 0
    BY <1>1, <2>1 DEF AbrSlotData
  <2> QED BY <1>1, <2>2, ConstantsAssumption DEF Least
<1>2. CASE d.priority # 0
  <2>1. /\ slot_normalize(d).priority = Least(d.priority, MaxPriority)
        /\ slot_normalize(d).success \in {0, d.success}
    BY <1>2 DEF slot_normalize
  <2> QED BY <1>2, <2>1, ConstantsAssumption DEF Least, AbrSlotData, Byte
<1> QED BY <1>1, <1>2

LEMMA DefaultTold == Told(default) = DefaultPromise /\ AtMostOne(default)
<1>1. default.slots["A"] \in AbrSlotData /\ default.slots["A"].success = 0
  BY DefaultType DEF default, AbrData, Slots
<1>2. AtMostOne(default)
  BY <1>1, NormalizeKeeps DEF AtMostOne
<1>3. /\ default.slots["A"].priority = MaxPriority
      /\ default.slots["B"].priority = MaxPriority - 1
      /\ default.flags = {}
  BY DEF default, Slots
<1>4. /\ Least(MaxPriority, MaxPriority) = MaxPriority
      /\ Least(MaxPriority - 1, MaxPriority) = MaxPriority - 1
      /\ ~(MaxPriority - 1 > MaxPriority)
  BY ConstantsAssumption DEF Least
<1>5. ~(Least(default.slots["B"].priority, MaxPriority) > Least(default.slots["A"].priority, MaxPriority))
  BY <1>3, <1>4
<1> QED BY <1>2, <1>3, <1>5 DEF Told, DefaultPromise

(* Every call starts from data that tells what its caller may rely on.      *)
LEMMA LoadTold ==
    ASSUME TypeOK, HistoryInv, NEW rd \in Reads
    PROVE  /\ Told(load_metadata(rd)) = base(rd)
           /\ refreshed => AtMostOne(load_metadata(rd))
           /\ Normal(load_metadata(rd))
<1> DEFINE raw == IF usable(rd) THEN disk ELSE default
           d == load_metadata(rd)
<1>1. raw \in AbrData
  BY DefaultType DEF TypeOK
<1>2. Told(raw) = base(rd) /\ (refreshed => AtMostOne(raw))
  BY DefaultTold DEF HistoryInv, usable, base
<1>3. d = [raw EXCEPT !.slots = [s \in Slots |-> slot_normalize(raw.slots[s])]]
  BY DEF load_metadata
<1> HIDE DEF raw, d
<1>4. /\ d.flags = raw.flags
      /\ \A s \in Slots : d.slots[s] = slot_normalize(raw.slots[s])
  BY <1>1, <1>3 DEF AbrData
<1>5. \A s \in Slots : raw.slots[s] \in AbrSlotData /\ d.slots[s] \in AbrSlotData
  BY <1>1, <1>4, NormalizeType DEF AbrData
<1>6. \A s \in Slots : /\ d.slots[s].priority = Least(raw.slots[s].priority, MaxPriority)
                       /\ d.slots[s].success = 1 => d.slots[s].priority > 0
                       /\ slot_normalize(d.slots[s]).success = 1 => d.slots[s].success = 1
  BY <1>4, <1>5, NormalizeKeeps
<1>7. \A s \in Slots : Least(d.slots[s].priority, MaxPriority) = Least(raw.slots[s].priority, MaxPriority)
                       /\ d.slots[s].priority =< MaxPriority
  BY <1>5, <1>6, ConstantsAssumption DEF Least, AbrSlotData, Byte
<1>8. Told(d) = Told(raw)
  BY <1>4, <1>7 DEF Told, Slots
<1>9. AtMostOne(raw) => AtMostOne(d)
  BY <1>4, <1>6 DEF AtMostOne, Slots
<1>10. Normal(d)
  BY <1>6, <1>7 DEF Normal
<1> QED BY <1>2, <1>8, <1>9, <1>10 DEF d

(* The end of a call: storage tells what the caller was promised, also when *)
(* the write is lost or tears the metadata.                                 *)
LEMMA CommitTold ==
    ASSUME TypeOK, HistoryInv, NEW rd \in Reads, NEW wr \in Writes,
           NEW d \in AbrData, d.kind = "valid", NEW p, p = Told(d), Commit(d, rd, wr, p),
           refreshed' => AtMostOne(d),
           refreshed' => refreshed \/ durable(d, rd, wr)
    PROVE  HistoryInv'
<1>1. CASE unchanged(d, rd)
  <2>1. disk' = disk /\ d = disk /\ promise' = p
    BY <1>1 DEF Commit, unchanged, save_metadata_if_changed, durable
  <2> QED BY <2>1 DEF HistoryInv
<1>2. CASE ~unchanged(d, rd) /\ wr = "ok"
  <2>1. disk' = d /\ promise' = p
    BY <1>2 DEF Commit, save_metadata_if_changed, save_metadata, durable
  <2> QED BY <2>1 DEF HistoryInv
<1>3. CASE ~unchanged(d, rd) /\ wr = "lost"
  <2>1. disk' = disk /\ promise' = promise /\ ~durable(d, rd, wr)
    BY <1>3 DEF Commit, save_metadata_if_changed, save_metadata, durable
  <2> QED BY <2>1 DEF HistoryInv
<1>4. CASE ~unchanged(d, rd) /\ wr = "torn"
  <2>1. disk' = Unreadable("invalid") /\ promise' = DefaultPromise
    BY <1>4 DEF Commit, save_metadata_if_changed, save_metadata, durable
  <2>2. disk'.kind = "invalid"
    BY <2>1 DEF Unreadable, default
  <2> QED BY <2>1, <2>2 DEF HistoryInv
<1> QED BY <1>1, <1>2, <1>3, <1>4 DEF Writes


(* A slot with other tries and another success byte keeps its priority.     *)
Marked(e, t, u) == [e EXCEPT !.tries = t, !.success = u]

LEMMA SlotExcept ==
    ASSUME NEW e \in AbrSlotData, NEW t \in Byte(MaxTries), NEW u \in Byte(1)
    PROVE  /\ Marked(e, t, u) \in AbrSlotData
           /\ Marked(e, t, u).priority = e.priority
           /\ Marked(e, t, u).success = u
BY DEF AbrSlotData, Marked

LEMMA BytesFit ==
    MaxTries \in Byte(MaxTries) /\ 0 \in Byte(MaxTries) /\ 0 \in Byte(1) /\ 1 \in Byte(1)
BY ConstantsAssumption DEF Byte

(* What each call makes of the data it loaded.                              *)
LEMMA MarkedActiveTold ==
    ASSUME NEW d \in AbrData, NEW s \in Slots
    PROVE  /\ Told(marked_active(d, s)) = [Told(d) EXCEPT !.active = s]
           /\ marked_active(d, s).kind = d.kind
           /\ AtMostOne(marked_active(d, s))
           /\ marked_active(d, s) \in AbrData
<1> DEFINE o == other(s)
           n == marked_active(d, s)
           fresh == [priority |-> MaxPriority, tries |-> MaxTries, success |-> 0]
           old == [d.slots[o] EXCEPT !.priority = Least(@, MaxPriority - 1)]
           slots == [d.slots EXCEPT ![s] = fresh, ![o].priority = Least(@, MaxPriority - 1)]
<1>1. o \in Slots /\ o # s /\ Slots = {s, o}
  BY DEF other, Slots
<1>2. d.slots[o] \in AbrSlotData /\ d.slots \in [Slots -> AbrSlotData]
  BY <1>1 DEF AbrData
<1>3. slots[s] = fresh /\ slots[o] = old /\ slots \in [Slots -> {fresh, old} \cup AbrSlotData]
  BY <1>1, <1>2
<1>4. fresh \in AbrSlotData /\ old \in AbrSlotData
  BY <1>2, ConstantsAssumption DEF AbrSlotData, Byte, Least
<1>5. old.priority =< MaxPriority - 1 /\ old.priority \in Nat
  BY <1>2, ConstantsAssumption DEF AbrSlotData, Byte, Least
<1>6. n = [d EXCEPT !.slots = slots]
  BY DEF marked_active
<1> HIDE DEF n, slots, fresh, old, o
<1>7. n.slots = slots /\ n.flags = d.flags /\ n.kind = d.kind /\ n \in AbrData
  BY <1>3, <1>4, <1>6 DEF AbrData
<1>8. /\ Least(n.slots[s].priority, MaxPriority) = MaxPriority
      /\ Least(n.slots[o].priority, MaxPriority) < MaxPriority
      /\ n.slots[s].success = 0
  BY <1>3, <1>5, <1>7, ConstantsAssumption DEF Least, fresh
<1>9. Told(n).active = s
  BY <1>1, <1>8, ConstantsAssumption, <1>5, <1>7, <1>3 DEF Told, Slots, Least
<1>10. Told(n) = [Told(d) EXCEPT !.active = s]
  BY <1>7, <1>9 DEF Told
<1>11. slot_normalize(n.slots[s]).success # 1
  BY <1>3, <1>4, <1>7, <1>8, NormalizeKeeps
<1>12. AtMostOne(n)
  BY <1>11 DEF AtMostOne, Slots
<1> QED BY <1>7, <1>10, <1>12 DEF n

LEMMA MarkedUnbootableTold ==
    ASSUME NEW d \in AbrData, NEW s \in Slots
    PROVE  /\ Told(marked_unbootable(d, s)) = Told(d)
           /\ marked_unbootable(d, s).kind = d.kind
           /\ AtMostOne(marked_unbootable(d, s)) 
           /\ marked_unbootable(d, s) \in AbrData
<1> DEFINE n == marked_unbootable(d, s)
           e == Marked(d.slots[s], 0, 0)
<1>1. d.slots[s] \in AbrSlotData /\ d.slots \in [Slots -> AbrSlotData]
  BY DEF AbrData
<1>2. e \in AbrSlotData /\ e.priority = d.slots[s].priority /\ e.success = 0
  BY <1>1, SlotExcept, BytesFit
<1>3. n = [d EXCEPT !.slots = [d.slots EXCEPT ![s] = e]]
  BY DEF marked_unbootable, set_slot_unbootable, Marked
<1> HIDE DEF n, e
<1>4. /\ n.slots = [d.slots EXCEPT ![s] = e] /\ n.flags = d.flags /\ n.kind = d.kind
      /\ n \in AbrData
  BY <1>1, <1>2, <1>3 DEF AbrData
<1>5. \A t \in Slots : n.slots[t].priority = d.slots[t].priority
  BY <1>1, <1>2, <1>4
<1>6. Told(n) = Told(d)
  BY <1>4, <1>5 DEF Told, Slots
<1>7. slot_normalize(n.slots[s]).success # 1
  BY <1>1, <1>2, <1>4, NormalizeKeeps
<1>8. AtMostOne(n)
  BY <1>7 DEF AtMostOne, Slots
<1> QED BY <1>4, <1>6, <1>8 DEF n

(* A slot that is not bootable has lost its success mark when it is loaded, *)
(* and a bootable one loses it here.                                        *)
LEMMA MarkedSuccessfulTold ==
    ASSUME NEW d \in AbrData, NEW s \in Slots,
           Normal(d)
    PROVE  /\ Told(marked_successful(d, s)) = Told(d)
           /\ marked_successful(d, s).kind = d.kind
           /\ AtMostOne(marked_successful(d, s))
           /\ marked_successful(d, s) \in AbrData
<1> DEFINE o == other(s)
           n == marked_successful(d, s)
           good == Marked(d.slots[s], 0, 1)
           old == IF is_slot_bootable(d.slots[o]) THEN Marked(d.slots[o], MaxTries, 0) ELSE d.slots[o]
           slots == [t \in Slots |-> IF t = s THEN good ELSE old]
<1>1. o \in Slots /\ o # s /\ Slots = {s, o}
  BY DEF other, Slots
<1>2. /\ d.slots[s] \in AbrSlotData /\ d.slots[o] \in AbrSlotData
      /\ d.slots \in [Slots -> AbrSlotData]
  BY <1>1 DEF AbrData
<1>3. good \in AbrSlotData /\ good.priority = d.slots[s].priority
  BY <1>2, SlotExcept, BytesFit
<1>4. old \in AbrSlotData /\ old.priority = d.slots[o].priority
  BY <1>2, SlotExcept, BytesFit
<1>5. old.success # 1
  <2>1. CASE is_slot_bootable(d.slots[o])
    BY <1>2, <2>1, SlotExcept, BytesFit
  <2>2. CASE ~is_slot_bootable(d.slots[o])
    BY <1>1, <1>2, <2>2 DEF Normal, is_slot_bootable, AbrSlotData, Byte
  <2> QED BY <2>1, <2>2
<1>6. n = [d EXCEPT !.slots = slots]
  <2>1. slots = [d.slots EXCEPT
                    ![s].tries = 0, ![s].success = 1,
                    ![o] = IF is_slot_bootable(@)
                           THEN [@ EXCEPT !.tries = MaxTries, !.success = 0] ELSE @]
    BY <1>1, <1>2 DEF Marked, AbrData, Slots, other
  <2> QED BY <2>1 DEF marked_successful
<1> HIDE DEF n, good, old, o
<1>7. n.slots = slots /\ n.flags = d.flags /\ n.kind = d.kind /\ n \in AbrData
  BY <1>3, <1>4, <1>6 DEF AbrData
<1>8. n.slots[s].priority = d.slots[s].priority /\ n.slots[o].priority = d.slots[o].priority
  BY <1>1, <1>3, <1>4, <1>7
<1>9. Told(n) = Told(d)
  <2>1. \A t \in Slots : n.slots[t].priority = d.slots[t].priority
    BY <1>1, <1>8
  <2> QED BY <1>7, <2>1 DEF Told, Slots
<1>10. slot_normalize(n.slots[o]).success # 1
  BY <1>1, <1>4, <1>5, <1>7, NormalizeKeeps
<1>11. AtMostOne(n)
  BY <1>1, <1>10 DEF AtMostOne, Slots
<1> QED BY <1>7, <1>9, <1>11 DEF n

LEMMA FlagsTold ==
    ASSUME NEW d \in AbrData, NEW f \in SUBSET OneShots
    PROVE  /\ Told([d EXCEPT !.flags = f]) = [Told(d) EXCEPT !.owed = f]
           /\ [d EXCEPT !.flags = f].kind = d.kind
           /\ AtMostOne([d EXCEPT !.flags = f]) <=> AtMostOne(d)
           /\ [d EXCEPT !.flags = f] \in AbrData
<1> DEFINE n == [d EXCEPT !.flags = f]
<1>1. n.slots = d.slots /\ n.flags = f /\ n.kind = d.kind /\ n \in AbrData
  BY DEF AbrData
<1> HIDE DEF n
<1>2. Told(n) = [Told(d) EXCEPT !.owed = f] /\ (AtMostOne(n) <=> AtMostOne(d))
  BY <1>1 DEF Told, AtMostOne
<1> QED BY <1>1, <1>2 DEF n

LEMMA BootUpdateTold ==
    ASSUME NEW d \in AbrData, NEW slot \in Slots \cup {"R"}, ~tries_underflow(d, slot)
    PROVE  Told(boot_update(d, slot)) = Told(d) /\ AtMostOne(boot_update(d, slot))
<1> DEFINE n == boot_update(d, slot)
<1>1. n \in AbrData
  BY BootUpdateType
<1>2. /\ n.flags = d.flags
      /\ \A s \in Slots : n.slots[s] =
            IF s = slot
            THEN IF d.slots[s].success = 1 THEN d.slots[s]
                 ELSE [d.slots[s] EXCEPT !.tries = @ - 1]
            ELSE IF d.slots[s].success = 1
                 THEN [d.slots[s] EXCEPT !.tries = MaxTries, !.success = 0]
                 ELSE d.slots[s]
  BY DEF boot_update, AbrData
<1>3. \A s \in Slots : d.slots[s] \in AbrSlotData /\ n.slots[s] \in AbrSlotData
  BY <1>1 DEF AbrData
<1> HIDE DEF n
<1>4. \A s \in Slots : /\ n.slots[s].priority = d.slots[s].priority
                       /\ s # slot => n.slots[s].success # 1
  <2> TAKE s \in Slots
  <2> DEFINE e == d.slots[s]
  <2>1. e \in AbrSlotData
    BY <1>3
  <2>2. [e EXCEPT !.tries = @ - 1].priority = e.priority
    BY <2>1 DEF AbrSlotData
  <2>3. Marked(e, MaxTries, 0).priority = e.priority /\ Marked(e, MaxTries, 0).success = 0
    BY <2>1, SlotExcept, BytesFit
  <2> HIDE DEF e
  <2>4. n.slots[s] = IF s = slot
                     THEN IF e.success = 1 THEN e ELSE [e EXCEPT !.tries = @ - 1]
                     ELSE IF e.success = 1 THEN Marked(e, MaxTries, 0) ELSE e
    BY <1>2 DEF e, Marked
  <2>5. n.slots[s].priority = e.priority /\ (s # slot => n.slots[s].success # 1)
    BY <2>2, <2>3, <2>4
  <2> QED BY <2>5 DEF e
<1>5. Told(n) = Told(d)
  BY <1>2, <1>4 DEF Told, Slots
<1>6. \A s \in Slots : s # slot => slot_normalize(n.slots[s]).success # 1
  BY <1>3, <1>4, NormalizeKeeps
<1>7. AtMostOne(n)
  BY <1>6 DEF AtMostOne, Slots
<1> QED BY <1>5, <1>7 DEF n

-----------------------------------------------------------------------------
(* The library calls of fastboot commands and of the running system.        *)
LEMMA ClientTold ==
    ASSUME TypeOK, HistoryInv, NEW rd \in Reads, NEW wr \in Writes, LibraryCall(rd, wr)
    PROVE  HistoryInv'
<1>1. \/ \E s \in Slots : \/ mark_slot_active(s, rd, wr)
                          \/ mark_slot_unbootable(s, rd, wr)
                          \/ mark_slot_successful(s, rd, wr)
      \/ \E f \in OneShots, e \in BOOLEAN : set_one_shot(f, e, rd, wr)
      \/ get_and_clear_one_shot_flag(rd, wr)
  BY DEF LibraryCall
<1> DEFINE d == load_metadata(rd)
<1>2. d \in AbrData /\ d.kind = "valid"
  BY LoadType
<1>3. /\ Told(d) = base(rd)
      /\ refreshed => AtMostOne(d)
      /\ Normal(d)
  BY LoadTold
<1>4. ASSUME NEW s \in Slots, mark_slot_active(s, rd, wr) PROVE HistoryInv'
  <2> DEFINE new == marked_active(d, s)
  <2>1. Commit(new, rd, wr, [base(rd) EXCEPT !.active = s]) /\ refreshed' = refreshed
    BY <1>4 DEF mark_slot_active
  <2>2. /\ new \in AbrData /\ new.kind = "valid" /\ AtMostOne(new)
        /\ [base(rd) EXCEPT !.active = s] = Told(new)
    BY <1>2, <1>3, MarkedActiveTold
  <2> HIDE DEF new, d
  <2> QED BY <2>1, <2>2, CommitTold
<1>5. ASSUME NEW s \in Slots, mark_slot_unbootable(s, rd, wr) PROVE HistoryInv'
  <2> DEFINE new == marked_unbootable(d, s)
  <2>1. Commit(new, rd, wr, base(rd)) /\ refreshed' = refreshed
    BY <1>5 DEF mark_slot_unbootable
  <2>2. new \in AbrData /\ new.kind = "valid" /\ AtMostOne(new) /\ base(rd) = Told(new)
    BY <1>2, <1>3, MarkedUnbootableTold
  <2> HIDE DEF new, d
  <2> QED BY <2>1, <2>2, CommitTold
<1>6. ASSUME NEW s \in Slots, mark_slot_successful(s, rd, wr) PROVE HistoryInv'
  <2> DEFINE new == marked_successful(d, s)
  <2>1. Commit(new, rd, wr, base(rd)) /\ refreshed' = (refreshed \/ durable(new, rd, wr))
    BY <1>6 DEF mark_slot_successful
  <2>2. new \in AbrData /\ new.kind = "valid" /\ AtMostOne(new) /\ base(rd) = Told(new)
    BY <1>2, <1>3, MarkedSuccessfulTold
  <2> HIDE DEF new, d
  <2> QED BY <2>1, <2>2, CommitTold
<1>7. ASSUME NEW f \in OneShots, NEW e \in BOOLEAN, set_one_shot(f, e, rd, wr) PROVE HistoryInv'
  <2> DEFINE flags == with_one_shot(d.flags, f, e)
             new == [d EXCEPT !.flags = flags]
             p == [base(rd) EXCEPT !.owed = with_one_shot(@, f, e)]
  <2>1. Commit(new, rd, wr, p) /\ refreshed' = refreshed
    BY <1>7 DEF set_one_shot
  <2>2. base(rd).owed = d.flags
    BY <1>3 DEF Told
  <2>3. flags \in SUBSET OneShots
    BY <1>2 DEF AbrData, with_one_shot
  <2>4. /\ new \in AbrData /\ new.kind = "valid" /\ (AtMostOne(new) <=> AtMostOne(d))
        /\ Told(new) = [Told(d) EXCEPT !.owed = flags]
    BY <1>2, <2>3, FlagsTold
  <2>5. p = Told(new)
    BY <1>3, <2>2, <2>4
  <2> HIDE DEF new, d, p
  <2> QED BY <1>3, <2>1, <2>4, <2>5, CommitTold
<1>8. ASSUME get_and_clear_one_shot_flag(rd, wr) PROVE HistoryInv'
  <2> DEFINE new == [d EXCEPT !.flags = {}]
             p == [base(rd) EXCEPT !.owed = {}]
  <2>1. Commit(new, rd, wr, p) /\ refreshed' = refreshed
    BY <1>8 DEF get_and_clear_one_shot_flag
  <2>2. /\ new \in AbrData /\ new.kind = "valid" /\ (AtMostOne(new) <=> AtMostOne(d))
        /\ p = Told(new)
    BY <1>2, <1>3, FlagsTold
  <2> HIDE DEF new, d, p
  <2> QED BY <1>3, <2>1, <2>2, CommitTold
<1> QED BY <1>1, <1>4, <1>5, <1>6, <1>7, <1>8

LEMMA CheckFastbootTold ==
    ASSUME TypeOK, HistoryInv, NEW rd \in Reads, NEW wr \in Writes, LibraryCheck(rd, wr)
    PROVE  HistoryInv'
<1>1. PICK t \in BOOLEAN : zircon_check_enter_fastboot(rd, wr, t)
  BY DEF LibraryCheck
<1> DEFINE d == load_metadata(rd)
           flags == d.flags \ {"bootloader"}
           new == [d EXCEPT !.flags = flags]
           p == [base(rd) EXCEPT !.owed = @ \ {"bootloader"}]
<1>2. /\ UNCHANGED <<disk, promise>> \/ Commit(new, rd, wr, p)
      /\ refreshed' = refreshed
  BY <1>1 DEF zircon_check_enter_fastboot
<1>3. d \in AbrData /\ d.kind = "valid" /\ Told(d) = base(rd) /\ (refreshed => AtMostOne(d))
  BY LoadType, LoadTold
<1>4. flags \in SUBSET OneShots /\ base(rd).owed = d.flags
  BY <1>3 DEF AbrData, Told
<1>5. /\ new \in AbrData /\ new.kind = "valid" /\ (AtMostOne(new) <=> AtMostOne(d))
      /\ Told(new) = [Told(d) EXCEPT !.owed = flags]
  BY <1>3, <1>4, FlagsTold
<1>6. p = Told(new)
  BY <1>3, <1>4, <1>5
<1> HIDE DEF new, d, p
<1>7. CASE UNCHANGED <<disk, promise>>
  BY <1>2, <1>7 DEF HistoryInv, Told, AtMostOne
<1>8. CASE Commit(new, rd, wr, p)
  BY <1>2, <1>3, <1>5, <1>6, <1>8, CommitTold
<1> QED BY <1>2, <1>7, <1>8

(* get_boot_slot(): a one-shot request is read only from metadata that is   *)
(* usable, so the promise it was made under is the one on storage.          *)
LEMMA BootTold ==
    ASSUME TypeOK, HistoryInv, NEW rd \in Reads, LibraryBoot(rd)
    PROVE  HistoryInv'
<1>1. \/ BootWithoutMetadata(rd)
      \/ BootOneShotRecovery(rd)
      \/ \E wr1 \in Writes, wr2 \in Writes : BootSlot(rd, wr1, wr2)
  BY DEF LibraryBoot
<1> DEFINE d == load_metadata(rd)
<1>2. d \in AbrData /\ d.kind = "valid" /\ Told(d) = base(rd) /\ (refreshed => AtMostOne(d))
  BY LoadType, LoadTold
<1>3. CASE BootWithoutMetadata(rd)
  BY <1>3 DEF BootWithoutMetadata, HistoryInv
<1>4. CASE BootOneShotRecovery(rd)
  <2> DEFINE flags == d.flags \ {"recovery"}
             new == [d EXCEPT !.flags = flags]
  <2>1. /\ disk' = new /\ "recovery" \in d.flags
        /\ promise' = [promise EXCEPT !.owed = @ \ {"recovery"}] /\ refreshed' = refreshed
    BY <1>4 DEF BootOneShotRecovery, save_metadata
  <2>2. base(rd).owed = d.flags
    BY <1>2 DEF Told
  <2>3. base(rd) = promise
    BY <2>1, <2>2 DEF base, DefaultPromise
  <2>4. flags \in SUBSET OneShots
    BY <1>2 DEF AbrData
  <2>5. /\ new.kind = "valid" /\ (AtMostOne(new) <=> AtMostOne(d))
        /\ Told(new) = [Told(d) EXCEPT !.owed = flags]
    BY <1>2, <2>4, FlagsTold
  <2>6. promise' = Told(new)
    BY <1>2, <2>1, <2>2, <2>3, <2>5
  <2> HIDE DEF new, d
  <2> QED BY <1>2, <2>1, <2>5, <2>6 DEF HistoryInv
<1>5. ASSUME NEW wr1 \in Writes, NEW wr2 \in Writes, BootSlot(rd, wr1, wr2)
      PROVE  HistoryInv'
  <2> DEFINE slot == get_active_slot(d)
             tried == "recovery" \in d.flags
             mid == IF tried THEN save_metadata(disk, d, wr1) ELSE disk
             new == boot_update(d, slot)
             kept == ~tried /\ unchanged(new, rd)
  <2>1. slot \in Slots \cup {"R"} /\ ~tries_underflow(d, slot)
    BY <1>2, ActiveSlotBootable
  <2>2. new \in AbrData /\ new.kind = "valid" /\ Told(new) = base(rd) /\ AtMostOne(new)
    BY <1>2, <2>1, BootUpdateType, BootUpdateTold
  <2>3. /\ disk' = IF kept THEN mid ELSE save_metadata(mid, new, wr2)
        /\ refreshed' = (refreshed \/ kept \/ wr2 = "ok")
        /\ promise' = IF ~kept /\ wr2 = "ok" THEN base(rd)
                      ELSE IF (~kept /\ wr2 = "torn") \/ wr1 = "torn"
                           THEN DefaultPromise ELSE promise
        /\ IF tried THEN wr1 # "ok" ELSE wr1 = "ok"
    BY <1>5, <2>1 DEF BootSlot
  <2> HIDE DEF d, slot, new
  <2>4. mid = IF wr1 = "torn" THEN Unreadable("invalid") ELSE disk
    BY <2>3 DEF save_metadata, Writes
  <2>5. Unreadable("invalid").kind = "invalid"
    BY DEF Unreadable, default
  <2>6. CASE kept
    <3>1. disk' = disk /\ new = disk /\ promise' = promise
      BY <2>3, <2>4, <2>6 DEF unchanged
    <3> QED BY <3>1, <2>2 DEF HistoryInv
  <2> HIDE DEF mid, kept
  <2>7. CASE ~kept /\ wr2 = "ok"
    <3>1. disk' = new /\ promise' = base(rd)
      BY <2>3, <2>7 DEF save_metadata
    <3> QED BY <2>2, <3>1 DEF HistoryInv
  <2>8. CASE ~kept /\ wr2 = "torn"
    <3>1. disk' = Unreadable("invalid") /\ promise' = DefaultPromise
      BY <2>3, <2>8 DEF save_metadata
    <3> QED BY <2>5, <3>1 DEF HistoryInv
  <2>9. CASE ~kept /\ wr2 = "lost"
    <3>1. disk' = mid /\ (refreshed' <=> refreshed)
      BY <2>3, <2>9 DEF save_metadata
    <3>2. CASE wr1 = "torn"
      BY <2>3, <2>4, <2>5, <2>9, <3>1, <3>2 DEF HistoryInv
    <3>3. CASE wr1 # "torn"
      <4>1. disk' = disk /\ promise' = promise /\ (refreshed' <=> refreshed)
        BY <2>3, <2>4, <2>9, <3>1, <3>3
      <4> QED BY <4>1 DEF HistoryInv
    <3> QED BY <3>2, <3>3
  <2> QED BY <2>6, <2>7, <2>8, <2>9 DEF Writes
<1> QED BY <1>1, <1>3, <1>4, <1>5

Inv == TypeOK /\ HistoryInv

LEMMA InitInv == Init => Inv
<1> SUFFICES ASSUME Init PROVE HistoryInv
  BY InitTypeOK DEF Inv
<1>1. PICK d \in AbrData : InitImage(d)
  BY DEF Init
<1>2. d.slots["A"] \in AbrSlotData /\ d.slots["B"] \in AbrSlotData
  BY DEF AbrData, Slots
<1>3. d.kind = "valid" => promise = Told(d)
  <2> DEFINE q(s) == slot_normalize(d.slots[s]).priority
             l(s) == Least(d.slots[s].priority, MaxPriority)
  <2>1. q("A") = l("A") /\ q("B") = l("B")
    BY <1>2, NormalizeKeeps
  <2>2. d.kind = "valid" => promise = [active |-> IF q("B") > q("A") THEN "B" ELSE "A",
                                       owed |-> d.flags]
    BY <1>1 DEF InitImage
  <2>3. Told(d) = [active |-> IF l("B") > l("A") THEN "B" ELSE "A", owed |-> d.flags]
    BY DEF Told
  <2> HIDE DEF q, l
  <2> QED BY <2>1, <2>2, <2>3
<1> QED BY <1>1, <1>3 DEF InitImage, HistoryInv

LEMMA NextInv == Inv /\ [Next]_vars => Inv'
<1> SUFFICES ASSUME Inv, [Next]_vars PROVE Inv'
  OBVIOUS
<1>1. CASE ClientCall
  BY <1>1, ClientTypeOK, ClientTold, CallsAreLibrary DEF Inv
<1>2. CASE CheckFastboot
  BY <1>2, CheckFastbootTypeOK, CheckFastbootTold, CallsAreLibrary DEF Inv
<1>3. CASE GetBootSlot
  BY <1>3, BootTypeOK, BootTold, CallsAreLibrary DEF Inv
<1>4. CASE FastbootContinue \/ Reset \/ Settle \/ UNCHANGED vars
  <2>1. UNCHANGED <<disk, promise, refreshed>>
    BY <1>4 DEF FastbootContinue, Reset, Settle, vars
  <2>2. TypeOK'
    BY <1>4 DEF FastbootContinue, Reset, Settle, vars, Inv, TypeOK
  <2> QED BY <2>1, <2>2 DEF Inv, HistoryInv
<1> QED BY <1>1, <1>2, <1>3, <1>4 DEF Next

(* The slot with the higher priority (A on a tie) is the one to boot when   *)
(* it is bootable: an unbootable slot competes with priority 0.             *)
LEMMA LastMarkedBoots ==
    ASSUME NEW d \in AbrData, is_slot_bootable(d.slots[last_marked_active(d)])
    PROVE  get_active_slot(d) = last_marked_active(d)
<1>1. d.slots["A"] \in AbrSlotData /\ d.slots["B"] \in AbrSlotData
  BY DEF AbrData, Slots
<1> DEFINE a == d.slots["A"]
           b == d.slots["B"]
<1>2. a.priority \in Nat /\ b.priority \in Nat
  BY <1>1, ConstantsAssumption DEF AbrSlotData, Byte
<1>3. CASE b.priority > a.priority
  <2>1. is_slot_bootable(b)
    BY <1>3 DEF last_marked_active
  <2> QED BY <1>2, <1>3, <2>1 DEF last_marked_active, get_active_slot, get_normalized_priority
<1>4. CASE ~(b.priority > a.priority)
  <2>1. is_slot_bootable(a)
    BY <1>4 DEF last_marked_active
  <2>2. a.priority > 0
    BY <2>1 DEF is_slot_bootable
  <2> QED BY <1>2, <1>4, <2>1, <2>2
            DEF last_marked_active, get_active_slot, get_normalized_priority
<1> QED BY <1>3, <1>4

(* What the invariant says of the data a caller would load.                 *)
ActiveTold == disk.kind # "newer" => last_marked_active(Image) = promise.active

LEMMA InvTells == Inv => ActiveTold /\ MarkedActiveBoots /\ OneShotExact /\ AtMostOneSuccessful
<1> SUFFICES ASSUME Inv PROVE ActiveTold /\ MarkedActiveBoots /\ OneShotExact /\ AtMostOneSuccessful
  OBVIOUS
<1>1. /\ Told(Image) = base("ok")
      /\ Image \in AbrData
      /\ Normal(Image)
  <2>1. TypeOK /\ HistoryInv /\ "ok" \in Reads
    BY DEF Inv, Reads
  <2>2. Image \in AbrData
    BY <2>1, LoadType DEF Image
  <2>3. Told(load_metadata("ok")) = base("ok")
    BY <2>1, LoadTold
  <2>4. Normal(load_metadata("ok"))
    BY <2>1, LoadTold
  <2> QED BY <2>2, <2>3, <2>4 DEF Image
<1>2. disk.kind # "newer" => base("ok") = promise
  BY DEF Inv, TypeOK, AbrData, HistoryInv, base, usable
<1>3. last_marked_active(Image) = Told(Image).active
  <2>1. \A s \in Slots : Least(Image.slots[s].priority, MaxPriority) = Image.slots[s].priority
    BY <1>1, ConstantsAssumption DEF Normal, AbrData, AbrSlotData, Byte, Least
  <2> QED BY <2>1 DEF last_marked_active, Told, Slots
<1>4. Told(Image).owed = Image.flags
  BY DEF Told
<1>5. AtMostOneSuccessful
  <2> DEFINE S == {s \in Slots : slot_state(Image.slots[s]) = "Successful"}
  <2> SUFFICES ASSUME refreshed, disk.kind = "valid" PROVE Cardinality(S) =< 1
    BY DEF AtMostOneSuccessful
  <2>1. \A s \in Slots : Image.slots[s] = slot_normalize(disk.slots[s])
    BY DEF Image, load_metadata, usable, Inv, TypeOK, AbrData
  <2>2. ~("A" \in S /\ "B" \in S)
    BY <2>1 DEF Inv, HistoryInv, AtMostOne, slot_state, Slots
  <2>3. S = {} \/ S = {"A"} \/ S = {"B"}
    BY <2>2 DEF Slots
  <2>4. Cardinality({}) = 0 /\ Cardinality({"A"}) = 1 /\ Cardinality({"B"}) = 1
    BY FS_EmptySet, FS_Singleton
  <2> QED BY <2>3, <2>4
<1>6. MarkedActiveBoots
  <2> SUFFICES ASSUME disk.kind # "newer", is_slot_bootable(Image.slots[promise.active])
               PROVE  get_active_slot(Image) = promise.active
    BY DEF MarkedActiveBoots
  <2>1. promise.active = last_marked_active(Image)
    BY <1>1, <1>2, <1>3
  <2> QED BY <1>1, <2>1, LastMarkedBoots
<1> QED BY <1>1, <1>2, <1>3, <1>4, <1>5, <1>6 DEF ActiveTold, OneShotExact

LEMMA AlwaysInv == Spec => []Inv
BY InitInv, NextInv, PTL DEF Spec

(* Across failed and torn writes, read errors and resets, in any order, the *)
(* slot last marked active is the one get_boot_slot() chooses, for as long  *)
(* as it is bootable.                                                       *)
THEOREM AbrActiveMark == Spec => []MarkedActiveBoots
BY AlwaysInv, InvTells, PTL

(* The one-shot requests on storage are exactly those that were neither     *)
(* honoured nor withdrawn, also when the write that clears one fails.       *)
THEOREM AbrOneShots == Spec => []OneShotExact
BY AlwaysInv, InvTells, PTL

(* After a boot or a success mark was recorded at most one slot is known    *)
(* successful, whatever success bytes storage held at first.                *)
THEOREM AbrOneSuccessful == Spec => []AtMostOneSuccessful
BY AlwaysInv, InvTells, PTL

-----------------------------------------------------------------------------
(* The boot flow and the C interface.                                       *)
FuchsiaType ==
    /\ part \in [AllSlots -> Images] /\ stored \in [Rollbacks -> Nat]
    /\ lock \in {"locked", "unlocked", "missing"} /\ host \in Hosts
    /\ step \in {"none", "load", "verify", "raise", "run", "failed"}
    /\ kernel \in Images \cup {NoImage} /\ verified \in BOOLEAN /\ todo \subseteq Rollbacks

(* GBL and other firmware do not share a device; GBL calls no C function.   *)
HostInv ==
    /\ Firmware => step = "none" /\ stored = [l \in Rollbacks |-> 0]
    /\ ~Firmware => reply = NoReply

(* The boot flow works on the slot that was chosen, whose image nobody      *)
(* replaces before it runs.                                                 *)
FlowInv ==
    /\ step # "none" => phase = "os" /\ booted \in AllSlots
    /\ step \in {"verify", "raise", "run"} => kernel = part[booted]
    /\ step \in {"load", "verify", "raise"} /\ proven => part[booted] \in vouched

(* Indexes are raised only to the versions of a verified, proven image.     *)
RaiseInv ==
    step = "raise" =>
        /\ todo # {} => verified /\ kernel \in vouched
        /\ \A l \in todo \cap KeyLocations : key_versions[l] = kernel.version[l]

(* The slots the metadata on storage calls successful.                      *)
Successes(d) == {s \in Slots : d.kind = "valid" /\ d.slots[s].success = 1}

(* They hold images the mark stands for.                                    *)
SuccessVouched == ~Firmware => \A s \in Successes(disk) : part[s] \in vouched

FInv ==
    /\ Inv /\ NoPanic /\ FuchsiaType /\ HostInv /\ FlowInv /\ RaiseInv /\ SuccessVouched
    /\ RunsVerified /\ RollbackVouched /\ RepliesTruthful

-----------------------------------------------------------------------------
(* Every step of the device is, for the library, one of its calls or none.  *)
LibStep ==
    \/ \E rd \in Reads, wr \in Writes : LibraryCall(rd, wr) \/ LibraryCheck(rd, wr)
    \/ \E rd \in Reads : LibraryBoot(rd)
    \/ /\ UNCHANGED <<disk, promise, refreshed, settled>>
       /\ phase' \in {"reset", "load", "fastboot", phase}
       /\ UNCHANGED <<booted, proven>> \/ (booted' = "none" /\ proven' = FALSE)

LEMMA CallKeepsPhase ==
    ASSUME NEW rd, NEW wr, LibraryCall(rd, wr)
    PROVE  UNCHANGED <<phase, booted, proven, settled>>
BY DEF LibraryCall, mark_slot_active, mark_slot_unbootable, mark_slot_successful, set_one_shot,
       get_and_clear_one_shot_flag

LEMMA LibStepInv ==
    ASSUME Inv, NoPanic, LibStep
    PROVE  Inv' /\ NoPanic'
<1>1. ASSUME NEW rd \in Reads, NEW wr \in Writes, LibraryCall(rd, wr) PROVE Inv' /\ NoPanic'
  BY <1>1, ClientTypeOK, ClientTold, CallKeepsPhase DEF Inv, NoPanic
<1>2. ASSUME NEW rd \in Reads, NEW wr \in Writes, LibraryCheck(rd, wr) PROVE Inv' /\ NoPanic'
  <2>1. phase' \in {"fastboot", "load"}
    BY <1>2 DEF LibraryCheck, zircon_check_enter_fastboot
  <2> QED BY <1>2, <2>1, CheckFastbootTypeOK, CheckFastbootTold DEF Inv, NoPanic
<1>3. ASSUME NEW rd \in Reads, LibraryBoot(rd) PROVE Inv' /\ NoPanic'
  BY <1>3, BootTypeOK, BootTold DEF Inv, NoPanic
<1>4. CASE /\ UNCHANGED <<disk, promise, refreshed, settled>>
           /\ phase' \in {"reset", "load", "fastboot", phase}
           /\ UNCHANGED <<booted, proven>> \/ (booted' = "none" /\ proven' = FALSE)
  BY <1>4 DEF Inv, TypeOK, HistoryInv, NoPanic
<1> QED BY <1>1, <1>2, <1>3, <1>4 DEF LibStep

LEMMA AbrTypes ==
    /\ AbrReading \subseteq Reads /\ AbrWriting \subseteq Writes
    /\ write_abr_metadata \subseteq Writes
    /\ \A done \in BOOLEAN : read_abr_metadata(done) \in Reads
BY ConstantsAssumption
   DEF AbrReading, AbrWriting, Reading, Writing, Reads, Writes, write_abr_metadata, read_abr_metadata

LEMMA FirmwareIsLib ==
    ASSUME FirmwareNext
    PROVE  LibStep
<1>1. ASSUME NEW rd \in Reads, NEW wr \in Writes, FirmwareCall(rd, wr)
      PROVE  LibraryCall(rd, wr) \/ UNCHANGED vars
  BY <1>1 DEF FirmwareCall, AbrMarkSlotActive, AbrMarkSlotUnbootable, AbrMarkSlotSuccessful,
              AbrSetOneShot, AbrGetAndClearOneShotFlags, Refuse, LibraryCall
<1>2. ASSUME NEW rd \in Reads, FirmwareQuery(rd)
      PROVE  UNCHANGED vars
  BY <1>2 DEF FirmwareQuery, AbrGetSlotInfo, AbrGetSlotLastMarkedActive, AbrPeekBootSlot, Refuse
<1>3. ASSUME NEW rd \in Reads, AbrGetBootSlot(rd, write_abr_metadata)
      PROVE  LibraryBoot(rd)
  <2>1. write_abr_metadata \cup {"ok"} \subseteq Writes
    BY AbrTypes DEF Writes
  <2> QED BY <1>3, <2>1 DEF AbrGetBootSlot, LibraryBoot
<1>4. CASE UNCHANGED vars
  BY <1>4 DEF vars, LibStep
<1>5. CASE PowerOn \/ FastbootContinue \/ Reset
  BY <1>5 DEF PowerOn, FastbootContinue, Reset, LibStep
<1>6. CASE Return
  BY <1>4, <1>6 DEF Return
<1>7. CASE \E done \in BOOLEAN : LET rd == read_abr_metadata(done) IN
                \/ \E wr \in write_abr_metadata : FirmwareCall(rd, wr)
                \/ FirmwareQuery(rd)
                \/ AbrGetBootSlot(rd, write_abr_metadata)
  <2>1. PICK rd \in Reads : \/ \E wr \in Writes : FirmwareCall(rd, wr)
                            \/ FirmwareQuery(rd)
                            \/ AbrGetBootSlot(rd, write_abr_metadata)
    BY <1>7, AbrTypes
  <2> QED BY <1>1, <1>2, <1>3, <1>4, <2>1 DEF LibStep
<1> QED BY <1>5, <1>6, <1>7 DEF FirmwareNext

LEMMA GblIsLib ==
    ASSUME GblNext
    PROVE  LibStep
<1>1. CASE GblCheckFastboot
  BY <1>1, AbrTypes DEF GblCheckFastboot, LibStep, LibraryCheck
<1>2. CASE FastbootContinue \/ GblReset
  BY <1>2 DEF FastbootContinue, GblReset, Reset, LibStep
<1>3. CASE zircon_load_verify_abr
  <2>1. AbrWriting \cup {"ok"} \subseteq Writes
    BY AbrTypes DEF Writes
  <2>2. PICK rd \in Reads : LibraryBoot(rd)
    BY <1>3, <2>1, AbrTypes DEF zircon_load_verify_abr, LibraryBoot
  <2> QED BY <2>2 DEF LibStep
<1>4. CASE UNCHANGED vars
  BY <1>4 DEF vars, LibStep
<1>5. ASSUME NEW io \in BOOLEAN,
             \/ zircon_load_verify(io)
             \/ \E readable \in BOOLEAN : zircon_verify_kernel(io, readable)
             \/ \E l \in Rollbacks : write_rollback_index(l, io)
             \/ \E staged \in BOOLEAN : append_zbi_items(io, staged)
      PROVE  LibStep
  BY <1>4, <1>5 DEF zircon_load_verify, zircon_verify_kernel, write_rollback_index,
                    append_zbi_items, Started
<1>6. CASE SystemCall
  BY <1>6, AbrTypes DEF SystemCall, LibStep, LibraryCall
<1>7. CASE MarkSelfSuccessful
  BY <1>7, AbrTypes DEF MarkSelfSuccessful, LibStep, LibraryCall
<1>8. ASSUME NEW s, NEW i, Update(s, i) PROVE LibStep
  BY <1>4, <1>8 DEF Update
<1>9. ASSUME NEW l, SetLock(l) PROVE LibStep
  BY <1>4, <1>9 DEF SetLock
<1>10. ASSUME NEW s, NEW i, flash(s, i) PROVE LibStep
  BY <1>4, <1>10 DEF flash
<1> QED BY <1>1, <1>2, <1>3, <1>5, <1>6, <1>7, <1>8, <1>9, <1>10 DEF GblNext

-----------------------------------------------------------------------------
(* No call but the mark itself makes a slot successful.                     *)
LEMMA LoadSuccess ==
    ASSUME TypeOK, NEW rd \in Reads
    PROVE  Successes(load_metadata(rd)) \subseteq Successes(disk)
<1> DEFINE raw == IF usable(rd) THEN disk ELSE default
           d == load_metadata(rd)
<1>1. raw \in AbrData
  BY DefaultType DEF TypeOK
<1>2. d = [raw EXCEPT !.slots = [s \in Slots |-> slot_normalize(raw.slots[s])]]
  BY DEF load_metadata
<1>3. \A s \in Slots : default.slots[s].success = 0
  BY DEF default
<1>4. usable(rd) => disk.kind = "valid"
  BY DEF usable
<1>5. \A s \in Slots : raw.slots[s].success = 1 => disk.kind = "valid" /\ disk.slots[s].success = 1
  BY <1>3, <1>4
<1> HIDE DEF raw, d
<1>6. \A s \in Slots : d.slots[s] = slot_normalize(raw.slots[s]) /\ raw.slots[s] \in AbrSlotData
  BY <1>1, <1>2 DEF AbrData
<1>7. \A s \in Slots : d.slots[s].success = 1 => raw.slots[s].success = 1
  BY <1>6, NormalizeKeeps
<1> QED BY <1>5, <1>7 DEF d, Successes

LEMMA CommitSuccess ==
    ASSUME NEW d, NEW rd, NEW wr \in Writes, NEW p, Commit(d, rd, wr, p)
    PROVE  Successes(disk') \subseteq Successes(disk) \cup Successes(d)
<1>1. disk' \in {disk, d, Unreadable("invalid")}
  BY DEF Commit, save_metadata_if_changed, save_metadata, Writes
<1>2. Unreadable("invalid").kind = "invalid"
  BY DEF Unreadable, default
<1>3. Successes(Unreadable("invalid")) = {}
  BY <1>2 DEF Successes
<1> QED BY <1>1, <1>3

LEMMA MarkedSuccess ==
    ASSUME NEW d \in AbrData, NEW s \in Slots
    PROVE  /\ Successes(marked_active(d, s)) \subseteq Successes(d)
           /\ Successes(marked_unbootable(d, s)) \subseteq Successes(d)
           /\ Successes(marked_successful(d, s)) \subseteq Successes(d) \cup {s}
<1>1. other(s) \in Slots /\ other(s) # s /\ \A t \in Slots : t # s => t = other(s)
  BY DEF other, Slots
<1>2. d.slots[s] \in AbrSlotData /\ d.slots[other(s)] \in AbrSlotData /\ d.slots \in [Slots -> AbrSlotData]
  BY <1>1 DEF AbrData
<1>3. /\ marked_active(d, s).kind = d.kind
      /\ marked_active(d, s).slots[s].success = 0
      /\ marked_active(d, s).slots[other(s)].success = d.slots[other(s)].success
  <2> DEFINE o == other(s)
             fresh == [priority |-> MaxPriority, tries |-> MaxTries, success |-> 0]
             old == [d.slots[o] EXCEPT !.priority = Least(@, MaxPriority - 1)]
             new == [d.slots EXCEPT ![s] = fresh, ![o].priority = Least(@, MaxPriority - 1)]
  <2>1. marked_active(d, s) = [d EXCEPT !.slots = new]
    BY DEF marked_active
  <2>2. old.success = d.slots[o].success /\ fresh.success = 0
    BY <1>2 DEF AbrSlotData
  <2>3. new[s] = fresh /\ new[o] = old
    BY <1>1, <1>2
  <2>4. /\ [d EXCEPT !.slots = new].slots = new
        /\ [d EXCEPT !.slots = new].kind = d.kind
    BY DEF AbrData
  <2> HIDE DEF new, fresh, old
  <2> QED BY <2>1, <2>2, <2>3, <2>4
<1>4. /\ marked_unbootable(d, s).kind = d.kind
      /\ marked_unbootable(d, s).slots[s].success = 0
      /\ marked_unbootable(d, s).slots[other(s)] = d.slots[other(s)]
  <2>1. set_slot_unbootable(d.slots[s]).success = 0
    BY <1>2 DEF set_slot_unbootable, AbrSlotData
  <2> HIDE DEF set_slot_unbootable
  <2> QED BY <1>1, <1>2, <2>1 DEF marked_unbootable, AbrData
<1>5. /\ marked_successful(d, s).kind = d.kind
      /\ marked_successful(d, s).slots[other(s)].success = 1 => d.slots[other(s)].success = 1
  <2> DEFINE o == other(s)
             e == d.slots[o]
             q == [e EXCEPT !.tries = MaxTries, !.success = 0]
             new == [d.slots EXCEPT
                       ![s].tries = 0, ![s].success = 1,
                       ![o] = IF is_slot_bootable(@)
                              THEN [@ EXCEPT !.tries = MaxTries, !.success = 0] ELSE @]
  <2>1. marked_successful(d, s) = [d EXCEPT !.slots = new]
    BY DEF marked_successful
  <2>2. new[o] = IF is_slot_bootable(e) THEN q ELSE e
    BY <1>1, <1>2
  <2>3. q.success = 0
    BY <1>2 DEF AbrSlotData
  <2>4. /\ [d EXCEPT !.slots = new].slots = new
        /\ [d EXCEPT !.slots = new].kind = d.kind
    BY DEF AbrData
  <2> HIDE DEF new, q
  <2> QED BY <2>1, <2>2, <2>3, <2>4
<1>6. \A n : n.kind = d.kind /\ n.slots[s].success = 0
               /\ n.slots[other(s)].success = d.slots[other(s)].success => Successes(n) \subseteq Successes(d)
  BY <1>1 DEF Successes
<1>7. Successes(marked_active(d, s)) \subseteq Successes(d)
  BY <1>3, <1>6
<1>8. Successes(marked_unbootable(d, s)) \subseteq Successes(d)
  BY <1>4, <1>6
<1>9. Successes(marked_successful(d, s)) \subseteq Successes(d) \cup {s}
  BY <1>1, <1>5 DEF Successes
<1> QED BY <1>7, <1>8, <1>9

LEMMA FlagsSuccess ==
    ASSUME NEW d \in AbrData, NEW f
    PROVE  Successes([d EXCEPT !.flags = f]) = Successes(d)
BY DEF Successes, AbrData

LEMMA BootSuccess ==
    ASSUME NEW d \in AbrData, NEW slot
    PROVE  Successes(boot_update(d, slot)) \subseteq Successes(d)
<1> DEFINE n == boot_update(d, slot)
           tried(s) == [d.slots[s] EXCEPT !.tries = @ - 1]
           full(s) == [d.slots[s] EXCEPT !.tries = MaxTries, !.success = 0]
           new == [s \in Slots |-> IF s = slot
                                   THEN IF d.slots[s].success = 1 THEN d.slots[s] ELSE tried(s)
                                   ELSE IF d.slots[s].success = 1 THEN full(s) ELSE d.slots[s]]
<1>1. n = [d EXCEPT !.slots = new]
  BY DEF boot_update
<1>2. \A s \in Slots : d.slots[s] \in AbrSlotData
  BY DEF AbrData
<1>3. \A s \in Slots : tried(s).success = d.slots[s].success /\ full(s).success = 0
  BY <1>2 DEF AbrSlotData
<1> HIDE DEF tried, full
<1>4. \A s \in Slots : new[s].success = 1 => d.slots[s].success = 1
  BY <1>3
<1> HIDE DEF new
<1>5. n.slots = new /\ n.kind = d.kind
  BY <1>1 DEF AbrData
<1> QED BY <1>4, <1>5 DEF Successes

-----------------------------------------------------------------------------
(* The invariant without the parts that are the library's own.              *)
Rest ==
    /\ FuchsiaType /\ HostInv /\ FlowInv /\ RaiseInv /\ SuccessVouched
    /\ RunsVerified /\ RollbackVouched

(* What a step of GBL shows: the rest of the invariant, and no C reply.     *)
GblKeeps == Rest' /\ host' = host /\ reply' = NoReply

LEMMA ImageType ==
    ASSUME NEW i \in Images \cup {NoImage}
    PROVE  /\ i.kernel \in {"good", "bad"} /\ i.vbmeta \in {"good", "bad"}
           /\ \A l \in Rollbacks : i.version[l] \in Nat
BY FuchsiaAssumption DEF NoImage

(* The boot flow stands still, and no slot becomes successful.              *)
LEMMA QuietStep ==
    ASSUME Rest, ~Firmware, UNCHANGED fvars, host' = host, reply' = NoReply,
           Successes(disk') \subseteq Successes(disk),
           step # "none" => UNCHANGED <<phase, booted, proven>>
    PROVE  GblKeeps
<1>1. /\ UNCHANGED <<part, stored, lock, step, kernel, verified, key_versions, todo, vouched>>
      /\ ~Firmware'
  BY DEF fvars, Firmware
<1>2. FuchsiaType'
  BY <1>1 DEF Rest, FuchsiaType
<1>3. HostInv'
  BY <1>1 DEF Rest, HostInv
<1>4. FlowInv'
  BY <1>1 DEF Rest, FlowInv
<1>5. RaiseInv' /\ RunsVerified' /\ RollbackVouched'
  BY <1>1 DEF Rest, RaiseInv, RunsVerified, RollbackVouched
<1>6. SuccessVouched'
  BY <1>1 DEF Rest, SuccessVouched
<1> QED BY <1>2, <1>3, <1>4, <1>5, <1>6 DEF Rest, GblKeeps

LEMMA CheckKeeps ==
    ASSUME TypeOK, Rest, ~Firmware, GblCheckFastboot
    PROVE  GblKeeps
<1>1. PICK rd \in Reads, wr \in Writes, t \in BOOLEAN : zircon_check_enter_fastboot(rd, wr, t)
  BY AbrTypes DEF GblCheckFastboot
<1>2. step = "none" /\ UNCHANGED fvars /\ host' = host /\ reply' = NoReply
  BY <1>1 DEF Rest, FlowInv, GblCheckFastboot, zircon_check_enter_fastboot, Answer
<1>3. Successes(disk') \subseteq Successes(disk)
  <2> DEFINE d == load_metadata(rd)
             new == [d EXCEPT !.flags = @ \ {"bootloader"}]
             p == [base(rd) EXCEPT !.owed = @ \ {"bootloader"}]
  <2>1. disk' = disk \/ Commit(new, rd, wr, p)
    BY <1>1 DEF zircon_check_enter_fastboot
  <2>2. d \in AbrData /\ Successes(d) \subseteq Successes(disk)
    BY LoadType, LoadSuccess
  <2> HIDE DEF d
  <2>3. Successes(new) = Successes(d)
    BY <2>2, FlagsSuccess
  <2> HIDE DEF new, p
  <2> QED BY <2>1, <2>2, <2>3, CommitSuccess
<1> QED BY <1>2, <1>3, QuietStep

LEMMA ContinueKeeps ==
    ASSUME Rest, ~Firmware, FastbootContinue, Answer(NoReply), UNCHANGED fvars
    PROVE  GblKeeps
<1>1. step = "none" /\ disk' = disk /\ host' = host /\ reply' = NoReply
  BY DEF Rest, FlowInv, FastbootContinue, Answer
<1> QED BY <1>1, QuietStep

LEMMA SystemKeeps ==
    ASSUME TypeOK, Rest, ~Firmware, SystemCall
    PROVE  GblKeeps
<1>1. PICK rd \in Reads, wr \in Writes, s \in Slots :
        mark_slot_active(s, rd, wr) \/ mark_slot_unbootable(s, rd, wr)
  BY AbrTypes DEF SystemCall
<1>2. UNCHANGED <<phase, booted, proven>> /\ UNCHANGED fvars /\ host' = host /\ reply' = NoReply
  BY <1>1 DEF SystemCall, mark_slot_active, mark_slot_unbootable, Answer
<1>3. Successes(disk') \subseteq Successes(disk)
  <2> DEFINE d == load_metadata(rd)
  <2>1. d \in AbrData /\ Successes(d) \subseteq Successes(disk)
    BY LoadType, LoadSuccess
  <2>2. \E n, p : Successes(n) \subseteq Successes(d) /\ Commit(n, rd, wr, p)
    BY <1>1, <2>1, MarkedSuccess DEF mark_slot_active, mark_slot_unbootable
  <2> QED BY <2>1, <2>2, CommitSuccess
<1> QED BY <1>2, <1>3, QuietStep

(* zircon_load_verify_abr(): a slot counts as proven only on the word of    *)
(* the metadata that was loaded.                                            *)
LEMMA ChooseKeeps ==
    ASSUME TypeOK, Rest, ~Firmware, zircon_load_verify_abr
    PROVE  GblKeeps
<1>1. PICK rd \in Reads :
        \/ BootWithoutMetadata(rd)
        \/ BootOneShotRecovery(rd)
        \/ \E wr1 \in Writes, wr2 \in Writes : BootSlot(rd, wr1, wr2)
  <2>1. AbrWriting \cup {"ok"} \subseteq Writes
    BY AbrTypes DEF Writes
  <2> QED BY <2>1, AbrTypes DEF zircon_load_verify_abr
<1>2. /\ step = "none" /\ step' \in {"load", "none"} /\ (step' = "load" => phase' = "os")
      /\ host' = host /\ reply' = NoReply /\ ~Firmware'
      /\ UNCHANGED <<part, stored, lock, kernel, verified, key_versions, todo, items, vouched>>
  BY DEF zircon_load_verify_abr, Answer, Firmware
<1> DEFINE d == load_metadata(rd)
<1>3. d \in AbrData /\ d.kind = "valid" /\ Successes(d) \subseteq Successes(disk)
  BY LoadType, LoadSuccess
<1>4. /\ Successes(disk') \subseteq Successes(disk)
      /\ booted' \in AllSlots
      /\ proven' => booted' \in Successes(d)
  <2>1. CASE BootWithoutMetadata(rd)
    BY <2>1 DEF BootWithoutMetadata, HandOff, AllSlots
  <2>2. CASE BootOneShotRecovery(rd)
    <3> DEFINE new == [d EXCEPT !.flags = @ \ {"recovery"}]
    <3>1. disk' = new /\ booted' = "R" /\ proven' = FALSE
      BY <2>2 DEF BootOneShotRecovery, save_metadata, HandOff
    <3> HIDE DEF d
    <3>2. Successes(new) = Successes(d)
      BY <1>3, FlagsSuccess
    <3> HIDE DEF new
    <3> QED BY <1>3, <3>1, <3>2 DEF AllSlots
  <2>3. ASSUME NEW wr1 \in Writes, NEW wr2 \in Writes, BootSlot(rd, wr1, wr2)
        PROVE  /\ Successes(disk') \subseteq Successes(disk)
               /\ booted' \in AllSlots
               /\ proven' => booted' \in Successes(d)
    <3> DEFINE slot == get_active_slot(d)
               mid == IF "recovery" \in d.flags THEN save_metadata(disk, d, wr1) ELSE disk
               new == boot_update(d, slot)
    <3>1. slot \in Slots \cup {"R"} /\ ~tries_underflow(d, slot)
      BY <1>3, ActiveSlotBootable
    <3>2. /\ disk' = mid \/ disk' = save_metadata(mid, new, wr2)
          /\ HandOff(slot, slot # "R" /\ d.slots[slot].success = 1)
      BY <2>3, <3>1 DEF BootSlot
    <3>3. Successes(new) \subseteq Successes(d)
      BY <1>3, BootSuccess
    <3> HIDE DEF d, new, slot
    <3>4. Successes(Unreadable("invalid")) = {}
      <4>1. Unreadable("invalid").kind = "invalid"
        BY DEF Unreadable, default
      <4> QED BY <4>1 DEF Successes
    <3>5. Successes(mid) \subseteq Successes(disk)
      <4>1. mid \in {disk, d, Unreadable("invalid")}
        BY DEF save_metadata, Writes
      <4> QED BY <1>3, <3>4, <4>1
    <3> HIDE DEF mid
    <3>6. disk' \in {mid, new, Unreadable("invalid")}
      BY <3>2 DEF save_metadata, Writes
    <3>7. Successes(disk') \subseteq Successes(disk)
      BY <1>3, <3>3, <3>4, <3>5, <3>6
    <3>8. booted' = slot /\ (proven' => slot # "R" /\ d.slots[slot].success = 1)
      BY <3>2 DEF HandOff
    <3> QED BY <1>3, <3>1, <3>7, <3>8 DEF AllSlots, Successes
  <2> QED BY <1>1, <2>1, <2>2, <2>3
<1> HIDE DEF d
<1>5. FuchsiaType'
  BY <1>2 DEF Rest, FuchsiaType
<1>6. HostInv' /\ RaiseInv' /\ RunsVerified' /\ RollbackVouched'
  BY <1>2 DEF Rest, HostInv, RaiseInv, RunsVerified, RollbackVouched
<1>7. FlowInv'
  BY <1>2, <1>3, <1>4 DEF Rest, FlowInv, SuccessVouched
<1>8. SuccessVouched'
  BY <1>2, <1>4 DEF Rest, SuccessVouched
<1> QED BY <1>2, <1>5, <1>6, <1>7, <1>8 DEF Rest, GblKeeps


(* A step that ends the boot flow with an error.                            *)
LEMMA FailKeeps ==
    ASSUME Rest, ~Firmware, Started, Fail, step # "none"
    PROVE  GblKeeps
<1>1. /\ step' = "failed" /\ UNCHANGED <<disk, phase, booted, proven, host, reply>>
      /\ UNCHANGED <<part, stored, lock, kernel, verified, key_versions, todo, items, vouched>>
      /\ ~Firmware' /\ reply = NoReply
  BY DEF Fail, Started, vars, cvars, Firmware, Rest, HostInv
<1>2. FuchsiaType' /\ HostInv'
  BY <1>1 DEF Rest, FuchsiaType, HostInv
<1>3. FlowInv' /\ SuccessVouched'
  BY <1>1 DEF Rest, FlowInv, SuccessVouched
<1>4. RaiseInv' /\ RunsVerified' /\ RollbackVouched'
  BY <1>1 DEF Rest, RaiseInv, RunsVerified, RollbackVouched
<1> QED BY <1>1, <1>2, <1>3, <1>4 DEF Rest, GblKeeps

LEMMA LoadKeeps ==
    ASSUME Rest, ~Firmware, NEW io \in BOOLEAN, zircon_load_verify(io)
    PROVE  GblKeeps
<1>1. step = "load" /\ Started
  BY DEF zircon_load_verify
<1>2. CASE Fail
  BY <1>1, <1>2, FailKeeps
<1>3. CASE /\ step' = "verify" /\ kernel' = part[booted]
           /\ UNCHANGED <<part, stored, lock, verified, key_versions, todo, vouched>>
  <2>1. /\ UNCHANGED <<disk, phase, booted, proven, host, reply>>
        /\ ~Firmware' /\ reply = NoReply
    BY <1>1 DEF Started, vars, cvars, Firmware, Rest, HostInv
  <2>2. part[booted] \in Images
    BY <1>1 DEF Rest, FuchsiaType, FlowInv
  <2>3. FuchsiaType' /\ HostInv'
    BY <1>3, <2>1, <2>2 DEF Rest, FuchsiaType, HostInv
  <2>4. FlowInv' /\ SuccessVouched'
    BY <1>1, <1>3, <2>1 DEF Rest, FlowInv, SuccessVouched
  <2>5. RaiseInv' /\ RunsVerified' /\ RollbackVouched'
    BY <1>3, <2>1 DEF Rest, RaiseInv, RunsVerified, RollbackVouched
  <2> QED BY <2>1, <2>3, <2>4, <2>5 DEF Rest, GblKeeps
<1> QED BY <1>2, <1>3 DEF zircon_load_verify

(* What slot_verify() accepts is good, and no older than the indexes.       *)
LEMMA VerifyAccepts ==
    ASSUME Rest, kernel \in Images \cup {NoImage}, NEW readable \in BOOLEAN,
           slot_verify(readable) = "ok"
    PROVE  /\ kernel.kernel = "good" /\ kernel.vbmeta = "good"
           /\ \A l \in Rollbacks : kernel.version[l] >= stored[l]
<1>1. get_preloaded_partition("zircon", booted)
  BY DEF get_preloaded_partition
<1>2. /\ kernel.vbmeta # "bad" /\ kernel.kernel # "bad"
      /\ ~\E l \in Rollbacks : kernel.version[l] < stored[l]
  BY <1>1 DEF slot_verify
<1>3. \A l \in Rollbacks : stored[l] \in Nat /\ kernel.version[l] \in Nat
  BY ImageType DEF Rest, FuchsiaType
<1> QED BY <1>2, <1>3, ImageType

LEMMA VerifyKeeps ==
    ASSUME Rest, ~Firmware, NEW io \in BOOLEAN, NEW readable \in BOOLEAN,
           zircon_verify_kernel(io, readable)
    PROVE  GblKeeps
<1> DEFINE res == slot_verify(readable)
           ok == res = "ok"
           metadata == res \in {"ok", "data"}
<1>1. step = "verify" /\ Started
  BY DEF zircon_verify_kernel
<1>2. CASE Fail
  BY <1>1, <1>2, FailKeeps
<1>3. CASE ~Fail
  <2>1. /\ UNCHANGED <<disk, phase, booted, proven, host, reply>>
        /\ ~Firmware' /\ reply = NoReply
    BY <1>1 DEF Started, vars, cvars, Firmware, Rest, HostInv
  <2>2. /\ ok \/ lock # "locked"
        /\ verified' = ok /\ step' = "raise"
        /\ key_versions' = IF ok THEN [l \in KeyLocations |-> set_key_version(<<>>, l, kernel.version[l])[l]]
                           ELSE <<>>
        /\ todo' = IF metadata /\ raise_allowed(ok) THEN Locations \cup DOMAIN key_versions' ELSE {}
        /\ UNCHANGED <<part, stored, lock, kernel, vouched>>
    BY <1>3 DEF zircon_verify_kernel, read_is_device_unlocked, Rest, FuchsiaType
  <2>3. ok => /\ kernel.kernel = "good" /\ kernel.vbmeta = "good"
              /\ \A l \in Rollbacks : kernel.version[l] >= stored[l]
    BY VerifyAccepts DEF Rest, FuchsiaType
  <2> HIDE DEF res
  <2>4. \A l \in KeyLocations : set_key_version(<<>>, l, kernel.version[l])[l] = kernel.version[l]
    BY DEF set_key_version
  <2>5. todo' # {} => /\ ok /\ proven /\ todo' = Rollbacks
                      /\ \A l \in KeyLocations : key_versions'[l] = kernel.version[l]
    <3> SUFFICES ASSUME todo' # {}
                 PROVE  /\ ok /\ proven /\ todo' = Rollbacks
                        /\ \A l \in KeyLocations : key_versions'[l] = kernel.version[l]
      OBVIOUS
    <3>1. ok /\ proven
      BY <2>2 DEF raise_allowed
    <3>2. key_versions' = [l \in KeyLocations |-> set_key_version(<<>>, l, kernel.version[l])[l]]
      BY <2>2, <3>1
    <3>3. todo' = Locations \cup DOMAIN key_versions'
      BY <2>2, <3>1 DEF raise_allowed
    <3> QED BY <2>4, <3>1, <3>2, <3>3 DEF Rollbacks
  <2>6. FuchsiaType' /\ HostInv'
    BY <2>1, <2>2, <2>5 DEF Rest, FuchsiaType, HostInv
  <2>7. FlowInv' /\ SuccessVouched'
    BY <1>1, <2>1, <2>2 DEF Rest, FlowInv, SuccessVouched
  <2>8. RaiseInv'
    <3>1. proven => kernel \in vouched
      BY <1>1 DEF Rest, FlowInv
    <3>2. todo' # {} => verified' /\ kernel' \in vouched'
      BY <2>2, <2>5, <3>1
    <3>3. \A l \in todo' \cap KeyLocations : key_versions'[l] = kernel'.version[l]
      BY <2>2, <2>5
    <3> QED BY <3>2, <3>3 DEF RaiseInv
  <2>9. RunsVerified' /\ RollbackVouched'
    BY <2>2, <2>3 DEF Rest, RunsVerified, RollbackVouched
  <2> QED BY <2>1, <2>6, <2>7, <2>8, <2>9 DEF Rest, GblKeeps
<1> QED BY <1>2, <1>3

(* One turn of the loops: the value written is the version of a proven      *)
(* image that was just verified, so it is no smaller than the one stored.   *)
LEMMA RaiseRises ==
    ASSUME Rest, NEW l \in Rollbacks, NEW io \in BOOLEAN, write_rollback_index(l, io)
    PROVE  \/ Fail
           \/ /\ stored' \in {stored, [stored EXCEPT ![l] = kernel.version[l]]}
              /\ kernel.version[l] >= stored[l] /\ kernel \in vouched /\ verified
              /\ todo' = todo \ {l}
              /\ UNCHANGED <<part, lock, step, kernel, verified, key_versions, items, vouched>>
<1>1. step = "raise" /\ l \in todo
  BY DEF write_rollback_index
<1>2. /\ verified /\ kernel \in vouched
      /\ l \in KeyLocations => key_versions[l] = kernel.version[l]
  BY <1>1 DEF Rest, RaiseInv
<1>3. kernel.version[l] >= stored[l]
  BY <1>1, <1>2 DEF Rest, RunsVerified
<1> QED BY <1>2, <1>3 DEF write_rollback_index

LEMMA RaiseKeeps ==
    ASSUME Rest, ~Firmware, NEW l \in Rollbacks, NEW io \in BOOLEAN, write_rollback_index(l, io)
    PROVE  GblKeeps /\ RollbackOnlyRises
<1>1. step = "raise" /\ Started
  BY DEF write_rollback_index
<1>2. \A k \in Rollbacks : stored[k] \in Nat /\ kernel.version[k] \in Nat
  BY ImageType DEF Rest, FuchsiaType
<1>3. CASE Fail
  <2>1. RollbackOnlyRises
    BY <1>2, <1>3 DEF Fail, RollbackOnlyRises
  <2> QED BY <1>1, <1>3, <2>1, FailKeeps
<1>4. CASE ~Fail
  <2>1. /\ UNCHANGED <<disk, phase, booted, proven, host, reply>>
        /\ ~Firmware' /\ reply = NoReply
    BY <1>1 DEF Started, vars, cvars, Firmware, Rest, HostInv
  <2>2. /\ stored' \in {stored, [stored EXCEPT ![l] = kernel.version[l]]}
        /\ kernel.version[l] >= stored[l] /\ kernel \in vouched /\ verified
        /\ todo' = todo \ {l}
        /\ UNCHANGED <<part, lock, step, kernel, verified, key_versions, items, vouched>>
    BY <1>4, RaiseRises
  <2>3. stored \in [Rollbacks -> Nat]
    BY DEF Rest, FuchsiaType
  <2>4. /\ stored' \in [Rollbacks -> Nat]
        /\ \A k \in Rollbacks : stored'[k] = stored[k] \/ (k = l /\ stored'[k] = kernel.version[l])
    BY <1>2, <2>2, <2>3
  <2>5. RollbackOnlyRises
    BY <1>2, <2>2, <2>4 DEF RollbackOnlyRises
  <2>6. FuchsiaType' /\ HostInv'
    BY <2>1, <2>2, <2>4 DEF Rest, FuchsiaType, HostInv
  <2>7. FlowInv' /\ SuccessVouched' /\ RaiseInv'
    BY <1>1, <2>1, <2>2 DEF Rest, FlowInv, SuccessVouched, RaiseInv
  <2>8. RunsVerified'
    <3>1. /\ kernel.kernel = "good" /\ kernel.vbmeta = "good"
          /\ \A k \in Rollbacks : kernel.version[k] >= stored[k]
      BY <1>1, <2>2 DEF Rest, RunsVerified
    <3>2. \A k \in Rollbacks : kernel.version[k] >= stored'[k]
      BY <1>2, <2>4, <3>1
    <3> QED BY <2>2, <3>1, <3>2 DEF RunsVerified
  <2>9. RollbackVouched'
    <3> SUFFICES ASSUME NEW k \in Rollbacks, stored'[k] > 0
                 PROVE  \E i \in vouched' : i.version[k] >= stored'[k]
      BY DEF RollbackVouched
    <3>1. CASE stored'[k] = stored[k]
      BY <2>2, <3>1 DEF Rest, RollbackVouched
    <3>2. CASE k = l /\ stored'[k] = kernel.version[l]
      BY <1>2, <2>2, <3>2
    <3> QED BY <2>4, <3>1, <3>2
  <2> QED BY <2>1, <2>5, <2>6, <2>7, <2>8, <2>9 DEF Rest, GblKeeps
<1> QED BY <1>3, <1>4

LEMMA AppendKeeps ==
    ASSUME Rest, ~Firmware, NEW io \in BOOLEAN, NEW staged \in BOOLEAN, append_zbi_items(io, staged)
    PROVE  GblKeeps
<1>1. step = "raise" /\ Started
  BY DEF append_zbi_items
<1>2. CASE Fail
  BY <1>1, <1>2, FailKeeps
<1>3. CASE step' = "run" /\ UNCHANGED <<part, stored, lock, kernel, verified, key_versions, todo, vouched>>
  <2>1. /\ UNCHANGED <<disk, phase, booted, proven, host, reply>>
        /\ ~Firmware' /\ reply = NoReply
    BY <1>1 DEF Started, vars, cvars, Firmware, Rest, HostInv
  <2>2. FuchsiaType' /\ HostInv'
    BY <1>3, <2>1 DEF Rest, FuchsiaType, HostInv
  <2>3. FlowInv' /\ SuccessVouched' /\ RaiseInv'
    BY <1>1, <1>3, <2>1 DEF Rest, FlowInv, SuccessVouched, RaiseInv
  <2>4. RunsVerified' /\ RollbackVouched'
    BY <1>1, <1>3 DEF Rest, RunsVerified, RollbackVouched
  <2> QED BY <2>1, <2>2, <2>3, <2>4 DEF Rest, GblKeeps
<1> QED BY <1>2, <1>3 DEF append_zbi_items

(* The system that runs earns its own mark, and no other.                   *)
LEMMA MarkKeeps ==
    ASSUME TypeOK, Rest, ~Firmware, MarkSelfSuccessful
    PROVE  GblKeeps
<1>1. PICK rd \in Reads, wr \in Writes : mark_slot_successful(booted, rd, wr)
  BY AbrTypes DEF MarkSelfSuccessful
<1>2. /\ step = "run" /\ booted \in Slots /\ vouched' = vouched \cup {kernel}
      /\ UNCHANGED <<part, stored, lock, step, kernel, verified, key_versions, todo, items>>
      /\ UNCHANGED <<phase, booted, proven>> /\ host' = host /\ reply' = NoReply /\ ~Firmware'
  BY <1>1 DEF MarkSelfSuccessful, mark_slot_successful, Answer, Firmware
<1>3. Successes(disk') \subseteq Successes(disk) \cup {booted}
  <2> DEFINE d == load_metadata(rd)
             new == marked_successful(d, booted)
  <2>1. d \in AbrData /\ Successes(d) \subseteq Successes(disk)
    BY LoadType, LoadSuccess
  <2>2. Commit(new, rd, wr, base(rd))
    BY <1>1 DEF mark_slot_successful
  <2>3. Successes(new) \subseteq Successes(d) \cup {booted}
    BY <1>2, <2>1, MarkedSuccess
  <2> HIDE DEF d, new
  <2> QED BY <2>1, <2>2, <2>3, CommitSuccess
<1>4. FuchsiaType' /\ HostInv'
  BY <1>2 DEF Rest, FuchsiaType, HostInv
<1>5. FlowInv' /\ RaiseInv'
  BY <1>2 DEF Rest, FlowInv, RaiseInv
<1>6. SuccessVouched'
  BY <1>2, <1>3 DEF Rest, SuccessVouched, FlowInv
<1>7. RunsVerified' /\ RollbackVouched'
  BY <1>2 DEF Rest, RunsVerified, RollbackVouched
<1> QED BY <1>2, <1>4, <1>5, <1>6, <1>7 DEF Rest, GblKeeps

LEMMA UpdateKeeps ==
    ASSUME Rest, ~Firmware, NEW s \in Slots, NEW i \in Images, Update(s, i)
    PROVE  GblKeeps
<1>1. /\ part' = [part EXCEPT ![s] = i] /\ s \notin Successes(disk)
      /\ step # "none" => step = "run" /\ s # booted
      /\ UNCHANGED <<disk, phase, booted, proven, host, reply>>
      /\ UNCHANGED <<stored, lock, step, kernel, verified, key_versions, todo, vouched>>
      /\ ~Firmware' /\ reply = NoReply
  BY DEF Update, vars, cvars, Firmware, Rest, HostInv, FlowInv, Successes, slot_state
<1>2. /\ part' \in [AllSlots -> Images]
      /\ \A t \in AllSlots : t # s => part'[t] = part[t]
  BY <1>1 DEF Rest, FuchsiaType, AllSlots
<1>3. FuchsiaType' /\ HostInv'
  BY <1>1, <1>2 DEF Rest, FuchsiaType, HostInv
<1>4. FlowInv'
  BY <1>1, <1>2 DEF Rest, FlowInv
<1>5. SuccessVouched'
  BY <1>1, <1>2 DEF Rest, SuccessVouched, Successes, AllSlots
<1>6. RaiseInv' /\ RunsVerified' /\ RollbackVouched'
  BY <1>1 DEF Rest, RaiseInv, RunsVerified, RollbackVouched
<1> QED BY <1>1, <1>3, <1>4, <1>5, <1>6 DEF Rest, GblKeeps

(* A slot flashed while it is marked: the mark now stands for its new image. *)
LEMMA FlashKeeps ==
    ASSUME Rest, ~Firmware, NEW s \in AllSlots, NEW i \in Images, flash(s, i)
    PROVE  GblKeeps
<1>1. /\ part' = [part EXCEPT ![s] = i] /\ step = "none"
      /\ vouched \subseteq vouched' /\ (s \in Successes(disk) => i \in vouched')
      /\ UNCHANGED <<disk, phase, booted, proven, host, reply>>
      /\ UNCHANGED <<stored, lock, step, kernel, verified, key_versions, todo>>
      /\ ~Firmware' /\ reply = NoReply
  BY DEF flash, vars, cvars, Firmware, Rest, HostInv, FlowInv, Successes, slot_state
<1>2. /\ part' \in [AllSlots -> Images] /\ part'[s] = i
      /\ \A t \in AllSlots : t # s => part'[t] = part[t]
  BY <1>1 DEF Rest, FuchsiaType, AllSlots
<1>3. FuchsiaType' /\ HostInv'
  BY <1>1, <1>2 DEF Rest, FuchsiaType, HostInv
<1>4. FlowInv' /\ RaiseInv' /\ RunsVerified'
  BY <1>1 DEF Rest, FlowInv, RaiseInv, RunsVerified
<1>5. SuccessVouched'
  BY <1>1, <1>2 DEF Rest, SuccessVouched, Successes, AllSlots
<1>6. RollbackVouched'
  BY <1>1 DEF Rest, RollbackVouched
<1> QED BY <1>1, <1>3, <1>4, <1>5, <1>6 DEF Rest, GblKeeps

LEMMA LockKeeps ==
    ASSUME Rest, ~Firmware, NEW l \in {"locked", "unlocked"}, SetLock(l)
    PROVE  GblKeeps
<1>1. /\ step = "none" /\ lock' = l /\ UNCHANGED <<disk, phase, booted, proven, host, reply>>
      /\ UNCHANGED <<part, stored, step, kernel, verified, key_versions, todo, vouched>>
      /\ ~Firmware' /\ reply = NoReply
  BY DEF SetLock, vars, cvars, Firmware, Rest, HostInv, FlowInv
<1>2. FuchsiaType' /\ HostInv'
  BY <1>1 DEF Rest, FuchsiaType, HostInv
<1>3. FlowInv' /\ RaiseInv' /\ SuccessVouched'
  BY <1>1 DEF Rest, FlowInv, RaiseInv, SuccessVouched
<1>4. RunsVerified' /\ RollbackVouched'
  BY <1>1 DEF Rest, RunsVerified, RollbackVouched
<1> QED BY <1>1, <1>2, <1>3, <1>4 DEF Rest, GblKeeps

LEMMA ResetKeeps ==
    ASSUME Rest, ~Firmware, GblReset
    PROVE  GblKeeps
<1>1. /\ step' = "none" /\ kernel' = NoImage /\ verified' = FALSE /\ todo' = {}
      /\ disk' = disk /\ host' = host /\ reply' = NoReply /\ ~Firmware'
      /\ UNCHANGED <<part, stored, lock, vouched>>
  BY DEF GblReset, Reset, Forget, Answer, Firmware
<1>2. FuchsiaType' /\ HostInv'
  BY <1>1 DEF Rest, FuchsiaType, HostInv, NoImage
<1>3. FlowInv' /\ RaiseInv' /\ SuccessVouched'
  BY <1>1 DEF Rest, FlowInv, RaiseInv, SuccessVouched
<1>4. RunsVerified' /\ RollbackVouched'
  BY <1>1 DEF Rest, RunsVerified, RollbackVouched
<1> QED BY <1>1, <1>2, <1>3, <1>4 DEF Rest, GblKeeps

-----------------------------------------------------------------------------
(***************************************************************************)
(* The C interface.  What a later read makes of the metadata d.            *)
(***************************************************************************)
ReadBack(d) == [d EXCEPT !.slots = [s \in Slots |-> slot_normalize(d.slots[s])]]

LEMMA ReadBackFields ==
    ASSUME NEW d \in AbrData
    PROVE  /\ ReadBack(d).flags = d.flags
           /\ \A s \in Slots : ReadBack(d).slots[s] = slot_normalize(d.slots[s])
BY DEF ReadBack, AbrData

(* A call that answers OK has left its data on storage.                     *)
LEMMA OkIsDurable ==
    ASSUME NEW d \in AbrData, d.kind = "valid", NEW rd, NEW wr \in Writes, NEW p,
           Commit(d, rd, wr, p), unpack_result(save_error(d, rd, wr)) = "OK"
    PROVE  Image' = ReadBack(d) /\ promise' = p /\ disk' = d
<1>1. durable(d, rd, wr)
  BY DEF unpack_result, save_error
<1>2. disk' = d /\ promise' = p
  BY <1>1 DEF Commit, durable, unchanged, save_metadata_if_changed, save_metadata
<1> QED BY <1>2 DEF Image, load_metadata, usable, ReadBack

LEMMA RefuseTruthful ==
    ASSUME NEW call, NEW i, NEW e, e # "none", Refuse(call, i, e)
    PROVE  RepliesTruthful'
<1>1. reply'.code # "OK"
  BY DEF Refuse, Answer, unpack_result
<1> QED BY <1>1 DEF RepliesTruthful

LEMMA LoadErrorIsError ==
    ASSUME NEW rd PROVE load_error(rd) # "none"
BY DEF load_error

(* What AbrGetSlotInfo() says of a slot with the given bytes.               *)
LEMMA InfoOf ==
    ASSUME NEW d, NEW s \in Slots
    PROVE  LET e == d.slots[s]
               i == SlotInfo(d, s)
           IN  /\ i.is_marked_successful <=> e.success = 1
               /\ e.success # 1 /\ is_slot_bootable(e) => i.num_tries_remaining = e.tries
               /\ e.success # 1 /\ ~is_slot_bootable(e) => ~i.is_bootable
               /\ is_slot_bootable(e) => i.is_bootable
               /\ i.is_active <=> get_active_slot(d) = s
<1>1. s # "R"
  BY DEF Slots
<1>2. slot_state(d.slots[s]) \in {"Successful", "Bootable", "Unbootable"}
  BY DEF slot_state
<1>3. ~(0 > 0)
  OBVIOUS
<1>4. is_slot_bootable(d.slots[s]) => d.slots[s].success = 1 \/ d.slots[s].tries > 0
  BY DEF is_slot_bootable
<1> HIDE DEF is_slot_bootable
<1> QED BY <1>1, <1>2, <1>3, <1>4 DEF SlotInfo, slot_state

(* The bytes of the marked slots, as the next read sees them.               *)
LEMMA ActiveReadsBack ==
    ASSUME NEW d \in AbrData, NEW s \in Slots
    PROVE  SlotInfo(ReadBack(marked_active(d, s)), s).num_tries_remaining = MaxTries
<1> DEFINE n == marked_active(d, s)
           fresh == [priority |-> MaxPriority, tries |-> MaxTries, success |-> 0]
           new == [d.slots EXCEPT ![s] = fresh, ![other(s)].priority = Least(@, MaxPriority - 1)]
<1>1. other(s) # s /\ d.slots \in [Slots -> AbrSlotData]
  BY DEF other, Slots, AbrData
<1>2. n = [d EXCEPT !.slots = new]
  BY DEF marked_active
<1>3. new[s] = fresh
  BY <1>1
<1>4. [d EXCEPT !.slots = new].slots = new
  BY DEF AbrData
<1>5. n.slots[s] = fresh
  BY <1>2, <1>3, <1>4
<1>6. n \in AbrData
  BY MarkedActiveTold
<1>7. slot_normalize(fresh) = fresh /\ is_slot_bootable(fresh) /\ fresh.success # 1
  BY ConstantsAssumption DEF slot_normalize, Least, is_slot_bootable
<1>8. ReadBack(n).slots[s] = fresh
  BY <1>5, <1>6, <1>7, ReadBackFields
<1> HIDE DEF n
<1> QED BY <1>7, <1>8, InfoOf DEF n

LEMMA UnbootableReadsBack ==
    ASSUME NEW d \in AbrData, NEW s \in Slots
    PROVE  ~SlotInfo(ReadBack(marked_unbootable(d, s)), s).is_bootable
<1> DEFINE n == marked_unbootable(d, s)
           e == set_slot_unbootable(d.slots[s])
<1>1. d.slots[s] \in AbrSlotData
  BY DEF AbrData
<1>2. e.tries = 0 /\ e.success = 0
  BY <1>1 DEF set_slot_unbootable, AbrSlotData
<1>3. n.slots[s] = e
  BY DEF marked_unbootable, AbrData
<1>4. n \in AbrData
  BY MarkedUnbootableTold
<1>5. e \in AbrSlotData
  BY <1>3, <1>4 DEF AbrData
<1> HIDE DEF n, e
<1>6. slot_normalize(e).tries = 0 /\ slot_normalize(e).success = 0
  <2>1. CASE e.priority = 0
    BY <1>5, <2>1 DEF slot_normalize, set_slot_unbootable, AbrSlotData
  <2>2. CASE e.priority # 0
    BY <1>2, <2>2, ConstantsAssumption DEF slot_normalize, Least
  <2> QED BY <2>1, <2>2
<1>7. ~is_slot_bootable(slot_normalize(e))
  BY <1>6 DEF is_slot_bootable
<1>8. ReadBack(n).slots[s] = slot_normalize(e)
  BY <1>3, <1>4, ReadBackFields
<1> QED BY <1>6, <1>7, <1>8, InfoOf DEF n

LEMMA SuccessfulReadsBack ==
    ASSUME NEW d \in AbrData, NEW s \in Slots, Normal(d), is_slot_bootable(d.slots[s])
    PROVE  /\ SlotInfo(ReadBack(marked_successful(d, s)), s).is_marked_successful
           /\ ~SlotInfo(ReadBack(marked_successful(d, s)), other(s)).is_marked_successful
<1> DEFINE o == other(s)
           n == marked_successful(d, s)
           good == Marked(d.slots[s], 0, 1)
           old == IF is_slot_bootable(d.slots[o]) THEN Marked(d.slots[o], MaxTries, 0) ELSE d.slots[o]
           new == [d.slots EXCEPT
                     ![s].tries = 0, ![s].success = 1,
                     ![o] = IF is_slot_bootable(@)
                            THEN [@ EXCEPT !.tries = MaxTries, !.success = 0] ELSE @]
<1>1. o \in Slots /\ o # s
  BY DEF other, Slots
<1>2. d.slots \in [Slots -> AbrSlotData] /\ d.slots[s] \in AbrSlotData /\ d.slots[o] \in AbrSlotData
  BY <1>1 DEF AbrData
<1>3. n = [d EXCEPT !.slots = new]
  BY DEF marked_successful
<1>4. [d EXCEPT !.slots = new].slots = new
  BY DEF AbrData
<1>5. new[s] = good /\ new[o] = old
  BY <1>1, <1>2 DEF Marked
<1> HIDE DEF new
<1>6. n.slots[s] = good /\ n.slots[o] = old
  BY <1>3, <1>4, <1>5
<1>7. n \in AbrData
  BY MarkedSuccessfulTold
<1> HIDE DEF n
<1>8. /\ good \in AbrSlotData /\ good.priority = d.slots[s].priority /\ good.success = 1
      /\ good.tries = 0
  BY <1>2, SlotExcept, BytesFit DEF Marked, AbrSlotData
<1>9. old \in AbrSlotData /\ old.success # 1
  <2>1. CASE is_slot_bootable(d.slots[o])
    BY <1>2, <2>1, SlotExcept, BytesFit
  <2>2. CASE ~is_slot_bootable(d.slots[o])
    BY <1>1, <1>2, <2>2 DEF Normal, is_slot_bootable
  <2> QED BY <2>1, <2>2
<1> HIDE DEF good, old
<1>10. slot_normalize(good).success = 1
  <2>1. good.priority # 0 /\ ~(good.tries > 0)
    BY <1>8 DEF is_slot_bootable
  <2> QED BY <1>8, <2>1 DEF slot_normalize
<1>11. slot_normalize(old).success # 1
  BY <1>9, NormalizeKeeps
<1>12. ReadBack(n).slots[s] = slot_normalize(good) /\ ReadBack(n).slots[o] = slot_normalize(old)
  BY <1>1, <1>6, <1>7, ReadBackFields
<1> QED BY <1>1, <1>10, <1>11, <1>12, InfoOf DEF n

LEMMA MarkCallsTruthful ==
    ASSUME Inv, Inv', NEW i \in AbrSlotIndex, NEW rd \in Reads, NEW wr \in Writes,
           \/ AbrMarkSlotActive(i, rd, wr)
           \/ AbrMarkSlotUnbootable(i, rd, wr)
           \/ AbrMarkSlotSuccessful(i, rd, wr)
    PROVE  RepliesTruthful'
<1> DEFINE d == load_metadata(rd)
           a == marked_active(d, i)
           u == marked_unbootable(d, i)
           g == marked_successful(d, i)
           R(call, n) == [call |-> call, slot |-> i, code |-> unpack_result(save_error(n, rd, wr))]
<1>1. d \in AbrData /\ d.kind = "valid" /\ Normal(d)
  BY LoadType, LoadTold DEF Inv
<1>2. CASE \E call, e : e # "none" /\ Refuse(call, i, e)
  BY <1>2, RefuseTruthful
<1>3. CASE i \in Slots /\ mark_slot_active(i, rd, wr) /\ reply' = R("active", a)
  <2>1. Commit(a, rd, wr, [base(rd) EXCEPT !.active = i])
    BY <1>3 DEF mark_slot_active
  <2>2. a \in AbrData /\ a.kind = "valid"
    BY <1>1, <1>3, MarkedActiveTold
  <2>3. SlotInfo(ReadBack(a), i).num_tries_remaining = MaxTries
    BY <1>1, <1>3, ActiveReadsBack
  <2>4. [base(rd) EXCEPT !.active = i].active = i
    BY BaseType DEF Inv, PromiseType
  <2>5. ActiveTold'
    BY InvTells, PTL
  <2> HIDE DEF a
  <2>6. reply'.code = "OK" => /\ last_marked_active(Image') = i
                              /\ SlotInfo(Image', i).num_tries_remaining = MaxTries
    <3> SUFFICES ASSUME reply'.code = "OK"
                 PROVE  /\ last_marked_active(Image') = i
                        /\ SlotInfo(Image', i).num_tries_remaining = MaxTries
      OBVIOUS
    <3>1. unpack_result(save_error(a, rd, wr)) = "OK"
      BY <1>3
    <3>2. Image' = ReadBack(a) /\ promise' = [base(rd) EXCEPT !.active = i] /\ disk' = a
      BY <2>1, <2>2, <3>1, OkIsDurable
    <3> QED BY <2>2, <2>3, <2>4, <2>5, <3>2 DEF ActiveTold
  <2>7. reply'.call = "active" /\ reply'.slot = i
    BY <1>3
  <2> QED BY <2>6, <2>7 DEF RepliesTruthful
<1>4. CASE i \in Slots /\ mark_slot_unbootable(i, rd, wr) /\ reply' = R("unbootable", u)
  <2>1. Commit(u, rd, wr, base(rd))
    BY <1>4 DEF mark_slot_unbootable
  <2>2. u \in AbrData /\ u.kind = "valid"
    BY <1>1, <1>4, MarkedUnbootableTold
  <2>3. ~SlotInfo(ReadBack(u), i).is_bootable
    BY <1>1, <1>4, UnbootableReadsBack
  <2> HIDE DEF u
  <2>4. reply'.code = "OK" => ~SlotInfo(Image', i).is_bootable
    BY <1>4, <2>1, <2>2, <2>3, OkIsDurable
  <2>5. reply'.call = "unbootable" /\ reply'.slot = i
    BY <1>4
  <2> QED BY <2>4, <2>5 DEF RepliesTruthful
<1>5. CASE i \in Slots /\ mark_slot_successful(i, rd, wr) /\ reply' = R("successful", g)
  <2>1. Commit(g, rd, wr, base(rd)) /\ is_slot_bootable(d.slots[i])
    BY <1>5 DEF mark_slot_successful
  <2>2. g \in AbrData /\ g.kind = "valid"
    BY <1>1, <1>5, MarkedSuccessfulTold
  <2>3. /\ SlotInfo(ReadBack(g), i).is_marked_successful
        /\ ~SlotInfo(ReadBack(g), other(i)).is_marked_successful
    BY <1>1, <1>5, <2>1, SuccessfulReadsBack
  <2> HIDE DEF g
  <2>4. reply'.code = "OK" => /\ SlotInfo(Image', i).is_marked_successful
                              /\ ~SlotInfo(Image', other(i)).is_marked_successful
    BY <1>5, <2>1, <2>2, <2>3, OkIsDurable
  <2>5. reply'.call = "successful" /\ reply'.slot = i
    BY <1>5
  <2> QED BY <2>4, <2>5 DEF RepliesTruthful
<1> QED
  BY <1>2, <1>3, <1>4, <1>5, LoadErrorIsError
     DEF AbrMarkSlotActive, AbrMarkSlotUnbootable, AbrMarkSlotSuccessful, Answer

LEMMA FlagCallsTruthful ==
    ASSUME Inv, NEW rd \in Reads, NEW wr \in Writes,
           \/ \E f \in OneShots, e \in BOOLEAN : AbrSetOneShot(f, e, rd, wr)
           \/ AbrGetAndClearOneShotFlags(rd, wr)
    PROVE  RepliesTruthful'
<1> DEFINE d == load_metadata(rd)
<1>1. d \in AbrData /\ d.kind = "valid"
  BY LoadType DEF Inv
<1>2. ASSUME NEW call, NEW i, Refuse(call, i, load_error(rd)) PROVE RepliesTruthful'
  BY <1>2, LoadErrorIsError, RefuseTruthful
<1> HIDE DEF d
<1>3. ASSUME NEW f \in OneShots, NEW e \in BOOLEAN,
             Commit([d EXCEPT !.flags = with_one_shot(@, f, e)], rd, wr,
                    [base(rd) EXCEPT !.owed = with_one_shot(@, f, e)]),
             reply' = [call |-> "one_shot", slot |-> f, enable |-> e,
                       code |-> unpack_result(save_error(
                          [d EXCEPT !.flags = with_one_shot(@, f, e)], rd, wr))]
      PROVE  RepliesTruthful'
  <2> DEFINE flags == with_one_shot(d.flags, f, e)
             n == [d EXCEPT !.flags = flags]
             p == [base(rd) EXCEPT !.owed = with_one_shot(@, f, e)]
  <2>1. flags \in SUBSET OneShots /\ (f \in flags) = e
    BY <1>1 DEF with_one_shot, AbrData
  <2>2. n \in AbrData /\ n.kind = "valid" /\ n.flags = flags
    BY <1>1, <2>1, FlagsTold DEF AbrData
  <2>3. Commit(n, rd, wr, p)
    BY <1>1, <1>3 DEF AbrData
  <2>4. reply'.code = unpack_result(save_error(n, rd, wr)) /\ reply'.call = "one_shot"
        /\ reply'.slot = f /\ reply'.enable = e
    BY <1>3
  <2> HIDE DEF n, p, flags
  <2>5. reply'.code = "OK" => Image'.flags = flags
    BY <2>2, <2>3, <2>4, OkIsDurable, ReadBackFields
  <2> QED BY <2>1, <2>4, <2>5 DEF RepliesTruthful
<1>4. ASSUME Commit([d EXCEPT !.flags = {}], rd, wr, [base(rd) EXCEPT !.owed = {}]),
             reply' = [call |-> "clear", slot |-> "none", flags |-> d.flags,
                       code |-> unpack_result(save_error([d EXCEPT !.flags = {}], rd, wr))]
      PROVE  RepliesTruthful'
  <2> DEFINE n == [d EXCEPT !.flags = {}]
             p == [base(rd) EXCEPT !.owed = {}]
  <2>1. n \in AbrData /\ n.kind = "valid" /\ n.flags = {}
    BY <1>1, FlagsTold DEF AbrData
  <2>2. Commit(n, rd, wr, p)
    BY <1>4
  <2>3. reply'.code = unpack_result(save_error(n, rd, wr)) /\ reply'.call = "clear"
    BY <1>4
  <2> HIDE DEF n, p
  <2>4. reply'.code = "OK" => Image'.flags = {}
    BY <2>1, <2>2, <2>3, OkIsDurable, ReadBackFields
  <2> QED BY <2>3, <2>4 DEF RepliesTruthful
<1>5. ASSUME NEW f \in OneShots, NEW e \in BOOLEAN, AbrSetOneShot(f, e, rd, wr)
      PROVE  RepliesTruthful'
  BY <1>2, <1>3, <1>5 DEF AbrSetOneShot, set_one_shot, Answer, d
<1>6. CASE AbrGetAndClearOneShotFlags(rd, wr)
  BY <1>2, <1>4, <1>6 DEF AbrGetAndClearOneShotFlags, get_and_clear_one_shot_flag, Answer, d
<1> QED BY <1>5, <1>6

LEMMA QueriesTruthful ==
    ASSUME Inv, NEW done \in BOOLEAN, FirmwareQuery(read_abr_metadata(done))
    PROVE  RepliesTruthful'
<1> DEFINE rd == read_abr_metadata(done)
           d == load_metadata(rd)
<1>1. host # "none" => rd \in {"ok", "other"}
  BY DEF read_abr_metadata
<1>2. load_fails("other")
  BY DEF load_fails
<1>3. Image \in AbrData
  BY LoadType DEF Inv, Image, Reads
<1> HIDE DEF rd
<1>4. ASSUME NEW call, NEW i, NEW e, e # "none", Refuse(call, i, e) PROVE RepliesTruthful'
  BY <1>4, RefuseTruthful
<1>5. ASSUME NEW i \in AbrSlotIndex, AbrGetSlotInfo(i, rd) PROVE RepliesTruthful'
  <2>1. CASE reply'.call = "info"
    BY <2>1 DEF RepliesTruthful
  <2> QED BY <1>4, <1>5, <2>1, LoadErrorIsError DEF AbrGetSlotInfo, Answer
<1>6. CASE AbrGetSlotLastMarkedActive(rd)
  <2>1. CASE ~load_fails(rd) /\ UNCHANGED vars
             /\ Answer([call |-> "last", slot |-> last_marked_active(d), code |-> "OK"])
    <3>1. host' = host /\ promise' = promise /\ reply'.call = "last" /\ reply'.slot = last_marked_active(d)
      BY <2>1 DEF Answer, vars
    <3>2. host # "none" => d = Image /\ disk.kind # "newer"
      BY <1>1, <1>2, <2>1 DEF Image, load_fails
    <3>3. host # "none" => last_marked_active(d) = promise.active
      BY <3>2, InvTells DEF ActiveTold
    <3> QED BY <3>1, <3>3 DEF RepliesTruthful
  <2> QED BY <1>4, <1>6, <2>1, LoadErrorIsError DEF AbrGetSlotLastMarkedActive
<1>7. CASE AbrPeekBootSlot(rd)
  <2> DEFINE r == IF load_fails(rd) THEN "R" ELSE get_active_slot(d)
  <2>1. /\ host' = host /\ disk' = disk /\ reply'.call = "peek" /\ reply'.slot = r
    BY <1>7 DEF AbrPeekBootSlot, Answer, vars
  <2>2. Image' = Image
    BY <2>1 DEF Image, load_metadata, usable
  <2>3. host # "none" /\ r # "R" => /\ r = get_active_slot(Image) /\ r \in Slots
                                    /\ is_slot_bootable(Image.slots[r])
    <3>1. host # "none" /\ r # "R" => r = get_active_slot(Image)
      BY <1>1, <1>2 DEF Image
    <3> QED BY <1>3, <3>1, ActiveSlotBootable
  <2> HIDE DEF r
  <2>4. host # "none" /\ r # "R" => SlotInfo(Image', r).is_active /\ SlotInfo(Image', r).is_bootable
    BY <2>2, <2>3, InfoOf
  <2> QED BY <2>1, <2>4 DEF RepliesTruthful
<1> QED BY <1>5, <1>6, <1>7 DEF FirmwareQuery, rd

(* Every answer of the C interface is the truth.                            *)
LEMMA FirmwareTruthful ==
    ASSUME Inv, Inv', FirmwareNext
    PROVE  RepliesTruthful'
<1>1. CASE reply' = NoReply
  BY <1>1 DEF RepliesTruthful
<1>2. ASSUME NEW rd \in Reads, NEW wr \in Writes, FirmwareCall(rd, wr) PROVE RepliesTruthful'
  BY <1>2, MarkCallsTruthful, FlagCallsTruthful DEF FirmwareCall
<1>3. ASSUME NEW rd, AbrGetBootSlot(rd, write_abr_metadata) PROVE RepliesTruthful'
  <2>1. reply'.call = "boot"
    BY <1>3 DEF AbrGetBootSlot, Answer
  <2> QED BY <2>1 DEF RepliesTruthful
<1>4. CASE \E done \in BOOLEAN : LET rd == read_abr_metadata(done) IN
                \/ \E wr \in write_abr_metadata : FirmwareCall(rd, wr)
                \/ FirmwareQuery(rd)
                \/ AbrGetBootSlot(rd, write_abr_metadata)
  <2>1. PICK done \in BOOLEAN :
           \/ \E wr \in write_abr_metadata : FirmwareCall(read_abr_metadata(done), wr)
           \/ FirmwareQuery(read_abr_metadata(done))
           \/ AbrGetBootSlot(read_abr_metadata(done), write_abr_metadata)
    BY <1>4
  <2>2. read_abr_metadata(done) \in Reads /\ write_abr_metadata \subseteq Writes
    BY AbrTypes
  <2> HIDE DEF read_abr_metadata, write_abr_metadata, FirmwareCall, FirmwareQuery, AbrGetBootSlot
  <2> QED BY <1>2, <1>3, <2>1, <2>2, QueriesTruthful
<1>5. CASE Return \/ PowerOn \/ Answer(NoReply)
  BY <1>1, <1>5 DEF Return, PowerOn, Answer
<1> QED BY <1>4, <1>5 DEF FirmwareNext

-----------------------------------------------------------------------------
LEMMA FirmwareKeeps ==
    ASSUME Rest, FirmwareNext, UNCHANGED fvars
    PROVE  Rest' /\ UNCHANGED stored
<1>1. Firmware /\ host' = host
  <2>1. ASSUME NEW rd, NEW wr, FirmwareCall(rd, wr) PROVE host' = host
    BY <2>1 DEF FirmwareCall, AbrMarkSlotActive, AbrMarkSlotUnbootable, AbrMarkSlotSuccessful,
                AbrSetOneShot, AbrGetAndClearOneShotFlags, Refuse, Answer
  <2>2. ASSUME NEW rd, FirmwareQuery(rd) PROVE host' = host
    BY <2>2 DEF FirmwareQuery, AbrGetSlotInfo, AbrGetSlotLastMarkedActive, AbrPeekBootSlot,
                Refuse, Answer
  <2>3. ASSUME NEW rd, NEW wrs, AbrGetBootSlot(rd, wrs) PROVE host' = host
    BY <2>3 DEF AbrGetBootSlot, Answer
  <2>4. ASSUME NEW r, Answer(r) PROVE host' = host
    BY <2>4 DEF Answer
  <2>5. Firmware /\ (\/ \E rd, wr : FirmwareCall(rd, wr)
                     \/ \E rd : FirmwareQuery(rd)
                     \/ \E rd, wrs : AbrGetBootSlot(rd, wrs)
                     \/ Answer(NoReply))
    BY DEF FirmwareNext, Return, PowerOn
  <2> QED BY <2>1, <2>2, <2>3, <2>4, <2>5
<1>2. /\ UNCHANGED <<part, stored, lock, step, kernel, verified, key_versions, todo, vouched>>
      /\ Firmware' /\ step = "none"
  BY <1>1 DEF fvars, Firmware, Rest, HostInv
<1>3. FuchsiaType' /\ HostInv' /\ FlowInv'
  BY <1>1, <1>2 DEF Rest, FuchsiaType, HostInv, FlowInv
<1>4. RaiseInv' /\ SuccessVouched' /\ RunsVerified' /\ RollbackVouched'
  BY <1>2 DEF Rest, RaiseInv, SuccessVouched, RunsVerified, RollbackVouched
<1> QED BY <1>2, <1>3, <1>4 DEF Rest

LEMMA GblKeepsAll ==
    ASSUME TypeOK, Rest, GblNext
    PROVE  GblKeeps /\ RollbackOnlyRises
<1>1. ~Firmware
  BY DEF GblNext
<1>2. UNCHANGED stored => RollbackOnlyRises
  <2>1. \A l \in Rollbacks : stored[l] \in Nat
    BY DEF Rest, FuchsiaType
  <2> QED BY <2>1 DEF RollbackOnlyRises
<1>3. CASE GblCheckFastboot
  BY <1>1, <1>2, <1>3, CheckKeeps DEF GblCheckFastboot, fvars
<1>4. CASE FastbootContinue /\ Answer(NoReply) /\ UNCHANGED fvars
  BY <1>1, <1>2, <1>4, ContinueKeeps DEF fvars
<1>5. CASE zircon_load_verify_abr
  BY <1>1, <1>2, <1>5, ChooseKeeps DEF zircon_load_verify_abr
<1>6. ASSUME NEW io \in BOOLEAN, zircon_load_verify(io) PROVE GblKeeps /\ RollbackOnlyRises
  BY <1>1, <1>2, <1>6, LoadKeeps DEF zircon_load_verify, Fail
<1>7. ASSUME NEW io \in BOOLEAN, NEW readable \in BOOLEAN, zircon_verify_kernel(io, readable)
      PROVE  GblKeeps /\ RollbackOnlyRises
  BY <1>1, <1>2, <1>7, VerifyKeeps DEF zircon_verify_kernel, Fail
<1>8. ASSUME NEW io \in BOOLEAN, NEW l \in Rollbacks, write_rollback_index(l, io)
      PROVE  GblKeeps /\ RollbackOnlyRises
  BY <1>1, <1>8, RaiseKeeps
<1>9. ASSUME NEW io \in BOOLEAN, NEW staged \in BOOLEAN, append_zbi_items(io, staged)
      PROVE  GblKeeps /\ RollbackOnlyRises
  BY <1>1, <1>2, <1>9, AppendKeeps DEF append_zbi_items, Fail
<1>10. CASE SystemCall
  BY <1>1, <1>2, <1>10, SystemKeeps DEF SystemCall, fvars
<1>11. CASE MarkSelfSuccessful
  BY <1>1, <1>2, <1>11, MarkKeeps DEF MarkSelfSuccessful
<1>12. ASSUME NEW s \in Slots, NEW i \in Images, Update(s, i) PROVE GblKeeps /\ RollbackOnlyRises
  BY <1>1, <1>2, <1>12, UpdateKeeps DEF Update
<1>13. ASSUME NEW l \in {"locked", "unlocked"}, SetLock(l) PROVE GblKeeps /\ RollbackOnlyRises
  BY <1>1, <1>2, <1>13, LockKeeps DEF SetLock
<1>14. CASE GblReset
  BY <1>1, <1>2, <1>14, ResetKeeps DEF GblReset
<1>15. ASSUME NEW s \in AllSlots, NEW i \in Images, flash(s, i)
       PROVE  GblKeeps /\ RollbackOnlyRises
  BY <1>1, <1>2, <1>15, FlashKeeps DEF flash
<1> QED BY <1>3, <1>4, <1>5, <1>6, <1>7, <1>8, <1>9, <1>10, <1>11, <1>12, <1>13, <1>14, <1>15
        DEF GblNext

LEMMA FInitInv == FuchsiaInit => FInv
<1> SUFFICES ASSUME FuchsiaInit PROVE FInv
  OBVIOUS
<1>1. PICK flags \in {{}, {"recovery"}} : InitImage([default EXCEPT !.flags = flags])
  BY DEF FuchsiaInit
<1> DEFINE d == [default EXCEPT !.flags = flags]
<1>2. d \in AbrData /\ d.kind = "valid"
  BY DefaultType DEF AbrData, OneShots
<1>3. Successes(d) = {}
  <2>1. \A s \in Slots : default.slots[s].success = 0
    BY DEF default
  <2>2. d.slots = default.slots
    BY DefaultType DEF AbrData
  <2> QED BY <2>1, <2>2 DEF Successes
<1> HIDE DEF d
<1>4. Inv /\ NoPanic
  <2>1. Init
    BY <1>1, <1>2 DEF Init, d
  <2> QED BY <1>1, <2>1, InitInv DEF InitImage, NoPanic
<1>5. Successes(disk) = {} /\ ~\E s \in Slots : s \in Successes(disk)
  BY <1>1, <1>3 DEF InitImage, d
<1>6. stored \in [Rollbacks -> Nat] /\ part \in [AllSlots -> Images]
  BY FuchsiaAssumption DEF FuchsiaInit
<1>7. FuchsiaType
  BY <1>6 DEF FuchsiaInit, FuchsiaType
<1>8. HostInv /\ FlowInv /\ RaiseInv
  BY DEF FuchsiaInit, HostInv, FlowInv, RaiseInv
<1>9. RunsVerified /\ RollbackVouched /\ RepliesTruthful
  <2>1. \A l \in Rollbacks : stored[l] = 0
    BY DEF FuchsiaInit
  <2> QED BY <2>1 DEF FuchsiaInit, RunsVerified, RollbackVouched, RepliesTruthful
<1>10. SuccessVouched
  BY <1>5 DEF SuccessVouched
<1> QED BY <1>4, <1>7, <1>8, <1>9, <1>10 DEF FInv

LEMMA FNextInv ==
    ASSUME FInv, [FuchsiaNext]_FuchsiaVars
    PROVE  FInv' /\ (RollbackOnlyRises \/ UNCHANGED FuchsiaVars)
<1>1. Inv /\ NoPanic /\ Rest /\ TypeOK /\ RepliesTruthful
  BY DEF FInv, Rest, Inv
<1>2. CASE FirmwareNext /\ UNCHANGED fvars
  <2>1. Inv' /\ NoPanic'
    BY <1>1, <1>2, FirmwareIsLib, LibStepInv
  <2>2. Rest' /\ UNCHANGED stored
    BY <1>1, <1>2, FirmwareKeeps
  <2>3. RepliesTruthful'
    BY <1>1, <1>2, <2>1, FirmwareTruthful
  <2>4. RollbackOnlyRises
    <3>1. \A l \in Rollbacks : stored[l] \in Nat
      BY <1>1 DEF Rest, FuchsiaType
    <3> QED BY <2>2, <3>1 DEF RollbackOnlyRises
  <2> QED BY <2>1, <2>2, <2>3, <2>4 DEF FInv, Rest
<1>3. CASE GblNext
  <2>1. Inv' /\ NoPanic'
    BY <1>1, <1>3, GblIsLib, LibStepInv
  <2>2. GblKeeps /\ RollbackOnlyRises
    BY <1>1, <1>3, GblKeepsAll
  <2>3. RepliesTruthful'
    BY <2>2 DEF GblKeeps, RepliesTruthful
  <2> QED BY <2>1, <2>2, <2>3 DEF GblKeeps, FInv, Rest
<1>4. CASE UNCHANGED FuchsiaVars
  <2>1. /\ UNCHANGED <<disk, phase, booted, proven, promise, refreshed, settled, host, reply>>
        /\ UNCHANGED <<part, stored, lock, step, kernel, verified, key_versions, todo, items, vouched>>
    BY <1>4 DEF FuchsiaVars, vars, cvars, fvars
  <2>2. Inv' /\ NoPanic'
    BY <1>1, <2>1 DEF Inv, TypeOK, HistoryInv, NoPanic
  <2>3. FuchsiaType' /\ HostInv' /\ FlowInv' /\ RaiseInv' /\ SuccessVouched'
    BY <1>1, <2>1 DEF Rest, FuchsiaType, HostInv, FlowInv, RaiseInv, SuccessVouched, Firmware
  <2>4. RunsVerified' /\ RollbackVouched'
    BY <1>1, <2>1 DEF Rest, RunsVerified, RollbackVouched
  <2>5. RepliesTruthful'
    <3>1. Image' = Image
      BY <2>1 DEF Image, load_metadata, usable
    <3> QED BY <1>1, <2>1, <3>1 DEF RepliesTruthful
  <2> QED BY <1>4, <2>2, <2>3, <2>4, <2>5 DEF FInv
<1> QED BY <1>2, <1>3, <1>4 DEF FuchsiaNext

LEMMA FAlways == FuchsiaSpec => []FInv
BY FInitInv, FNextInv, PTL DEF FuchsiaSpec

(* A locked device hands over only a kernel that libavb accepted and that   *)
(* is no older than any rollback index, whatever was updated, failed or was *)
(* cut off before.                                                          *)
THEOREM FuchsiaVerified == FuchsiaSpec => []RunsVerified
BY FAlways, PTL DEF FInv

(* zircon_verify_kernel() writes any index that differs, and still none     *)
(* ever goes down, nor rises past the images a success mark has stood for.  *)
THEOREM FuchsiaRollback == FuchsiaSpec => RollbackSound
<1>1. FInv /\ [FuchsiaNext]_FuchsiaVars => [RollbackVouched' /\ RollbackOnlyRises]_FuchsiaVars
  BY FNextInv DEF FInv
<1> QED BY <1>1, FAlways, PTL DEF FuchsiaSpec, RollbackSound

(* Every ABR_RESULT_OK of the C interface is kept by what a later call      *)
(* reads, over failed, lost and torn metadata accesses and resets.          *)
THEOREM FuchsiaReplies == FuchsiaSpec => []RepliesTruthful
BY FAlways, PTL DEF FInv

=============================================================================
