----------------------------- MODULE SlotProofs -----------------------------
(***************************************************************************)
(* Proofs about SlotManager, for every number of slots, default priority   *)
(* and number of tries, and for all three representations.                 *)
(***************************************************************************)
EXTENDS SlotManager, TLAPS, WellFoundedInduction

(* The metadata of each representation; a priority of the fuchsia block is  *)
(* a byte.                                                                  *)
AbrSlot == [priority: 0..255, tries: Nat, successful: {0, 1}, reason: Reasons]
AndroidData == [slots: [Idx -> SlotMetaData], nb: Nat, active: Idx]
FuchsiaData == [slots: [Idx -> AbrSlot], flags: SUBSET {"recovery", "bootloader"}]
EfiData == [slots: [Idx -> AbrSlot], current: Idx, boot_reason: {"empty", "bootloader", "recovery"}]
DataOf(f) == IF f = "android" THEN AndroidData ELSE IF f = "fuchsia" THEN FuchsiaData ELSE EfiData

(* slots_iter() with the representation as an argument.                     *)
Shown(f, d) == IF f = "android" THEN {j \in Idx : j < nb_slots(d)} ELSE Idx
Shows(f, d) == [i \in Shown(f, d) |->
                  IF f = "android" THEN android_slot(d.slots[i])
                  ELSE IF f = "fuchsia" THEN fuchsia_slot(d.slots[i]) ELSE efi_slot(d.slots[i])]

SlotType ==
    /\ format \in {"android", "fuchsia", "efi"}
    /\ disk.ok \in BOOLEAN /\ disk = [ok |-> disk.ok, data |-> disk.data]
    /\ disk.data \in DataOf(format) /\ data \in DataOf(format)
    /\ status \in {"Clean", "Dirty"} /\ left \in Nat
    /\ target # None => target.kind \in {"normal", "recovery"} /\ (target.kind = "normal" => target.slot \in Idx)
    /\ last \in Idx \cup {None}
    /\ phase = "os" \/ (phase = "cursor" /\ token = "caller") => target # None

(* Slot i of s will be booted: it can be, and its priority is the highest.  *)
Leads(s, i) ==
    /\ i \in DOMAIN s /\ is_bootable(s[i])
    /\ \A j \in DOMAIN s : j # i => s[j].priority < s[i].priority

(* The slot the caller may boot has fewer tries in d than before the mark.  *)
Paid(d) ==
    left > 0 => /\ target # None /\ target.slot \in Shown(format, d)
                /\ Shows(format, d)[target.slot].tries < left

CleanInv ==
    format # "efi" =>
       /\ phase \in {"cursor", "loader"} /\ status = "Clean" => disk.ok /\ disk.data = data
       /\ phase \in {"loader", "os"} => status = "Clean" /\ disk.ok
       /\ phase = "cursor" /\ token = "caller" => Paid(data)
       /\ phase = "os" => Paid(disk.data)

PromiseInv ==
    /\ format # "efi" /\ phase = "cursor" /\ promise # None => Leads(Shows(format, data), promise)
    /\ format # "efi" /\ disk.ok /\ kept # None => Leads(Shows(format, disk.data), kept)
    /\ format = "efi" /\ phase = "cursor" /\ promise # None => last = promise

SInv == SlotType /\ CleanInv /\ PromiseInv

-----------------------------------------------------------------------------
(* The fields of a word of the android block do not touch each other.       *)
LEMMA WordFields ==
    ASSUME NEW w \in SlotMetaData
    PROVE  word_priority(w) \in 0..15 /\ word_tries(w) \in 0..7 /\ word_successful(w) \in BOOLEAN
BY DEF SlotMetaData, word_priority, word_tries, word_successful, get_field

LEMMA SetTries ==
    ASSUME NEW w \in SlotMetaData, NEW t \in 0..7
    PROVE  /\ set_tries(w, t) \in SlotMetaData
           /\ word_tries(set_tries(w, t)) = t
           /\ word_priority(set_tries(w, t)) = word_priority(w)
           /\ word_successful(set_tries(w, t)) = word_successful(w)
<1>1. w \in 0..511 /\ SlotMetaData = 0..511 /\ 2^0 = 1 /\ 2^4 = 16 /\ 2^7 = 128
  BY DEF SlotMetaData
<1>2. set_tries(w, t) = w - ((w \div 16) % 8) * 16 + t * 16
  BY <1>1 DEF set_tries, set_field, get_field
<1>3. set_tries(w, t) \in SlotMetaData /\ word_tries(set_tries(w, t)) = t
  BY <1>1, <1>2 DEF word_tries, get_field
<1>4. word_priority(set_tries(w, t)) = word_priority(w)
  BY <1>1, <1>2 DEF word_priority, get_field
<1>5. word_successful(set_tries(w, t)) = word_successful(w)
  BY <1>1, <1>2 DEF word_successful, get_field
<1> QED BY <1>3, <1>4, <1>5

LEMMA SetPriority ==
    ASSUME NEW w \in SlotMetaData, NEW p \in 0..15
    PROVE  /\ set_priority(w, p) \in SlotMetaData
           /\ word_priority(set_priority(w, p)) = p
           /\ word_tries(set_priority(w, p)) = word_tries(w)
           /\ word_successful(set_priority(w, p)) = word_successful(w)
<1>1. w \in 0..511 /\ SlotMetaData = 0..511 /\ 2^0 = 1 /\ 2^4 = 16 /\ 2^7 = 128
  BY DEF SlotMetaData
<1>2. set_priority(w, p) = w - (w % 16) + p
  BY <1>1 DEF set_priority, set_field, get_field
<1>3. set_priority(w, p) \in SlotMetaData /\ word_priority(set_priority(w, p)) = p
  BY <1>1, <1>2 DEF word_priority, get_field
<1>4. word_tries(set_priority(w, p)) = word_tries(w)
  BY <1>1, <1>2 DEF word_tries, get_field
<1>5. word_successful(set_priority(w, p)) = word_successful(w)
  BY <1>1, <1>2 DEF word_successful, get_field
<1> QED BY <1>3, <1>4, <1>5

LEMMA SetSuccessful ==
    ASSUME NEW w \in SlotMetaData, NEW b \in BOOLEAN
    PROVE  /\ set_successful(w, b) \in SlotMetaData
           /\ word_successful(set_successful(w, b)) = b
           /\ word_priority(set_successful(w, b)) = word_priority(w)
           /\ word_tries(set_successful(w, b)) = word_tries(w)
<1> DEFINE v == IF b THEN 1 ELSE 0
<1>1. w \in 0..511 /\ SlotMetaData = 0..511 /\ 2^0 = 1 /\ 2^4 = 16 /\ 2^7 = 128
  BY DEF SlotMetaData
<1>2. v \in 0..1 /\ (v # 0) = b
  OBVIOUS
<1>3. set_successful(w, b) = w - ((w \div 128) % 2) * 128 + v * 128
  BY <1>1 DEF set_successful, set_field, get_field
<1> HIDE DEF v
<1>4. set_successful(w, b) \in SlotMetaData /\ word_successful(set_successful(w, b)) = b
  <2>1. get_field(set_successful(w, b), 7, 1) = v /\ set_successful(w, b) \in SlotMetaData
    BY <1>1, <1>2, <1>3 DEF get_field
  <2> QED BY <1>2, <2>1 DEF word_successful
<1>5. word_priority(set_successful(w, b)) = word_priority(w)
  BY <1>1, <1>2, <1>3 DEF word_priority, get_field
<1>6. word_tries(set_successful(w, b)) = word_tries(w)
  BY <1>1, <1>2, <1>3 DEF word_tries, get_field
<1> QED BY <1>4, <1>5, <1>6

LEMMA DefaultWord ==
    /\ default_word \in SlotMetaData
    /\ word_priority(default_word) = DEFAULT_PRIORITY /\ word_tries(default_word) = DEFAULT_RETRIES
    /\ DEFAULT_PRIORITY \in 1..15 /\ DEFAULT_PRIORITY - 1 \in 0..15 /\ DEFAULT_RETRIES \in 1..7
<1>1. 0 \in SlotMetaData /\ DEFAULT_PRIORITY \in 0..15 /\ DEFAULT_RETRIES \in 0..7
  BY ConstantsAssumption DEF SlotMetaData
<1>2. /\ set_priority(0, DEFAULT_PRIORITY) \in SlotMetaData
      /\ word_priority(set_priority(0, DEFAULT_PRIORITY)) = DEFAULT_PRIORITY
  BY <1>1, SetPriority
<1>3. default_word \in SlotMetaData /\ word_priority(default_word) = DEFAULT_PRIORITY
      /\ word_tries(default_word) = DEFAULT_RETRIES
  BY <1>1, <1>2, SetTries DEF default_word
<1> QED BY <1>3, ConstantsAssumption

-----------------------------------------------------------------------------
(* What a manager shows of its block.                                       *)
Blocks == {"android", "fuchsia"}

LEMMA IterShows ==
    ASSUME format \in {"android", "fuchsia", "efi"}, NEW d
    PROVE  slots_iter(d) = Shows(format, d)
BY DEF slots_iter, Shows, Shown

LEMMA ShowsSlots ==
    ASSUME NEW f \in {"android", "fuchsia", "efi"}, NEW d \in DataOf(f)
    PROVE  /\ DOMAIN Shows(f, d) = Shown(f, d) /\ Shown(f, d) \subseteq Idx
           /\ \A i \in Shown(f, d) : LET s == Shows(f, d)[i] IN
                 /\ s.priority \in 0..255 /\ s.tries \in Nat
                 /\ s.bootability = "Retriable" => s.tries > 0
                 /\ s.tries > 0 => is_bootable(s)
<1>1. DOMAIN Shows(f, d) = Shown(f, d) /\ Shown(f, d) \subseteq Idx
  BY DEF Shows, Shown
<1> SUFFICES ASSUME NEW i \in Shown(f, d)
             PROVE  LET s == Shows(f, d)[i] IN
                 /\ s.priority \in 0..255 /\ s.tries \in Nat
                 /\ s.bootability = "Retriable" => s.tries > 0
                 /\ s.tries > 0 => is_bootable(s)
  BY <1>1
<1>2. CASE f = "android"
  <2>1. d.slots[i] \in SlotMetaData
    BY <1>1, <1>2 DEF DataOf, AndroidData
  <2>2. Shows(f, d)[i] = android_slot(d.slots[i])
    BY <1>2 DEF Shows
  <2>3. word_priority(d.slots[i]) \in 0..15 /\ word_tries(d.slots[i]) \in 0..7
    BY <2>1, WordFields
  <2> QED BY <2>2, <2>3 DEF android_slot, is_bootable
<1>3. CASE f # "android"
  <2>1. d.slots[i] \in AbrSlot
    BY <1>1, <1>3 DEF DataOf, FuchsiaData, EfiData
  <2>2. Shows(f, d)[i] = fuchsia_slot(d.slots[i])
    BY <1>3, <2>1 DEF Shows, fuchsia_slot, efi_slot, AbrSlot
  <2> QED BY <2>1, <2>2 DEF fuchsia_slot, is_bootable, AbrSlot
<1> QED BY <1>2, <1>3

(* A block with other slots and as many of them.                            *)
LEMMA NewSlots ==
    ASSUME NEW f \in Blocks, NEW d \in DataOf(f), NEW n \in DataOf(f),
           f = "android" => n.nb = d.nb
    PROVE  /\ Shown(f, n) = Shown(f, d)
           /\ \A i \in Shown(f, n) : n.slots[i] = d.slots[i] => Shows(f, n)[i] = Shows(f, d)[i]
<1>1. f = "android" => nb_slots(n) = nb_slots(d)
  BY DEF nb_slots
<1>2. Shown(f, n) = Shown(f, d)
  BY <1>1 DEF Shown
<1> QED BY <1>2 DEF Shows

Charge(f, d, i) == IF f = "android" THEN android_charge(d, i) ELSE fuchsia_charge(d, i)

(* A try is taken from slot i alone, and its priority stays.                *)
LEMMA ChargeShows ==
    ASSUME NEW f \in Blocks, NEW d \in DataOf(f), NEW i \in Shown(f, d),
           Shows(f, d)[i].bootability = "Retriable"
    PROVE  LET n == Charge(f, d, i) IN
           /\ n \in DataOf(f) /\ Shown(f, n) = Shown(f, d)
           /\ \A j \in Shown(f, d) : j # i => Shows(f, n)[j] = Shows(f, d)[j]
           /\ Shows(f, n)[i].priority = Shows(f, d)[i].priority
           /\ Shows(f, n)[i].tries = Shows(f, d)[i].tries - 1
<1> DEFINE n == Charge(f, d, i)
<1>0. Shown(f, d) \subseteq Idx
  BY DEF Shown
<1>1. i \in Idx /\ f \in {"android", "fuchsia", "efi"}
  BY DEF Shown, Blocks
<1>2. Shows(f, d)[i].tries \in Nat /\ Shows(f, d)[i].tries > 0
  BY <1>1, ShowsSlots
<1>3. CASE f = "android"
  <2> DEFINE w == d.slots[i]
             v == set_tries(w, word_tries(w) - 1)
             new == [d.slots EXCEPT ![i] = v]
  <2>1. d \in AndroidData /\ d.slots \in [Idx -> SlotMetaData] /\ w \in SlotMetaData
    BY <1>1, <1>3 DEF DataOf, AndroidData
  <2>2. Shows(f, d)[i] = android_slot(w)
    BY <1>3 DEF Shows
  <2>3. word_tries(w) \in 0..7 /\ word_tries(w) > 0
    BY <1>2, <2>1, <2>2, WordFields DEF android_slot
  <2>4. /\ v \in SlotMetaData /\ word_tries(v) = word_tries(w) - 1
        /\ word_priority(v) = word_priority(w)
    BY <2>1, <2>3, SetTries
  <2> HIDE DEF v
  <2>5. new \in [Idx -> SlotMetaData] /\ new[i] = v /\ \A j \in Idx : j # i => new[j] = d.slots[j]
    BY <1>1, <2>1, <2>4
  <2>6. n = [d EXCEPT !.slots = new]
    BY <1>3, <2>1 DEF Charge, android_charge, AndroidData, v
  <2> HIDE DEF new
  <2>7. n.slots = new /\ n.nb = d.nb /\ n \in AndroidData
    BY <2>1, <2>5, <2>6 DEF AndroidData
  <2> HIDE DEF n
  <2>8. n \in DataOf(f)
    BY <1>3, <2>7 DEF DataOf
  <2>9. /\ Shown(f, n) = Shown(f, d)
        /\ \A j \in Shown(f, d) : n.slots[j] = d.slots[j] => Shows(f, n)[j] = Shows(f, d)[j]
    BY <2>7, <2>8, NewSlots
  <2>10. Shows(f, n)[i] = android_slot(v)
    BY <1>3, <2>5, <2>7, <2>9 DEF Shows
  <2>11. \A j \in Shown(f, d) : j # i => n.slots[j] = d.slots[j]
    BY <1>0, <2>5, <2>7
  <2>12. \A j \in Shown(f, d) : j # i => Shows(f, n)[j] = Shows(f, d)[j]
    BY <2>9, <2>11
  <2>13. /\ Shows(f, n)[i].priority = Shows(f, d)[i].priority
         /\ Shows(f, n)[i].tries = Shows(f, d)[i].tries - 1
    BY <2>2, <2>4, <2>10 DEF android_slot
  <2> QED BY <2>8, <2>9, <2>12, <2>13 DEF n
<1>4. CASE f = "fuchsia"
  <2> DEFINE e == d.slots[i]
             r == IF e.tries = 1 THEN "NoMoreTries" ELSE e.reason
             v == [e EXCEPT !.tries = @ - 1, !.reason = r]
             new == [d.slots EXCEPT ![i] = v]
  <2>1. d \in FuchsiaData /\ d.slots \in [Idx -> AbrSlot] /\ e \in AbrSlot
    BY <1>1, <1>4 DEF DataOf, FuchsiaData
  <2>2. Shows(f, d)[i] = fuchsia_slot(e)
    BY <1>4 DEF Shows
  <2>3. e.tries \in Nat /\ e.tries > 0
    BY <1>2, <2>1, <2>2 DEF fuchsia_slot, AbrSlot
  <2>4. r \in Reasons
    BY <2>1 DEF AbrSlot, Reasons
  <2> HIDE DEF r
  <2>5. v \in AbrSlot /\ v.tries = e.tries - 1 /\ v.priority = e.priority
    <3> DEFINE t == e.tries - 1
    <3>1. t \in Nat
      BY <2>3
    <3>2. v = [e EXCEPT !.tries = t, !.reason = r]
      OBVIOUS
    <3> HIDE DEF t, v, e
    <3> QED BY <2>1, <2>4, <3>1, <3>2 DEF AbrSlot, t
  <2>6. n = [d EXCEPT !.slots = new]
    <3> DEFINE e1 == [e EXCEPT !.tries = @ - 1]
               s1 == [d.slots EXCEPT ![i] = e1]
               d1 == [d EXCEPT !.slots = s1]
    <3>1. n = [d1 EXCEPT !.slots = [d1.slots EXCEPT ![i] = [d1.slots[i] EXCEPT !.reason =
                  IF d.slots[i].tries = 1 THEN "NoMoreTries" ELSE @]]]
      BY <1>4 DEF Charge, fuchsia_charge
    <3>2. d1.slots = s1 /\ [d1 EXCEPT !.slots = new] = [d EXCEPT !.slots = new]
      BY <2>1 DEF FuchsiaData
    <3>3. s1[i] = e1 /\ [s1 EXCEPT ![i] = v] = new
      BY <1>1, <2>1
    <3>4. [e1 EXCEPT !.reason = IF d.slots[i].tries = 1 THEN "NoMoreTries" ELSE @] = v
      BY <2>1 DEF AbrSlot, r
    <3> HIDE DEF d1, s1, e1, v, new
    <3> QED BY <3>1, <3>2, <3>3, <3>4
  <2> HIDE DEF v
  <2>7. new \in [Idx -> AbrSlot] /\ new[i] = v /\ \A j \in Idx : j # i => new[j] = d.slots[j]
    BY <1>1, <2>1, <2>5
  <2> HIDE DEF new
  <2>8. n.slots = new /\ n \in FuchsiaData
    BY <2>1, <2>6, <2>7 DEF FuchsiaData
  <2> HIDE DEF n
  <2>9. n \in DataOf(f)
    BY <1>4, <2>8 DEF DataOf
  <2>10. /\ Shown(f, n) = Shown(f, d)
         /\ \A j \in Shown(f, d) : n.slots[j] = d.slots[j] => Shows(f, n)[j] = Shows(f, d)[j]
    BY <1>4, <2>9, NewSlots
  <2>11. Shows(f, n)[i] = fuchsia_slot(v)
    BY <1>4, <2>7, <2>8, <2>10 DEF Shows
  <2>12. \A j \in Shown(f, d) : j # i => n.slots[j] = d.slots[j]
    BY <1>0, <2>7, <2>8
  <2>13. \A j \in Shown(f, d) : j # i => Shows(f, n)[j] = Shows(f, d)[j]
    BY <2>10, <2>12
  <2>14. /\ Shows(f, n)[i].priority = Shows(f, d)[i].priority
         /\ Shows(f, n)[i].tries = Shows(f, d)[i].tries - 1
    BY <2>2, <2>5, <2>11 DEF fuchsia_slot
  <2> QED BY <2>9, <2>10, <2>13, <2>14 DEF n
<1> QED BY <1>3, <1>4 DEF Blocks

SlotOf(f) == IF f = "android" THEN SlotMetaData ELSE AbrSlot
Look(f, v) == IF f = "android" THEN android_slot(v) ELSE fuchsia_slot(v)

LEMMA PutSlots ==
    ASSUME NEW f \in {"android", "fuchsia", "efi"}, NEW d \in DataOf(f), NEW new \in [Idx -> SlotOf(f)]
    PROVE  LET n == [d EXCEPT !.slots = new] IN
           /\ n \in DataOf(f) /\ Shown(f, n) = Shown(f, d)
           /\ \A i \in Shown(f, d) : Shows(f, n)[i] = Look(f, new[i])
<1> DEFINE n == [d EXCEPT !.slots = new]
<1>1. n \in DataOf(f) /\ n.slots = new /\ (f = "android" => n.nb = d.nb)
  <2>1. CASE f = "android"
    BY <2>1 DEF DataOf, AndroidData, SlotOf
  <2>2. CASE f = "fuchsia"
    BY <2>2 DEF DataOf, FuchsiaData, SlotOf
  <2>3. CASE f = "efi"
    BY <2>3 DEF DataOf, EfiData, SlotOf
  <2> QED BY <2>1, <2>2, <2>3
<1> HIDE DEF n
<1>2. Shown(f, n) = Shown(f, d) /\ Shown(f, n) \subseteq Idx
  <2>1. f = "android" => nb_slots(n) = nb_slots(d)
    BY <1>1 DEF nb_slots
  <2> QED BY <2>1 DEF Shown
<1>3. ASSUME NEW i \in Shown(f, n) PROVE Shows(f, n)[i] = Look(f, new[i])
  <2>1. CASE f \in Blocks
    BY <1>1, <2>1 DEF Shows, Look, Blocks
  <2>2. CASE f = "efi"
    <3>1. new[i] \in AbrSlot
      BY <1>2, <2>2 DEF SlotOf
    <3> QED BY <1>1, <2>2, <3>1 DEF Shows, Look, efi_slot, fuchsia_slot, AbrSlot
  <2> QED BY <2>1, <2>2 DEF Blocks
<1> QED BY <1>1, <1>2, <1>3 DEF n

LEMMA LookAt ==
    ASSUME NEW f \in {"android", "fuchsia", "efi"}, NEW d \in DataOf(f)
    PROVE  /\ d.slots \in [Idx -> SlotOf(f)]
           /\ \A i \in Shown(f, d) : i \in Idx /\ Shows(f, d)[i] = Look(f, d.slots[i])
<1>1. d.slots \in [Idx -> SlotOf(f)]
  BY DEF DataOf, AndroidData, FuchsiaData, EfiData, SlotOf
<1>2. ASSUME NEW i \in Shown(f, d) PROVE i \in Idx /\ Shows(f, d)[i] = Look(f, d.slots[i])
  <2>1. i \in Idx
    BY DEF Shown
  <2>2. f = "efi" => d.slots[i] \in AbrSlot
    BY <1>1, <2>1 DEF SlotOf
  <2> QED BY <2>1, <2>2 DEF Shows, Look, efi_slot, fuchsia_slot, AbrSlot
<1> QED BY <1>1, <1>2

(* One slot of the block is replaced.                                       *)
LEMMA PutSlot ==
    ASSUME NEW f \in {"android", "fuchsia", "efi"}, NEW d \in DataOf(f), NEW i \in Idx,
           NEW v \in SlotOf(f), NEW n, n = [d EXCEPT !.slots = [d.slots EXCEPT ![i] = v]]
    PROVE  /\ n \in DataOf(f) /\ Shown(f, n) = Shown(f, d)
           /\ \A j \in Shown(f, d) : j # i => Shows(f, n)[j] = Shows(f, d)[j]
           /\ i \in Shown(f, d) => Shows(f, n)[i] = Look(f, v)
<1> DEFINE new == [d.slots EXCEPT ![i] = v]
<1>0. n = [d EXCEPT !.slots = new]
  OBVIOUS
<1>1. d.slots \in [Idx -> SlotOf(f)]
  BY LookAt
<1>2. new \in [Idx -> SlotOf(f)] /\ new[i] = v /\ \A j \in Idx : j # i => new[j] = d.slots[j]
  BY <1>1
<1> HIDE DEF new
<1>3. /\ n \in DataOf(f) /\ Shown(f, n) = Shown(f, d)
      /\ \A j \in Shown(f, d) : Shows(f, n)[j] = Look(f, new[j])
  BY <1>0, <1>2, PutSlots
<1>4. \A j \in Shown(f, d) : j \in Idx /\ Shows(f, d)[j] = Look(f, d.slots[j])
  BY LookAt
<1> QED BY <1>2, <1>3, <1>4

(* The default slot and words.                                              *)
LEMMA DefaultSlot ==
    /\ default_abr_slot \in AbrSlot
    /\ \A f \in {"android", "fuchsia", "efi"} :
         LET v == IF f = "android" THEN default_word ELSE default_abr_slot IN
         v \in SlotOf(f) /\ Look(f, v).priority = DEFAULT_PRIORITY /\ is_bootable(Look(f, v))
<1>1. default_abr_slot \in AbrSlot
  BY ConstantsAssumption DEF default_abr_slot, AbrSlot, Reasons
<1>2. android_slot(default_word).priority = DEFAULT_PRIORITY /\ is_bootable(android_slot(default_word))
  BY DefaultWord DEF android_slot, is_bootable
<1>3. /\ fuchsia_slot(default_abr_slot).priority = DEFAULT_PRIORITY
      /\ is_bootable(fuchsia_slot(default_abr_slot))
  BY ConstantsAssumption DEF fuchsia_slot, default_abr_slot, is_bootable
<1> QED BY <1>1, <1>2, <1>3, DefaultWord DEF SlotOf, Look

Activate(f, d, i) ==
    IF f = "android" THEN android_activate(d, i)
    ELSE IF f = "fuchsia" THEN fuchsia_activate(d, i) ELSE efi_activate(d, i)

(* set_active_slot(): slot i is ahead of every other.                       *)
LEMMA ActivateShows ==
    ASSUME NEW f \in {"android", "fuchsia", "efi"}, NEW d \in DataOf(f), NEW i \in Shown(f, d)
    PROVE  LET n == Activate(f, d, i) IN
           n \in DataOf(f) /\ (f # "efi" => Leads(Shows(f, n), i))
<1> DEFINE n == Activate(f, d, i)
<1>1. i \in Idx /\ d.slots \in [Idx -> SlotOf(f)]
  BY LookAt
<1>2. ASSUME NEW m \in DataOf(f), Shown(f, m) = Shown(f, d), is_bootable(Shows(f, m)[i]),
             Shows(f, m)[i].priority = DEFAULT_PRIORITY,
             \A j \in Shown(f, d) : j # i => Shows(f, m)[j].priority = DEFAULT_PRIORITY - 1
      PROVE  Leads(Shows(f, m), i)
  BY <1>2, ShowsSlots, ConstantsAssumption DEF Leads
<1>3. CASE f = "android"
  <2> DEFINE new == [j \in Idx |-> IF j = i THEN default_word
                                  ELSE set_priority(d.slots[j], DEFAULT_PRIORITY - 1)]
             m == [d EXCEPT !.slots = new]
  <2>1. \A j \in Idx : /\ set_priority(d.slots[j], DEFAULT_PRIORITY - 1) \in SlotMetaData
                       /\ word_priority(set_priority(d.slots[j], DEFAULT_PRIORITY - 1)) = DEFAULT_PRIORITY - 1
    BY <1>1, <1>3, SetPriority, DefaultWord DEF SlotOf
  <2>2. new \in [Idx -> SlotOf(f)]
    BY <1>3, <2>1, DefaultWord DEF SlotOf
  <2>3. new[i] = default_word
    BY <1>1
  <2>4. \A j \in Idx : j # i => word_priority(new[j]) = DEFAULT_PRIORITY - 1
    BY <2>1
  <2>5. n = [m EXCEPT !.active = i]
    BY <1>3 DEF Activate, android_activate
  <2> HIDE DEF new
  <2>6. /\ m \in DataOf(f) /\ Shown(f, m) = Shown(f, d)
        /\ \A j \in Shown(f, d) : Shows(f, m)[j] = Look(f, new[j])
    BY <2>2, PutSlots
  <2> HIDE DEF m
  <2>7. n \in DataOf(f) /\ n.slots = m.slots /\ n.nb = m.nb
    BY <1>1, <1>3, <2>5, <2>6 DEF DataOf, AndroidData
  <2> HIDE DEF n
  <2>8. /\ Shown(f, n) = Shown(f, m)
        /\ \A j \in Shown(f, n) : Shows(f, n)[j] = Shows(f, m)[j]
    BY <1>3, <2>6, <2>7, NewSlots DEF Blocks
  <2>9. /\ is_bootable(Shows(f, n)[i]) /\ Shows(f, n)[i].priority = DEFAULT_PRIORITY
    BY <1>3, <2>3, <2>6, <2>8, DefaultSlot
  <2>10. \A j \in Shown(f, d) : j # i => Shows(f, n)[j].priority = DEFAULT_PRIORITY - 1
    <3>1. \A j \in Shown(f, d) : j \in Idx
      BY LookAt
    <3>2. \A w : Look(f, w).priority = word_priority(w)
      BY <1>3 DEF Look, android_slot
    <3> QED BY <2>4, <2>6, <2>8, <3>1, <3>2
  <2> QED BY <1>2, <2>6, <2>7, <2>8, <2>9, <2>10 DEF n
<1>4. CASE f = "fuchsia"
  <2> DEFINE low(j) == [d.slots[j] EXCEPT !.priority = DEFAULT_PRIORITY - 1]
             new == [j \in Idx |-> IF j = i THEN default_abr_slot ELSE low(j)]
  <2>1. \A j \in Idx : low(j) \in AbrSlot /\ low(j).priority = DEFAULT_PRIORITY - 1
    <3>1. \A j \in Idx : d.slots[j] \in AbrSlot
      BY <1>1, <1>4 DEF SlotOf
    <3>2. DEFAULT_PRIORITY - 1 \in 0..255
      BY ConstantsAssumption
    <3> QED BY <3>1, <3>2 DEF AbrSlot
  <2>2. n = [d EXCEPT !.slots = new]
    BY <1>4 DEF Activate, fuchsia_activate
  <2> HIDE DEF low
  <2>3. new \in [Idx -> SlotOf(f)] /\ new[i] = default_abr_slot /\ \A j \in Idx : j # i => new[j] = low(j)
    BY <1>1, <1>4, <2>1, DefaultSlot DEF SlotOf
  <2> HIDE DEF new
  <2>4. /\ n \in DataOf(f) /\ Shown(f, n) = Shown(f, d)
        /\ \A j \in Shown(f, d) : Shows(f, n)[j] = Look(f, new[j])
    BY <2>2, <2>3, PutSlots
  <2> HIDE DEF n
  <2>5. /\ is_bootable(Shows(f, n)[i]) /\ Shows(f, n)[i].priority = DEFAULT_PRIORITY
    BY <1>4, <2>3, <2>4, DefaultSlot
  <2>6. \A j \in Shown(f, d) : j # i => Shows(f, n)[j].priority = DEFAULT_PRIORITY - 1
    <3>1. \A j \in Shown(f, d) : j \in Idx
      BY LookAt
    <3>2. \A w : Look(f, w).priority = w.priority
      BY <1>4 DEF Look, fuchsia_slot
    <3> QED BY <2>1, <2>3, <2>4, <3>1, <3>2
  <2> QED BY <1>2, <2>4, <2>5, <2>6 DEF n
<1>5. CASE f = "efi"
  <2> DEFINE m == [d EXCEPT !.slots = [d.slots EXCEPT ![i] = default_abr_slot]]
  <2>1. m \in DataOf(f)
    BY <1>1, <1>5, PutSlot, DefaultSlot DEF SlotOf
  <2>2. n = [m EXCEPT !.current = i]
    BY <1>5 DEF Activate, efi_activate
  <2> HIDE DEF m
  <2>3. n \in DataOf(f)
    BY <1>1, <1>5, <2>1, <2>2 DEF DataOf, EfiData
  <2> QED BY <1>5, <2>3
<1> QED BY <1>3, <1>4, <1>5

Disable(f, d, i, r) ==
    IF f = "android" THEN android_disable(d, i, r)
    ELSE IF f = "fuchsia" THEN fuchsia_disable(d, i, r) ELSE efi_disable(d, i, r)

(* set_slot_unbootable() leaves every priority and every other slot alone.  *)
LEMMA DisableShows ==
    ASSUME NEW f \in {"android", "fuchsia", "efi"}, NEW d \in DataOf(f), NEW i \in Shown(f, d),
           NEW r \in Reasons
    PROVE  LET n == Disable(f, d, i, r) IN
           /\ n \in DataOf(f) /\ Shown(f, n) = Shown(f, d)
           /\ \A j \in Shown(f, d) : j # i => Shows(f, n)[j] = Shows(f, d)[j]
           /\ Shows(f, n)[i].priority = Shows(f, d)[i].priority
<1> DEFINE n == Disable(f, d, i, r)
           e == d.slots[i]
<1>1. i \in Idx /\ d.slots \in [Idx -> SlotOf(f)] /\ Shows(f, d)[i] = Look(f, e)
  BY LookAt
<1>2. e \in SlotOf(f)
  BY <1>1
<1>3. ASSUME NEW v \in SlotOf(f), n = [d EXCEPT !.slots = [d.slots EXCEPT ![i] = v]],
             Look(f, v).priority = Look(f, e).priority
      PROVE  /\ n \in DataOf(f) /\ Shown(f, n) = Shown(f, d)
             /\ \A j \in Shown(f, d) : j # i => Shows(f, n)[j] = Shows(f, d)[j]
             /\ Shows(f, n)[i].priority = Shows(f, d)[i].priority
  <2> HIDE DEF n, e
  <2>1. /\ n \in DataOf(f) /\ Shown(f, n) = Shown(f, d)
        /\ \A j \in Shown(f, d) : j # i => Shows(f, n)[j] = Shows(f, d)[j]
        /\ Shows(f, n)[i] = Look(f, v)
    BY <1>1, <1>3, PutSlot
  <2> QED BY <1>1, <1>3, <2>1
<1>4. CASE f = "android"
  <2> DEFINE v == set_successful(set_tries(e, 0), FALSE)
  <2>1. e \in SlotMetaData
    BY <1>2, <1>4 DEF SlotOf
  <2>2. set_tries(e, 0) \in SlotMetaData /\ word_priority(set_tries(e, 0)) = word_priority(e)
    BY <2>1, SetTries
  <2>3. v \in SlotMetaData /\ word_priority(v) = word_priority(e)
    BY <2>2, SetSuccessful
  <2>4. n = [d EXCEPT !.slots = [d.slots EXCEPT ![i] = v]]
    BY <1>4 DEF Disable, android_disable
  <2> HIDE DEF v, n, e
  <2>5. v \in SlotOf(f) /\ Look(f, v).priority = Look(f, e).priority
    BY <1>4, <2>3 DEF SlotOf, Look, android_slot
  <2> QED BY <1>3, <2>4, <2>5 DEF n
<1>5. CASE f # "android"
  <2> DEFINE v == [e EXCEPT !.reason = r, !.tries = 0, !.successful = 0]
             e1 == [e EXCEPT !.reason = r]
             s1 == [d.slots EXCEPT ![i] = e1]
             d1 == [d EXCEPT !.slots = s1]
             e2 == [e1 EXCEPT !.tries = 0]
             s2 == [s1 EXCEPT ![i] = e2]
             d2 == [d1 EXCEPT !.slots = s2]
             new == [d.slots EXCEPT ![i] = v]
  <2>1. e \in AbrSlot
    BY <1>2, <1>5 DEF SlotOf
  <2>2. v \in AbrSlot /\ v.priority = e.priority
    BY <2>1 DEF AbrSlot
  <2>3. v = [e2 EXCEPT !.successful = 0]
    BY <2>1 DEF AbrSlot
  <2>4. s1[i] = e1 /\ s2[i] = e2 /\ [s2 EXCEPT ![i] = v] = new
    BY <1>1
  <2>5. d1.slots = s1 /\ d2.slots = s2 /\ [d2 EXCEPT !.slots = new] = [d EXCEPT !.slots = new]
    BY <1>5 DEF DataOf, FuchsiaData, EfiData
  <2>6. n = [d EXCEPT !.slots = new]
    <3>1. n = [d2 EXCEPT !.slots = [d2.slots EXCEPT ![i] = [d2.slots[i] EXCEPT !.successful = 0]]]
      <4>1. n = [d EXCEPT !.slots[i].reason = r, !.slots[i].tries = 0, !.slots[i].successful = 0]
        BY <1>5 DEF Disable, fuchsia_disable, efi_disable
      <4>2. [d EXCEPT !.slots[i].reason = r] = d1
        OBVIOUS
      <4>3. [d1 EXCEPT !.slots[i].tries = 0] = [d1 EXCEPT !.slots = [d1.slots EXCEPT ![i] = [d1.slots[i] EXCEPT !.tries = 0]]]
        OBVIOUS
      <4>4. [d1 EXCEPT !.slots[i].tries = 0] = d2
        BY <2>4, <2>5, <4>3
      <4> HIDE DEF d1, d2
      <4> QED BY <4>1, <4>2, <4>4
    <3> HIDE DEF d2, s2, e2, new, v
    <3> QED BY <2>3, <2>4, <2>5, <3>1
  <2> HIDE DEF v, n, e
  <2>7. v \in SlotOf(f) /\ Look(f, v).priority = Look(f, e).priority
    BY <1>5, <2>2 DEF SlotOf, Look, fuchsia_slot
  <2> QED BY <1>3, <2>6, <2>7 DEF n
<1> QED BY <1>4, <1>5

(* The running system marks its slot successful.                            *)
Succeed(f, d, i) ==
    [d EXCEPT !.slots = [d.slots EXCEPT ![i] =
        IF f = "android" THEN set_successful(@, TRUE) ELSE [@ EXCEPT !.successful = 1]]]

LEMMA SucceedShows ==
    ASSUME NEW f \in {"android", "fuchsia", "efi"}, NEW d \in DataOf(f), NEW i \in Idx
    PROVE  LET n == Succeed(f, d, i) IN
           /\ n \in DataOf(f) /\ Shown(f, n) = Shown(f, d)
           /\ \A j \in Shown(f, d) : /\ Shows(f, n)[j].priority = Shows(f, d)[j].priority
                                     /\ Shows(f, n)[j].tries = Shows(f, d)[j].tries
                                     /\ is_bootable(Shows(f, d)[j]) => is_bootable(Shows(f, n)[j])
<1> DEFINE e == d.slots[i]
           v == IF f = "android" THEN set_successful(e, TRUE) ELSE [e EXCEPT !.successful = 1]
           n == Succeed(f, d, i)
<1>1. e \in SlotOf(f)
  BY LookAt
<1>2. n = [d EXCEPT !.slots = [d.slots EXCEPT ![i] = v]]
  BY DEF Succeed
<1>3. /\ v \in SlotOf(f) /\ Look(f, v).priority = Look(f, e).priority /\ Look(f, v).tries = Look(f, e).tries
      /\ is_bootable(Look(f, v))
  <2>1. CASE f = "android"
    <3>1. /\ v \in SlotMetaData /\ word_priority(v) = word_priority(e) /\ word_tries(v) = word_tries(e)
          /\ word_successful(v)
      BY <1>1, <2>1, SetSuccessful DEF SlotOf
    <3> HIDE DEF v
    <3> QED BY <2>1, <3>1 DEF SlotOf, Look, android_slot, is_bootable
  <2>2. CASE f # "android"
    <3>1. v \in AbrSlot /\ v.priority = e.priority /\ v.tries = e.tries /\ v.successful = 1
      BY <1>1, <2>2 DEF SlotOf, AbrSlot
    <3> HIDE DEF v
    <3> QED BY <2>2, <3>1 DEF SlotOf, Look, fuchsia_slot, is_bootable
  <2> QED BY <2>1, <2>2
<1> HIDE DEF v, n, e
<1>4. /\ n \in DataOf(f) /\ Shown(f, n) = Shown(f, d)
      /\ \A j \in Shown(f, d) : j # i => Shows(f, n)[j] = Shows(f, d)[j]
      /\ i \in Shown(f, d) => Shows(f, n)[i] = Look(f, v)
  BY <1>2, <1>3, PutSlot
<1>5. i \in Shown(f, d) => Shows(f, d)[i] = Look(f, e)
  BY LookAt DEF e
<1> QED BY <1>3, <1>4, <1>5 DEF n

(* The slot to boot stays ahead while no priority changes.                  *)
LEMMA LeadsKept ==
    ASSUME NEW f \in {"android", "fuchsia", "efi"}, NEW d \in DataOf(f), NEW n \in DataOf(f),
           NEW p, Leads(Shows(f, d), p), Shown(f, n) = Shown(f, d),
           \A j \in Shown(f, d) : Shows(f, n)[j].priority = Shows(f, d)[j].priority,
           is_bootable(Shows(f, n)[p])
    PROVE  Leads(Shows(f, n), p)
BY ShowsSlots DEF Leads

(* The slot ahead of every other is the one max_by_key() finds.             *)
LEMMA LeadsIsChosen ==
    ASSUME NEW f \in {"android", "fuchsia", "efi"}, NEW d \in DataOf(f), NEW p, Leads(Shows(f, d), p),
           NEW S \in SUBSET Shown(f, d), p \in S
    PROVE  max_by_priority(Shows(f, d), S) = p
<1> DEFINE s == Shows(f, d)
           Top(i) == \A j \in S : s[i].priority > s[j].priority
                                  \/ (s[i].priority = s[j].priority /\ i =< j)
<1>1. \A j \in S : j \in DOMAIN s /\ s[j].priority \in Nat /\ j \in Nat
  <2>1. \A j \in S : j \in DOMAIN s /\ s[j].priority \in 0..255 /\ j \in Idx
    BY ShowsSlots
  <2> QED BY <2>1 DEF Idx
<1>2. \A j \in S : j # p => s[j].priority < s[p].priority
  BY <1>1 DEF Leads
<1> HIDE DEF s
<1>3. Top(p)
  BY <1>1, <1>2
<1>4. \A i \in S : Top(i) => i = p
  BY <1>1, <1>2
<1> QED BY <1>3, <1>4 DEF max_by_priority, s

LEMMA SmallestOf ==
    ASSUME NEW T \in SUBSET Nat, T # {}
    PROVE  \E x \in T : \A y \in T : x =< y
<1> DEFINE R == OpToRel(<, Nat)
<1>1. IsWellFoundedOn(R, Nat)
  BY NatLessThanWellFounded
<1>2. \A x, y \in Nat : y < x => <<y, x>> \in R
  BY DEF OpToRel
<1> HIDE DEF R
<1>3. PICK x \in T : \A y \in T : ~(<<y, x>> \in R)
  BY <1>1, WFMin
<1>4. ASSUME NEW y \in T PROVE x =< y
  <2>1. x \in Nat /\ y \in Nat /\ ~(y < x)
    BY <1>2, <1>3
  <2> QED BY <2>1
<1> QED BY <1>4

(* max_by_key() over some slots yields one of them.                         *)
LEMMA MaxIsOne ==
    ASSUME NEW f \in {"android", "fuchsia", "efi"}, NEW d \in DataOf(f),
           NEW S \in SUBSET Shown(f, d), S # {}
    PROVE  max_by_priority(Shows(f, d), S) \in S
<1> DEFINE s == Shows(f, d)
<1>1. \A j \in S : s[j].priority \in 0..255 /\ j \in Nat
  BY ShowsSlots DEF Idx
<1> HIDE DEF s
<1> DEFINE Gaps == {255 - s[j].priority : j \in S}
<1>2. PICK g \in Gaps : \A h \in Gaps : g =< h
  <2>1. Gaps \in SUBSET Nat /\ Gaps # {}
    BY <1>1
  <2> HIDE DEF Gaps
  <2> QED BY <2>1, SmallestOf
<1>3. PICK k \in S : g = 255 - s[k].priority
  BY <1>2
<1>4. ASSUME NEW j \in S PROVE s[j].priority =< s[k].priority
  <2>1. 255 - s[j].priority \in Gaps
    OBVIOUS
  <2>2. g =< 255 - s[j].priority
    BY <1>2, <2>1
  <2>3. s[j].priority \in Int /\ s[k].priority \in Int
    <3>1. s[j].priority \in 0..255 /\ s[k].priority \in 0..255
      BY <1>1
    <3> QED BY <3>1
  <2>4. \A a, b \in Int : 255 - a =< 255 - b => b =< a
    OBVIOUS
  <2>5. 255 - s[k].priority =< 255 - s[j].priority
    BY <1>3, <2>2
  <2> QED BY <2>3, <2>4, <2>5
<1> HIDE DEF Gaps
<1> DEFINE Best == {j \in S : s[j].priority = s[k].priority}
<1>5. PICK i \in Best : \A j \in Best : i =< j
  <2>1. Best \in SUBSET Nat /\ Best # {}
    BY <1>1
  <2> HIDE DEF Best
  <2> QED BY <2>1, SmallestOf
<1>6. i \in S /\ \A j \in S : s[i].priority > s[j].priority
                              \/ (s[i].priority = s[j].priority /\ i =< j)
  <2>1. i \in S /\ s[i].priority = s[k].priority
    BY <1>5
  <2>2. ASSUME NEW j \in S
        PROVE  s[i].priority > s[j].priority \/ (s[i].priority = s[j].priority /\ i =< j)
    <3>1. s[j].priority =< s[k].priority /\ s[j].priority \in 0..255 /\ s[k].priority \in 0..255
      BY <1>1, <1>4
    <3>2. s[j].priority = s[k].priority => i =< j
      BY <1>5
    <3>3. \A a, b \in 0..255 : a =< b => b > a \/ b = a
      OBVIOUS
    <3>4. s[k].priority > s[j].priority \/ s[k].priority = s[j].priority
      BY <3>1, <3>3
    <3> QED BY <2>1, <3>2, <3>4
  <2> QED BY <2>1, <2>2
<1> QED BY <1>6 DEF max_by_priority, s

(* What a boot may be given: a slot the manager shows, or a recovery.       *)
LEMMA TargetType ==
    ASSUME SlotType, attempt_target(data) # None
    PROVE  LET t == attempt_target(data) IN
           /\ t.kind \in {"normal", "recovery"}
           /\ t.kind = "normal" => t.slot \in Shown(format, data)
<1> DEFINE s == Shows(format, data)
           up == {i \in DOMAIN s : is_bootable(s[i])}
<1>1. format \in {"android", "fuchsia", "efi"} /\ data \in DataOf(format) /\ slots_iter(data) = s
  BY IterShows DEF SlotType
<1>2. DOMAIN s = Shown(format, data) /\ up \in SUBSET Shown(format, data)
  BY <1>1, ShowsSlots
<1>3. ASSUME NEW fb, fb.kind = "recovery"
      PROVE  LET t == BlockBootTarget(data, fb) IN
             /\ t.kind \in {"normal", "recovery"}
             /\ t.kind = "normal" => t.slot \in Shown(format, data)
  <2>1. up # {} => max_by_priority(s, up) \in Shown(format, data)
    BY <1>1, <1>2, MaxIsOne
  <2>2. BlockBootTarget(data, fb) = IF up # {} THEN normal_boot(max_by_priority(s, up)) ELSE fb
    BY <1>1 DEF BlockBootTarget
  <2> HIDE DEF up, s
  <2> QED BY <1>3, <2>1, <2>2 DEF normal_boot
<1>4. dedicated_recovery.kind = "recovery" /\ \A i : slotted_recovery(i).kind = "recovery"
  BY DEF dedicated_recovery, slotted_recovery
<1>5. CASE format = "android"
  <2>1. attempt_target(data) = BlockBootTarget(data, slotted_recovery(get_slot_last_set_active(data)))
    BY <1>5 DEF attempt_target, get_boot_target, android_boot_target
  <2> QED BY <1>3, <1>4, <2>1
<1>6. CASE format = "fuchsia"
  <2>1. attempt_target(data) \in {dedicated_recovery, BlockBootTarget(data, dedicated_recovery)}
    BY <1>6 DEF attempt_target, get_boot_target, fuchsia_boot_target
  <2> QED BY <1>3, <1>4, <2>1
<1>7. CASE format = "efi"
  <2>1. attempt_target(data) \in {slotted_recovery(efi_last_set_active(data)), normal_boot(efi_last_set_active(data))}
    BY <1>7 DEF attempt_target, get_boot_target, efi_boot_target
  <2>2. efi_last_set_active(data) \in Idx
    BY <1>1, <1>7 DEF efi_last_set_active, SlotType, DataOf, EfiData
  <2>3. Shown(format, data) = Idx
    BY <1>7 DEF Shown
  <2> QED BY <1>4, <2>1, <2>2, <2>3 DEF normal_boot
<1> QED BY <1>1, <1>5, <1>6, <1>7

-----------------------------------------------------------------------------
LEMMA DefaultBlocks == default_control \in AndroidData /\ default_abr \in FuchsiaData
<1>1. 0 \in Idx
  BY ConstantsAssumption DEF Idx
<1>2. [i \in Idx |-> default_word] \in [Idx -> SlotMetaData]
  BY DefaultWord
<1>3. [i \in Idx |-> default_abr_slot] \in [Idx -> AbrSlot]
  BY DefaultSlot
<1>4. default_control \in AndroidData
  BY <1>1, <1>2 DEF default_control, AndroidData
<1>5. default_abr \in FuchsiaData
  BY <1>3 DEF default_abr, FuchsiaData
<1> QED BY <1>4, <1>5

LEMMA SInit == Init => SInv
<1> SUFFICES ASSUME Init PROVE SInv
  OBVIOUS
<1>1. /\ format \in {"android", "fuchsia", "efi"} /\ data = disk.data /\ status = "Clean" /\ phase = "off"
      /\ last = None /\ target = None /\ left = 0 /\ promise = None /\ kept = None
  BY ConstantsAssumption DEF Init
<1>2. /\ disk.ok \in BOOLEAN /\ disk = [ok |-> disk.ok, data |-> disk.data]
      /\ disk.data \in DataOf(format)
  <2>1. CASE format = "android"
    <3>1. PICK ok \in BOOLEAN, w \in [Idx -> {default_word, 0, set_successful(2^8 + 15, TRUE)}], n \in {0, 1, 7} :
            disk = [ok |-> ok, data |-> [slots |-> w, nb |-> n, active |-> 0]]
      BY <2>1 DEF Init
    <3>2. default_word \in SlotMetaData /\ 0 \in SlotMetaData /\ set_successful(2^8 + 15, TRUE) \in SlotMetaData
      <4>1. 2^8 + 15 = 271 /\ 271 \in SlotMetaData /\ 0 \in SlotMetaData
        BY DEF SlotMetaData
      <4> QED BY <4>1, DefaultWord, SetSuccessful
    <3>3. w \in [Idx -> SlotMetaData]
      BY <3>2
    <3>4. 0 \in Idx
      BY ConstantsAssumption DEF Idx
    <3>5. [slots |-> w, nb |-> n, active |-> 0] \in AndroidData
      BY <3>3, <3>4 DEF AndroidData
    <3> QED BY <2>1, <3>1, <3>5 DEF DataOf
  <2>2. CASE format = "fuchsia"
    <3>1. PICK ok \in BOOLEAN, f \in SUBSET {"recovery", "bootloader"} :
            disk = [ok |-> ok, data |-> [default_abr EXCEPT !.flags = f]]
      BY <2>2 DEF Init
    <3>2. [default_abr EXCEPT !.flags = f] \in FuchsiaData
      BY DefaultBlocks DEF FuchsiaData
    <3> QED BY <2>2, <3>1, <3>2 DEF DataOf
  <2>3. CASE format = "efi"
    <3>1. PICK ok \in BOOLEAN, c \in Idx, r \in {"empty", "bootloader", "recovery"} :
            disk = [ok |-> ok, data |-> [slots |-> default_abr.slots, current |-> c, boot_reason |-> r]]
      BY <2>3 DEF Init
    <3>2. default_abr.slots \in [Idx -> AbrSlot]
      BY DefaultBlocks DEF FuchsiaData
    <3>3. [slots |-> default_abr.slots, current |-> c, boot_reason |-> r] \in EfiData
      BY <3>2 DEF EfiData
    <3> QED BY <2>3, <3>1, <3>3 DEF DataOf
  <2> QED BY <1>1, <2>1, <2>2, <2>3
<1> QED BY <1>1, <1>2 DEF SInv, SlotType, CleanInv, PromiseInv

LEMMA SLoad ==
    ASSUME SInv, load_slot_interface
    PROVE  SInv'
<1>1. /\ phase' = "cursor" /\ token' = "manager" /\ last' = None /\ target' = None /\ left' = 0
      /\ promise' = IF disk.ok /\ format # "efi" THEN kept ELSE None
      /\ UNCHANGED <<format, disk, kept>>
  BY DEF load_slot_interface
<1>2. /\ data' \in DataOf(format) /\ status' \in {"Clean", "Dirty"}
      /\ disk.ok \/ format = "efi" => data' = disk.data
      /\ status' = "Clean" /\ format # "efi" => disk.ok
  BY DefaultBlocks DEF SInv, SlotType, load_slot_interface, deserialize, DataOf
<1>3. SlotType'
  BY <1>1, <1>2 DEF SInv, SlotType
<1>4. CleanInv'
  BY <1>1, <1>2 DEF CleanInv
<1>5. PromiseInv'
  BY <1>1, <1>2 DEF SInv, PromiseInv
<1> QED BY <1>3, <1>4, <1>5 DEF SInv

(* A call of the manager that keeps its token and leaves storage alone.     *)
LEMMA SCall ==
    ASSUME SInv, phase = "cursor", token = "manager",
           UNCHANGED <<format, disk, phase, token, target, left, kept>>,
           data' \in DataOf(format), status' \in {"Clean", "Dirty"}, last' \in Idx \cup {None},
           format # "efi" => status' = "Dirty",
           format # "efi" /\ promise' # None => Leads(Shows(format, data'), promise'),
           format = "efi" /\ promise' # None => last' = promise'
    PROVE  SInv'
<1>1. SlotType'
  BY DEF SInv, SlotType
<1>2. CleanInv'
  BY DEF CleanInv
<1>3. PromiseInv'
  BY DEF SInv, PromiseInv
<1> QED BY <1>1, <1>2, <1>3 DEF SInv

LEMMA SActivate ==
    ASSUME SInv, NEW i \in Idx, set_active_slot(i)
    PROVE  SInv'
<1>1. format \in {"android", "fuchsia", "efi"} /\ data \in DataOf(format)
  BY DEF SInv, SlotType
<1>2. i \in Shown(format, data)
  BY <1>1, IterShows, ShowsSlots DEF set_active_slot
<1>3. /\ phase = "cursor" /\ token = "manager"
      /\ UNCHANGED <<format, disk, phase, token, target, left, kept>>
      /\ promise' = i /\ data' = Activate(format, data, i)
      /\ format # "efi" => status' = "Dirty" /\ last' = last
      /\ format = "efi" => status' = status /\ last' = i
  BY <1>1 DEF set_active_slot, CallerActs, get_mut_data, Activate
<1>4. data' \in DataOf(format) /\ (format # "efi" => Leads(Shows(format, data'), i))
  BY <1>1, <1>2, <1>3, ActivateShows
<1>5. status' \in {"Clean", "Dirty"} /\ last' \in Idx \cup {None}
  BY <1>3 DEF SInv, SlotType
<1> QED BY <1>3, <1>4, <1>5, SCall

LEMMA SDisable ==
    ASSUME SInv, NEW i \in Idx, NEW r \in Reasons, set_slot_unbootable(i, r)
    PROVE  SInv'
<1>1. format \in {"android", "fuchsia", "efi"} /\ data \in DataOf(format)
  BY DEF SInv, SlotType
<1>2. i \in Shown(format, data)
  BY <1>1, IterShows, ShowsSlots DEF set_slot_unbootable
<1>3. /\ phase = "cursor" /\ token = "manager"
      /\ UNCHANGED <<format, disk, phase, token, last, target, left, kept>>
      /\ promise' = IF promise = i THEN None ELSE promise
      /\ data' = Disable(format, data, i, r)
      /\ format # "efi" => status' = "Dirty"
      /\ format = "efi" => status' = status
  BY <1>1 DEF set_slot_unbootable, CallerActs, get_mut_data, Disable
<1>4. /\ data' \in DataOf(format) /\ Shown(format, data') = Shown(format, data)
      /\ \A j \in Shown(format, data) : j # i => Shows(format, data')[j] = Shows(format, data)[j]
      /\ Shows(format, data')[i].priority = Shows(format, data)[i].priority
  BY <1>1, <1>2, <1>3, DisableShows
<1>5. status' \in {"Clean", "Dirty"} /\ last' \in Idx \cup {None}
  BY <1>3 DEF SInv, SlotType
<1>6. ASSUME format # "efi", promise' # None PROVE Leads(Shows(format, data'), promise')
  <2>1. promise' = promise /\ promise # i /\ Leads(Shows(format, data), promise)
    BY <1>3, <1>6 DEF SInv, PromiseInv
  <2>2. promise \in Shown(format, data) /\ is_bootable(Shows(format, data)[promise])
    BY <1>1, <2>1, ShowsSlots DEF Leads
  <2>3. is_bootable(Shows(format, data')[promise])
    BY <1>4, <2>1, <2>2
  <2>4. \A j \in Shown(format, data) : Shows(format, data')[j].priority = Shows(format, data)[j].priority
    BY <1>4
  <2>5. Leads(Shows(format, data'), promise)
    BY <1>1, <1>4, <2>1, <2>3, <2>4, LeadsKept
  <2> QED BY <2>1, <2>5
<1>7. format = "efi" /\ promise' # None => last' = promise'
  BY <1>3 DEF SInv, PromiseInv
<1> QED BY <1>3, <1>4, <1>5, <1>6, <1>7, SCall

LEMMA SOneShot ==
    ASSUME SInv, clear_oneshot_status \/ \E o \in {"recovery", "bootloader"} : set_oneshot_status(o)
    PROVE  SInv'
<1>1. format \in {"android", "fuchsia", "efi"} /\ data \in DataOf(format)
  BY DEF SInv, SlotType
<1>2. /\ phase = "cursor" /\ token = "manager"
      /\ UNCHANGED <<format, disk, phase, token, last, target, left, promise, kept>>
      /\ \/ format = "fuchsia" /\ status' = "Dirty"
            /\ \E x \in SUBSET {"recovery", "bootloader"} : data' = [data EXCEPT !.flags = x]
         \/ format = "efi" /\ status' = status
            /\ \E b \in {"bootloader", "empty", "recovery"} : data' = [data EXCEPT !.boot_reason = b]
  BY DEF clear_oneshot_status, set_oneshot_status, CallerActs, get_mut_data
<1>3. CASE format = "fuchsia"
  <2>1. data' \in FuchsiaData /\ data'.slots = data.slots
    BY <1>1, <1>2, <1>3 DEF DataOf, FuchsiaData
  <2>2. Shows(format, data') = Shows(format, data)
    BY <1>3, <2>1 DEF Shows, Shown
  <2>3. data' \in DataOf(format)
    BY <1>3, <2>1 DEF DataOf
  <2>4. promise' # None => Leads(Shows(format, data'), promise')
    BY <1>2, <1>3, <2>2 DEF SInv, PromiseInv
  <2>5. last' \in Idx \cup {None} /\ status' = "Dirty"
    BY <1>2, <1>3 DEF SInv, SlotType
  <2> QED BY <1>2, <1>3, <2>3, <2>4, <2>5, SCall
<1>4. CASE format = "efi"
  <2>1. data' \in DataOf(format)
    BY <1>1, <1>2, <1>4 DEF DataOf, EfiData
  <2>2. last' \in Idx \cup {None} /\ status' \in {"Clean", "Dirty"} /\ (promise' # None => last' = promise')
    BY <1>2, <1>4 DEF SInv, SlotType, PromiseInv
  <2> QED BY <1>2, <1>4, <2>1, <2>2, SCall
<1> QED BY <1>2, <1>3, <1>4

(* The slot pays a try; the promise goes only with its last one.            *)
LEMMA ChargeLeads ==
    ASSUME SInv, format \in Blocks, phase = "cursor", NEW i \in Shown(format, data),
           Shows(format, data)[i].bootability = "Retriable",
           data' = Charge(format, data, i),
           promise' = IF promise = i /\ Shows(format, data)[i].tries = 1 THEN None ELSE promise
    PROVE  /\ data' \in DataOf(format) /\ Shown(format, data') = Shown(format, data)
           /\ promise' # None => Leads(Shows(format, data'), promise')
<1>1. format \in {"android", "fuchsia", "efi"} /\ data \in DataOf(format) /\ format # "efi"
  BY DEF SInv, SlotType, Blocks
<1>2. /\ data' \in DataOf(format) /\ Shown(format, data') = Shown(format, data)
      /\ \A j \in Shown(format, data) : j # i => Shows(format, data')[j] = Shows(format, data)[j]
      /\ Shows(format, data')[i].priority = Shows(format, data)[i].priority
      /\ Shows(format, data')[i].tries = Shows(format, data)[i].tries - 1
  BY <1>1, ChargeShows
<1>3. ASSUME promise' # None PROVE Leads(Shows(format, data'), promise')
  <2>1. promise' = promise /\ Leads(Shows(format, data), promise)
    BY <1>1, <1>3 DEF SInv, PromiseInv
  <2>2. promise \in Shown(format, data) /\ is_bootable(Shows(format, data)[promise])
    BY <1>1, <2>1, ShowsSlots DEF Leads
  <2>3. is_bootable(Shows(format, data')[promise])
    <3>1. CASE promise # i
      BY <1>2, <2>2, <3>1
    <3>2. CASE promise = i
      <4>1. Shows(format, data)[i].tries \in Nat /\ Shows(format, data)[i].tries > 0
        BY <1>1, ShowsSlots
      <4>2. Shows(format, data)[i].tries # 1
        BY <1>3, <3>2
      <4>3. Shows(format, data')[i].tries > 0
        BY <1>2, <4>1, <4>2
      <4>4. \A j \in Shown(format, data') : Shows(format, data')[j].tries > 0 => is_bootable(Shows(format, data')[j])
        BY <1>1, <1>2, ShowsSlots
      <4> QED BY <1>2, <3>2, <4>3, <4>4
    <3> QED BY <3>1, <3>2
  <2>4. \A j \in Shown(format, data) : Shows(format, data')[j].priority = Shows(format, data)[j].priority
    BY <1>2
  <2>5. Leads(Shows(format, data'), promise)
    BY <1>1, <1>2, <2>1, <2>3, <2>4, LeadsKept
  <2> QED BY <2>1, <2>5
<1> QED BY <1>2, <1>3

LEMMA SMark ==
    ASSUME SInv, mark_boot_attempt
    PROVE  SInv'
<1> DEFINE t == attempt_target(data)
           s == Shows(format, data)
           pays == t.kind = "normal" /\ s[t.slot].bootability = "Retriable"
<1>1. /\ format \in {"android", "fuchsia", "efi"} /\ data \in DataOf(format)
      /\ slots_iter(data) = s
  BY IterShows DEF SInv, SlotType
<1>2. /\ phase = "cursor" /\ token = "manager" /\ t # None /\ token' = "caller" /\ target' = t
      /\ left' = IF pays THEN s[t.slot].tries ELSE 0
      /\ promise' = IF pays /\ promise = t.slot /\ left' = 1 THEN None ELSE promise
      /\ UNCHANGED <<format, disk, phase, last, kept>>
  BY <1>1 DEF mark_boot_attempt
<1>3. /\ format \in Blocks /\ pays => data' = Charge(format, data, t.slot) /\ status' = "Dirty"
      /\ ~(format \in Blocks /\ pays) => UNCHANGED <<data, status>>
  BY <1>1 DEF mark_boot_attempt, Blocks, Charge, get_mut_data
<1>4. t.kind \in {"normal", "recovery"} /\ (t.kind = "normal" => t.slot \in Shown(format, data))
  BY <1>2, TargetType DEF SInv
<1>5. Shown(format, data) \subseteq Idx /\ \A j \in Shown(format, data) : s[j].tries \in Nat
  BY <1>1, ShowsSlots
<1> HIDE DEF t, s
<1>6. left' \in Nat
  BY <1>2, <1>4, <1>5
<1>7. target' # None /\ target'.kind \in {"normal", "recovery"} /\ (target'.kind = "normal" => target'.slot \in Idx)
  BY <1>2, <1>4, <1>5
<1>8. CASE format \in Blocks /\ pays
  <2>1. /\ data' \in DataOf(format) /\ Shown(format, data') = Shown(format, data)
        /\ promise' # None => Leads(Shows(format, data'), promise')
    BY <1>2, <1>3, <1>4, <1>8, ChargeLeads DEF s
  <2>2. Shows(format, data')[t.slot].tries = s[t.slot].tries - 1
    BY <1>1, <1>3, <1>4, <1>8, ChargeShows DEF s
  <2>3. Paid(data)'
    BY <1>2, <1>4, <1>5, <1>8, <2>1, <2>2 DEF Paid
  <2>4. SlotType'
    BY <1>2, <1>3, <1>6, <1>7, <1>8, <2>1 DEF SInv, SlotType
  <2>5. CleanInv'
    BY <1>2, <1>3, <1>8, <2>3 DEF SInv, CleanInv
  <2>6. PromiseInv'
    BY <1>2, <1>8, <2>1 DEF SInv, PromiseInv, Blocks
  <2> QED BY <2>4, <2>5, <2>6 DEF SInv
<1>9. CASE ~(format \in Blocks /\ pays)
  <2>1. SlotType'
    BY <1>2, <1>3, <1>6, <1>7, <1>9 DEF SInv, SlotType
  <2>2. format \in Blocks => left' = 0
    BY <1>2, <1>9
  <2>3. CleanInv'
    <3>1. format # "efi" => Paid(data)'
      BY <1>1, <1>2, <2>2 DEF Paid, Blocks
    <3> QED BY <1>2, <1>3, <1>9, <3>1 DEF SInv, CleanInv
  <2>4. PromiseInv'
    BY <1>2, <1>3, <1>9 DEF SInv, PromiseInv
  <2> QED BY <2>1, <2>3, <2>4 DEF SInv
<1> QED BY <1>8, <1>9

LEMMA SMarkAgain ==
    ASSUME SInv, mark_boot_attempt_again
    PROVE  SInv'
<1> DEFINE t == attempt_target(data)
           s == Shows(format, data)
<1>1. /\ format \in {"android", "fuchsia", "efi"} /\ data \in DataOf(format)
      /\ slots_iter(data) = s
  BY IterShows DEF SInv, SlotType
<1>2. /\ phase = "cursor" /\ token = "caller" /\ t # None /\ format \in Blocks
      /\ t.kind = "normal" /\ s[t.slot].bootability = "Retriable"
      /\ data' = Charge(format, data, t.slot) /\ status' = "Dirty"
      /\ promise' = IF promise = t.slot /\ s[t.slot].tries = 1 THEN None ELSE promise
      /\ UNCHANGED <<format, disk, phase, token, last, target, left, kept>>
  BY <1>1 DEF mark_boot_attempt_again, Blocks, Charge, get_mut_data
<1>3. t.slot \in Shown(format, data)
  BY <1>2, TargetType DEF SInv
<1> HIDE DEF t
<1>4. /\ data' \in DataOf(format) /\ Shown(format, data') = Shown(format, data)
      /\ promise' # None => Leads(Shows(format, data'), promise')
  BY <1>2, <1>3, ChargeLeads
<1>5. Paid(data)'
  <2>1. /\ \A j \in Shown(format, data) : j # t.slot => Shows(format, data')[j] = s[j]
        /\ Shows(format, data')[t.slot].tries = s[t.slot].tries - 1
    BY <1>1, <1>2, <1>3, ChargeShows
  <2>2. \A j \in Shown(format, data) : s[j].tries \in Nat
    BY <1>1, ShowsSlots
  <2>3. Paid(data) /\ left \in Nat
    BY <1>2 DEF SInv, CleanInv, SlotType, Blocks
  <2> HIDE DEF s
  <2>4. \A j \in Shown(format, data) : s[j].tries < left => Shows(format, data')[j].tries < left
    BY <1>3, <2>1, <2>2, <2>3
  <2> QED BY <1>2, <1>4, <2>3, <2>4 DEF Paid, s
<1>6. SlotType'
  BY <1>2, <1>4 DEF SInv, SlotType
<1>7. CleanInv'
  BY <1>2, <1>5 DEF SInv, CleanInv
<1>8. PromiseInv'
  BY <1>2, <1>4 DEF SInv, PromiseInv, Blocks
<1> QED BY <1>6, <1>7, <1>8 DEF SInv

(* Drop for Cursor: what is not on the disk is written, or the device is    *)
(* reset.                                                                   *)
LEMMA SWriteBack ==
    ASSUME SInv, NEW ok \in BOOLEAN, WriteBack(ok)
    PROVE  SInv'
<1>1. /\ phase = "cursor" /\ status' = IF ok THEN "Clean" ELSE status
      /\ phase' = IF ~ok THEN "off" ELSE IF token = "caller" THEN "os" ELSE "loader"
      /\ UNCHANGED <<format, data, token, last, target, left, promise>>
  BY DEF WriteBack
<1>2. \/ UNCHANGED <<disk, kept>> /\ (ok => format # "efi" /\ status = "Clean")
      \/ ok /\ disk' = [ok |-> TRUE, data |-> data] /\ kept' = promise
  BY DEF WriteBack
<1>3. CASE UNCHANGED <<disk, kept>> /\ (ok => format # "efi" /\ status = "Clean")
  <2>1. ok => disk.ok /\ disk.data = data
    BY <1>1, <1>3 DEF SInv, CleanInv
  <2>2. SlotType'
    BY <1>1, <1>3 DEF SInv, SlotType
  <2>3. CleanInv'
    BY <1>1, <1>3, <2>1 DEF SInv, CleanInv, Paid
  <2>4. PromiseInv'
    BY <1>1, <1>3 DEF SInv, PromiseInv
  <2> QED BY <2>2, <2>3, <2>4 DEF SInv
<1>4. CASE ok /\ disk' = [ok |-> TRUE, data |-> data] /\ kept' = promise
  <2>1. disk'.ok = TRUE /\ disk'.data = data
    BY <1>4
  <2>2. SlotType'
    BY <1>1, <1>4, <2>1 DEF SInv, SlotType
  <2>3. CleanInv'
    BY <1>1, <1>4, <2>1 DEF SInv, CleanInv, Paid
  <2>4. PromiseInv'
    BY <1>1, <1>4, <2>1 DEF SInv, PromiseInv
  <2> QED BY <2>2, <2>3, <2>4 DEF SInv
<1> QED BY <1>2, <1>3, <1>4

LEMMA STorn ==
    ASSUME SInv, TornWrite
    PROVE  SInv'
<1>1. /\ disk' = [disk EXCEPT !.ok = FALSE] /\ kept' = None /\ phase' = "off"
      /\ UNCHANGED <<format, data, status, token, last, target, left, promise>>
  BY DEF TornWrite
<1>2. disk' = [ok |-> FALSE, data |-> disk.data] /\ disk'.ok = FALSE /\ disk'.data = disk.data
  BY <1>1 DEF SInv, SlotType
<1>3. SlotType'
  BY <1>1, <1>2 DEF SInv, SlotType
<1> QED BY <1>1, <1>3 DEF SInv, CleanInv, PromiseInv

LEMMA SSucceed ==
    ASSUME SInv, MarkSuccessful
    PROVE  SInv'
<1>1. /\ phase = "os" /\ target.kind = "normal" /\ disk.ok
      /\ UNCHANGED <<format, data, status, phase, token, last, target, left, promise, kept>>
  BY DEF MarkSuccessful
<1> DEFINE old == disk.data
           new == Succeed(format, old, target.slot)
<1>2. disk' = [disk EXCEPT !.data = new]
  BY DEF MarkSuccessful, Succeed
<1>3. disk'.ok = disk.ok /\ disk'.data = new /\ disk' = [ok |-> disk'.ok, data |-> disk'.data]
  BY <1>2 DEF SInv, SlotType
<1> HIDE DEF new, old
<1>4. target # None => /\ new \in DataOf(format) /\ Shown(format, new) = Shown(format, old)
         /\ \A j \in Shown(format, old) :
               /\ Shows(format, new)[j].priority = Shows(format, old)[j].priority
               /\ Shows(format, new)[j].tries = Shows(format, old)[j].tries
               /\ is_bootable(Shows(format, old)[j]) => is_bootable(Shows(format, new)[j])
  BY <1>1, SucceedShows DEF SInv, SlotType, new, old
<1>5. target # None
  BY <1>1 DEF SInv, SlotType
<1>6. SlotType'
  BY <1>1, <1>3, <1>4, <1>5 DEF SInv, SlotType
<1>7. CleanInv'
  <2>1. format # "efi" => Paid(disk.data)'
    <3>1. format # "efi" => Paid(old)
      BY <1>1 DEF SInv, CleanInv, old
    <3> QED BY <1>1, <1>3, <1>4, <1>5, <3>1 DEF Paid
  <2> QED BY <1>1, <1>3, <2>1 DEF SInv, CleanInv
<1>8. PromiseInv'
  <2>1. ASSUME format # "efi", kept # None PROVE Leads(Shows(format, new), kept)
    <3>1. /\ format \in {"android", "fuchsia", "efi"} /\ old \in DataOf(format)
          /\ Leads(Shows(format, old), kept)
      BY <1>1, <2>1 DEF SInv, SlotType, PromiseInv, old
    <3>2. kept \in Shown(format, old) /\ is_bootable(Shows(format, old)[kept])
      BY <3>1, ShowsSlots DEF Leads
    <3>3. is_bootable(Shows(format, new)[kept])
      BY <1>4, <1>5, <3>2
    <3> QED BY <1>4, <1>5, <3>1, <3>3, LeadsKept
  <2> QED BY <1>1, <1>3, <2>1 DEF SInv, PromiseInv
<1> QED BY <1>6, <1>7, <1>8 DEF SInv

LEMMA SNext ==
    ASSUME SInv, [Next]_vars
    PROVE  SInv'
<1>1. ASSUME Reset PROVE SInv'
  BY <1>1 DEF Reset, SInv, SlotType, CleanInv, PromiseInv
<1>2. ASSUME Settle PROVE SInv'
  BY <1>2 DEF Settle, devVars, SInv, SlotType, CleanInv, PromiseInv, Paid
<1>3. ASSUME UNCHANGED vars PROVE SInv'
  BY <1>3 DEF vars, devVars, SInv, SlotType, CleanInv, PromiseInv, Paid
<1>4. ASSUME NEW i \in Idx, NEW r \in {"Unknown", "UserRequested"}, set_slot_unbootable(i, r) PROVE SInv'
  <2>1. r \in Reasons
    BY DEF Reasons
  <2> QED BY <1>4, <2>1, SDisable
<1> QED
  BY <1>1, <1>2, <1>3, <1>4, SLoad, SActivate, SOneShot, SMark, SMarkAgain, SWriteBack, STorn, SSucceed
  DEF Next

-----------------------------------------------------------------------------
LEMMA SInvDurable ==
    ASSUME SInv
    PROVE  DroppedMeansDurable
<1> SUFFICES ASSUME format # "efi"
             PROVE  /\ phase \in {"cursor", "loader"} /\ status = "Clean" => disk = [ok |-> TRUE, data |-> data]
                    /\ phase \in {"loader", "os"} => status = "Clean" /\ disk.ok
                    /\ phase = "os" /\ left > 0 => DiskTries(target.slot) < left
  BY DEF DroppedMeansDurable
<1>1. phase \in {"cursor", "loader"} /\ status = "Clean" => disk = [ok |-> TRUE, data |-> data]
  BY DEF SInv, SlotType, CleanInv
<1>2. phase \in {"loader", "os"} => status = "Clean" /\ disk.ok
  BY DEF SInv, CleanInv
<1>3. phase = "os" /\ left > 0 => DiskTries(target.slot) < left
  <2>1. slots_iter(disk.data) = Shows(format, disk.data)
    BY IterShows DEF SInv, SlotType
  <2> QED BY <2>1 DEF SInv, CleanInv, Paid, DiskTries
<1> QED BY <1>1, <1>2, <1>3

LEMMA SInvActive ==
    ASSUME SInv
    PROVE  ActiveHonoured
<1> SUFFICES ASSUME phase = "cursor", promise # None
             PROVE  /\ get_boot_target(data).slot = promise
                    /\ format # "efi" => get_boot_target(data).kind = "normal"
  BY DEF ActiveHonoured
<1>1. format \in {"android", "fuchsia", "efi"} /\ data \in DataOf(format)
  BY DEF SInv, SlotType
<1> DEFINE s == Shows(format, data)
<1>2. slots_iter(data) = s /\ DOMAIN s = Shown(format, data) /\ Shown(format, data) \subseteq Idx
  BY <1>1, IterShows, ShowsSlots
<1>3. CASE format # "efi"
  <2> DEFINE up == {i \in DOMAIN s : is_bootable(s[i])}
  <2>1. Leads(s, promise)
    BY <1>3 DEF SInv, PromiseInv
  <2>2. promise \in up /\ promise \in DOMAIN s /\ up \subseteq DOMAIN s
    BY <2>1 DEF Leads
  <2>3. max_by_priority(s, up) = promise /\ max_by_priority(s, DOMAIN s) = promise
    <3>1. up \in SUBSET Shown(format, data) /\ DOMAIN s \in SUBSET Shown(format, data)
      BY <1>2
    <3> HIDE DEF up
    <3> QED BY <1>1, <2>1, <2>2, <3>1, LeadsIsChosen
  <2> HIDE DEF s
  <2>4. \A fb : BlockBootTarget(data, fb) = normal_boot(promise)
    BY <1>2, <2>2, <2>3 DEF BlockBootTarget
  <2>5. get_slot_last_set_active(data) # None
    <3>1. get_slot_last_set_active(data) = promise
      BY <1>2, <2>2, <2>3 DEF get_slot_last_set_active
    <3> QED BY <3>1
  <2>6. get_boot_target(data) = normal_boot(promise)
    BY <1>1, <1>3, <2>4, <2>5 DEF get_boot_target, android_boot_target, fuchsia_boot_target
  <2> QED BY <2>6 DEF normal_boot
<1>4. CASE format = "efi"
  <2>1. last = promise
    BY <1>4 DEF SInv, PromiseInv
  <2> QED BY <1>4, <2>1 DEF get_boot_target, efi_boot_target, efi_last_set_active, normal_boot, slotted_recovery
<1> QED BY <1>3, <1>4

LEMMA SlotInvariant == Spec => []SInv
<1>1. Init => SInv
  BY SInit
<1>2. SInv /\ [Next]_vars => SInv'
  BY SNext
<1> QED BY <1>1, <1>2, PTL DEF Spec

(* CacheStatus::Clean and the token of mark_boot_attempt(): a clean block   *)
(* equals the one on the disk, and a system runs only after the try that    *)
(* its slot paid is durable, whatever writes failed or were torn before.    *)
THEOREM SlotDurable == Spec => []DroppedMeansDurable
<1>1. SInv => DroppedMeansDurable
  BY SInvDurable
<1> QED BY <1>1, SlotInvariant, PTL

(* set_active_slot() and get_boot_target(): the slot set active is booted   *)
(* until it is disabled, replaced or out of tries, across restarts, for     *)
(* every number of slots and each of the three representations.             *)
THEOREM SlotActive == Spec => []ActiveHonoured
<1>1. SInv => ActiveHonoured
  BY SInvActive
<1> QED BY <1>1, SlotInvariant, PTL

=============================================================================
