----------------------------- MODULE GptProofs -----------------------------
(***************************************************************************)
(* Proofs about Gpt for every set of partition tables, with failing and    *)
(* torn writes and power failures, for disks whose reads do not fail (with *)
(* failing reads the sync may take a readable copy for a broken one); and  *)
(* about GptEntries, for every size of the table, every disk and every     *)
(* sequence of edits.                                                      *)
(***************************************************************************)
EXTENDS Gpt, GptEntries, SequenceTheorems, FiniteSetTheorems, WellFoundedInduction, TLAPS

(* The table each copy holds, None if it is broken.                         *)
PrimaryTable(d) == IF PrimaryOk(d) THEN d["ph"] ELSE None
SecondaryTable(d) == IF SecondaryOk(d) THEN d["sh"] ELSE None

(* The table that load_and_validate_gpt() found, the primary copy first.    *)
Found == IF primary # None THEN primary ELSE secondary

-----------------------------------------------------------------------------
(* The inductive invariant.  load_and_sync() writes: the good copy stays as *)
(* it is until the other one is complete.                                   *)
RestorePrimary ==
    /\ primary = None /\ secondary \in Tables
    /\ disk["sh"] = secondary /\ disk["se"] = secondary
    /\ \/ todo = <<Put(secondary, "ph"), Put(secondary, "pe")>> /\ ~PrimaryOk(disk)
       \/ todo = <<Put(secondary, "pe")>> /\ disk["ph"] = secondary

RestoreSecondary ==
    /\ primary \in Tables
    /\ disk["ph"] = primary /\ disk["pe"] = primary
    /\ \/ todo = <<Put(primary, "sh"), Put(primary, "se")>>
       \/ todo = <<Put(primary, "se")>> /\ disk["sh"] = primary

Restored == todo = <<>> /\ Agreed(disk) /\ View(disk) = Found

SyncWrites == RestorePrimary \/ RestoreSecondary \/ Restored

(* update_gpt() writes the primary copy at once.                            *)
UpdateWrites ==
    /\ op = "update"
    /\ \/ /\ todo = <<[r \in {"ph", "pe"} |-> target]>> /\ pending = {target}
          /\ View(disk) = before /\ agreed = Agreed(disk)
       \/ todo = <<>> /\ disk["ph"] = target /\ disk["pe"] = target

(* erase_gpt(): the secondary copy stands until the primary one is gone.    *)
SecondaryStands == disk["sh"] = before /\ disk["se"] = before /\ before \in Tables

EraseWrites ==
    /\ op = "erase"
    /\ \/ /\ todo = <<Put(None, "ph"), Put(None, "pe"), Put(None, "sh"), Put(None, "se")>>
          /\ disk["ph"] = before /\ disk["pe"] = before /\ SecondaryStands /\ pending = {target}
       \/ /\ todo = <<Put(None, "pe"), Put(None, "sh"), Put(None, "se")>>
          /\ disk["ph"] = None /\ SecondaryStands /\ pending = {target}
       \/ /\ todo = <<Put(None, "sh"), Put(None, "se")>>
          /\ disk["ph"] = None /\ SecondaryStands /\ pending = {target}
       \/ /\ todo = <<Put(None, "se")>> /\ disk["ph"] = None /\ disk["sh"] = None
       \/ /\ todo = <<>> /\ disk["ph"] = None /\ disk["sh"] = None

(* persist(): the primary copy stands until the secondary one is complete;  *)
(* without one there was no table before.                                   *)
PrimaryStands == IF PrimaryOk(disk) THEN disk["ph"] = before ELSE before = None

PersistWrites ==
    /\ op = "persist"
    /\ \/ /\ todo = <<Put(target, "sh"), Put(target, "se"), Put(None, "ph")>>
          /\ PrimaryStands /\ Agreed(disk)
       \/ /\ todo = <<Put(target, "se"), Put(None, "ph")>>
          /\ PrimaryStands /\ disk["sh"] = target
       \/ /\ todo = <<Put(None, "ph")>>
          /\ PrimaryStands /\ disk["sh"] = target /\ disk["se"] = target
       \/ /\ todo = <<>>
          /\ disk["ph"] = None /\ disk["sh"] = target /\ disk["se"] = target

OwnWrites ==
    /\ mutated
    /\ UpdateWrites \/ EraseWrites \/ PersistWrites
    /\ pending = {target} \/ (pending = {} /\ View(disk) = target)

(* What load_and_validate_gpt() found is what the disk holds.               *)
Reads ==
    /\ pc \in {"load_s", "resolve"} =>
         primary = PrimaryTable(disk) /\ (primary # None => Holds(primary))
    /\ pc = "resolve" =>
         /\ secondary = SecondaryTable(disk)
         /\ secondary # None /\ secondary \notin Short => srest = secondary

(* While the sync runs, the table stays the one there was before the        *)
(* operation's own writes, or the one they put in place.                    *)
Syncing ==
    /\ mutated => View(disk) = target /\ op \in {"update", "persist"}
                  /\ pending \in {{}, {target}}
    /\ ~mutated => View(disk) = before /\ op \in {"sync", "erase", "persist"}
                   /\ pending = IF op = "sync" THEN {} ELSE {target}

Targets ==
    /\ op = "sync" => target = before
    /\ op = "erase" => target = None
    /\ op \in {"update", "persist"} => target \in Tables

Phases ==
    /\ pc \in {"down", "idle"} => ~syncing /\ pending = {}
    /\ pc \in {"load_p", "load_s", "resolve"} => syncing
    /\ pc # "write" => todo = <<>>
    /\ pc = "write" /\ syncing => SyncWrites /\ (Found # None => Holds(Found))
    /\ pc = "write" /\ ~syncing => OwnWrites

IInv ==
    /\ TypeOK
    /\ Targets /\ Reads /\ Phases
    /\ syncing => Syncing
    /\ Atomic /\ CompletedMeansDone /\ CacheCoherent

-----------------------------------------------------------------------------
(* A write to one region, complete or torn.                                 *)
Touched(d, e, r, t) ==
    /\ e \in [Regions -> Contents]
    /\ e[r] \in {d[r], t, Junk} /\ (d[r] = t => e[r] = t)
    /\ \A x \in Regions \ {r} : e[x] = d[x]

LEMMA TornPut ==
    ASSUME NEW d \in [Regions -> Contents], NEW r \in Regions, NEW t \in Contents,
           NEW e \in Torn(d, Put(t, r))
    PROVE  Touched(d, e, r, t)
BY DEF Torn, Put, Touched

LEMMA TornBoth ==
    ASSUME NEW d \in [Regions -> Contents], NEW t \in Contents,
           NEW e \in Torn(d, [r \in {"ph", "pe"} |-> t])
    PROVE  /\ e \in [Regions -> Contents]
           /\ e["ph"] \in {d["ph"], t, Junk} /\ e["pe"] \in {d["pe"], t, Junk}
           /\ e["sh"] = d["sh"] /\ e["se"] = d["se"]
BY DEF Torn, Regions

LEMMA ApplyPut ==
    ASSUME NEW d \in [Regions -> Contents], NEW r \in Regions, NEW t \in Contents
    PROVE  /\ Apply(d, Put(t, r)) \in [Regions -> Contents]
           /\ Apply(d, Put(t, r))[r] = t
           /\ \A x \in Regions \ {r} : Apply(d, Put(t, r))[x] = d[x]
BY DEF Apply, Put

(* A write that completes is one of the outcomes of a torn write.           *)
LEMMA ApplyTorn ==
    ASSUME NEW d \in [Regions -> Contents], NEW f, \A r \in DOMAIN f : f[r] \in Contents
    PROVE  Apply(d, f) \in Torn(d, f)
BY DEF Apply, Torn

(* Taking the next write off a list of at most four.                        *)
LEMMA Lists ==
    ASSUME NEW a, NEW b, NEW c, NEW d
    PROVE  /\ Head(<<a>>) = a /\ Tail(<<a>>) = <<>>
           /\ Head(<<a, b>>) = a /\ Tail(<<a, b>>) = <<b>>
           /\ Head(<<a, b, c>>) = a /\ Tail(<<a, b, c>>) = <<b, c>>
           /\ Head(<<a, b, c, d>>) = a /\ Tail(<<a, b, c, d>>) = <<b, c, d>>
           /\ <<a>> # <<>> /\ <<a, b>> # <<>> /\ <<a, b, c>> # <<>> /\ <<a, b, c, d>> # <<>>
<1>1. Head(<<a>>) = a /\ Tail(<<a>>) = <<>>
  OBVIOUS
<1>2. Head(<<a, b>>) = a /\ Tail(<<a, b>>) = <<b>>
  OBVIOUS
<1>3. Head(<<a, b, c>>) = a /\ Tail(<<a, b, c>>) = <<b, c>>
  OBVIOUS
<1>4. Head(<<a, b, c, d>>) = a /\ Tail(<<a, b, c, d>>) = <<b, c, d>>
  OBVIOUS
<1>5. <<a>> # <<>> /\ <<a, b>> # <<>> /\ <<a, b, c>> # <<>> /\ <<a, b, c, d>> # <<>>
  OBVIOUS
<1> QED BY <1>1, <1>2, <1>3, <1>4, <1>5

LEMMA Concat ==
    ASSUME NEW a, NEW b, NEW c
    PROVE  <<a, b>> \o <<c>> = <<a, b, c>>
<1> DEFINE S == {a, b, c}
           s == <<a, b>>
           t == <<c>>
           u == <<a, b, c>>
<1>1. s \in Seq(S) /\ t \in Seq(S) /\ u \in Seq(S)
  OBVIOUS
<1>2. Len(s) = 2 /\ Len(t) = 1 /\ Len(u) = 3
  OBVIOUS
<1>3. s[1] = a /\ s[2] = b /\ t[1] = c /\ u[1] = a /\ u[2] = b /\ u[3] = c
  OBVIOUS
<1> DEFINE v == s \o t
<1> HIDE DEF s, t, u, S
<1>4. /\ v \in Seq(S) /\ Len(v) = Len(s) + Len(t)
      /\ \A i \in 1..Len(s) + Len(t) : v[i] = IF i <= Len(s) THEN s[i] ELSE t[i - Len(s)]
  BY <1>1, ConcatProperties
<1> HIDE DEF v
<1>5. Len(v) = 3 /\ \A i \in 1..3 : v[i] = IF i <= 2 THEN s[i] ELSE t[i - 2]
  BY <1>2, <1>4
<1>6. v[1] = u[1] /\ v[2] = u[2] /\ v[3] = u[3]
  <2>1. v[1] = s[1] /\ v[2] = s[2] /\ v[3] = t[3 - 2]
    BY <1>5
  <2> QED BY <1>3, <2>1
<1>7. \A i \in 1..Len(v) : v[i] = u[i]
  BY <1>5, <1>6
<1>8. v = u
  BY <1>1, <1>2, <1>4, <1>5, <1>7, SeqEqual
<1> QED BY <1>8 DEF s, t, u, v

(* What a write of load_and_sync() may do, wherever it is cut short.        *)
LEMMA TornSync ==
    ASSUME TypeOK, SyncWrites, todo # <<>>, NEW e \in Torn(disk, Head(todo))
    PROVE  /\ e \in [Regions -> Contents]
           /\ View(e) = View(disk)
           /\ SecondaryTable(e) \in {SecondaryTable(disk), View(disk), None}
<1> USE ContentsDistinct DEF Regions, Contents
<1>1. CASE RestorePrimary
  <2>1. PICK r \in {"ph", "pe"} : Head(todo) = Put(secondary, r)
    BY <1>1, Lists DEF RestorePrimary
  <2>2. Touched(disk, e, r, secondary)
    BY <1>1, <2>1, TornPut DEF RestorePrimary, TypeOK
  <2> QED BY <1>1, <2>2 DEF RestorePrimary, Touched, View, PrimaryOk, SecondaryOk, SecondaryTable, TypeOK
<1>2. CASE RestoreSecondary
  <2>1. PICK r \in {"sh", "se"} : Head(todo) = Put(primary, r)
    BY <1>2, Lists DEF RestoreSecondary
  <2>2. Touched(disk, e, r, primary)
    BY <1>2, <2>1, TornPut DEF RestoreSecondary, TypeOK
  <2> QED BY <1>2, <2>2 DEF RestoreSecondary, Touched, View, PrimaryOk, SecondaryOk, SecondaryTable, TypeOK
<1> QED BY <1>1, <1>2 DEF SyncWrites, Restored

(* A step of the disk from d to e as GptTable sees it: the table stays and  *)
(* the spare is renewed, or the pending table or the spare takes its place. *)
TableKept(d, e) ==
    /\ View(e) = View(d)
    /\ SecondaryTable(e) \in pending \cup {SecondaryTable(d), View(d), None}

TableReplaced(d, e) ==
    /\ pending # {}
    /\ View(e) \in pending \cup {SecondaryTable(d)}
    /\ SecondaryTable(e) \in {SecondaryTable(d), View(e)}

AtomicAt(e) == agreed \/ op # "update" => View(e) \in {before, target}

(* What a write of the operation itself may do, wherever it is cut short.   *)
LEMMA TornOwn ==
    ASSUME TypeOK, Targets, OwnWrites, todo # <<>>, NEW e \in Torn(disk, Head(todo))
    PROVE  /\ e \in [Regions -> Contents]
           /\ TableKept(disk, e) \/ TableReplaced(disk, e)
           /\ AtomicAt(e)
<1> USE ContentsDistinct DEF Regions, Contents
<1>1. CASE UpdateWrites
  <2>1. /\ Head(todo) = [r \in {"ph", "pe"} |-> target] /\ pending = {target}
        /\ View(disk) = before /\ agreed = Agreed(disk) /\ target \in Tables /\ op = "update"
    BY <1>1, Lists DEF UpdateWrites, Targets
  <2>2. /\ e \in [Regions -> Contents]
        /\ e["ph"] \in {disk["ph"], target, Junk} /\ e["pe"] \in {disk["pe"], target, Junk}
        /\ e["sh"] = disk["sh"] /\ e["se"] = disk["se"]
    <3>1. e \in Torn(disk, [r \in {"ph", "pe"} |-> target])
      BY <2>1
    <3>2. disk \in [Regions -> Contents] /\ target \in Contents
      BY <2>1 DEF TypeOK
    <3> QED BY <3>1, <3>2, TornBoth, ZenonT(40)
  <2>3. SecondaryTable(e) = SecondaryTable(disk)
    BY <2>2 DEF SecondaryTable, SecondaryOk
  <2>4. View(e) \in {View(disk), target, SecondaryTable(disk)}
    BY <2>2 DEF View, PrimaryOk, SecondaryOk, SecondaryTable, TypeOK
  <2>5. TableKept(disk, e) \/ TableReplaced(disk, e)
    BY <2>1, <2>3, <2>4 DEF TableKept, TableReplaced
  <2>6. Agreed(disk) => SecondaryTable(disk) = View(disk)
    BY DEF Agreed, View, SecondaryTable
  <2> QED BY <2>1, <2>2, <2>4, <2>5, <2>6 DEF AtomicAt
<1>2. CASE EraseWrites
  <2>1. op = "erase" /\ target = None
    BY <1>2 DEF EraseWrites, Targets
  <2>2. CASE todo = <<Put(None, "ph"), Put(None, "pe"), Put(None, "sh"), Put(None, "se")>>
    <3>1. /\ Head(todo) = Put(None, "ph") /\ pending = {target}
          /\ disk["ph"] = before /\ disk["pe"] = before /\ SecondaryStands
      BY <1>2, <2>2, Lists DEF EraseWrites
    <3>2. Touched(disk, e, "ph", None)
      BY <3>1, TornPut DEF TypeOK
    <3> QED BY <2>1, <3>1, <3>2 DEF SecondaryStands, Touched, View, PrimaryOk, SecondaryOk,
               SecondaryTable, TableKept, AtomicAt
  <2>3. CASE todo = <<Put(None, "pe"), Put(None, "sh"), Put(None, "se")>>
    <3>1. Head(todo) = Put(None, "pe") /\ disk["ph"] = None /\ SecondaryStands
      BY <1>2, <2>3, Lists DEF EraseWrites
    <3>2. Touched(disk, e, "pe", None)
      BY <3>1, TornPut DEF TypeOK
    <3> QED BY <2>1, <3>1, <3>2 DEF SecondaryStands, Touched, View, PrimaryOk, SecondaryOk,
               SecondaryTable, TableKept, AtomicAt
  <2>4. CASE todo = <<Put(None, "sh"), Put(None, "se")>>
    <3>1. /\ Head(todo) = Put(None, "sh") /\ pending = {target}
          /\ disk["ph"] = None /\ SecondaryStands
      BY <1>2, <2>4, Lists DEF EraseWrites
    <3>2. Touched(disk, e, "sh", None)
      BY <3>1, TornPut DEF TypeOK
    <3> QED BY <2>1, <3>1, <3>2 DEF SecondaryStands, Touched, View, PrimaryOk, SecondaryOk,
               SecondaryTable, TableKept, TableReplaced, AtomicAt
  <2>5. CASE todo = <<Put(None, "se")>>
    <3>1. Head(todo) = Put(None, "se") /\ disk["ph"] = None /\ disk["sh"] = None
      BY <1>2, <2>5, Lists DEF EraseWrites
    <3>2. Touched(disk, e, "se", None)
      BY <3>1, TornPut DEF TypeOK
    <3> QED BY <2>1, <3>1, <3>2 DEF Touched, View, PrimaryOk, SecondaryOk,
               SecondaryTable, TableKept, AtomicAt
  <2> QED BY <1>2, <2>2, <2>3, <2>4, <2>5 DEF EraseWrites
<1>3. CASE PersistWrites
  <2>1. op = "persist" /\ target \in Tables
    BY <1>3 DEF PersistWrites, Targets
  <2>2. CASE todo = <<Put(target, "sh"), Put(target, "se"), Put(None, "ph")>>
    <3>1. Head(todo) = Put(target, "sh") /\ PrimaryStands /\ Agreed(disk)
      BY <1>3, <2>2, Lists DEF PersistWrites
    <3>2. Touched(disk, e, "sh", target)
      BY <2>1, <3>1, TornPut DEF TypeOK
    <3> QED BY <2>1, <3>1, <3>2 DEF PrimaryStands, Touched, View, Agreed, PrimaryOk, SecondaryOk,
               SecondaryTable, TableKept, TableReplaced, OwnWrites, AtomicAt
  <2>3. CASE todo = <<Put(target, "se"), Put(None, "ph")>>
    <3>1. Head(todo) = Put(target, "se") /\ PrimaryStands /\ disk["sh"] = target
      BY <1>3, <2>3, Lists DEF PersistWrites
    <3>2. Touched(disk, e, "se", target)
      BY <2>1, <3>1, TornPut DEF TypeOK
    <3> QED BY <2>1, <3>1, <3>2 DEF PrimaryStands, Touched, View, PrimaryOk, SecondaryOk,
               SecondaryTable, TableKept, TableReplaced, OwnWrites, AtomicAt
  <2>4. CASE todo = <<Put(None, "ph")>>
    <3>1. Head(todo) = Put(None, "ph") /\ PrimaryStands /\ disk["sh"] = target /\ disk["se"] = target
      BY <1>3, <2>4, Lists DEF PersistWrites
    <3>2. Touched(disk, e, "ph", None)
      BY <3>1, TornPut DEF TypeOK
    <3> QED BY <2>1, <3>1, <3>2 DEF PrimaryStands, Touched, View, PrimaryOk, SecondaryOk,
               SecondaryTable, TableKept, TableReplaced, OwnWrites, AtomicAt
  <2> QED BY <1>3, <2>2, <2>3, <2>4 DEF PersistWrites
<1> QED BY <1>1, <1>2, <1>3 DEF OwnWrites

(* The next write of load_and_sync(), and the next of the operation.        *)
LEMMA WriteSync ==
    ASSUME TypeOK, SyncWrites, todo # <<>>,
           disk' = Apply(disk, Head(todo)), todo' = Tail(todo), UNCHANGED <<primary, secondary>>
    PROVE  SyncWrites'
<1> USE ContentsDistinct DEF Regions, Contents
<1>1. CASE RestorePrimary
  <2>1. CASE todo = <<Put(secondary, "ph"), Put(secondary, "pe")>>
    <3>1. disk' = Apply(disk, Put(secondary, "ph")) /\ todo' = <<Put(secondary, "pe")>>
      BY <2>1, Lists
    <3>2. disk'["ph"] = secondary /\ disk'["sh"] = disk["sh"] /\ disk'["se"] = disk["se"]
      BY <1>1, <3>1, ApplyPut DEF TypeOK, RestorePrimary
    <3> QED BY <1>1, <3>1, <3>2 DEF RestorePrimary, SyncWrites
  <2>2. CASE todo = <<Put(secondary, "pe")>> /\ disk["ph"] = secondary
    <3>1. disk' = Apply(disk, Put(secondary, "pe")) /\ todo' = <<>>
      BY <2>2, Lists
    <3>2. /\ disk'["pe"] = secondary /\ disk'["ph"] = secondary
          /\ disk'["sh"] = secondary /\ disk'["se"] = secondary
      BY <1>1, <2>2, <3>1, ApplyPut DEF TypeOK, RestorePrimary
    <3>3. Agreed(disk)' /\ View(disk)' = secondary
      BY <1>1, <3>2 DEF RestorePrimary, Agreed, View, PrimaryOk, SecondaryOk
    <3> QED BY <1>1, <3>1, <3>3 DEF RestorePrimary, Restored, Found, SyncWrites
  <2> QED BY <1>1, <2>1, <2>2 DEF RestorePrimary
<1>2. CASE RestoreSecondary
  <2>1. CASE todo = <<Put(primary, "sh"), Put(primary, "se")>>
    <3>1. disk' = Apply(disk, Put(primary, "sh")) /\ todo' = <<Put(primary, "se")>>
      BY <2>1, Lists
    <3>2. disk'["sh"] = primary /\ disk'["ph"] = disk["ph"] /\ disk'["pe"] = disk["pe"]
      BY <1>2, <3>1, ApplyPut DEF TypeOK, RestoreSecondary
    <3> QED BY <1>2, <3>1, <3>2 DEF RestoreSecondary, SyncWrites
  <2>2. CASE todo = <<Put(primary, "se")>> /\ disk["sh"] = primary
    <3>1. disk' = Apply(disk, Put(primary, "se")) /\ todo' = <<>>
      BY <2>2, Lists
    <3>2. /\ disk'["pe"] = primary /\ disk'["ph"] = primary
          /\ disk'["sh"] = primary /\ disk'["se"] = primary
      BY <1>2, <2>2, <3>1, ApplyPut DEF TypeOK, RestoreSecondary
    <3>3. Agreed(disk)' /\ View(disk)' = primary
      BY <1>2, <3>2 DEF RestoreSecondary, Agreed, View, PrimaryOk, SecondaryOk
    <3> QED BY <1>2, <3>1, <3>3 DEF RestoreSecondary, Restored, Found, SyncWrites
  <2> QED BY <1>2, <2>1, <2>2 DEF RestoreSecondary
<1> QED BY <1>1, <1>2 DEF SyncWrites, Restored

LEMMA WriteOwn ==
    ASSUME TypeOK, Targets, OwnWrites, todo # <<>>,
           disk' = Apply(disk, Head(todo)), todo' = Tail(todo), Track(disk'),
           UNCHANGED <<op, target, before, agreed, mutated>>
    PROVE  OwnWrites'
<1> USE ContentsDistinct DEF Regions, Contents
<1>1. CASE UpdateWrites
  <2>1. /\ Head(todo) = [r \in {"ph", "pe"} |-> target] /\ todo' = <<>>
        /\ target \in Tables /\ pending = {target}
    BY <1>1, Lists DEF UpdateWrites, Targets
  <2>2. disk'["ph"] = target /\ disk'["pe"] = target
    BY <2>1 DEF Apply
  <2>3. View(disk') = target
    BY <2>1, <2>2 DEF View, PrimaryOk
  <2>4. pending' = {target} \/ pending' = {}
    BY <2>1 DEF Track
  <2> QED BY <1>1, <2>1, <2>2, <2>3, <2>4 DEF OwnWrites, UpdateWrites
<1>2. CASE EraseWrites
  <2>1. op = "erase" /\ target = None /\ None \in Contents
    BY <1>2 DEF EraseWrites, Targets
  <2>2. CASE todo = <<Put(None, "ph"), Put(None, "pe"), Put(None, "sh"), Put(None, "se")>>
    <3>1. /\ disk' = Apply(disk, Put(None, "ph"))
          /\ todo' = <<Put(None, "pe"), Put(None, "sh"), Put(None, "se")>>
      BY <2>2, Lists
    <3>2. disk["ph"] = before /\ disk["pe"] = before /\ SecondaryStands /\ pending = {target}
      BY <1>2, <2>2, Lists DEF EraseWrites
    <3>3. disk'["ph"] = None /\ disk'["sh"] = disk["sh"] /\ disk'["se"] = disk["se"]
      BY <3>1, ApplyPut DEF TypeOK
    <3>4. View(disk') = View(disk)
      BY <3>2, <3>3 DEF View, PrimaryOk, SecondaryOk, SecondaryStands
    <3> QED BY <2>1, <3>1, <3>2, <3>3, <3>4 DEF OwnWrites, EraseWrites, SecondaryStands, Track
  <2>3. CASE todo = <<Put(None, "pe"), Put(None, "sh"), Put(None, "se")>>
    <3>1. disk' = Apply(disk, Put(None, "pe")) /\ todo' = <<Put(None, "sh"), Put(None, "se")>>
      BY <2>3, Lists
    <3>2. disk["ph"] = None /\ SecondaryStands /\ pending = {target}
      BY <1>2, <2>3, Lists DEF EraseWrites
    <3>3. disk'["ph"] = None /\ disk'["sh"] = disk["sh"] /\ disk'["se"] = disk["se"]
      BY <3>1, <3>2, ApplyPut DEF TypeOK
    <3>4. View(disk') = View(disk)
      BY <3>2, <3>3 DEF View, PrimaryOk, SecondaryOk, SecondaryStands
    <3> QED BY <2>1, <3>1, <3>2, <3>3, <3>4 DEF OwnWrites, EraseWrites, SecondaryStands, Track
  <2>4. CASE todo = <<Put(None, "sh"), Put(None, "se")>>
    <3>1. disk' = Apply(disk, Put(None, "sh")) /\ todo' = <<Put(None, "se")>>
      BY <2>4, Lists
    <3>2. disk["ph"] = None
      BY <1>2, <2>4, Lists DEF EraseWrites
    <3>3. disk'["ph"] = None /\ disk'["sh"] = None
      BY <3>1, <3>2, ApplyPut DEF TypeOK
    <3>4. View(disk') = None
      BY <3>3 DEF View, PrimaryOk, SecondaryOk
    <3> QED BY <2>1, <3>1, <3>3, <3>4 DEF OwnWrites, EraseWrites, Track
  <2>5. CASE todo = <<Put(None, "se")>>
    <3>1. disk' = Apply(disk, Put(None, "se")) /\ todo' = <<>>
      BY <2>5, Lists
    <3>2. disk["ph"] = None /\ disk["sh"] = None
      BY <1>2, <2>5, Lists DEF EraseWrites
    <3>3. disk'["ph"] = None /\ disk'["sh"] = None
      BY <3>1, <3>2, ApplyPut DEF TypeOK
    <3>4. View(disk') = None
      BY <3>3 DEF View, PrimaryOk, SecondaryOk
    <3> QED BY <2>1, <3>1, <3>3, <3>4 DEF OwnWrites, EraseWrites, Track
  <2> QED BY <1>2, <2>2, <2>3, <2>4, <2>5 DEF EraseWrites
<1>3. CASE PersistWrites
  <2>1. op = "persist" /\ target \in Tables
    BY <1>3 DEF PersistWrites, Targets
  <2>2. CASE todo = <<Put(target, "sh"), Put(target, "se"), Put(None, "ph")>>
    <3>1. disk' = Apply(disk, Put(target, "sh")) /\ todo' = <<Put(target, "se"), Put(None, "ph")>>
      BY <2>2, Lists
    <3>2. PrimaryStands /\ Agreed(disk)
      BY <1>3, <2>2, Lists DEF PersistWrites
    <3>3. disk'["sh"] = target /\ disk'["ph"] = disk["ph"] /\ disk'["pe"] = disk["pe"]
          /\ disk'["se"] = disk["se"]
      BY <2>1, <3>1, ApplyPut DEF TypeOK
    <3>4. PrimaryStands' /\ View(disk') \in {View(disk), target}
      BY <3>2, <3>3 DEF View, PrimaryOk, SecondaryOk, PrimaryStands, Agreed
    <3> QED BY <2>1, <3>1, <3>3, <3>4 DEF OwnWrites, PersistWrites, Track
  <2>3. CASE todo = <<Put(target, "se"), Put(None, "ph")>>
    <3>1. disk' = Apply(disk, Put(target, "se")) /\ todo' = <<Put(None, "ph")>>
      BY <2>3, Lists
    <3>2. PrimaryStands /\ disk["sh"] = target
      BY <1>3, <2>3, Lists DEF PersistWrites
    <3>3. disk'["se"] = target /\ disk'["ph"] = disk["ph"] /\ disk'["pe"] = disk["pe"]
          /\ disk'["sh"] = target
      BY <2>1, <3>1, <3>2, ApplyPut DEF TypeOK
    <3>4. PrimaryStands' /\ View(disk') \in {View(disk), target}
      BY <3>2, <3>3 DEF View, PrimaryOk, SecondaryOk, PrimaryStands
    <3> QED BY <2>1, <3>1, <3>3, <3>4 DEF OwnWrites, PersistWrites, Track
  <2>4. CASE todo = <<Put(None, "ph")>>
    <3>1. disk' = Apply(disk, Put(None, "ph")) /\ todo' = <<>>
      BY <2>4, Lists
    <3>2. disk["sh"] = target /\ disk["se"] = target
      BY <1>3, <2>4, Lists DEF PersistWrites
    <3>3. disk'["ph"] = None /\ disk'["sh"] = target /\ disk'["se"] = target
      BY <3>1, <3>2, ApplyPut DEF TypeOK
    <3>4. View(disk') = target
      BY <2>1, <3>3 DEF View, PrimaryOk, SecondaryOk
    <3> QED BY <2>1, <3>1, <3>3, <3>4 DEF OwnWrites, PersistWrites, Track
  <2> QED BY <1>3, <2>2, <2>3, <2>4 DEF PersistWrites
<1> QED BY <1>1, <1>2, <1>3 DEF OwnWrites

-----------------------------------------------------------------------------
(* Every step keeps the invariant.                                          *)
LEMMA ViewType == \A d : View(d) \in Tables \cup {None}
BY DEF View, PrimaryOk, SecondaryOk

LEMMA Lengths ==
    ASSUME NEW a, NEW b, NEW c, NEW d
    PROVE  /\ Len(<<>>) = 0 /\ Len(<<a>>) = 1 /\ Len(<<a, b>>) = 2
           /\ Len(<<a, b, c>>) = 3 /\ Len(<<a, b, c, d>>) = 4
OBVIOUS

LEMMA WritesBounded == SyncWrites \/ OwnWrites => Len(todo) =< 4
<1>1. SyncWrites => Len(todo) \in {0, 1, 2}
  BY Lengths DEF SyncWrites, RestorePrimary, RestoreSecondary, Restored
<1>2. UpdateWrites => Len(todo) \in {0, 1}
  BY Lengths DEF UpdateWrites
<1>3. EraseWrites => Len(todo) \in {0, 1, 2, 3, 4}
  BY Lengths DEF EraseWrites
<1>4. PersistWrites => Len(todo) \in {0, 1, 2, 3}
  BY Lengths DEF PersistWrites
<1>5. \A n \in {0, 1, 2, 3, 4} : n =< 4
  OBVIOUS
<1> QED BY <1>1, <1>2, <1>3, <1>4, <1>5 DEF OwnWrites

(* An operation that begins with load_and_sync().                           *)
LEMMA BeginSync ==
    ASSUME IInv, pc \in {"down", "idle"},
           NEW o \in {"sync", "erase", "persist"}, NEW t \in Tables \cup {None},
           o = "sync" => t = View(disk), o = "erase" => t = None, o = "persist" => t \in Tables,
           Begin(o, t, "load_p", <<>>, TRUE)
    PROVE  IInv'
<1>1. TypeOK'
  BY ViewType, Lengths DEF IInv, TypeOK, Begin, Agreed, PrimaryOk, SecondaryOk
<1>2. Targets' /\ Reads' /\ Phases'
  BY DEF Begin, Targets, Reads, Phases
<1>3. Syncing' /\ syncing'
  BY DEF Begin, Syncing
<1>4. Atomic' /\ CompletedMeansDone' /\ CacheCoherent'
  BY DEF Begin, Atomic, CompletedMeansDone, CacheCoherent
<1> QED BY <1>1, <1>2, <1>3, <1>4 DEF IInv

LEMMA BeginUpdate ==
    ASSUME IInv, NEW t \in Tables, update_gpt(t)
    PROVE  IInv'
<1> DEFINE both == [r \in {"ph", "pe"} |-> t]
<1>1. /\ op' = "update" /\ target' = t /\ mutated' = TRUE /\ syncing' = FALSE
      /\ pc' = "write" /\ todo' = <<both>> /\ result' = "none"
      /\ before' = View(disk) /\ agreed' = Agreed(disk) /\ pending' = {t}
      /\ UNCHANGED <<disk, valid, mem, rest, srest, primary, secondary>>
  BY DEF update_gpt, Begin
<1>2. TypeOK'
  <2>1. Len(<<both>>) = 1 /\ 1 =< 4
    OBVIOUS
  <2> QED BY <1>1, <2>1, ViewType DEF IInv, TypeOK, Agreed, PrimaryOk, SecondaryOk
<1>3. Targets' /\ Reads'
  BY <1>1 DEF Targets, Reads
<1>4. Phases' /\ ~syncing'
  BY <1>1 DEF Phases, OwnWrites, UpdateWrites
<1>5. Atomic' /\ CompletedMeansDone' /\ CacheCoherent'
  BY <1>1 DEF Atomic, CompletedMeansDone, CacheCoherent
<1> QED BY <1>2, <1>3, <1>4, <1>5 DEF IInv

LEMMA LoadInv ==
    ASSUME ReadErrors = FALSE, IInv, LoadPrimary \/ LoadSecondary
    PROVE  IInv'
<1>1. CASE LoadPrimary
  <2>1. /\ pc = "load_p" /\ pc' = "load_s" /\ primary' = PrimaryTable(disk)
        /\ UNCHANGED <<disk, valid, srest, op, target, mutated, syncing, todo, secondary, result, history>>
    BY <1>1 DEF LoadPrimary, Loaded, PrimaryTable
  <2>2. /\ mem' \in {mem, disk["pe"]} /\ rest' \in {rest, disk["pe"], Junk}
        /\ primary' # None => Holds(primary)'
    BY <1>1, <2>1 DEF LoadPrimary, PrimaryTable, PrimaryOk, tail_read, Behind, Holds
  <2>3. primary' \in Tables \cup {None} /\ mem' \in Contents /\ rest' \in Contents
    BY <2>1, <2>2 DEF PrimaryTable, PrimaryOk, IInv, TypeOK, Regions, Contents
  <2>4. TypeOK'
    BY <2>1, <2>3 DEF IInv, TypeOK, history
  <2>5. Reads' /\ Targets' /\ Phases' /\ (syncing => Syncing)'
    BY <2>1, <2>2 DEF IInv, Reads, Targets, Phases, Syncing, history
  <2>6. Atomic' /\ CompletedMeansDone' /\ CacheCoherent'
    BY <2>1 DEF IInv, Atomic, CompletedMeansDone, CacheCoherent, history
  <2> QED BY <2>4, <2>5, <2>6 DEF IInv
<1>2. CASE LoadSecondary
  <2>1. /\ pc = "load_s" /\ pc' = "resolve" /\ secondary' = SecondaryTable(disk)
        /\ UNCHANGED <<disk, valid, mem, rest, op, target, mutated, syncing, todo, primary, result, history>>
        /\ srest' = tail_read("sh", "se", srest)
    BY <1>2 DEF LoadSecondary, Loaded, SecondaryTable
  <2>2. /\ secondary' \in Tables \cup {None} /\ srest' \in Contents
        /\ secondary' # None /\ secondary' \notin Short => srest' = secondary'
    BY <2>1 DEF SecondaryTable, SecondaryOk, tail_read, Behind, IInv, TypeOK, Regions, Contents
  <2>3. TypeOK'
    BY <2>1, <2>2 DEF IInv, TypeOK, history
  <2>4. Reads' /\ Targets' /\ Phases' /\ (syncing => Syncing)'
    BY <2>1, <2>2 DEF IInv, Reads, Targets, Phases, Syncing, Holds, history
  <2>5. Atomic' /\ CompletedMeansDone' /\ CacheCoherent'
    BY <2>1 DEF IInv, Atomic, CompletedMeansDone, CacheCoherent, history
  <2> QED BY <2>3, <2>4, <2>5 DEF IInv
<1> QED BY <1>1, <1>2

(* The decision of load_and_sync(): the good copy is written over the other.*)
LEMMA ResolveInv ==
    ASSUME IInv, Resolve
    PROVE  IInv'
<1>1. /\ pc = "resolve" /\ pc' = "write" /\ todo' = restore /\ valid' = FALSE
      /\ mem' = IF primary = None /\ secondary # None THEN secondary ELSE mem
      /\ rest' = IF primary = None /\ secondary # None THEN srest ELSE rest
      /\ srest' \in {rest, srest}
      /\ UNCHANGED <<disk, op, target, mutated, syncing, primary, secondary, result, history>>
  BY DEF Resolve
<1>2. /\ syncing /\ primary = PrimaryTable(disk) /\ secondary = SecondaryTable(disk)
      /\ primary # None => Holds(primary)
      /\ secondary # None /\ secondary \notin Short => srest = secondary
  BY <1>1 DEF IInv, Reads, Phases
<1>3. primary \in Tables \cup {None} /\ secondary \in Tables \cup {None}
  BY DEF IInv, TypeOK
<1>4. SyncWrites'
  <2>1. CASE primary = None /\ secondary = None
    <3>1. todo' = <<>> /\ ~PrimaryOk(disk) /\ ~SecondaryOk(disk)
      BY <1>1, <1>2, <2>1, ContentsDistinct
         DEF restore, PrimaryTable, SecondaryTable, PrimaryOk, SecondaryOk
    <3>2. Agreed(disk)' /\ View(disk)' = None /\ Found' = None
      BY <1>1, <2>1, <3>1 DEF Agreed, View, Found, PrimaryOk, SecondaryOk
    <3> QED BY <3>1, <3>2 DEF Restored, SyncWrites
  <2>2. CASE primary = None /\ secondary # None
    <3>1. /\ todo' = <<Put(secondary, "ph"), Put(secondary, "pe")>> /\ ~PrimaryOk(disk)
          /\ disk["sh"] = secondary /\ disk["se"] = secondary
      BY <1>1, <1>2, <2>2, ContentsDistinct
         DEF restore, Copy, PrimaryTable, SecondaryTable, PrimaryOk, SecondaryOk
    <3> QED BY <1>1, <1>3, <2>2, <3>1 DEF RestorePrimary, SyncWrites, PrimaryOk
  <2>3. CASE primary # None /\ secondary = primary
    <3>1. /\ todo' = <<>> /\ PrimaryOk(disk) /\ SecondaryOk(disk)
          /\ disk["ph"] = primary /\ disk["sh"] = primary
      BY <1>1, <1>2, <2>3 DEF restore, PrimaryTable, SecondaryTable
    <3>2. Agreed(disk)' /\ View(disk)' = primary /\ Found' = primary
      BY <1>1, <2>3, <3>1 DEF Agreed, View, Found, PrimaryOk, SecondaryOk
    <3> QED BY <3>1, <3>2 DEF Restored, SyncWrites
  <2>4. CASE primary # None /\ secondary # primary
    <3>1. /\ todo' = <<Put(primary, "sh"), Put(primary, "se")>>
          /\ disk["ph"] = primary /\ disk["pe"] = primary
      BY <1>1, <1>2, <2>4 DEF restore, Copy, PrimaryTable, PrimaryOk
    <3> QED BY <1>1, <1>3, <2>4, <3>1 DEF RestoreSecondary, SyncWrites
  <2> QED BY <2>1, <2>2, <2>3, <2>4
<1>5. Len(todo') =< 4
  <2>1. (SyncWrites \/ OwnWrites => Len(todo) =< 4)'
    BY WritesBounded, PTL
  <2> QED BY <1>4, <2>1
<1>6. TypeOK'
  BY <1>1, <1>3, <1>5, ZenonT(40) DEF IInv, TypeOK, Contents, history
<1>7. Found' # None => Holds(Found)'
  BY <1>1, <1>2 DEF Found, Holds
<1>8. Reads' /\ Targets' /\ (syncing => Syncing)'
  BY <1>1 DEF IInv, Reads, Targets, Syncing, history
<1>9. Phases'
  BY <1>1, <1>2, <1>4, <1>7 DEF Phases
<1>10. Atomic' /\ CompletedMeansDone' /\ CacheCoherent'
  BY <1>1 DEF IInv, Atomic, CompletedMeansDone, CacheCoherent, history
<1> QED BY <1>6, <1>8, <1>9, <1>10 DEF IInv

(* Any outcome of the next write: complete, in error or cut short.          *)
LEMMA TornAny ==
    ASSUME IInv, pc = "write", todo # <<>>, NEW e \in Torn(disk, Head(todo))
    PROVE  /\ e \in [Regions -> Contents]
           /\ TableKept(disk, e) \/ TableReplaced(disk, e)
           /\ AtomicAt(e)
<1>1. CASE syncing
  <2>1. TypeOK /\ SyncWrites /\ Atomic
    BY <1>1 DEF IInv, Phases
  <2> QED BY <2>1, TornSync DEF TableKept, AtomicAt, Atomic
<1>2. CASE ~syncing
  <2>1. TypeOK /\ OwnWrites /\ Targets
    BY <1>2 DEF IInv, Phases
  <2> QED BY <2>1, TornOwn
<1> QED BY <1>1, <1>2 DEF IInv, TypeOK

LEMMA HeadContents ==
    ASSUME IInv, pc = "write", todo # <<>>
    PROVE  \A r \in DOMAIN Head(todo) : Head(todo)[r] \in Contents
<1> USE DEF Put, Contents
<1>1. target \in Contents /\ primary \in Contents /\ secondary \in Contents /\ None \in Contents
  BY DEF IInv, TypeOK
<1>2. CASE syncing
  <2>1. PICK r \in Regions, t \in {primary, secondary} : Head(todo) = Put(t, r)
    BY <1>2, Lists DEF IInv, Phases, SyncWrites, RestorePrimary, RestoreSecondary, Restored, Regions
  <2> QED BY <1>1, <2>1
<1>3. CASE ~syncing
  <2>1. CASE UpdateWrites
    <3>1. Head(todo) = [r \in {"ph", "pe"} |-> target]
      BY <2>1, Lists DEF UpdateWrites
    <3> QED BY <1>1, <3>1
  <2>2. CASE EraseWrites
    <3>1. PICK r \in Regions : Head(todo) = Put(None, r)
      BY <2>2, Lists DEF EraseWrites, Regions
    <3> QED BY <1>1, <3>1
  <2>3. CASE PersistWrites
    <3>1. PICK r \in Regions, t \in {target, None} : Head(todo) = Put(t, r)
      BY <2>3, Lists DEF PersistWrites, Regions
    <3> QED BY <1>1, <3>1
  <2> QED BY <1>3, <2>1, <2>2, <2>3 DEF IInv, Phases, OwnWrites
<1> QED BY <1>2, <1>3

LEMMA DiskWriteInv ==
    ASSUME IInv, DiskWrite
    PROVE  IInv'
<1>1. /\ pc = "write" /\ pc' = "write" /\ todo # <<>>
      /\ disk' = Apply(disk, Head(todo)) /\ todo' = Tail(todo) /\ Track(disk')
      /\ UNCHANGED <<valid, mem, rest, srest, op, target, mutated, syncing, primary, secondary, result, before, agreed>>
  BY DEF DiskWrite
<1>2. disk' \in Torn(disk, Head(todo))
  BY <1>1, HeadContents, ApplyTorn DEF IInv, TypeOK
<1>3. disk' \in [Regions -> Contents] /\ AtomicAt(disk')
  BY <1>1, <1>2, TornAny
<1>4. CASE syncing
  <2>1. SyncWrites /\ TypeOK /\ Syncing /\ (Found # None => Holds(Found))
    BY <1>1, <1>4 DEF IInv, Phases
  <2>2. SyncWrites'
    BY <1>1, <2>1, WriteSync
  <2>3. View(disk') = View(disk)
    BY <1>1, <1>2, <2>1, TornSync
  <2>4. pending' = pending
    BY <1>1, <2>3 DEF Track
  <2>5. Syncing'
    BY <1>1, <2>1, <2>3, <2>4 DEF Syncing
  <2> QED
    <3>1. (SyncWrites \/ OwnWrites => Len(todo) =< 4)'
      BY WritesBounded, PTL
    <3>2. TypeOK'
      BY <1>1, <1>3, <2>2, <2>4, <3>1 DEF IInv, TypeOK
    <3>3. Phases'
      BY <1>1, <1>4, <2>1, <2>2 DEF Phases, Found, Holds
    <3>4. Targets' /\ Reads'
      BY <1>1 DEF IInv, Targets, Reads
    <3>5. Atomic' /\ CompletedMeansDone' /\ CacheCoherent'
      BY <1>1, <1>3 DEF Atomic, AtomicAt, CompletedMeansDone, CacheCoherent
    <3> QED BY <2>5, <3>2, <3>3, <3>4, <3>5 DEF IInv
<1>5. CASE ~syncing
  <2>1. OwnWrites /\ TypeOK /\ Targets
    BY <1>1, <1>5 DEF IInv, Phases
  <2>2. OwnWrites'
    BY <1>1, <2>1, WriteOwn
  <2>3. pending' \in {pending, {}}
    BY <1>1 DEF Track
  <2> QED
    <3>1. (SyncWrites \/ OwnWrites => Len(todo) =< 4)'
      BY WritesBounded, PTL
    <3>2. TypeOK'
      BY <1>1, <1>3, <2>2, <2>3, <3>1 DEF IInv, TypeOK
    <3>3. Phases'
      BY <1>1, <1>5, <2>2 DEF Phases
    <3>4. Targets' /\ Reads'
      BY <1>1 DEF IInv, Targets, Reads
    <3>5. Atomic' /\ CompletedMeansDone' /\ CacheCoherent'
      BY <1>1, <1>3 DEF Atomic, AtomicAt, CompletedMeansDone, CacheCoherent
    <3> QED BY <1>1, <1>5, <3>2, <3>3, <3>4, <3>5 DEF IInv
<1> QED BY <1>4, <1>5 DEF IInv, TypeOK

LEMMA DiskWriteErrorInv ==
    ASSUME IInv, DiskWriteError
    PROVE  IInv'
<1>1. /\ pc = "write" /\ todo # <<>> /\ disk' \in Torn(disk, Head(todo)) /\ todo' = <<>>
      /\ pc' = "idle" /\ result' = "err" /\ syncing' = FALSE /\ pending' = {}
      /\ UNCHANGED <<valid, mem, rest, srest, op, target, mutated, primary, secondary, before, agreed>>
  BY DEF DiskWriteError, End
<1>2. disk' \in [Regions -> Contents] /\ AtomicAt(disk')
  BY <1>1, TornAny
<1>3. TypeOK'
  <2>1. Len(todo') =< 4 /\ {} \in SUBSET (Tables \cup {None})
    BY <1>1
  <2> QED BY <1>1, <1>2, <2>1 DEF IInv, TypeOK
<1>4. Targets' /\ Reads' /\ Phases'
  BY <1>1 DEF IInv, Targets, Reads, Phases
<1>5. Atomic' /\ CompletedMeansDone' /\ CacheCoherent'
  BY <1>1, <1>2 DEF Atomic, AtomicAt, CompletedMeansDone, CacheCoherent
<1> QED BY <1>1, <1>3, <1>4, <1>5 DEF IInv

LEMMA PowerFailDisk ==
    ASSUME IInv, PowerFail
    PROVE  /\ disk' \in [Regions -> Contents]
           /\ TableKept(disk, disk') \/ TableReplaced(disk, disk')
           /\ AtomicAt(disk')
<1>1. CASE pc = "write" /\ todo # <<>>
  BY <1>1, TornAny DEF PowerFail
<1>2. CASE ~(pc = "write" /\ todo # <<>>)
  BY <1>2 DEF PowerFail, IInv, TypeOK, Atomic, AtomicAt, TableKept
<1> QED BY <1>1, <1>2

LEMMA PowerFailInv ==
    ASSUME IInv, PowerFail
    PROVE  IInv'
<1>1. /\ pc' = "down" /\ todo' = <<>> /\ valid' = FALSE
      /\ mem' = None /\ rest' = None /\ srest' = None
      /\ primary' = None /\ secondary' = None /\ result' = "none"
      /\ mutated' = FALSE /\ syncing' = FALSE /\ pending' = {}
      /\ UNCHANGED <<op, target, before, agreed>>
  BY DEF PowerFail
<1>2. disk' \in [Regions -> Contents] /\ AtomicAt(disk')
  BY PowerFailDisk
<1>3. TypeOK'
  <2>1. Len(todo') =< 4 /\ {} \in SUBSET (Tables \cup {None})
    BY <1>1
  <2> QED BY <1>1, <1>2, <2>1 DEF IInv, TypeOK, Contents
<1>4. Targets' /\ Reads' /\ Phases'
  BY <1>1 DEF IInv, Targets, Reads, Phases
<1>5. Atomic' /\ CompletedMeansDone' /\ CacheCoherent'
  BY <1>1, <1>2 DEF Atomic, AtomicAt, CompletedMeansDone, CacheCoherent
<1> QED BY <1>1, <1>3, <1>4, <1>5 DEF IInv

(* load_and_sync() returns with the two copies equal.                       *)
LEMMA SyncDoneInv ==
    ASSUME IInv, SyncDone
    PROVE  IInv'
<1>1. /\ pc = "write" /\ todo = <<>> /\ syncing
      /\ UNCHANGED <<disk, op, target, primary, secondary, before, agreed>>
  BY DEF SyncDone
<1>2. TypeOK /\ Targets /\ Syncing /\ Atomic /\ SyncWrites /\ (Found # None => Holds(Found))
  BY <1>1 DEF IInv, Phases
<1>3. Agreed(disk) /\ View(disk) = Found
  BY <1>1, <1>2, Lists DEF SyncWrites, RestorePrimary, RestoreSecondary, Restored
<1>4. novalid <=> Found = None
  BY DEF novalid, Found
<1>5. Targets' /\ Atomic'
  BY <1>1, <1>2 DEF Targets, Atomic
<1>6. ASSUME NEW res \in {"ok", "novalid", "err"}, End(res), valid' = TRUE, UNCHANGED <<mem, rest, srest, todo, mutated>>,
             res = "ok" => View(disk) = target
      PROVE  IInv'
  <2>1. TypeOK'
    <3>1. {} \in SUBSET (Tables \cup {None})
      OBVIOUS
    <3> QED BY <1>1, <1>2, <1>6, <3>1 DEF End, TypeOK
  <2>2. Reads' /\ Phases' /\ ~syncing'
    BY <1>1, <1>6 DEF End, Reads, Phases
  <2>3. CompletedMeansDone' /\ CacheCoherent'
    BY <1>1, <1>2, <1>3, <1>6 DEF End, CompletedMeansDone, CacheCoherent, Holds, View, Agreed, PrimaryOk, SecondaryOk
  <2> QED BY <1>5, <2>1, <2>2, <2>3 DEF IInv
<1>7. CASE op = "sync" /\ valid' = TRUE /\ End(IF novalid THEN "novalid" ELSE "ok")
           /\ UNCHANGED <<mem, rest, srest, todo, mutated>>
  <2>1. View(disk) = target
    BY <1>2, <1>7 DEF Syncing, Targets, TypeOK
  <2> QED BY <1>6, <1>7, <2>1
<1>8. CASE (op = "update" \/ (op = "persist" /\ mutated)) /\ valid' = TRUE
           /\ End(IF novalid THEN "err" ELSE "ok") /\ UNCHANGED <<mem, rest, srest, todo, mutated>>
  <2>1. View(disk) = target
    BY <1>2, <1>8 DEF Syncing, TypeOK
  <2> QED BY <1>6, <1>8, <2>1
<1>9. CASE op = "erase" /\ novalid /\ valid' = TRUE /\ End("ok") /\ UNCHANGED <<mem, rest, srest, todo, mutated>>
  <2>1. View(disk) = target
    BY <1>2, <1>3, <1>4, <1>9 DEF Targets
  <2> QED BY <1>6, <1>9, <2>1
<1>10. CASE /\ op = "erase" /\ ~novalid /\ valid' = FALSE /\ mem' = None
            /\ todo' = erase_writes /\ mutated' = TRUE /\ syncing' = FALSE
            /\ rest' = IF mem \in Short THEN rest ELSE None
            /\ UNCHANGED <<srest, pc, result, pending>>
  <2>1. View(disk) = before /\ before # None /\ pending = {target}
    BY <1>2, <1>3, <1>4, <1>10 DEF Syncing, TypeOK
  <2>2. /\ disk["ph"] = before /\ disk["pe"] = before /\ before \in Tables
        /\ disk["sh"] = before /\ disk["se"] = before
    BY <1>3, <2>1 DEF View, Agreed, PrimaryOk, SecondaryOk
  <2>3. OwnWrites'
    BY <1>1, <1>10, <2>1, <2>2 DEF OwnWrites, EraseWrites, SecondaryStands, erase_writes
  <2>4. Len(todo') =< 4
    BY <1>10 DEF erase_writes
  <2>5. TypeOK'
    BY <1>1, <1>2, <1>10, <2>4 DEF TypeOK, Contents
  <2>6. Reads' /\ Phases' /\ CompletedMeansDone' /\ CacheCoherent'
    BY <1>1, <1>10, <2>3 DEF Reads, Phases, CompletedMeansDone, CacheCoherent
  <2> QED BY <1>5, <1>10, <2>5, <2>6 DEF IInv
<1>11. CASE /\ op = "persist" /\ ~mutated /\ valid' = TRUE
            /\ todo' = persist_writes(target) /\ mutated' = TRUE /\ syncing' = FALSE
            /\ srest' \in IF target \in Short THEN {None, srest} ELSE {target}
            /\ UNCHANGED <<mem, rest, pc, result, pending>>
  <2>1. View(disk) = before /\ pending = {target}
    BY <1>2, <1>11 DEF Syncing
  <2>2. todo' = <<Put(target, "sh"), Put(target, "se"), Put(None, "ph")>>
    <3> DEFINE a == Put(target, "sh")
               b == Put(target, "se")
               c == Put(None, "ph")
    <3>1. todo' = <<a, b>> \o <<c>>
      BY <1>11, Zenon DEF persist_writes, Copy
    <3> HIDE DEF a, b, c
    <3>2. <<a, b>> \o <<c>> = <<a, b, c>>
      BY Concat, Zenon
    <3>3. todo' = <<a, b, c>>
      BY <3>1, <3>2, Zenon
    <3> QED BY <3>3 DEF a, b, c
  <2>3. PrimaryStands
    BY <1>3, <2>1 DEF View, Agreed, PrimaryStands
  <2>4. OwnWrites'
    <3>1. PrimaryStands' /\ Agreed(disk)'
      BY <1>1, <1>3, <2>3 DEF PrimaryStands, PrimaryOk, SecondaryOk, Agreed
    <3> QED BY <1>1, <1>11, <2>1, <2>2, <3>1 DEF OwnWrites, PersistWrites
  <2>5. Len(todo') =< 4
    BY <2>2
  <2>6. TypeOK'
    BY <1>1, <1>2, <1>11, <2>5 DEF TypeOK, Targets, Contents
  <2>7. Reads' /\ Phases' /\ CompletedMeansDone' /\ CacheCoherent'
    BY <1>1, <1>11, <2>4 DEF Reads, Phases, CompletedMeansDone, CacheCoherent
  <2> QED BY <1>5, <1>11, <2>6, <2>7 DEF IInv
<1> QED BY <1>7, <1>8, <1>9, <1>10, <1>11 DEF SyncDone

LEMMA OwnWritesDoneInv ==
    ASSUME IInv, OwnWritesDone
    PROVE  IInv'
<1>1. /\ pc = "write" /\ todo = <<>> /\ ~syncing
      /\ UNCHANGED <<disk, valid, mem, rest, srest, op, target, mutated, todo, primary, secondary, before, agreed>>
  BY DEF OwnWritesDone
<1>2. TypeOK /\ Targets /\ Atomic /\ OwnWrites
  BY <1>1 DEF IInv, Phases
<1>3. Targets' /\ Atomic'
  BY <1>1, <1>2 DEF Targets, Atomic
<1>4. CASE op = "erase" /\ End("ok")
  <2>1. disk["ph"] = None /\ disk["sh"] = None /\ target = None
    BY <1>1, <1>2, <1>4, Lists
       DEF OwnWrites, UpdateWrites, EraseWrites, PersistWrites, Targets
  <2>2. View(disk) = target /\ Agreed(disk)
    BY <2>1, ContentsDistinct DEF View, Agreed, PrimaryOk, SecondaryOk
  <2>3. TypeOK'
    <3>1. {} \in SUBSET (Tables \cup {None})
      OBVIOUS
    <3> QED BY <1>1, <1>2, <1>4, <3>1 DEF End, TypeOK
  <2>4. Reads' /\ Phases' /\ ~syncing'
    BY <1>1, <1>4 DEF End, Reads, Phases
  <2>5. CompletedMeansDone' /\ CacheCoherent'
    BY <1>1, <2>1, <2>2 DEF CompletedMeansDone, CacheCoherent, View, Agreed, PrimaryOk, SecondaryOk
  <2> QED BY <1>3, <2>3, <2>4, <2>5 DEF IInv
<1>5. CASE op # "erase" /\ pc' = "load_p" /\ syncing' = TRUE /\ UNCHANGED <<result, pending>>
  <2>1. View(disk) = target /\ op \in {"update", "persist"} /\ mutated /\ pending \in {{}, {target}}
    <3>1. CASE UpdateWrites
      <4>1. disk["ph"] = target /\ disk["pe"] = target /\ op = "update"
        BY <1>1, <3>1, Lists DEF UpdateWrites
      <4> QED BY <1>2, <4>1 DEF Targets, View, PrimaryOk, OwnWrites
    <3>2. CASE PersistWrites
      <4>1. disk["ph"] = None /\ disk["sh"] = target /\ disk["se"] = target /\ op = "persist"
        BY <1>1, <3>2, Lists DEF PersistWrites
      <4> QED BY <1>2, <4>1, ContentsDistinct DEF Targets, View, PrimaryOk, SecondaryOk, OwnWrites
    <3> QED BY <1>2, <1>5, <3>1, <3>2 DEF OwnWrites, EraseWrites
  <2>2. TypeOK'
    BY <1>1, <1>2, <1>5 DEF TypeOK
  <2>3. Reads' /\ Phases' /\ CompletedMeansDone' /\ CacheCoherent'
    BY <1>1, <1>5 DEF Reads, Phases, CompletedMeansDone, CacheCoherent
  <2>4. Syncing'
    BY <1>1, <1>5, <2>1 DEF Syncing
  <2> QED BY <1>3, <2>2, <2>3, <2>4 DEF IInv
<1> QED BY <1>4, <1>5 DEF OwnWritesDone

LEMMA InitIInv == Init => IInv
<1> SUFFICES ASSUME Init PROVE IInv
  OBVIOUS
<1>1. TypeOK
  <2>1. Len(todo) =< 4 /\ {} \in SUBSET (Tables \cup {None})
    BY DEF Init
  <2> QED BY <2>1, ViewType DEF Init, TypeOK, Contents, Agreed, PrimaryOk, SecondaryOk
<1>2. Targets /\ Reads /\ Phases /\ ~syncing
  BY DEF Init, Targets, Reads, Phases
<1>3. Atomic /\ CompletedMeansDone /\ CacheCoherent
  BY DEF Init, Atomic, CompletedMeansDone, CacheCoherent
<1> QED BY <1>1, <1>2, <1>3 DEF IInv

LEMMA StutterIInv == IInv /\ UNCHANGED vars => IInv'
<1> SUFFICES ASSUME IInv, UNCHANGED vars PROVE IInv'
  OBVIOUS
<1> USE DEF vars, gptVars, history
<1>1. TypeOK'
  BY DEF IInv, TypeOK
<1>2. Targets' /\ Reads' /\ (syncing => Syncing)'
  BY DEF IInv, Targets, Reads, Syncing, Holds
<1>3. Phases'
  BY DEF IInv, Phases, SyncWrites, RestorePrimary, RestoreSecondary, Restored, Found, Holds, OwnWrites,
         UpdateWrites, EraseWrites, PersistWrites, SecondaryStands, PrimaryStands
<1>4. Atomic' /\ CompletedMeansDone' /\ CacheCoherent'
  BY DEF IInv, Atomic, CompletedMeansDone, CacheCoherent, Holds
<1> QED BY <1>1, <1>2, <1>3, <1>4 DEF IInv

LEMMA NextIInv == ReadErrors = FALSE /\ IInv /\ [Next]_vars => IInv'
<1> SUFFICES ASSUME ReadErrors = FALSE, IInv, [Next]_vars PROVE IInv'
  OBVIOUS
<1>1. CASE Boot \/ sync_gpt
  BY <1>1, BeginSync, ViewType DEF Boot, sync_gpt
<1>2. CASE erase_gpt
  BY <1>2, BeginSync DEF erase_gpt
<1>3. CASE \E t \in Tables : update_gpt(t)
  BY <1>3, BeginUpdate
<1>4. CASE \E t \in Tables : build_gpt(t)
  BY <1>4, BeginSync DEF build_gpt
<1>5. CASE LoadPrimary \/ LoadSecondary
  BY <1>5, LoadInv
<1>6. CASE Resolve
  BY <1>6, ResolveInv
<1>7. CASE DiskWrite
  BY <1>7, DiskWriteInv
<1>8. CASE DiskWriteError
  BY <1>8, DiskWriteErrorInv
<1>9. CASE SyncDone
  BY <1>9, SyncDoneInv
<1>10. CASE OwnWritesDone
  BY <1>10, OwnWritesDoneInv
<1>11. CASE PowerFail
  BY <1>11, PowerFailInv
<1>12. CASE UNCHANGED vars
  BY <1>12, StutterIInv
<1> QED BY <1>1, <1>2, <1>3, <1>4, <1>5, <1>6, <1>7, <1>8, <1>9, <1>10, <1>11, <1>12 DEF Next

LEMMA AlwaysIInv ==
    ASSUME ReadErrors = FALSE
    PROVE  Spec => []IInv
<1>1. IInv /\ [Next]_vars => IInv'
  BY NextIInv
<1> QED BY InitIInv, <1>1, PTL DEF Spec

-----------------------------------------------------------------------------
(* At every moment of an operation, and after a power failure or an error   *)
(* in any of its writes, the disk holds the old table or the new one.       *)
THEOREM GptAtomic ==
    ASSUME ReadErrors = FALSE
    PROVE  Spec => []Atomic
<1>1. IInv => Atomic
  BY DEF IInv
<1> QED BY <1>1, AlwaysIInv, PTL

(* An operation that reports success left its table in both copies.         *)
THEOREM GptCompleted ==
    ASSUME ReadErrors = FALSE
    PROVE  Spec => []CompletedMeansDone
<1>1. IInv => CompletedMeansDone
  BY DEF IInv
<1> QED BY <1>1, AlwaysIInv, PTL

(* After a successful operation the list that entries() returns begins with *)
(* every entry of the table on the disk; what follows a table shorter than  *)
(* the buffer may be left over from an earlier one.                         *)
THEOREM GptCacheCoherent ==
    ASSUME ReadErrors = FALSE
    PROVE  Spec => []CacheCoherent
<1>1. IInv => CacheCoherent
  BY DEF IInv
<1> QED BY <1>1, AlwaysIInv, PTL

-----------------------------------------------------------------------------
(***************************************************************************)
(* The refinement: every step of the detailed specification is a step of   *)
(* GptTable, or changes nothing that it shows.                             *)
(***************************************************************************)
Shown == <<View(disk), IF SecondaryOk(disk) THEN disk["sh"] ELSE None, pending>>

LEMMA BeginStep ==
    ASSUME NEW o, NEW t \in Tables \cup {None}, NEW first, NEW writes, NEW sync,
           Begin(o, t, first, writes, sync)
    PROVE  Abstract!Next
<1>1. disk' = disk /\ (pending' = {} \/ pending' = {t})
  BY DEF Begin
<1>2. CASE pending' = {}
  BY <1>1, <1>2 DEF Abstract!Next, Abstract!Abandon, View, PrimaryOk, SecondaryOk
<1>3. CASE pending' = {t}
  BY <1>1, <1>3 DEF Abstract!Next, Abstract!Start, View, PrimaryOk, SecondaryOk
<1> QED BY <1>1, <1>2, <1>3

(* A write, complete or torn, that keeps the pending table or ends with it. *)
LEMMA TornStep ==
    ASSUME TableKept(disk, disk') \/ TableReplaced(disk, disk'),
           pending' = {} \/ (pending' = pending /\ View(disk') = View(disk))
    PROVE  Abstract!Next \/ UNCHANGED Shown
<1>1. CASE TableKept(disk, disk') /\ SecondaryTable(disk') = SecondaryTable(disk) /\ pending' = {}
  BY <1>1 DEF TableKept, SecondaryTable, Abstract!Next, Abstract!Abandon
<1>2. CASE TableKept(disk, disk') /\ SecondaryTable(disk') = SecondaryTable(disk)
           /\ pending' = pending
  BY <1>2 DEF TableKept, SecondaryTable, Shown
<1>3. CASE TableKept(disk, disk') /\ SecondaryTable(disk') # SecondaryTable(disk)
  BY <1>3 DEF TableKept, SecondaryTable, Abstract!Next, Abstract!Renew
<1>4. CASE TableReplaced(disk, disk') /\ pending' = {}
  BY <1>4 DEF TableReplaced, SecondaryTable, Abstract!Next, Abstract!Commit
<1>5. CASE TableReplaced(disk, disk') /\ pending' = pending /\ View(disk') = View(disk)
  BY <1>5 DEF TableReplaced, SecondaryTable, Abstract!Next, Abstract!Renew, Shown
<1> QED BY <1>1, <1>2, <1>3, <1>4, <1>5

LEMMA StepRefines == IInv /\ [Next]_vars => Abstract!Next \/ UNCHANGED Shown
<1> SUFFICES ASSUME IInv, [Next]_vars PROVE Abstract!Next \/ UNCHANGED Shown
  OBVIOUS
<1>1. CASE Boot \/ sync_gpt \/ erase_gpt \/ \E t \in Tables : update_gpt(t) \/ build_gpt(t)
  BY <1>1, BeginStep, ViewType DEF Boot, sync_gpt, erase_gpt, update_gpt, build_gpt
<1>2. CASE LoadPrimary \/ LoadSecondary \/ Resolve \/ UNCHANGED vars
  BY <1>2 DEF LoadPrimary, LoadSecondary, Resolve, vars, gptVars, history, Shown,
              View, PrimaryOk, SecondaryOk
<1>3. CASE DiskWrite
  <2>1. /\ pc = "write" /\ todo # <<>> /\ disk' = Apply(disk, Head(todo)) /\ Track(disk')
    BY <1>3 DEF DiskWrite
  <2>2. disk' \in Torn(disk, Head(todo))
    BY <2>1, HeadContents, ApplyTorn DEF IInv, TypeOK
  <2>3. TableKept(disk, disk') \/ TableReplaced(disk, disk')
    BY <2>1, <2>2, TornAny
  <2>4. pending' = {} \/ (pending' = pending /\ View(disk') = View(disk))
    BY <2>1 DEF Track
  <2> QED BY <2>3, <2>4, TornStep
<1>4. CASE DiskWriteError
  <2>1. pc = "write" /\ todo # <<>> /\ disk' \in Torn(disk, Head(todo)) /\ pending' = {}
    BY <1>4 DEF DiskWriteError, End
  <2>2. TableKept(disk, disk') \/ TableReplaced(disk, disk')
    BY <2>1, TornAny
  <2> QED BY <2>1, <2>2, TornStep
<1>5. CASE PowerFail
  <2>1. pending' = {}
    BY <1>5 DEF PowerFail
  <2> QED BY <1>5, <2>1, PowerFailDisk, TornStep
<1>6. CASE SyncDone \/ OwnWritesDone
  <2>1. disk' = disk /\ (pending' = pending \/ pending' = {})
    BY <1>6 DEF SyncDone, OwnWritesDone, End
  <2> QED BY <2>1 DEF Abstract!Next, Abstract!Abandon, Shown, View, PrimaryOk, SecondaryOk
<1> QED BY <1>1, <1>2, <1>3, <1>4, <1>5, <1>6 DEF Next

(* The disk is a register for one table: whatever the crashes, errors and   *)
(* torn writes, each operation replaces the table in one step or leaves it. *)
THEOREM GptRefinesTable ==
    ASSUME ReadErrors = FALSE
    PROVE  Spec => RefinesTable
<1>1. Init => Abstract!Init
  BY ViewType DEF Init, Abstract!Init, SecondaryOk
<1>2. Spec => []IInv
  BY AlwaysIInv
<1>3. IInv /\ [Next]_vars => [Abstract!Next]_Shown
  BY StepRefines
<1> QED BY <1>1, <1>2, <1>3, PTL DEF Spec, RefinesTable, Abstract!Spec, Shown

-----------------------------------------------------------------------------
(* GptEntries.                                                              *)
(* The first n entries are used and the others are not.                     *)
Packed(t, n) == \A i \in Index : is_null(t[i]) <=> i > n

(* GptBuilder between two calls: the used entries come first, each in the   *)
(* usable range, in the order of the disk and without overlap.              *)
Ascending(t, n) ==
    /\ \A i \in 1..n : range_ok(t[i])
    /\ \A i, j \in 1..n : i < j => t[i].last < t[j].first
DistinctNames(t, n) == \A i, j \in 1..n : i # j => t[i].name # t[j].name
Used(t, n) == {t[i] : i \in 1..n}

BuilderInv ==
    phase = "building" =>
        /\ Packed(work, count) /\ Ascending(work, count) /\ DistinctNames(work, count)
        /\ want = Used(work, count)

GInv ==
    /\ EntriesTypeOK /\ BuilderInv /\ EditsExact /\ AddFindsSpace
    /\ phase = "disk" => table \in DiskTables /\ refused = {}

-----------------------------------------------------------------------------
LEMMA Geometry ==
    /\ N \in Nat \ {0} /\ FirstBlk \in Nat \ {0} /\ LastBlk \in Nat /\ FirstBlk =< LastBlk
    /\ Index = 1..N /\ IsFiniteSet(Index) /\ Cardinality(Index) = N
<1>1. N \in Nat \ {0} /\ FirstBlk \in Nat \ {0} /\ LastBlk \in Nat /\ FirstBlk =< LastBlk /\ Index = 1..N
  BY GeometryAssumption DEF Index
<1>2. IsFiniteSet(1..N) /\ Cardinality(1..N) = N
  BY <1>1, FS_Interval
<1> QED BY <1>1, <1>2

LEMMA SmallestOf ==
    ASSUME NEW T \in SUBSET Nat, T # {}
    PROVE  \E x \in T : \A y \in T : x =< y
<1> DEFINE R == OpToRel(<, Nat)
<1>1. IsWellFoundedOn(R, Nat)
  BY NatLessThanWellFounded
<1>2. \A x, y \in Nat : y < x => <<y, x>> \in R
  BY DEF OpToRel
<1> HIDE DEF R
<1>3. PICK x \in T : \A y \in T : ~(<<y, x>> \in R)
  BY <1>1, WFMin
<1>4. ASSUME NEW y \in T PROVE x =< y
  <2>1. x \in Nat /\ y \in Nat /\ ~(y < x)
    BY <1>2, <1>3
  <2> QED BY <2>1
<1> QED BY <1>4

(* The end of the used entries.                                             *)
LEMMA FirstNull ==
    ASSUME NEW t, NEW n \in 0..N, Packed(t, n)
    PROVE  first_null(t) = n + 1 /\ entries(t) = Used(t, n)
<1> USE Geometry
<1>1. first_null(t) = n + 1
  <2>1. CASE n = N
    <3>1. ~\E i \in Index : is_null(t[i])
      BY <2>1 DEF Packed
    <3> QED BY <2>1, <3>1 DEF first_null
  <2>2. CASE n < N
    <3> DEFINE Is(i) == is_null(t[i]) /\ \A j \in 1..(i - 1) : ~is_null(t[j])
               x == CHOOSE i \in Index : Is(i)
    <3>1. n + 1 \in Index /\ Is(n + 1)
      BY <2>2 DEF Packed
    <3>2. x \in Index /\ Is(x)
      BY <3>1
    <3>3. x = n + 1
      BY <3>1, <3>2 DEF Packed
    <3>4. first_null(t) = x
      BY <3>1 DEF first_null
    <3> QED BY <3>3, <3>4
  <2> QED BY <2>1, <2>2
<1>2. first_null(t) - 1 = n
  BY <1>1
<1> QED BY <1>1, <1>2 DEF entries, Used

LEMMA CompactPacked ==
    ASSUME NEW t, Compact(t)
    PROVE  \E n \in 0..N : Packed(t, n)
<1> USE Geometry
<1> DEFINE T == {i \in Index : is_null(t[i])}
<1>1. CASE T = {}
  <2>1. Packed(t, N) /\ N \in 0..N
    BY <1>1 DEF Packed
  <2> QED BY <2>1
<1>2. CASE T # {}
  <2>0. T \in SUBSET Nat
    OBVIOUS
  <2>1. PICK x \in T : \A y \in T : x =< y
    <3> HIDE DEF T
    <3> QED BY <1>2, <2>0, SmallestOf
  <2>2. x \in 1..N /\ is_null(t[x]) /\ x - 1 \in 0..N
    OBVIOUS
  <2>3. ASSUME NEW i \in Index PROVE is_null(t[i]) <=> i > x - 1
    <3>1. is_null(t[i]) => x =< i
      BY <2>1
    <3>2. x < i => is_null(t[i])
      BY <2>2 DEF Compact
    <3>3. x = i => is_null(t[i])
      BY <2>2
    <3> QED BY <2>2, <3>1, <3>2, <3>3
  <2>4. Packed(t, x - 1)
    BY <2>3 DEF Packed
  <2> QED BY <2>2, <2>4
<1> QED BY <1>1, <1>2

-----------------------------------------------------------------------------
(* Sorting.  A sort takes the smallest of the remaining again and again.         *)
LEMMA SortExists ==
    ASSUME NEW kk \in [Index -> Nat]
    PROVE  \E p \in Orders : \A i, j \in Index : i < j => kk[p[i]] =< kk[p[j]]
<1> USE Geometry
<1> DEFINE Partial(m) ==
             {q \in [1..m -> Index] :
                /\ \A i, j \in 1..m : q[i] = q[j] => i = j
                /\ \A i, j \in 1..m : i < j => kk[q[i]] =< kk[q[j]]
                /\ \A i \in 1..m, x \in Index : (\A j \in 1..m : q[j] # x) => kk[q[i]] =< kk[x]}
           Bad == {m \in 0..N : Partial(m) = {}}
<1>1. ASSUME NEW m \in 1..N, NEW q \in Partial(m - 1)
      PROVE  Partial(m) # {}
  <2> DEFINE remaining == {x \in Index : \A j \in 1..(m - 1) : q[j] # x}
             keys == {kk[x] : x \in remaining}
  <2>1. remaining # {}
    <3> SUFFICES ASSUME remaining = {} PROVE FALSE
      OBVIOUS
    <3>1. q \in Surjection(1..(m - 1), Index)
      BY DEF Surjection
    <3>2. m - 1 \in Int /\ 1 \in Int
      OBVIOUS
    <3>3. IsFiniteSet(1..(m - 1)) /\ Cardinality(1..(m - 1)) = m - 1
      BY <3>2, FS_Interval
    <3>4. Cardinality(Index) =< Cardinality(1..(m - 1))
      BY <3>1, <3>3, FS_Surjection
    <3> QED BY <3>3, <3>4
  <2>2. keys # {} /\ keys \in SUBSET Nat
    BY <2>1
  <2>3. PICK least \in keys : \A y \in keys : least =< y
    BY <2>2, SmallestOf
  <2>4. PICK x0 \in remaining : kk[x0] = least
    BY <2>3
  <2> DEFINE q2 == [i \in 1..m |-> IF i = m THEN x0 ELSE q[i]]
  <2>5. x0 \in Index /\ (\A j \in 1..(m - 1) : q[j] # x0) /\ \A x \in remaining : kk[x0] =< kk[x]
    BY <2>3, <2>4
  <2>6. q \in [1..(m - 1) -> Index] /\ q2 \in [1..m -> Index]
    BY <2>5
  <2>6a. \A i \in 1..(m - 1), x \in Index : (\A j \in 1..(m - 1) : q[j] # x) => kk[q[i]] =< kk[x]
    OBVIOUS
  <2>7. /\ \A i, j \in 1..(m - 1) : q[i] = q[j] => i = j
        /\ \A i, j \in 1..(m - 1) : i < j => kk[q[i]] =< kk[q[j]]
        /\ \A i \in 1..(m - 1) : \A x \in remaining : kk[q[i]] =< kk[x]
    BY <2>6a
  <2>8. x0 \in remaining
    BY <2>4
  <2>9. \A x \in Index : (\A j \in 1..(m - 1) : q[j] # x) => x \in remaining
    OBVIOUS
  <2>10. \A i \in 1..m : i = m \/ i \in 1..(m - 1)
    OBVIOUS
  <2>11. q2[m] = x0 /\ \A i \in 1..(m - 1) : q2[i] = q[i] /\ i \in 1..m /\ i # m
    OBVIOUS
  <2> HIDE DEF q2, remaining, keys
  <2>12. \A i, j \in 1..m : q2[i] = q2[j] => i = j
    BY <2>5, <2>7, <2>10, <2>11
  <2>13. \A i, j \in 1..m : i < j => kk[q2[i]] =< kk[q2[j]]
    <3> SUFFICES ASSUME NEW i \in 1..m, NEW j \in 1..m, i < j PROVE kk[q2[i]] =< kk[q2[j]]
      OBVIOUS
    <3>1. i \in 1..(m - 1)
      OBVIOUS
    <3> QED BY <2>7, <2>8, <2>10, <2>11, <3>1
  <2>14. \A i \in 1..m, x \in Index : (\A j \in 1..m : q2[j] # x) => kk[q2[i]] =< kk[x]
    <3> SUFFICES ASSUME NEW i \in 1..m, NEW x \in Index, \A j \in 1..m : q2[j] # x
                 PROVE  kk[q2[i]] =< kk[x]
      OBVIOUS
    <3>1. x \in remaining
      BY <2>9, <2>11
    <3> QED BY <2>5, <2>7, <2>10, <2>11, <3>1
  <2> QED BY <2>6, <2>12, <2>13, <2>14
<1>2. Partial(0) # {}
  <2> DEFINE q0 == [i \in 1..0 |-> 1]
  <2>1. 1..0 = {}
    OBVIOUS
  <2>2. q0 \in Partial(0)
    BY <2>1
  <2> QED BY <2>2
<1> HIDE DEF Partial
<1>3. Bad = {}
  <2> SUFFICES ASSUME Bad # {} PROVE FALSE
    OBVIOUS
  <2>1. Bad \in SUBSET Nat
    OBVIOUS
  <2>2. PICK m \in Bad : \A y \in Bad : m =< y
    BY <2>1, SmallestOf
  <2>3. m # 0 /\ m \in 0..N /\ Partial(m) = {}
    BY <1>2, <2>2
  <2>4. m \in 1..N /\ m - 1 \in 0..N /\ ~(m =< m - 1)
    BY <2>3
  <2>5. Partial(m - 1) # {}
    BY <2>2, <2>4
  <2> QED BY <1>1, <2>3, <2>4, <2>5
<1>4. PICK p : p \in Partial(N)
  BY <1>3
<1>5. p \in Orders /\ \A i, j \in Index : i < j => kk[p[i]] =< kk[p[j]]
  BY <1>4 DEF Partial, Orders
<1> QED BY <1>5

LEMMA KeyIsNat ==
    ASSUME NEW e \in GptEntry
    PROVE  key(e) \in Nat
BY Geometry DEF key, GptEntry

LEMMA SortingIs ==
    ASSUME NEW t \in [Index -> GptEntry], NEW s \in sortings(t)
    PROVE  InOrder(s) /\ \E p \in Orders : s = [i \in Index |-> t[p[i]]]
<1>1. CASE InOrder(t)
  <2> DEFINE id == [i \in Index |-> i]
  <2>1. id \in Orders /\ t = [i \in Index |-> t[id[i]]]
    BY DEF Orders
  <2>2. s = t
    BY <1>1 DEF sortings
  <2> QED BY <1>1, <2>1, <2>2
<1>2. CASE ~InOrder(t)
  BY <1>2 DEF sortings
<1> QED BY <1>1, <1>2

LEMMA SortingExists ==
    ASSUME NEW t \in [Index -> GptEntry]
    PROVE  sortings(t) # {}
<1>1. CASE InOrder(t)
  BY <1>1 DEF sortings
<1>2. CASE ~InOrder(t)
  <2> DEFINE kk == [i \in Index |-> key(t[i])]
             all == {[i \in Index |-> t[p[i]]] : p \in Orders}
  <2>1. kk \in [Index -> Nat]
    BY KeyIsNat
  <2>2. PICK p \in Orders : \A i, j \in Index : i < j => kk[p[i]] =< kk[p[j]]
    <3> HIDE DEF kk
    <3> QED BY <2>1, SortExists
  <2> DEFINE s == [i \in Index |-> t[p[i]]]
  <2>3. s \in all /\ InOrder(s)
    BY <2>2 DEF InOrder, Orders
  <2>4. sortings(t) = {x \in all : InOrder(x)}
    BY <1>2 DEF sortings
  <2> HIDE DEF s, all
  <2> QED BY <2>3, <2>4
<1> QED BY <1>1, <1>2

LEMMA OrderOnto ==
    ASSUME NEW p \in Orders, NEW x \in Index
    PROVE  \E i \in Index : p[i] = x
<1>1. p \in Injection(Index, Index)
  BY DEF Orders, Injection, IsInjective
<1>2. p \in Surjection(Index, Index)
  BY <1>1, Geometry, FS_Injection
<1> QED BY <1>2 DEF Surjection

(* When the places that an order takes from 1..n come first, they are 1..n. *)
LEMMA Prefix ==
    ASSUME NEW p \in Orders, NEW n \in 0..N,
           \A i, j \in Index : i < j /\ p[j] =< n => p[i] =< n
    PROVE  \A i \in Index : p[i] =< n <=> i =< n
<1> USE Geometry
<1> DEFINE D == {i \in Index : p[i] =< n}
           C == {i \in Index : ~(p[i] =< n)}
           g == [i \in D |-> p[i]]
<1>1. p \in [Index -> Index] /\ \A i, j \in Index : p[i] = p[j] => i = j
  BY DEF Orders
<1>2. \E m \in 0..N : D = 1..m
  <2>1. CASE C = {}
    <3>1. D = 1..N
      BY <2>1
    <3> QED BY <3>1
  <2>2. CASE C # {}
    <3>1. C \in SUBSET Nat
      OBVIOUS
    <3>2. PICK x \in C : \A y \in C : x =< y
      <4> HIDE DEF C
      <4> QED BY <2>2, <3>1, SmallestOf
    <3>3. x \in 1..N /\ ~(p[x] =< n) /\ x - 1 \in 0..N
      OBVIOUS
    <3>4. ASSUME NEW i \in Index PROVE p[i] =< n <=> i < x
      <4>1. i < x => i \notin C
        BY <3>2, <3>3
      <4>2. x < i => ~(p[i] =< n)
        BY <3>3
      <4> QED BY <3>3, <4>1, <4>2
    <3>5. D = 1..(x - 1)
      BY <3>3, <3>4
    <3> QED BY <3>3, <3>5
  <2> QED BY <2>1, <2>2
<1>3. PICK m \in 0..N : D = 1..m
  BY <1>2
<1>4. g \in Bijection(D, 1..n)
  <2>1. g \in [D -> 1..n]
    BY <1>1
  <2>2. \A i, j \in D : g[i] = g[j] => i = j
    BY <1>1
  <2>3. ASSUME NEW y \in 1..n PROVE \E i \in D : g[i] = y
    <3>1. y \in Index
      OBVIOUS
    <3>2. PICK i \in Index : p[i] = y
      BY <3>1, OrderOnto
    <3>3. i \in D
      BY <3>2
    <3> QED BY <3>2, <3>3
  <2> HIDE DEF g, D
  <2> QED BY <2>1, <2>2, <2>3 DEF Bijection, Injection, Surjection, IsInjective
<1>5. Cardinality(1..m) = m /\ IsFiniteSet(1..m) /\ Cardinality(1..n) = n /\ IsFiniteSet(1..n)
  <2>1. m \in Int /\ n \in Int /\ 1 \in Int /\ m >= 0 /\ n >= 0
    OBVIOUS
  <2> QED BY <2>1, FS_Interval
<1>6. m = n
  <2>1. ExistsBijection(1..m, 1..n)
    BY <1>3, <1>4 DEF ExistsBijection
  <2> QED BY <1>5, <2>1, FS_Bijection
<1>7. D = 1..n
  BY <1>3, <1>6
<1> QED BY <1>7

(* What a table that passed check_entries() looks like in the order of the  *)
(* disk.                                                                    *)
LEMMA SortedTable ==
    ASSUME NEW t \in [Index -> GptEntry], NEW n \in 0..N, Packed(t, n),
           NEW s \in sortings(t), check_entries(t, N, s)
    PROVE  /\ s \in [Index -> GptEntry]
           /\ Packed(s, n)
           /\ Used(s, n) = Used(t, n)
           /\ Ascending(s, n)
           /\ DistinctNames(t, n) => DistinctNames(s, n)
<1> USE Geometry
<1>1. PICK p \in Orders : s = [i \in Index |-> t[p[i]]]
  BY SortingIs
<1>2. InOrder(s)
  BY SortingIs
<1>3. p \in [Index -> Index] /\ \A i, j \in Index : p[i] = p[j] => i = j
  BY DEF Orders
<1>4. \A i \in Index : s[i] = t[p[i]] /\ p[i] \in Index
  BY <1>1, <1>3
<1>5. \A i \in Index : t[i].first \in Nat /\ t[i].last \in Nat
  BY DEF GptEntry
<1>5a. \A i \in 1..n : range_ok(t[i])
  <2>1. first_null(t) = n + 1
    BY FirstNull
  <2> QED BY <2>1 DEF check_entries
<1>6. \A i \in 1..n : i \in Index /\ ~is_null(t[i]) /\ key(t[i]) = t[i].first /\ t[i].first < LastBlk + 2
  BY SMTT(30), <1>5, <1>5a DEF Packed, key, range_ok
<1>7. \A i \in Index : i > n => key(t[i]) = LastBlk + 2
  BY DEF Packed, key
<1>8. counted(t, N) = t
  <2>1. \A i \in Index : i =< N
    OBVIOUS
  <2> QED BY <2>1 DEF counted
<1>9. first_null(t) - 1 = n
  <2>1. first_null(t) = n + 1
    BY FirstNull
  <2> QED BY <2>1
<1>10. \A i \in 1..N : i < n => ~(s[i].last >= s[i + 1].first)
  BY <1>8, <1>9 DEF check_entries, overlap_found
<1>11. \A i, j \in Index : i < j /\ p[j] =< n => p[i] =< n
  <2> SUFFICES ASSUME NEW i \in Index, NEW j \in Index, i < j, p[j] =< n, ~(p[i] =< n) PROVE FALSE
    OBVIOUS
  <2>1. p[j] \in 1..n /\ p[i] > n
    BY <1>4
  <2>2. key(s[j]) < LastBlk + 2 /\ key(s[j]) \in Nat
    <3>1. key(t[p[j]]) = t[p[j]].first /\ t[p[j]].first < LastBlk + 2 /\ t[p[j]].first \in Nat
      BY <1>4, <1>5, <1>6, <2>1
    <3>2. s[j] = t[p[j]]
      BY <1>4
    <3> QED BY <3>1, <3>2
  <2>2a. key(s[i]) = LastBlk + 2
    <3>1. key(t[p[i]]) = LastBlk + 2
      BY <1>4, <1>7, <2>1
    <3>2. s[i] = t[p[i]]
      BY <1>4
    <3> QED BY <3>1, <3>2
  <2>3. key(s[i]) =< key(s[j])
    BY <1>2 DEF InOrder
  <2> QED BY <2>2, <2>2a, <2>3
<1>12. \A i \in Index : p[i] =< n <=> i =< n
  BY <1>11, Prefix
<1>13. s \in [Index -> GptEntry]
  BY <1>1, <1>3
<1>14. Packed(s, n)
  <2> SUFFICES ASSUME NEW i \in Index PROVE is_null(s[i]) <=> i > n
    BY DEF Packed
  <2>1. is_null(t[p[i]]) <=> p[i] > n
    BY <1>4 DEF Packed
  <2> QED BY <1>4, <1>12, <2>1
<1>15. Used(s, n) = Used(t, n)
  <2>1. ASSUME NEW i \in 1..n PROVE p[i] \in 1..n /\ s[i] = t[p[i]]
    BY <1>4, <1>12
  <2>2. ASSUME NEW x \in 1..n PROVE \E i \in 1..n : s[i] = t[x]
    <3>1. PICK i \in Index : p[i] = x
      BY OrderOnto, SMTT(20)
    <3>2. i \in 1..n
      BY <1>12, <3>1
    <3> QED BY <1>4, <3>1, <3>2
  <2>3. \A e \in Used(s, n) : e \in Used(t, n)
    BY <2>1 DEF Used
  <2>4. \A e \in Used(t, n) : e \in Used(s, n)
    BY <2>2 DEF Used
  <2> QED BY <2>3, <2>4
<1>16. Ascending(s, n)
  <2>1. ASSUME NEW i \in 1..n
        PROVE  /\ i \in Index /\ range_ok(s[i]) /\ key(s[i]) = s[i].first
               /\ s[i].first \in Nat /\ s[i].last \in Nat
    <3>1. i \in Index /\ p[i] \in 1..n /\ s[i] = t[p[i]]
      BY <1>4, <1>12
    <3> QED BY <1>5, <1>5a, <1>6, <3>1
  <2>2. ASSUME NEW i \in 1..n, NEW j \in 1..n, i < j PROVE s[i].last < s[j].first
    <3>1. i + 1 \in 1..n /\ i < n /\ (i + 1 = j \/ i + 1 < j)
      BY <2>2
    <3>2. s[i].last < s[i + 1].first
      BY <1>10, <2>1, <3>1
    <3>3. s[i + 1].first =< s[j].first
      <4>1. CASE i + 1 = j
        BY <2>1, <4>1
      <4>2. CASE i + 1 < j
        <5>1. key(s[i + 1]) =< key(s[j])
          BY <1>2, <2>1, <3>1, <4>2 DEF InOrder
        <5> QED BY <2>1, <3>1, <5>1
      <4> QED BY <3>1, <4>1, <4>2
    <3> QED BY <2>1, <3>1, <3>2, <3>3
  <2> QED BY <2>1, <2>2 DEF Ascending
<1>17. ASSUME DistinctNames(t, n) PROVE DistinctNames(s, n)
  <2> SUFFICES ASSUME NEW i \in 1..n, NEW j \in 1..n, i # j PROVE s[i].name # s[j].name
    BY DEF DistinctNames
  <2>1. i \in Index /\ j \in Index
    OBVIOUS
  <2>2. p[i] \in 1..n /\ p[j] \in 1..n /\ p[i] # p[j]
    BY <1>3, <1>4, <1>12, <2>1
  <2> QED BY <1>4, <1>17, <2>1, <2>2 DEF DistinctNames
<1> QED BY <1>13, <1>14, <1>15, <1>16, <1>17

LEMMA AscendingDisjoint ==
    ASSUME NEW t \in [Index -> GptEntry], NEW n \in 0..N, Ascending(t, n)
    PROVE  Disjoint(Used(t, n))
<1> USE Geometry
<1>1. \A i \in 1..n : i \in Index /\ t[i].first \in Nat /\ t[i].last \in Nat
  BY DEF GptEntry
<1>2. ASSUME NEW i \in 1..n, NEW j \in 1..n, i < j PROVE Blocks(t[i]) \cap Blocks(t[j]) = {}
  <2>1. t[i].last < t[j].first
    BY <1>2 DEF Ascending
  <2> QED BY <1>1, <2>1 DEF Blocks
<1>3. ASSUME NEW i \in 1..n, NEW j \in 1..n, t[i] # t[j] PROVE Blocks(t[i]) \cap Blocks(t[j]) = {}
  <2>1. i < j \/ j < i
    BY <1>3
  <2> QED BY <1>2, <2>1
<1> QED BY <1>3 DEF Used, Disjoint

-----------------------------------------------------------------------------
(* What check_entries() promises of a table without holes.                  *)
LEMMA CheckedTable ==
    ASSUME NEW t \in [Index -> GptEntry], NEW n \in 0..N, Packed(t, n),
           NEW s \in sortings(t), check_entries(t, N, s)
    PROVE  Disjoint(entries(t))
<1> USE Geometry
<1>1. entries(t) = Used(t, n)
  BY FirstNull
<1>2. s \in [Index -> GptEntry] /\ Ascending(s, n) /\ Used(s, n) = Used(t, n)
  BY SortedTable
<1>3. Disjoint(Used(s, n))
  BY <1>2, AscendingDisjoint
<1> QED BY <1>1, <1>2, <1>3

LEMMA DiskTable ==
    ASSUME Holes = FALSE, NEW t \in DiskTables
    PROVE  /\ t \in [Index -> GptEntry] /\ \A order \in sortings(t) : check_entries(t, N, order)
           /\ \E n \in 0..N : Packed(t, n) /\ DistinctNames(t, n)
<1> USE Geometry
<1>1. Compact(t) /\ \A order \in sortings(t) : check_entries(t, N, order)
  BY DEF DiskTables
<1>2. PICK r \in [Index -> Ranges] : t = Named(r)
  BY DEF DiskTables
<1>3. ASSUME NEW i \in Index
      PROVE  /\ t[i] \in GptEntry
             /\ is_null(t[i]) \/ t[i].name = i
  <2>1. r[i] \in Ranges
    OBVIOUS
  <2>2. t[i] = IF r[i] = <<0, 0>> THEN NullEntry ELSE [name |-> i, first |-> r[i][1], last |-> r[i][2]]
    BY <1>2 DEF Named
  <2>3. CASE r[i] = <<0, 0>>
    <3>1. t[i] = NullEntry
      BY <2>2, <2>3
    <3> QED BY <3>1 DEF NullEntry, GptEntry, Names, is_null
  <2>4. CASE r[i] # <<0, 0>>
    <3>1. r[i] \in (FirstBlk..(LastBlk + 1)) \X ((FirstBlk - 1)..LastBlk)
      BY <2>1, <2>4 DEF Ranges
    <3>2. r[i][1] \in Nat /\ r[i][2] \in Nat
      BY <3>1
    <3>3. t[i] = [name |-> i, first |-> r[i][1], last |-> r[i][2]]
      BY <2>2, <2>4
    <3> QED BY <3>2, <3>3 DEF GptEntry, Names
  <2> QED BY <2>3, <2>4
<1>4. t \in [Index -> GptEntry]
  <2>1. t = [i \in Index |-> t[i]]
    BY <1>2 DEF Named
  <2> QED BY <1>3, <2>1
<1>5. PICK n \in 0..N : Packed(t, n)
  BY <1>1, CompactPacked
<1>6. ASSUME NEW i \in 1..n PROVE t[i].name = i
  <2>1. i \in Index /\ ~(i > n)
    OBVIOUS
  <2> QED BY <1>3, <1>5, <2>1 DEF Packed
<1>7. DistinctNames(t, n)
  BY <1>6 DEF DistinctNames
<1> QED BY <1>1, <1>4, <1>5, <1>7

(* update_gpt(resize) keeps the table free of holes.                        *)
LEMMA ResizedTable ==
    ASSUME NEW t \in [Index -> GptEntry], NEW n \in 0..N, Packed(t, n)
    PROVE  resized(t) \in [Index -> GptEntry] /\ Packed(resized(t), n)
<1> USE Geometry
<1> DEFINE used == {i \in Index : ~is_null(t[i])}
           c == CHOOSE i \in used : \A j \in used : j =< i
<1>1. used = 1..n
  BY DEF Packed
<1>2. CASE n = 0
  <2>1. resized(t) = t
    BY <1>1, <1>2 DEF resized
  <2> QED BY <2>1
<1>3. CASE n # 0
  <2>1. n \in used /\ \A j \in used : j =< n
    BY <1>1, <1>3
  <2>2. c \in used /\ \A j \in used : j =< c
    <3> HIDE DEF used
    <3> QED BY <2>1
  <2>3. c = n /\ n \in Index
    BY <1>1, <2>1, <2>2
  <2>4. resized(t) = [t EXCEPT ![c].last = LastBlk]
    BY <2>1 DEF resized
  <2> HIDE DEF c, used
  <2> DEFINE e == [t[n] EXCEPT !.last = LastBlk]
  <2>5. resized(t) = [t EXCEPT ![n] = e]
    BY <2>3, <2>4
  <2>6. e \in GptEntry /\ ~is_null(e)
    BY <2>3 DEF GptEntry, is_null
  <2> HIDE DEF e
  <2>7. resized(t) \in [Index -> GptEntry]
    BY <2>5, <2>6
  <2>8. ASSUME NEW i \in Index PROVE is_null(resized(t)[i]) <=> i > n
    <3>1. CASE i = n
      BY <2>3, <2>5, <2>6, <3>1
    <3>2. CASE i # n
      BY <2>5, <3>2 DEF Packed
    <3> QED BY <3>1, <3>2
  <2> QED BY <2>7, <2>8 DEF Packed
<1> QED BY <1>2, <1>3

-----------------------------------------------------------------------------
(* The entries behind the removed one move forward: what is left is what    *)
(* was there, less that one.                                                *)
Without(t, k, i) == [j \in Index |-> IF j < i \/ j > k THEN t[j]
                                     ELSE IF j = k THEN NullEntry ELSE t[j + 1]]

LEMMA RemovedTable ==
    ASSUME NEW t \in [Index -> GptEntry], NEW k \in 0..N, NEW i \in 1..k,
           Packed(t, k), Ascending(t, k), DistinctNames(t, k),
           NEW t2,
           t2 = Without(t, k, i)
    PROVE  /\ t2 \in [Index -> GptEntry] /\ Packed(t2, k - 1)
           /\ Ascending(t2, k - 1) /\ DistinctNames(t2, k - 1)
           /\ Used(t2, k - 1) = {e \in Used(t, k) : e.name # t[i].name}
<1> USE Geometry
<1> t2 = [j \in Index |-> IF j < i \/ j > k THEN t[j]
                          ELSE IF j = k THEN NullEntry ELSE t[j + 1]]
  BY DEF Without
<1> DEFINE f(j) == IF j < i THEN j ELSE j + 1
<1>1. NullEntry \in GptEntry /\ is_null(NullEntry)
  BY DEF NullEntry, GptEntry, Names, is_null
<1>2. k - 1 \in 0..N /\ k - 1 \in Nat
  OBVIOUS
<1>3. ASSUME NEW j \in 1..(k - 1)
      PROVE  j \in Index /\ f(j) \in 1..k /\ f(j) \in Index /\ f(j) # i /\ t2[j] = t[f(j)]
  OBVIOUS
<1>4. ASSUME NEW j \in Index, j > k - 1 PROVE t2[j] \in GptEntry /\ is_null(t2[j])
  <2>1. CASE j = k
    <3>1. t2[j] = NullEntry
      BY <2>1
    <3> QED BY <1>1, <3>1
  <2>2. CASE j > k
    <3>1. t2[j] = t[j]
      BY <2>2
    <3> QED BY <2>2, <3>1 DEF Packed
  <2> QED BY <1>2, <1>4, <2>1, <2>2
<1>5. ASSUME NEW x \in 1..k, x # i PROVE \E j \in 1..(k - 1) : f(j) = x
  <2>1. CASE x < i
    <3>1. x \in 1..(k - 1) /\ f(x) = x
      BY <2>1
    <3> QED BY <3>1
  <2>2. CASE x > i
    <3>1. x - 1 \in 1..(k - 1) /\ f(x - 1) = x
      BY <2>2
    <3> QED BY <3>1
  <2> QED BY <1>5, <2>1, <2>2
<1>6. \A j, l \in 1..(k - 1) : j < l => f(j) < f(l)
  OBVIOUS
<1>7. \A j, l \in 1..(k - 1) : j # l => f(j) # f(l)
  OBVIOUS
<1>8. t2 = [j \in Index |-> t2[j]]
  OBVIOUS
<1> HIDE DEF f
<1>9. \A j \in Index : j > k - 1 \/ j \in 1..(k - 1)
  BY <1>2
<1>10. t2 \in [Index -> GptEntry]
  <2>1. \A j \in Index : t2[j] \in GptEntry
    BY <1>3, <1>4, <1>9
  <2> QED BY <1>8, <2>1
<1>11. Packed(t2, k - 1)
  <2> SUFFICES ASSUME NEW j \in Index PROVE is_null(t2[j]) <=> j > k - 1
    BY DEF Packed
  <2>1. CASE j > k - 1
    BY <1>4, <2>1
  <2>2. CASE j \in 1..(k - 1)
    <3>1. PICK y \in 1..k : t2[j] = t[y]
      BY <1>3, <2>2
    <3>2. ~(j > k - 1) /\ y \in Index /\ ~(y > k)
      BY <1>2, <2>2
    <3> QED BY <3>1, <3>2 DEF Packed
  <2> QED BY <1>9, <2>1, <2>2
<1>12. Ascending(t2, k - 1)
  BY <1>3, <1>6 DEF Ascending
<1>13. DistinctNames(t2, k - 1)
  BY <1>3, <1>7 DEF DistinctNames
<1>14. ASSUME NEW e \in Used(t2, k - 1) PROVE e \in Used(t, k) /\ e.name # t[i].name
  <2>1. PICK j \in 1..(k - 1) : e = t2[j]
    BY DEF Used
  <2>2. e = t[f(j)] /\ f(j) \in 1..k /\ f(j) # i
    BY <1>3, <2>1
  <2> QED BY <2>2 DEF Used, DistinctNames
<1>15. ASSUME NEW e \in Used(t, k), e.name # t[i].name PROVE e \in Used(t2, k - 1)
  <2>1. PICK x \in 1..k : e = t[x]
    BY DEF Used
  <2>2. x # i
    BY <1>15, <2>1
  <2>3. PICK j \in 1..(k - 1) : f(j) = x
    BY <1>5, <2>2
  <2> QED BY <1>3, <2>1, <2>3 DEF Used
<1>16. Used(t2, k - 1) = {e \in Used(t, k) : e.name # t[i].name}
  <2> DEFINE A == Used(t2, k - 1)
             B == Used(t, k)
             P(e) == e.name # t[i].name
  <2>1. (\A e \in A : e \in B /\ P(e)) /\ (\A e \in B : P(e) => e \in A)
    BY <1>14, <1>15
  <2> HIDE DEF A, B, P
  <2>2. A = {e \in B : P(e)}
    BY <2>1
  <2> QED BY <2>2 DEF A, B, P
<1> QED BY <1>10, <1>11, <1>12, <1>13, <1>16

(* An entry put where it fits keeps the order of the disk.                  *)
With(t, k, idx, e) == [j \in Index |-> IF j =< idx THEN t[j]
                                       ELSE IF j = idx + 1 THEN e
                                       ELSE IF j =< k + 1 THEN t[j - 1] ELSE t[j]]

FitsAt(t, k, idx, e) ==
    /\ t \in [Index -> GptEntry] /\ k \in 0..N /\ k < N /\ idx \in 0..k /\ e \in GptEntry
    /\ Packed(t, k) /\ Ascending(t, k) /\ DistinctNames(t, k)
    /\ range_ok(e) /\ ~is_null(e)
    /\ \A x \in 1..k : t[x].name # e.name
    /\ idx # 0 => t[idx].last < e.first
    /\ idx # k => e.last < t[idx + 1].first

LEMMA InsertedTable ==
    ASSUME NEW t, NEW k, NEW idx, NEW e, FitsAt(t, k, idx, e), NEW t2, t2 = With(t, k, idx, e)
    PROVE  /\ t2 \in [Index -> GptEntry] /\ Packed(t2, k + 1)
           /\ Ascending(t2, k + 1) /\ DistinctNames(t2, k + 1)
           /\ Used(t2, k + 1) = Used(t, k) \cup {e}
<1> USE Geometry
<1>a. t2 = [j \in Index |-> IF j =< idx THEN t[j]
                          ELSE IF j = idx + 1 THEN e
                          ELSE IF j =< k + 1 THEN t[j - 1] ELSE t[j]]
  BY DEF With
<1> /\ t \in [Index -> GptEntry] /\ k \in 0..N /\ k < N /\ idx \in 0..k /\ e \in GptEntry
    /\ Packed(t, k) /\ Ascending(t, k) /\ DistinctNames(t, k)
    /\ range_ok(e) /\ ~is_null(e)
    /\ \A x \in 1..k : t[x].name # e.name
    /\ idx # 0 => t[idx].last < e.first
    /\ idx # k => e.last < t[idx + 1].first
  BY DEF FitsAt
<1> USE <1>a
<1> DEFINE f(j) == IF j =< idx THEN j ELSE j - 1
           Old == {j \in 1..(k + 1) : j # idx + 1}
<1>1. k + 1 \in 0..N /\ idx + 1 \in 1..(k + 1) /\ idx + 1 \in Index /\ t2[idx + 1] = e
  OBVIOUS
<1>2. ASSUME NEW j \in Old
      PROVE  j \in Index /\ f(j) \in 1..k /\ f(j) \in Index /\ t2[j] = t[f(j)]
  OBVIOUS
<1>3. ASSUME NEW j \in Index, j > k + 1 PROVE t2[j] = t[j] /\ j > k
  BY <1>3
<1>4. ASSUME NEW x \in 1..k PROVE \E j \in Old : f(j) = x
  <2>1. CASE x =< idx
    <3>1. x \in Old /\ f(x) = x
      BY <2>1
    <3> QED BY <3>1
  <2>2. CASE x > idx
    <3>1. x + 1 \in Old /\ f(x + 1) = x
      BY <2>2
    <3> QED BY <3>1
  <2> QED BY <2>1, <2>2
<1>5. /\ \A j, l \in Old : j < l => f(j) < f(l)
      /\ \A j, l \in Old : j # l => f(j) # f(l)
      /\ \A j \in Old : j < idx + 1 => f(j) =< idx /\ idx # 0 /\ idx \in 1..k
      /\ \A j \in Old : j > idx + 1 => f(j) >= idx + 1 /\ idx # k /\ idx + 1 \in 1..k
  OBVIOUS
<1>6. \A j \in 1..(k + 1) : j \in Old \/ j = idx + 1
  OBVIOUS
<1>7. \A j \in Index : j > k + 1 \/ j \in 1..(k + 1)
  OBVIOUS
<1>8. t2 = [j \in Index |-> t2[j]] /\ \A j \in Old : j \in 1..(k + 1)
  OBVIOUS
<1>9. \A x \in 1..k : x \in Index /\ t[x].first \in Nat /\ t[x].last \in Nat /\ range_ok(t[x])
  BY DEF Ascending, GptEntry
<1>10. e.first \in Nat /\ e.last \in Nat
  BY DEF GptEntry
<1> HIDE <1>a DEF f, Old
<1>11. t2 \in [Index -> GptEntry]
  <2>1. \A j \in Index : t2[j] \in GptEntry
    BY <1>1, <1>2, <1>3, <1>6, <1>7
  <2> QED BY <1>8, <2>1
<1>12. Packed(t2, k + 1)
  <2> SUFFICES ASSUME NEW j \in Index PROVE is_null(t2[j]) <=> j > k + 1
    BY DEF Packed
  <2>1. CASE j > k + 1
    BY <1>3, <2>1 DEF Packed
  <2>2. CASE j = idx + 1
    BY <1>1, <2>2
  <2>3. CASE j \in Old
    <3>1. PICK y \in 1..k : t2[j] = t[y]
      BY <1>2, <2>3
    <3>2. j \in 1..(k + 1)
      BY <1>8, <2>3
    <3>3. ~(j > k + 1) /\ y \in Index /\ ~(y > k)
      BY <3>2
    <3> QED BY <3>1, <3>3 DEF Packed
  <2> QED BY <1>6, <1>7, <2>1, <2>2, <2>3
<1>13. Ascending(t2, k + 1)
  <2>1. \A j \in 1..(k + 1) : range_ok(t2[j])
    BY <1>1, <1>2, <1>6, <1>9
  <2>2. ASSUME NEW j \in 1..(k + 1), NEW l \in 1..(k + 1), j < l PROVE t2[j].last < t2[l].first
    <3>1. CASE j \in Old /\ l \in Old
      <4>1. PICK y \in 1..k, z \in 1..k : y < z /\ t2[j] = t[y] /\ t2[l] = t[z]
        BY <1>2, <1>5, <2>2, <3>1
      <4> QED BY <4>1 DEF Ascending
    <3>2. CASE j \in Old /\ l = idx + 1
      <4>1. PICK y \in 1..k : y =< idx /\ idx # 0 /\ idx \in 1..k /\ t2[j] = t[y]
        BY <1>2, <1>5, <2>2, <3>2
      <4>2. t[y].last =< t[idx].last
        <5>1. CASE y = idx
          BY <1>9, <4>1, <5>1
        <5>2. CASE y < idx
          <6>1. t[y].last < t[idx].first
            BY <4>1, <5>2 DEF Ascending
          <6>2. t[idx].first =< t[idx].last + 1
            BY <1>9, <4>1 DEF range_ok
          <6> QED BY <1>9, <4>1, <6>1, <6>2
        <5> QED BY <4>1, <5>1, <5>2
      <4>3. t[idx].last < e.first
        BY <4>1
      <4>4. t2[j] = t[y] /\ t2[l] = e /\ t[y].last \in Nat /\ t[idx].last \in Nat
        BY <1>1, <1>9, <3>2, <4>1
      <4> QED BY <1>10, <4>2, <4>3, <4>4
    <3>3. CASE j = idx + 1 /\ l \in Old
      <4>1. PICK y \in 1..k : y >= idx + 1 /\ idx # k /\ idx + 1 \in 1..k /\ t2[l] = t[y]
        BY <1>2, <1>5, <2>2, <3>3
      <4>2. t[idx + 1].first =< t[y].first
        <5>1. CASE y = idx + 1
          BY <1>9, <4>1, <5>1
        <5>2. CASE y > idx + 1
          <6>1. t[idx + 1].last < t[y].first
            BY <4>1, <5>2 DEF Ascending
          <6>2. t[idx + 1].first =< t[idx + 1].last + 1
            BY <1>9, <4>1 DEF range_ok
          <6> QED BY <1>9, <4>1, <6>1, <6>2
        <5> QED BY <4>1, <5>1, <5>2
      <4>3. e.last < t[idx + 1].first
        BY <4>1
      <4>4. t2[l] = t[y] /\ t2[j] = e /\ t[y].first \in Nat /\ t[idx + 1].first \in Nat
        BY <1>1, <1>9, <3>3, <4>1
      <4> QED BY <1>10, <4>2, <4>3, <4>4, SMTT(20)
    <3> QED BY <1>6, <2>2, <3>1, <3>2, <3>3
  <2> QED BY <2>1, <2>2 DEF Ascending
<1>14. DistinctNames(t2, k + 1)
  <2> SUFFICES ASSUME NEW j \in 1..(k + 1), NEW l \in 1..(k + 1), j # l
               PROVE  t2[j].name # t2[l].name
    BY DEF DistinctNames
  <2>1. CASE j \in Old /\ l \in Old
    BY <1>2, <1>5, <2>1 DEF DistinctNames
  <2>2. CASE j \in Old /\ l = idx + 1
    BY <1>1, <1>2, <2>2
  <2>3. CASE j = idx + 1 /\ l \in Old
    BY <1>1, <1>2, <2>3
  <2> QED BY <1>6, <2>1, <2>2, <2>3
<1>15. Used(t2, k + 1) = Used(t, k) \cup {e}
  <2>1. ASSUME NEW x \in Used(t2, k + 1) PROVE x \in Used(t, k) \cup {e}
    <3>1. PICK j \in 1..(k + 1) : x = t2[j]
      BY DEF Used
    <3>2. CASE j = idx + 1
      BY <1>1, <3>1, <3>2
    <3>3. CASE j \in Old
      BY <1>2, <3>1, <3>3 DEF Used
    <3> QED BY <1>6, <3>2, <3>3
  <2>2. e \in Used(t2, k + 1)
    BY <1>1 DEF Used
  <2>3. ASSUME NEW x \in Used(t, k) PROVE x \in Used(t2, k + 1)
    <3>1. PICK y \in 1..k : x = t[y]
      BY DEF Used
    <3>2. PICK j \in Old : f(j) = y
      BY <1>4
    <3> QED BY <1>2, <1>8, <3>1, <3>2 DEF Used
  <2> DEFINE A == Used(t2, k + 1)
             B == Used(t, k)
  <2>4. (\A x \in A : x \in B \cup {e}) /\ e \in A /\ (\A x \in B : x \in A)
    BY <2>1, <2>2, <2>3
  <2> HIDE DEF A, B
  <2>5. A = B \cup {e}
    BY <2>4
  <2> QED BY <2>5 DEF A, B
<1> QED BY <1>11, <1>12, <1>13, <1>14, <1>15

-----------------------------------------------------------------------------
(* One lemma per operation of the builder.                                  *)
LEMMA NewStep ==
    ASSUME Holes = FALSE, GInv, new
    PROVE  GInv'
<1> USE Geometry
<1>1. /\ phase = "disk" /\ phase' = "building" /\ table \in DiskTables /\ refused = {} /\ EntriesTypeOK
      /\ count' = first_null(table) - 1 /\ work' \in sortings(table)
      /\ want' = entries(table) /\ table' = table /\ refused' = refused
  BY DEF GInv, new
<1>2. table \in [Index -> GptEntry] /\ check_entries(table, N, work')
  BY <1>1, DiskTable
<1>3. PICK n \in 0..N : Packed(table, n) /\ DistinctNames(table, n)
  BY <1>1, DiskTable
<1>4. Disjoint(entries(table))
  BY <1>1, <1>2, <1>3, CheckedTable
<1>5. first_null(table) = n + 1 /\ entries(table) = Used(table, n)
  BY <1>3, FirstNull
<1>6. count' = n /\ n \in Nat
  BY <1>1, <1>5
<1>7. /\ work' \in [Index -> GptEntry] /\ Packed(work', n) /\ Used(work', n) = Used(table, n)
      /\ Ascending(work', n) /\ DistinctNames(work', n)
  BY <1>1, <1>2, <1>3, SortedTable
<1>8. want' = Used(work', n) /\ want' \subseteq GptEntry
  <2>1. want' = Used(work', n)
    BY <1>1, <1>5, <1>7
  <2>2. \A i \in 1..n : work'[i] \in GptEntry
    BY <1>7
  <2> QED BY <2>1, <2>2 DEF Used
<1>9. EntriesTypeOK'
  BY <1>1, <1>2, <1>6, <1>7, <1>8 DEF EntriesTypeOK
<1>10. BuilderInv'
  BY <1>6, <1>7, <1>8 DEF BuilderInv
<1>11. EditsExact'
  BY <1>1, <1>4 DEF EditsExact
<1>12. AddFindsSpace'
  BY <1>1 DEF AddFindsSpace
<1> QED BY <1>1, <1>9, <1>10, <1>11, <1>12 DEF GInv

LEMMA UpdateStep ==
    ASSUME Holes = FALSE, GInv, update_resize
    PROVE  GInv'
<1> USE Geometry
<1>1. /\ phase = "disk" /\ table \in DiskTables /\ EntriesTypeOK /\ EditsExact
      /\ work' = work /\ count' = count /\ want' = want /\ refused' = refused
      /\ \/ /\ \E order \in sortings(resized(table)) : check_entries(resized(table), N, order)
            /\ phase' = "updated" /\ table' = resized(table)
         \/ phase' = "resize_panic" /\ table' = table
  BY DEF GInv, update_resize
<1>2. table \in [Index -> GptEntry] /\ \E n \in 0..N : Packed(table, n)
  BY <1>1, DiskTable
<1>3. PICK n \in 0..N : Packed(table, n)
  BY <1>2
<1>4. resized(table) \in [Index -> GptEntry] /\ Packed(resized(table), n)
  BY <1>2, <1>3, ResizedTable
<1>5. ASSUME NEW order \in sortings(resized(table)), check_entries(resized(table), N, order)
      PROVE  Disjoint(entries(resized(table)))
  BY <1>4, <1>5, CheckedTable
<1>6. EntriesTypeOK'
  BY <1>1, <1>4 DEF EntriesTypeOK
<1>7. EditsExact'
  BY <1>1, <1>5 DEF EditsExact
<1>8. BuilderInv' /\ AddFindsSpace' /\ phase' # "disk"
  BY <1>1 DEF BuilderInv, AddFindsSpace
<1> QED BY <1>6, <1>7, <1>8 DEF GInv

LEMMA PersistStep ==
    ASSUME GInv, persist
    PROVE  GInv'
<1> USE Geometry
<1> DEFINE used == counted(work, count)
<1>1. /\ phase = "building" /\ EntriesTypeOK /\ Packed(work, count) /\ Ascending(work, count)
      /\ want = Used(work, count)
      /\ work' = work /\ count' = count /\ want' = want /\ refused' = refused
      /\ \E order \in sortings(used) :
            IF check_entries(work, count, order) THEN phase' = "persisted" /\ table' = used
            ELSE phase' = "persist_panic" /\ table' = table
  BY DEF GInv, BuilderInv, persist
<1>2. work \in [Index -> GptEntry] /\ count \in 0..N
  BY <1>1 DEF EntriesTypeOK
<1>3. NullEntry \in GptEntry /\ is_null(NullEntry)
  BY DEF NullEntry, GptEntry, Names, is_null
<1>4. used \in [Index -> GptEntry] /\ Packed(used, count)
  <2>1. used \in [Index -> GptEntry]
    BY <1>2, <1>3 DEF counted
  <2>2. ASSUME NEW i \in Index PROVE is_null(used[i]) <=> i > count
    <3>1. CASE i =< count
      <4>1. used[i] = work[i] /\ ~(i > count)
        BY <1>2, <3>1 DEF counted
      <4> QED BY <1>1, <4>1 DEF Packed
    <3>2. CASE i > count
      <4>1. used[i] = NullEntry
        BY <1>2, <3>2 DEF counted
      <4> QED BY <1>3, <3>2, <4>1
    <3> QED BY <1>2, <3>1, <3>2
  <2> QED BY <2>1, <2>2 DEF Packed
<1>5. \A i \in 1..count : used[i] = work[i] /\ i \in Index
  BY <1>2 DEF counted
<1> HIDE DEF used
<1>6. first_null(used) = count + 1 /\ entries(used) = Used(used, count)
  BY <1>2, <1>4, FirstNull
<1>7. first_null(work) = count + 1 /\ entries(work) = Used(work, count)
  BY <1>1, <1>2, FirstNull
<1>8. Used(used, count) = Used(work, count)
  BY <1>5 DEF Used
<1>9. Ascending(used, count)
  BY <1>1, <1>5 DEF Ascending
<1>10. \A i \in 1..count : /\ used[i].first \in Nat /\ used[i].last \in Nat
                            /\ range_ok(used[i]) /\ key(used[i]) = used[i].first
  <2>1. \A i \in 1..count : ~is_null(used[i])
    BY <1>2, <1>4, <1>5 DEF Packed
  <2> QED BY <1>4, <1>5, <1>9, <2>1 DEF Ascending, GptEntry, key
<1>11. \A i \in Index : i > count => key(used[i]) = LastBlk + 2
  BY <1>4 DEF Packed, key
<1>12. InOrder(used)
  <2> SUFFICES ASSUME NEW i \in Index, NEW j \in Index, i < j
               PROVE  key(used[i]) =< key(used[j])
    BY DEF InOrder
  <2>1. CASE j =< count
    <3>1. i \in 1..count /\ j \in 1..count
      BY <1>2, <2>1
    <3>2. used[i].last < used[j].first
      BY <1>9, <3>1 DEF Ascending
    <3>3. used[i].first =< used[i].last + 1
      BY <1>10, <3>1 DEF range_ok
    <3> QED BY <1>10, <3>1, <3>2, <3>3
  <2>2. CASE j > count /\ i =< count
    <3>1. i \in 1..count
      BY <1>2, <2>2
    <3>2. used[i].first =< LastBlk + 1
      BY <1>10, <3>1 DEF range_ok
    <3> QED BY <1>10, <1>11, <2>2, <3>1, <3>2
  <2>3. CASE i > count /\ j > count
    <3>1. key(used[i]) = LastBlk + 2 /\ key(used[j]) = LastBlk + 2
      BY <1>11, <2>3
    <3> QED BY <3>1
  <2> QED BY <1>2, <2>1, <2>2, <2>3
<1>13. sortings(used) = {used}
  BY <1>12 DEF sortings
<1>14. ~overlap_found(used, first_null(used) - 1)
  <2> SUFFICES ASSUME NEW i \in 1..N, i < first_null(used) - 1 PROVE ~(used[i].last >= used[i + 1].first)
    BY DEF overlap_found
  <2>1. i \in 1..count /\ i + 1 \in 1..count /\ i < i + 1
    BY <1>2, <1>6
  <2>2. used[i].last < used[i + 1].first
    BY <1>9, <2>1 DEF Ascending
  <2> QED BY <1>10, <2>1, <2>2
<1>15. check_entries(work, count, used)
  <2>1. \A i \in 1..count : range_ok(work[i])
    BY <1>1 DEF Ascending
  <2> QED BY <1>14, <2>1 DEF check_entries, used
<1>16. phase' = "persisted" /\ table' = used
  BY <1>1, <1>13, <1>15
<1>17. Disjoint(entries(used))
  BY <1>2, <1>4, <1>6, <1>9, AscendingDisjoint
<1>18. EditsExact'
  <2>1. entries(table') = want' /\ entries(work') = want' /\ Disjoint(entries(table'))
    BY <1>1, <1>6, <1>7, <1>8, <1>16, <1>17
  <2> QED BY <1>16, <2>1 DEF EditsExact
<1>19. EntriesTypeOK'
  BY <1>1, <1>4, <1>16 DEF EntriesTypeOK
<1>20. BuilderInv' /\ AddFindsSpace' /\ phase' # "disk"
  BY <1>16 DEF BuilderInv, AddFindsSpace
<1> QED BY <1>18, <1>19, <1>20 DEF GInv

LEMMA RemoveStep ==
    ASSUME GInv, NEW n, remove(n)
    PROVE  GInv'
<1> USE Geometry
<1>1. /\ phase = "building" /\ phase' = "building" /\ EntriesTypeOK /\ EditsExact /\ BuilderInv
      /\ count' = count - 1 /\ table' = table /\ refused' = {}
  BY DEF GInv, remove
<1>2. /\ work \in [Index -> GptEntry] /\ count \in 0..N /\ want = Used(work, count)
      /\ Packed(work, count) /\ Ascending(work, count) /\ DistinctNames(work, count)
      /\ want \subseteq GptEntry
  BY <1>1 DEF BuilderInv, EntriesTypeOK
<1>3. PICK i \in 1..count :
        /\ work[i].name = n
        /\ work' = [j \in Index |-> IF j < i \/ j > count THEN work[j]
                                    ELSE IF j = count THEN NullEntry ELSE work[j + 1]]
        /\ want' = {e \in want : e.name # n}
  BY DEF remove
<1>4. /\ work' \in [Index -> GptEntry] /\ Packed(work', count - 1)
      /\ Ascending(work', count - 1) /\ DistinctNames(work', count - 1)
      /\ Used(work', count - 1) = {e \in Used(work, count) : e.name # work[i].name}
  <2> DEFINE w == work'
  <2>1. w = Without(work, count, i)
    BY <1>3 DEF Without
  <2> HIDE DEF w
  <2>2. /\ w \in [Index -> GptEntry] /\ Packed(w, count - 1)
        /\ Ascending(w, count - 1) /\ DistinctNames(w, count - 1)
        /\ Used(w, count - 1) = {e \in Used(work, count) : e.name # work[i].name}
    BY <1>2, <2>1, RemovedTable
  <2> QED BY <2>2 DEF w
<1>5. want' = Used(work', count - 1) /\ want' \subseteq GptEntry
  BY <1>2, <1>3, <1>4
<1>6. count - 1 \in 0..N
  BY <1>2, <1>3
<1>7. EntriesTypeOK'
  BY <1>1, <1>4, <1>5, <1>6 DEF EntriesTypeOK
<1>8. BuilderInv'
  BY <1>1, <1>4, <1>5 DEF BuilderInv
<1>9. EditsExact' /\ AddFindsSpace'
  BY <1>1 DEF EditsExact, AddFindsSpace
<1> QED BY <1>1, <1>7, <1>8, <1>9 DEF GInv

(* Where insert_before() puts an entry, between two calls of the builder.   *)
LEMMA GapIs ==
    ASSUME GInv, phase = "building"
    PROVE  /\ work \in [Index -> GptEntry] /\ count \in 0..N /\ nulls = count
           /\ Packed(work, count) /\ Ascending(work, count) /\ DistinctNames(work, count)
           /\ want = Used(work, count) /\ want \subseteq GptEntry
           /\ \A i \in 1..count : work[i].first \in Nat /\ work[i].last \in Nat /\ range_ok(work[i])
           /\ \A i \in 0..count :
                /\ Capped(i) = i
                /\ gap_start(i) \in Nat /\ gap_end(i) \in Nat
                /\ FirstBlk =< gap_start(i) /\ gap_start(i) =< gap_end(i) /\ gap_end(i) =< LastBlk + 1
                /\ i # 0 => gap_start(i) = work[i].last + 1
                /\ i # count => gap_end(i) = work[i + 1].first
<1> USE Geometry
<1>1. /\ work \in [Index -> GptEntry] /\ count \in 0..N
      /\ Packed(work, count) /\ Ascending(work, count) /\ DistinctNames(work, count)
      /\ want = Used(work, count) /\ want \subseteq GptEntry
  BY DEF GInv, EntriesTypeOK, BuilderInv
<1>2. nulls = count
  <2>1. first_null(work) = count + 1
    BY <1>1, FirstNull
  <2> QED BY <1>1, <2>1 DEF nulls
<1>3. \A i \in 1..count : work[i].first \in Nat /\ work[i].last \in Nat /\ range_ok(work[i])
  <2>1. \A i \in 1..count : i \in Index
    BY <1>1
  <2> QED BY <1>1, <2>1 DEF Ascending, GptEntry
<1>4. ASSUME NEW i \in 0..count
      PROVE  /\ Capped(i) = i
             /\ gap_start(i) \in Nat /\ gap_end(i) \in Nat
             /\ FirstBlk =< gap_start(i) /\ gap_start(i) =< gap_end(i) /\ gap_end(i) =< LastBlk + 1
             /\ i # 0 => gap_start(i) = work[i].last + 1
             /\ i # count => gap_end(i) = work[i + 1].first
  <2>1. Capped(i) = i
    BY <1>1, <1>2 DEF Capped
  <2>2. i # 0 => i \in 1..count /\ gap_start(i) = work[i].last + 1
    BY <1>1 DEF gap_start
  <2>3. i # count => i + 1 \in 1..count /\ gap_end(i) = work[i + 1].first
    BY <1>1, <1>2 DEF gap_end
  <2>4. i = 0 => gap_start(i) = FirstBlk
    BY DEF gap_start
  <2>5. i = count => gap_end(i) = LastBlk + 1
    BY <1>2 DEF gap_end
  <2>6. gap_start(i) \in Nat /\ FirstBlk =< gap_start(i) /\ gap_start(i) =< LastBlk + 1
    <3>1. CASE i = 0
      BY <2>4, <3>1
    <3>2. CASE i # 0
      <4>1. /\ work[i].first \in Nat /\ work[i].last \in Nat /\ work[i].first =< work[i].last + 1
            /\ work[i].last =< LastBlk /\ work[i].first >= FirstBlk
        BY <1>3, <2>2, <3>2 DEF range_ok
      <4> QED BY <2>2, <3>2, <4>1
    <3> QED BY <3>1, <3>2
  <2>7. gap_end(i) \in Nat /\ FirstBlk =< gap_end(i) /\ gap_end(i) =< LastBlk + 1
    <3>1. CASE i = count
      BY <2>5, <3>1
    <3>2. CASE i # count
      <4>1. /\ work[i + 1].first \in Nat /\ work[i + 1].last \in Nat
            /\ work[i + 1].first =< work[i + 1].last + 1
            /\ work[i + 1].last =< LastBlk /\ work[i + 1].first >= FirstBlk
        BY <1>3, <2>3, <3>2 DEF range_ok
      <4> QED BY <2>3, <3>2, <4>1
    <3> QED BY <3>1, <3>2
  <2>8. gap_start(i) =< gap_end(i)
    <3>1. CASE i = 0
      BY <2>4, <2>7, <3>1
    <3>2. CASE i = count
      BY <2>5, <2>6, <3>2
    <3>3. CASE i # 0 /\ i # count
      <4>1. i \in 1..count /\ i + 1 \in 1..count /\ i < i + 1
        BY <2>2, <2>3, <3>3
      <4>2. work[i].last < work[i + 1].first
        BY <1>1, <4>1 DEF Ascending
      <4>3. work[i].last \in Nat /\ work[i + 1].first \in Nat
        BY <1>3, <4>1
      <4> QED BY <2>2, <2>3, <3>3, <4>2, <4>3
    <3> QED BY <3>1, <3>2, <3>3
  <2> QED BY <2>1, <2>2, <2>3, <2>6, <2>7, <2>8
<1> QED BY <1>1, <1>2, <1>3, <1>4

LEMMA InsertStep ==
    ASSUME GInv, phase = "building", phase' = phase, table' = table,
           NEW idx \in 0..count, NEW n \in NewNames, NEW size \in Nat,
           fits(idx, size), \A e \in want : e.name # n,
           insert_before(idx, n, size)
    PROVE  GInv'
<1> USE Geometry
<1> DEFINE e == [name |-> n, first |-> gap_start(idx), last |-> gap_start(idx) + size - 1]
           w == work'
<1>1. /\ work \in [Index -> GptEntry] /\ count \in 0..N /\ nulls = count
      /\ Packed(work, count) /\ Ascending(work, count) /\ DistinctNames(work, count)
      /\ want = Used(work, count) /\ want \subseteq GptEntry
      /\ gap_start(idx) \in Nat /\ gap_end(idx) \in Nat
      /\ FirstBlk =< gap_start(idx) /\ gap_end(idx) =< LastBlk + 1
      /\ idx # 0 => gap_start(idx) = work[idx].last + 1
      /\ idx # count => gap_end(idx) = work[idx + 1].first
      /\ \A i \in 1..count : work[i].first \in Nat /\ work[i].last \in Nat
  BY GapIs
<1>2. count < N /\ gap_end(idx) - gap_start(idx) >= size
  BY <1>1 DEF fits
<1>3. e.name = n /\ e.first = gap_start(idx) /\ e.last = gap_start(idx) + size - 1
  OBVIOUS
<1>4. /\ w = With(work, count, idx, e)
      /\ count' = count + 1 /\ want' = want \cup {e} /\ refused' = {}
  <2>1. /\ work' = [j \in Index |-> IF j =< idx THEN work[j]
                                    ELSE IF j = idx + 1 THEN e
                                    ELSE IF j =< nulls + 1 THEN work[j - 1] ELSE work[j]]
        /\ count' = count + 1 /\ want' = want \cup {e} /\ refused' = {}
    BY DEF insert_before
  <2>2. nulls = count
    BY <1>1
  <2> HIDE DEF e
  <2> QED BY <2>1, <2>2 DEF With
<1>5. e \in GptEntry
  <2>1. n \in Names /\ gap_start(idx) \in Nat /\ gap_start(idx) + size - 1 \in Nat
    BY <1>1 DEF Names
  <2> QED BY <2>1 DEF GptEntry
<1> HIDE DEF e, w
<1>6. range_ok(e) /\ ~is_null(e)
  BY <1>1, <1>2, <1>3 DEF range_ok, is_null
<1>7. \A x \in 1..count : work[x].name # e.name
  BY <1>1, <1>3 DEF Used
<1>8. idx # 0 => work[idx].last < e.first
  <2> SUFFICES ASSUME idx # 0 PROVE work[idx].last < e.first
    OBVIOUS
  <2>1. idx \in 1..count
    BY <1>1
  <2>2. work[idx].last \in Nat
    BY <1>1, <2>1
  <2> QED BY SMTT(30), <1>1, <1>3, <2>2
<1>9. idx # count => e.last < work[idx + 1].first
  <2> SUFFICES ASSUME idx # count PROVE e.last < work[idx + 1].first
    OBVIOUS
  <2>1. gap_end(idx) = work[idx + 1].first
    BY <1>1
  <2> QED BY <1>1, <1>2, <1>3, <2>1
<1>10. /\ w \in [Index -> GptEntry] /\ Packed(w, count + 1)
       /\ Ascending(w, count + 1) /\ DistinctNames(w, count + 1)
       /\ Used(w, count + 1) = Used(work, count) \cup {e}
  <2>1. FitsAt(work, count, idx, e)
    BY <1>1, <1>2, <1>5, <1>6, <1>7, <1>8, <1>9 DEF FitsAt
  <2> QED BY <1>4, <2>1, InsertedTable
<1>11. count + 1 \in 0..N
  BY <1>1, <1>2
<1>12. EntriesTypeOK'
  <2>1. want' \subseteq GptEntry
    BY <1>1, <1>4, <1>5
  <2> QED BY <1>4, <1>10, <1>11, <2>1 DEF GInv, EntriesTypeOK, w
<1>13. BuilderInv'
  <2>1. want' = Used(w, count + 1)
    BY <1>1, <1>4, <1>10
  <2> QED BY <1>4, <1>10, <2>1 DEF BuilderInv, w
<1>14. EditsExact' /\ AddFindsSpace'
  BY <1>4 DEF GInv, EditsExact, AddFindsSpace
<1> QED BY <1>12, <1>13, <1>14 DEF GInv

(* What add() refuses does not fit anywhere.                                *)
LEMMA RefusedMeansFull ==
    ASSUME GInv, phase = "building", NEW s \in Nat,
           \A i \in 0..count : ~fits(i, s)
    PROVE  \/ Cardinality(want) = N
           \/ \A b \in FirstBlk..(LastBlk + 1) :
                 \/ b + s > LastBlk + 1
                 \/ \E e \in want : e.first < b + s /\ b < e.last + 1
<1> USE Geometry
<1>1. /\ work \in [Index -> GptEntry] /\ count \in 0..N /\ nulls = count
      /\ DistinctNames(work, count) /\ want = Used(work, count)
      /\ \A i \in 1..count : work[i].first \in Nat /\ work[i].last \in Nat /\ work[i] \in want
      /\ \A i \in 0..count :
                /\ gap_start(i) \in Nat /\ gap_end(i) \in Nat
                /\ i # 0 => gap_start(i) = work[i].last + 1
                /\ i # count => gap_end(i) = work[i + 1].first
  BY GapIs DEF Used
<1>2. gap_start(0) = FirstBlk /\ gap_end(count) = LastBlk + 1
  BY <1>1 DEF gap_start, gap_end
<1>3. CASE count = N
  <2>1. want = {work[i] : i \in Index}
    BY <1>1, <1>3 DEF Used
  <2>2. \A i, j \in Index : work[i] = work[j] => i = j
    BY <1>1, <1>3 DEF DistinctNames
  <2>3. work \in Bijection(Index, want)
    <3>1. work \in [Index -> want]
      BY <1>1, <2>1
    <3>2. \A x \in want : \E i \in Index : work[i] = x
      BY <2>1
    <3> QED BY <2>2, <3>1, <3>2 DEF Bijection, Injection, Surjection, IsInjective
  <2>4. ExistsBijection(Index, want)
    BY <2>3 DEF ExistsBijection
  <2> QED BY <2>4, FS_Bijection
<1>4. CASE count # N
  <2> SUFFICES ASSUME NEW b \in FirstBlk..(LastBlk + 1), ~(b + s > LastBlk + 1)
               PROVE  \E e \in want : e.first < b + s /\ b < e.last + 1
    OBVIOUS
  <2>1. \A i \in 0..count : ~(gap_end(i) - gap_start(i) >= s)
    <3>1. nulls < N
      BY <1>1, <1>4
    <3> QED BY <3>1 DEF fits
  <2> DEFINE T == {i \in 1..count : b < work[i].last + 1}
  <2>2. CASE T = {}
    <3>1. gap_start(count) =< b
      <4>1. CASE count = 0
        BY <1>2, <4>1
      <4>2. CASE count # 0
        <5>1. count \in 1..count /\ count \in 0..count
          BY <1>1, <4>2
        <5>2. ~(b < work[count].last + 1) /\ work[count].last \in Nat
          BY <1>1, <2>2, <5>1
        <5>3. gap_start(count) = work[count].last + 1
          BY <1>1, <4>2, <5>1
        <5> QED BY <5>2, <5>3
      <4> QED BY <4>1, <4>2
    <3>2. count \in 0..count /\ gap_start(count) \in Nat
      BY <1>1
    <3> QED BY <1>2, <2>1, <3>1, <3>2
  <2>3. CASE T # {}
    <3>1. T \in SUBSET Nat
      BY <1>1
    <3>2. PICK x \in T : \A y \in T : x =< y
      <4> HIDE DEF T
      <4> QED BY <2>3, <3>1, SmallestOf
    <3>3. x \in 1..count /\ b < work[x].last + 1 /\ work[x] \in want
      BY <1>1
    <3>4. CASE work[x].first < b + s
      BY <3>3, <3>4
    <3>5. CASE ~(work[x].first < b + s)
      <4>1. x - 1 \in 0..count /\ x - 1 # count /\ (x - 1) + 1 = x /\ count \in Nat
        BY <1>1, <3>3
      <4>2. gap_end(x - 1) = work[x].first /\ work[x].first \in Nat /\ gap_start(x - 1) \in Nat
        BY <1>1, <3>3, <4>1
      <4>3. gap_start(x - 1) =< b
        <5>1. CASE x = 1
          <6>1. x - 1 = 0
            BY <5>1
          <6> QED BY <1>2, <6>1
        <5>2. CASE x # 1
          <6>1. x - 1 \in 1..count /\ ~(x =< x - 1) /\ x - 1 # 0
            BY <3>3, <4>1, <5>2
          <6>2. x - 1 \notin T
            BY <3>2, <6>1
          <6>3. ~(b < work[x - 1].last + 1) /\ work[x - 1].last \in Nat
            BY <1>1, <6>1, <6>2
          <6>4. gap_start(x - 1) = work[x - 1].last + 1
            BY <1>1, <4>1, <6>1
          <6> QED BY <6>3, <6>4
        <5> QED BY <5>1, <5>2
      <4>4. ~(gap_end(x - 1) - gap_start(x - 1) >= s)
        BY <2>1, <4>1
      <4> QED BY <3>5, <4>2, <4>3, <4>4
    <3> QED BY <3>4, <3>5
  <2> QED BY <2>2, <2>3
<1> QED BY <1>3, <1>4

LEMMA AddStep ==
    ASSUME GInv, NEW n \in NewNames, NEW size \in Size, add(n, size)
    PROVE  GInv'
<1> USE Geometry
<1> DEFINE good == {i \in 0..count : fits(Capped(i), size)}
           best == CHOOSE i \in good : \A j \in good : i =< j
<1>1. /\ phase = "building" /\ phase' = phase /\ table' = table
      /\ \A e \in want : e.name # n
      /\ IF good = {} THEN refused' = {size} /\ work' = work /\ count' = count /\ want' = want
         ELSE insert_before(Capped(best), n, size)
  BY DEF add
<1>2. size \in Nat
  BY DEF Size
<1>3. count \in 0..N /\ \A i \in 0..count : Capped(i) = i
  BY <1>1, GapIs
<1>4. CASE good = {}
  <2>1. refused' = {size} /\ work' = work /\ count' = count /\ want' = want
    BY <1>1, <1>4
  <2>2. \A i \in 0..count : ~fits(i, size)
    BY <1>3, <1>4
  <2>3. \/ Cardinality(want) = N
        \/ \A b \in FirstBlk..(LastBlk + 1) :
              \/ b + size > LastBlk + 1
              \/ \E e \in want : e.first < b + size /\ b < e.last + 1
    BY <1>1, <1>2, <2>2, RefusedMeansFull
  <2>4. AddFindsSpace'
    BY <2>1, <2>3 DEF AddFindsSpace
  <2>5. EntriesTypeOK'
    BY <1>1, <2>1 DEF GInv, EntriesTypeOK
  <2>6. BuilderInv'
    BY <1>1, <2>1 DEF GInv, BuilderInv
  <2>7. EditsExact'
    BY <1>1 DEF GInv, EditsExact
  <2> QED BY <1>1, <2>4, <2>5, <2>6, <2>7 DEF GInv
<1>5. CASE good # {}
  <2>1. good \in SUBSET Nat
    BY <1>3
  <2>2. best \in good
    <3> HIDE DEF good
    <3>1. \E i \in good : \A j \in good : i =< j
      BY <1>5, <2>1, SmallestOf
    <3> QED BY <3>1
  <2>3. best \in 0..count /\ fits(best, size) /\ Capped(best) = best
    <3> HIDE DEF best
    <3> QED BY <1>3, <2>2
  <2> HIDE DEF best, good
  <2>4. insert_before(best, n, size)
    BY <1>1, <1>5, <2>3
  <2> QED BY <1>1, <1>2, <2>3, <2>4, InsertStep
<1> QED BY <1>4, <1>5

LEMMA AddRestStep ==
    ASSUME GInv, NEW n \in NewNames, add_rest(n)
    PROVE  GInv'
<1> USE Geometry
<1> DEFINE size == gap_end(count) - gap_start(count)
<1>1. phase = "building" /\ phase' = phase /\ table' = table /\ (\A e \in want : e.name # n) /\ nulls < N
  BY DEF add_rest
<1>2. /\ count \in 0..count /\ Capped(count) = count
      /\ gap_start(count) \in Nat /\ gap_end(count) \in Nat /\ gap_start(count) =< gap_end(count)
  <2>1. count \in 0..N
    BY <1>1, GapIs
  <2>2. count \in 0..count
    BY <2>1
  <2> QED BY <1>1, <2>2, GapIs
<1>3. size \in Nat /\ size >= size
  BY <1>2
<1>4. fits(count, size)
  BY <1>1, <1>3 DEF fits
<1>5. insert_before(count, n, size)
  BY <1>2 DEF add_rest
<1> HIDE DEF size
<1> QED BY <1>1, <1>2, <1>3, <1>4, <1>5, InsertStep

LEMMA StutterStep ==
    ASSUME GInv, UNCHANGED entriesVars
    PROVE  GInv'
<1>1. /\ phase' = phase /\ table' = table /\ work' = work /\ count' = count
      /\ want' = want /\ refused' = refused
  BY DEF entriesVars
<1>2. EntriesTypeOK' /\ BuilderInv'
  BY <1>1 DEF GInv, EntriesTypeOK, BuilderInv
<1>3. EditsExact' /\ AddFindsSpace'
  BY <1>1 DEF GInv, EditsExact, AddFindsSpace
<1> QED BY <1>1, <1>2, <1>3 DEF GInv

LEMMA GptEntriesInit ==
    ASSUME Holes = FALSE, EntriesInit
    PROVE  GInv
<1> USE Geometry
<1>1. /\ phase = "disk" /\ table \in DiskTables /\ want = {} /\ refused = {}
      /\ work = [i \in Index |-> NullEntry] /\ count = 0
  BY DEF EntriesInit
<1>2. /\ table \in [Index -> GptEntry] /\ \E n \in 0..N : Packed(table, n)
      /\ \A order \in sortings(table) : check_entries(table, N, order)
  BY <1>1, DiskTable
<1>3. Disjoint(entries(table))
  BY <1>2, SortingExists, CheckedTable
<1>4. NullEntry \in GptEntry
  BY DEF NullEntry, GptEntry, Names
<1>5. EntriesTypeOK
  BY <1>1, <1>2, <1>4 DEF EntriesTypeOK
<1>6. BuilderInv /\ EditsExact /\ AddFindsSpace
  BY <1>1, <1>3 DEF BuilderInv, EditsExact, AddFindsSpace
<1> QED BY <1>1, <1>5, <1>6 DEF GInv

LEMMA GptEntriesInductive ==
    ASSUME Holes = FALSE
    PROVE  EntriesSpec => []GInv
<1>1. EntriesInit => GInv
  BY GptEntriesInit
<1>2. GInv /\ [EntriesNext]_entriesVars => GInv'
  <2> SUFFICES ASSUME GInv, [EntriesNext]_entriesVars PROVE GInv'
    OBVIOUS
  <2>1. CASE new
    BY <2>1, NewStep
  <2>2. CASE persist
    BY <2>2, PersistStep
  <2>3. CASE update_resize
    BY <2>3, UpdateStep
  <2>4. ASSUME NEW n \in Names \ {0}, remove(n) PROVE GInv'
    BY <2>4, RemoveStep
  <2>5. ASSUME NEW n \in NewNames, add_rest(n) PROVE GInv'
    BY <2>5, AddRestStep
  <2>6. ASSUME NEW n \in NewNames, NEW s \in Size, add(n, s) PROVE GInv'
    BY <2>6, AddStep
  <2>7. CASE UNCHANGED entriesVars
    BY <2>7, StutterStep
  <2> QED BY <2>1, <2>2, <2>3, <2>4, <2>5, <2>6, <2>7 DEF EntriesNext
<1> QED BY <1>1, <1>2, PTL DEF EntriesSpec

(* On a disk whose table has no hole, check_entries() accepts no two        *)
(* visible partitions that share a block, no sequence of add() and remove() *)
(* makes the unwrap() in persist() panic, persist() leaves exactly the      *)
(* partitions the caller asked for, and add() refuses a partition only when *)
(* the table is full or no run of free blocks is large enough, wherever it  *)
(* would start: for every size of the table and disk.                       *)
THEOREM GptBuilderExact ==
    ASSUME Holes = FALSE
    PROVE  EntriesSpec => []BuilderExact
<1>1. GInv => BuilderExact
  BY DEF GInv, BuilderExact
<1> QED BY <1>1, GptEntriesInductive, PTL

=============================================================================
