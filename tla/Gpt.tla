-------------------------------- MODULE Gpt --------------------------------
(***************************************************************************)
(* The GPT of one disk (gbl/libstorage/src/gpt.rs): primary and secondary  *)
(* header and entries on the disk, the load buffer in memory, and the      *)
(* operations that load, restore, update, erase and rebuild them as        *)
(* sequences of separate disk reads and writes.  Power may fail between    *)
(* two accesses or tear a write; reads and writes may return errors.       *)
(* What a table holds is the subject of GptEntries; here a table is a      *)
(* value, and a header that names it carries its entries' CRC.             *)
(***************************************************************************)
EXTENDS Naturals, Sequences

CONSTANTS
    Tables,       \* partition tables that pass check_header and check_entries
    Short,        \* those with fewer entries (none of them null) than the load buffer
    None,         \* no table
    Junk,         \* content that is neither zero nor a table (stale, torn)
    ReadErrors,   \* may a disk read return an error?
    WriteErrors   \* may a disk write return an error?

ASSUME ContentsDistinct ==
    /\ Short \subseteq Tables /\ None \notin Tables /\ Junk \notin Tables /\ None # Junk
    /\ ReadErrors \in BOOLEAN /\ WriteErrors \in BOOLEAN

(* primary header, primary entries, secondary header, secondary entries     *)
Regions == {"ph", "pe", "sh", "se"}
Contents == Tables \cup {None, Junk}

VARIABLES
    disk,     \* [Regions -> Contents]; None stands for zeros
    valid,    \* Gpt::buffer block_size is Some: "a valid GPT is loaded"
    mem,      \* whose entries the primary entries in Gpt::buffer begin with
    rest,     \* whose entries stand there behind the end of a short table
    srest,    \* the same for the secondary entries in Gpt::buffer
    pc,       \* "down" | "idle" | "load_p" | "load_s" | "resolve" | "write"
    op,       \* the operation under way, or the last one
    target,   \* the table it was asked to write
    mutated,  \* the operation's own writes (not those of its sync) are issued
    syncing,  \* load_and_sync() is running
    todo,     \* writes to be issued, each a function from regions to contents
    primary, secondary,   \* what load_and_validate_gpt() found
    result,   \* how the last operation ended
    before,   \* history: the table on the disk when the operation began
    agreed,   \* history: both copies agreed then
    pending   \* history: the table the operation still has to put in place

gptVars == <<disk, valid, mem, rest, srest, pc, op, target, mutated, syncing, todo, primary, secondary, result>>
history == <<before, agreed, pending>>
vars == <<gptVars, history>>

-----------------------------------------------------------------------------
PrimaryOk(d) == d["ph"] \in Tables /\ d["pe"] = d["ph"]
SecondaryOk(d) == d["sh"] \in Tables /\ d["se"] = d["sh"]

(* The table a restart without faults would load.                           *)
View(d) == IF PrimaryOk(d) THEN d["ph"] ELSE IF SecondaryOk(d) THEN d["sh"] ELSE None

Agreed(d) == IF PrimaryOk(d) THEN SecondaryOk(d) /\ d["sh"] = d["ph"]
             ELSE ~SecondaryOk(d)

(* Every step that changes the disk may be the one that puts the pending    *)
(* table in place.                                                          *)
Track(d) == pending' = IF View(d) = View(disk) THEN pending ELSE {}

(* load_and_validate_gpt(): an I/O error and a bad table are both an Err.   *)
Loaded(ok, h) == (IF ok THEN {disk[h]} ELSE {None}) \cup (IF ReadErrors THEN {None} ELSE {})

(* What a read of the whole entries region finds where a short table ends;  *)
(* a table of full length is one value all through.                         *)
Behind(c) == IF c \in Short THEN Junk ELSE c

(* Only entries_count entries are read; the buffer behind them is left.     *)
tail_read(h, e, old) == IF disk[h] \in Tables \ Short THEN Behind(disk[e]) ELSE old

(* Reading the primary overwrites the entries in memory only once the       *)
(* header passed its check.                                                 *)
LoadPrimary ==
    /\ pc = "load_p" /\ pc' = "load_s"
    /\ primary' \in Loaded(PrimaryOk(disk), "ph")
    /\ \/ /\ mem' = IF disk["ph"] \in Tables THEN disk["pe"] ELSE mem
          /\ rest' = tail_read("ph", "pe", rest)
       \/ ReadErrors /\ primary' = None /\ UNCHANGED <<mem, rest>>
    /\ UNCHANGED <<disk, valid, srest, op, target, mutated, syncing, todo, secondary, result, history>>

LoadSecondary ==
    /\ pc = "load_s" /\ pc' = "resolve"
    /\ secondary' \in Loaded(SecondaryOk(disk), "sh")
    /\ \/ srest' = tail_read("sh", "se", srest)
       \/ ReadErrors /\ secondary' = None /\ UNCHANGED srest
    /\ UNCHANGED <<disk, valid, mem, rest, op, target, mutated, syncing, todo, primary, result, history>>

Put(t, r) == [x \in {r} |-> t]
Copy(t, h, e) == <<Put(t, h), Put(t, e)>>

(* Mutant: the secondary copy wins when the two differ. *)
restore_from_secondary ==
    IF secondary = None
    THEN IF primary = None THEN <<>> ELSE Copy(primary, "sh", "se")
    ELSE IF secondary = primary THEN <<>> ELSE Copy(secondary, "ph", "pe")

(* load_and_sync(), once both copies are read: the writes that restore the  *)
(* broken or outdated one, header first.                                    *)
restore ==
    IF primary = None
    THEN IF secondary = None THEN <<>> ELSE Copy(secondary, "ph", "pe")
    ELSE IF secondary = primary THEN <<>> ELSE Copy(primary, "sh", "se")

(* Mutant: the restored entries are not copied into the primary's buffer. *)
Resolve_stale_buffer ==
    /\ pc = "resolve" /\ pc' = "write"
    /\ todo' = restore
    /\ valid' = FALSE
    /\ UNCHANGED <<disk, mem, rest, srest, op, target, mutated, syncing, primary, secondary, result, history>>

(* A restored copy takes over the whole entries buffer of the other.        *)
Resolve ==
    LET to_primary == primary = None /\ secondary # None
        to_secondary == primary # None /\ secondary # primary
    IN  /\ pc = "resolve" /\ pc' = "write"
        /\ todo' = restore
        /\ valid' = FALSE
        /\ mem' = IF to_primary THEN secondary ELSE mem
        /\ rest' = IF to_primary THEN srest ELSE rest
        /\ srest' = IF to_secondary THEN rest ELSE srest
        /\ UNCHANGED <<disk, op, target, mutated, syncing, primary, secondary, result, history>>

-----------------------------------------------------------------------------
(* The next write of the operation: it completes, returns an error after    *)
(* any part of it, or is cut short by a power failure.  A region half       *)
(* written mixes old and new bytes, so it is intact where those are equal.  *)
Apply(d, f) == [r \in Regions |-> IF r \in DOMAIN f THEN f[r] ELSE d[r]]
Torn(d, f) == {e \in [Regions -> Contents] :
                 \A r \in Regions : e[r] \in IF r \in DOMAIN f /\ f[r] # d[r]
                                          THEN {d[r], f[r], Junk} ELSE {d[r]}}

DiskWrite ==
    /\ pc = "write" /\ todo # <<>>
    /\ disk' = Apply(disk, Head(todo))
    /\ todo' = Tail(todo)
    /\ Track(disk')
    /\ UNCHANGED <<valid, mem, rest, srest, pc, op, target, mutated, syncing, primary, secondary, result, before, agreed>>

End(res) == pc' = "idle" /\ result' = res /\ syncing' = FALSE /\ pending' = {}

(* Mutant: the error of a write is not looked at. *)
DiskWriteError_ignored ==
    /\ WriteErrors
    /\ pc = "write" /\ todo # <<>>
    /\ disk' \in Torn(disk, Head(todo))
    /\ todo' = Tail(todo)
    /\ Track(disk')
    /\ UNCHANGED <<valid, mem, rest, srest, pc, op, target, mutated, syncing, primary, secondary, result, before, agreed>>

DiskWriteError ==
    /\ WriteErrors
    /\ pc = "write" /\ todo # <<>>
    /\ disk' \in Torn(disk, Head(todo))
    /\ todo' = <<>>
    /\ End("err")
    /\ UNCHANGED <<valid, mem, rest, srest, op, target, mutated, primary, secondary, before, agreed>>

(* Memory is lost; the next start begins with an empty Gpt.                 *)
PowerFail ==
    /\ pc # "down"
    /\ disk' \in IF pc = "write" /\ todo # <<>> THEN Torn(disk, Head(todo)) ELSE {disk}
    /\ pc' = "down" /\ todo' = <<>> /\ valid' = FALSE
    /\ mem' = None /\ rest' = None /\ srest' = None
    /\ primary' = None /\ secondary' = None /\ result' = "none"
    /\ mutated' = FALSE /\ syncing' = FALSE /\ pending' = {}
    /\ UNCHANGED <<op, target, before, agreed>>

-----------------------------------------------------------------------------
(* The operations.  Each one holds the disk and the Gpt (GblDisk borrows    *)
(* both) until it ends.                                                     *)
Begin(o, t, first, writes, sync) ==
    /\ op' = o /\ target' = t /\ mutated' = ~sync /\ syncing' = sync
    /\ pc' = first /\ todo' = writes /\ result' = "none"
    /\ before' = View(disk) /\ agreed' = Agreed(disk)
    /\ pending' = IF o = "sync" THEN {} ELSE {t}
    /\ UNCHANGED <<disk, valid, mem, rest, srest, primary, secondary>>

(* At start find_block_devices() syncs the GPT of every disk; its errors    *)
(* are only printed.                                                        *)
Boot == pc = "down" /\ Begin("sync", View(disk), "load_p", <<>>, TRUE)

sync_gpt == pc = "idle" /\ Begin("sync", View(disk), "load_p", <<>>, TRUE)

(* A table that fails its checks is refused before anything is written; MBR,*)
(* primary header and entries are one write.                                *)
update_gpt(t) ==
    /\ pc = "idle"
    /\ Begin("update", t, "write", <<[r \in {"ph", "pe"} |-> t]>>, FALSE)

erase_gpt == pc = "idle" /\ Begin("erase", None, "load_p", <<>>, TRUE)

(* GptBuilder: new(), add() and remove() up to the table t, persist().      *)
build_gpt(t) == pc = "idle" /\ Begin("persist", t, "load_p", <<>>, TRUE)

(* Mutant: the primary is given up first.                                   *)
persist_writes_primary_first(t) == <<Put(None, "ph")>> \o Copy(t, "sh", "se")

erase_writes == <<Put(None, "ph"), Put(None, "pe"), Put(None, "sh"), Put(None, "se")>>

(* persist(): secondary first; the primary is given up only then.           *)
persist_writes(t) == Copy(t, "sh", "se") \o <<Put(None, "ph")>>

novalid == primary = None /\ secondary = None

(* load_and_sync() returns, to the caller or into the operation.            *)
SyncDone ==
    /\ pc = "write" /\ todo = <<>> /\ syncing
    /\ \/ /\ op = "sync"
          /\ valid' = TRUE /\ End(IF novalid THEN "novalid" ELSE "ok")
          /\ UNCHANGED <<mem, rest, srest, todo, mutated>>
       \/ /\ op = "update" \/ (op = "persist" /\ mutated)
          /\ valid' = TRUE /\ End(IF novalid THEN "err" ELSE "ok")
          /\ UNCHANGED <<mem, rest, srest, todo, mutated>>
       \/ /\ op = "erase" /\ novalid
          /\ valid' = TRUE /\ End("ok")
          /\ UNCHANGED <<mem, rest, srest, todo, mutated>>
       \/ /\ op = "erase" /\ ~novalid
          /\ valid' = FALSE /\ mem' = None   \* the zeros to write are made there
          /\ rest' = IF mem \in Short THEN rest ELSE None
          /\ todo' = erase_writes /\ mutated' = TRUE /\ syncing' = FALSE
          /\ UNCHANGED <<srest, pc, result, pending>>
       \/ /\ op = "persist" /\ ~mutated
          /\ valid' = TRUE /\ todo' = persist_writes(target) /\ mutated' = TRUE /\ syncing' = FALSE
          /\ srest' \in IF target \in Short THEN {None, srest} ELSE {target}
          /\ UNCHANGED <<mem, rest, pc, result, pending>>
    /\ UNCHANGED <<disk, op, target, primary, secondary, before, agreed>>

(* The operation's own writes are done.                                     *)
OwnWritesDone ==
    /\ pc = "write" /\ todo = <<>> /\ ~syncing
    /\ IF op = "erase" THEN End("ok")
       ELSE pc' = "load_p" /\ syncing' = TRUE /\ UNCHANGED <<result, pending>>
    /\ UNCHANGED <<disk, valid, mem, rest, srest, op, target, mutated, todo, primary, secondary, before, agreed>>

Init ==
    /\ disk \in [Regions -> Contents]
    /\ valid = FALSE /\ mem = None /\ rest = None /\ srest = None /\ pc = "down" /\ op = "sync" /\ target = View(disk)
    /\ mutated = FALSE /\ syncing = FALSE /\ todo = <<>>
    /\ primary = None /\ secondary = None /\ result = "none"
    /\ before = View(disk) /\ agreed = Agreed(disk) /\ pending = {}

Next ==
    \/ Boot \/ sync_gpt \/ erase_gpt
    \/ \E t \in Tables : update_gpt(t) \/ build_gpt(t)
    \/ LoadPrimary \/ LoadSecondary \/ Resolve
    \/ DiskWrite \/ DiskWriteError \/ SyncDone \/ OwnWritesDone
    \/ PowerFail

Spec == Init /\ [][Next]_vars

-----------------------------------------------------------------------------
(* Type invariant: at most four writes are outstanding, and only while an   *)
(* operation is writing.                                                    *)
TypeOK ==
    /\ disk \in [Regions -> Contents]
    /\ valid \in BOOLEAN /\ mutated \in BOOLEAN /\ syncing \in BOOLEAN /\ agreed \in BOOLEAN
    /\ mem \in Contents /\ rest \in Contents /\ srest \in Contents
    /\ target \in Tables \cup {None} /\ before \in Tables \cup {None}
    /\ primary \in Tables \cup {None} /\ secondary \in Tables \cup {None}
    /\ pc \in {"down", "idle", "load_p", "load_s", "resolve", "write"}
    /\ op \in {"sync", "update", "erase", "persist"}
    /\ result \in {"none", "ok", "novalid", "err"}
    /\ pending \in SUBSET (Tables \cup {None})
    /\ Len(todo) =< 4 /\ (pc # "write" => todo = <<>>)

(* Atomicity: at every moment of an operation, and after a power failure or *)
(* an error in it, the disk holds the old table or the one asked for.  For  *)
(* update_gpt() this needs copies that agreed when it began; a failed sync  *)
(* before it does not give that.                                            *)
Atomic == agreed \/ op # "update" => View(disk) \in {before, target}

(* "Return `Ok(())` new GPT is valid and device is updated and synced       *)
(* successfully" (GblDisk::update_gpt), "Erases GPT if there is one on the  *)
(* device" (erase_gpt): what an operation reports is what the disk holds,   *)
(* in both copies.                                                          *)
CompletedMeansDone ==
    pc = "idle" /\ result = "ok" => View(disk) = target /\ Agreed(disk)

(* The first half of that for update_gpt() alone.                           *)
UpdateOkMeansUpdated ==
    pc = "idle" /\ op = "update" /\ result = "ok" => View(disk) = target

(* The load buffer holds the entries of t, all entries_count of them.       *)
Holds(t) == mem = t /\ (t \notin Short => rest = t)

(* After a successful operation the load buffer begins with the entries of  *)
(* the table on the disk, every one of them, and with none of an earlier    *)
(* GPT or of a copy that was broken and restored.                           *)
CacheCoherent ==
    pc = "idle" /\ valid /\ result = "ok" /\ View(disk) # None => Holds(View(disk))

(* "Return the list of GPT entries" (Gpt::entries): it ends where the table *)
(* ends, and nothing of an earlier table follows.  The code does not keep   *)
(* this: it leaves the rest of the buffer as it was (README, section 5).    *)
EntriesEndWithTable ==
    pc = "idle" /\ valid /\ result = "ok" /\ View(disk) \in Short => rest = None

(* "If there is not a valid GPT, the method returns Error" (Gpt::entries,   *)
(* Gpt::partition_iter).  The code does not keep this (README, section 5).  *)
NoTableNoEntries == pc = "idle" /\ valid => View(disk) # None

(* The disk behaves like a register holding one table, and a spare that is  *)
(* only used for it, whatever the crashes and errors.                       *)
Abstract == INSTANCE GptTable WITH table <- View(disk), pending <- pending,
                                   spare <- IF SecondaryOk(disk) THEN disk["sh"] ELSE None
RefinesTable == Abstract!Spec

=============================================================================
