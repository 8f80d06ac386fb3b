----------------------------- MODULE GptEntries -----------------------------
(***************************************************************************)
(* What is inside a partition table (gbl/libstorage/src/gpt.rs): the       *)
(* checks on the entries array, the resizing of the last partition in      *)
(* update_gpt(), and GptBuilder, which edits a loaded table in memory and  *)
(* persists it.                                                            *)
(***************************************************************************)
EXTENDS Naturals, FiniteSets

CONSTANTS
    N,          \* entries in the load buffer (GPT_MAX_NUM_ENTRIES, 128)
    FirstBlk,   \* header.first
    LastBlk,    \* header.last
    NewNames,   \* names of the partitions that are added
    MinBlks,    \* the smallest partition a disk's table has, in blocks (0 or 1)
    Holes       \* may the table on the disk have used entries after a null one?

ASSUME GeometryAssumption ==
    /\ N \in Nat \ {0} /\ FirstBlk \in Nat \ {0}
    /\ LastBlk \in Nat /\ FirstBlk =< LastBlk /\ Holes \in BOOLEAN
    /\ MinBlks \in {0, 1}
    /\ NewNames \subseteq Nat \ (0..N)

Index == 1..N
(* 0 names a null entry; the partitions of the disk's table are named by    *)
(* the index they have there.                                               *)
Names == Index \cup NewNames \cup {0}
GptEntry == [name: Names, first: Nat, last: Nat]
NullEntry == [name |-> 0, first |-> 0, last |-> 0]

is_null(e) == e.first = 0 /\ e.last = 0

(* entries(): up to the first null entry.                                   *)
first_null(t) == IF \E i \in Index : is_null(t[i])
                 THEN CHOOSE i \in Index : is_null(t[i]) /\ \A j \in 1..(i - 1) : ~is_null(t[j])
                 ELSE N + 1
entries(t) == {t[i] : i \in 1..(first_null(t) - 1)}

(* The key both sorts use: null entries, and those past `count`, come last. *)
(* sort_unstable_by_key() leaves an array that is in order alone and may    *)
(* put equal keys (of empty partitions) in either order.                    *)
key(e) == IF is_null(e) THEN LastBlk + 2 ELSE e.first
InOrder(t) == \A i, j \in Index : i < j => key(t[i]) =< key(t[j])
Orders == {p \in [Index -> Index] : \A i, j \in Index : p[i] = p[j] => i = j}
sortings(t) ==
    IF InOrder(t) THEN {t}
    ELSE {s \in {[i \in Index |-> t[p[i]]] : p \in Orders} : InOrder(s)}

(* The range and overlap checks of check_entries() on the first `count`     *)
(* entries, with their indices sorted as in `order`; CRC and GUID checks    *)
(* are left to Gpt.                                                         *)
range_ok(e) == e.first =< e.last + 1 /\ e.last =< LastBlk /\ e.first >= FirstBlk

counted(t, n) == [i \in Index |-> IF i =< n THEN t[i] ELSE NullEntry]

overlap_found(order, actual) ==
    \E i \in 1..N : i < actual /\ order[i].last >= order[i + 1].first

check_entries(t, n, order) ==
    /\ \A i \in 1..n : i < first_null(t) => range_ok(t[i])
    /\ ~overlap_found(order, first_null(counted(t, n)) - 1)

(* update_gpt(resize): the last used entry of the array takes the rest.     *)
resized(t) ==
    LET used == {i \in Index : ~is_null(t[i])}
    IN  IF used = {} THEN t
        ELSE [t EXCEPT ![CHOOSE i \in used : \A j \in used : j =< i].last = LastBlk]

-----------------------------------------------------------------------------
VARIABLES
    phase,      \* "disk" | "building" | "persisted" | "updated" or a panic
    table,      \* the entries on the disk
    work,       \* the construction buffer (the secondary entries)
    count,      \* its header.entries_count
    want,       \* history: the partitions the caller should end up with
    refused     \* history: the size add() has just refused, if it did

entriesVars == <<phase, table, work, count, want, refused>>

(* GptBuilder::new() *)
new ==
    /\ phase = "disk" /\ phase' = "building"
    /\ count' = first_null(table) - 1
    /\ work' \in sortings(table)
    /\ want' = entries(table)
    /\ UNCHANGED <<table, refused>>

(* Mutant: the removed entry is not counted out. *)
remove_keep_count(n) ==
    /\ phase = "building"
    /\ \E i \in 1..count :
        /\ work[i].name = n
        /\ work' = [j \in Index |-> IF j = i THEN NullEntry ELSE work[j]]
        /\ want' = {e \in want : e.name # n}
    /\ refused' = {}
    /\ UNCHANGED <<phase, table, count>>

(* remove(): the entries behind move forward.                               *)
remove(n) ==
    /\ phase = "building"
    /\ \E i \in 1..count :
        /\ work[i].name = n /\ \A j \in 1..(i - 1) : work[j].name # n
        /\ work' = [j \in Index |-> IF j < i \/ j > count THEN work[j]
                                    ELSE IF j = count THEN NullEntry ELSE work[j + 1]]
        /\ want' = {e \in want : e.name # n}
    /\ count' = count - 1
    /\ refused' = {}
    /\ UNCHANGED <<phase, table>>

(* insert_before(): room between the entries around idx, counted from 0.    *)
nulls == first_null(work) - 1
gap_start(idx) == IF idx = 0 THEN FirstBlk ELSE work[idx].last + 1
gap_end(idx) == IF idx = nulls THEN LastBlk + 1 ELSE work[idx + 1].first

(* Mutant: one block more than needed is asked for.                         *)
fits_strict(idx, size) == nulls < N /\ gap_end(idx) - gap_start(idx) > size

fits(idx, size) == /\ nulls < N
                   /\ gap_end(idx) - gap_start(idx) >= size

insert_before(idx, n, size) ==
    LET e == [name |-> n, first |-> gap_start(idx), last |-> gap_start(idx) + size - 1]
    IN  /\ work' = [j \in Index |-> IF j =< idx THEN work[j]
                                    ELSE IF j = idx + 1 THEN e
                                    ELSE IF j =< nulls + 1 THEN work[j - 1] ELSE work[j]]
        /\ count' = count + 1
        /\ want' = want \cup {e}
        /\ refused' = {}

Capped(i) == IF i > nulls THEN nulls ELSE i

(* add(Some(size)): the first gap that is large enough; add(None): the rest *)
(* of the disk after the last partition.                                    *)
add(n, size) ==
    LET good == {i \in 0..count : fits(Capped(i), size)}
    IN  /\ phase = "building"
        /\ \A e \in want : e.name # n
        /\ IF good = {} THEN refused' = {size} /\ UNCHANGED <<work, count, want>>
           ELSE insert_before(Capped(CHOOSE i \in good : \A j \in good : i =< j), n, size)
        /\ UNCHANGED <<phase, table>>

add_rest(n) ==
    LET idx == Capped(count) IN
    /\ phase = "building"
    /\ \A e \in want : e.name # n
    /\ nulls < N
    /\ insert_before(idx, n, gap_end(idx) - gap_start(idx))
    /\ UNCHANGED <<phase, table>>

(* persist(): the table is checked with unwrap(), written and re-synced.    *)
persist ==
    /\ phase = "building"
    /\ \E order \in sortings(counted(work, count)) :
        IF check_entries(work, count, order)
        THEN phase' = "persisted" /\ table' = counted(work, count)
        ELSE phase' = "persist_panic" /\ UNCHANGED table
    /\ UNCHANGED <<work, count, want, refused>>

(* update_gpt() with this table and resize set: re-checked with unwrap().   *)
update_resize ==
    /\ phase = "disk"
    /\ \E order \in sortings(resized(table)) :
        IF check_entries(resized(table), N, order)
        THEN phase' = "updated" /\ table' = resized(table)
        ELSE phase' = "resize_panic" /\ UNCHANGED table
    /\ UNCHANGED <<work, count, want, refused>>

-----------------------------------------------------------------------------
(* Tables a disk may hold: any that load_and_validate_gpt() accepts however *)
(* equal keys are sorted, each entry a well-formed partition.  A tool that  *)
(* deletes a partition may leave a hole.                                    *)
Ranges == {r \in (FirstBlk..(LastBlk + 1)) \X ((FirstBlk - 1)..LastBlk) : r[1] + MinBlks =< r[2] + 1}
               \cup {<<0, 0>>}
Named(r) == [i \in Index |-> IF r[i] = <<0, 0>> THEN NullEntry
                             ELSE [name |-> i, first |-> r[i][1], last |-> r[i][2]]]
Compact(t) == \A i, j \in Index : i < j /\ is_null(t[i]) => is_null(t[j])
DiskTables ==
    {t \in {Named(r) : r \in [Index -> Ranges]} :
        (Holes \/ Compact(t)) /\ \A order \in sortings(t) : check_entries(t, N, order)}

EntriesInit ==
    /\ phase = "disk" /\ table \in DiskTables
    /\ work = [i \in Index |-> NullEntry] /\ count = 0 /\ want = {} /\ refused = {}

Size == 0..(LastBlk - FirstBlk + 2)

EntriesNext ==
    \/ new \/ persist \/ update_resize
    \/ \E n \in Names \ {0} : remove(n)
    \/ \E n \in NewNames : add_rest(n) \/ \E s \in Size : add(n, s)

EntriesSpec == EntriesInit /\ [][EntriesNext]_entriesVars

-----------------------------------------------------------------------------
Blocks(e) == e.first..e.last
Disjoint(es) == \A a, b \in es : a # b => Blocks(a) \cap Blocks(b) = {}

(* Type invariant: the buffer keeps N entries and counts the used ones.     *)
EntriesTypeOK ==
    /\ phase \in {"disk", "building", "persisted", "updated", "persist_panic", "resize_panic"}
    /\ table \in [Index -> GptEntry] /\ work \in [Index -> GptEntry]
    /\ count \in 0..N /\ want \subseteq GptEntry /\ refused \subseteq Size

(* check_entries() accepts no two visible partitions that share a block;    *)
(* no sequence of edits makes the unwrap() in persist() panic ("Should not  *)
(* fail if implementation is correct"); and persist() leaves exactly the    *)
(* partitions the caller saw, less the removed and with the added ones, for *)
(* a new boot and for entries() in memory.                                  *)
EditsExact ==
    /\ Disjoint(entries(table))
    /\ phase # "persist_panic"
    /\ phase = "persisted" => entries(table) = want /\ entries(work) = want

(* add() refuses only what really does not fit: no gap between partitions   *)
(* is large enough, or the table is full.                                   *)
AddFindsSpace ==
    phase = "building" =>
        \A s \in refused :
            \/ Cardinality(want) = N
            \/ \A b \in FirstBlk..(LastBlk + 1) :
                  \/ b + s > LastBlk + 1
                  \/ \E e \in want : e.first < b + s /\ b < e.last + 1

(* Both: through any sequence of edits GptBuilder does exactly what it is   *)
(* asked, and refuses only what cannot be done.                             *)
BuilderExact == EditsExact /\ AddFindsSpace

=============================================================================
