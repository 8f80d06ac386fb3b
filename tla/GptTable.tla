------------------------------ MODULE GptTable ------------------------------
(***************************************************************************)
(* What the GPT code of libstorage promises: a disk holds one partition    *)
(* table (or none) and a spare of it.  An operation replaces the table by  *)
(* the one asked for, in one step, or leaves it as it was; crashes and     *)
(* errors are no exception, save that the spare may take the place of the  *)
(* table, which shows only if an earlier failure left the two different.   *)
(***************************************************************************)
CONSTANTS Tables, None

VARIABLES table, spare, pending

Start(t) == pending' = {t} /\ UNCHANGED <<table, spare>>

Commit == /\ pending # {}
          /\ table' \in pending \cup {spare}
          /\ spare' \in {spare, table'}
          /\ pending' = {}

(* The spare is made anew: it is lost, and then holds the table there is or *)
(* the one that is to come.                                                 *)
Renew == spare' \in pending \cup {table, None} /\ pending' \in {pending, {}} /\ UNCHANGED table

(* The operation is over, or never took effect.                             *)
Abandon == pending' = {} /\ UNCHANGED <<table, spare>>

Init == table \in Tables \cup {None} /\ spare \in Tables \cup {None} /\ pending = {}
Next == (\E t \in Tables \cup {None} : Start(t)) \/ Commit \/ Renew \/ Abandon
Spec == Init /\ [][Next]_<<table, spare, pending>>

=============================================================================
