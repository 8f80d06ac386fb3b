--------------------------- MODULE MCSlotManager ---------------------------
(* Two slots, of which one may be hidden by nb_slots; one or two tries.     *)
EXTENDS SlotManager
=============================================================================
