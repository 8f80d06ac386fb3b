--------------------------- MODULE MCGblFastboot ---------------------------
(* Model-checking instances of GblFastboot: two disks, at most two buffers, *)
(* a raw and a sparse image.                                                *)
EXTENDS GblFastboot

=============================================================================
