--------------------------- MODULE MCFuchsiaBoot ---------------------------
(* Two versions of a good image and a newer one with a broken kernel; one   *)
(* rollback location and one key version; legacy and current names.         *)
EXTENDS FuchsiaBoot

Versions(image, key) == [l \in {"image", "psk"} |-> IF l = "image" THEN image ELSE key]
MCFactory == [kernel |-> "good", vbmeta |-> "good", version |-> Versions(1, 1)]
MCImages ==
    { MCFactory,
      [kernel |-> "good", vbmeta |-> "good", version |-> Versions(2, 1)],
      [kernel |-> "bad", vbmeta |-> "good", version |-> Versions(2, 2)] }
MCNames == {"zircon_a", "zircon-b", "zircon_r", "misc", "durable_boot"}
MCLocations == {"image"}
MCKeyLocations == {"psk"}

=============================================================================
