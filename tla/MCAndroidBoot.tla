--------------------------- MODULE MCAndroidBoot ---------------------------
(* A model-checking instance of AndroidBoot: a slot holds a version 4 image *)
(* with every optional partition, all signed, or a version 2 image whose dtb *)
(* partition is altered; three slots, so that one is beyond what libavb's    *)
(* slot index can name; a download with altered contents and one that is no *)
(* boot image.                                                              *)
EXTENDS AndroidBoot

Whole == [ver |-> "v4", ramdisk |-> FALSE, have |-> Parts \ {"boot"}, altered |-> {}]
AlteredDtb == [ver |-> "v2", ramdisk |-> TRUE, have |-> {"dtb"}, altered |-> {"dtb"}]
Garbage == [ver |-> "bad", ramdisk |-> FALSE, have |-> {}, altered |-> {}]

MCLayouts == {Whole, AlteredDtb}
MCDownloads ==
    {[ver |-> "v4", ramdisk |-> TRUE, have |-> {}, altered |-> {"boot"}], Garbage}

Locked(slots) ==
    [slots |-> slots, lock |-> "locked", key |-> "Valid", custom_device_tree |-> FALSE]
MCPlatforms ==
    {Locked("slotless"),
     [Locked("slotted") EXCEPT !.lock = "unimplemented", !.key = "Invalid"],
     [Locked("unsupported") EXCEPT !.key = "ValidCustomKey", !.custom_device_tree = TRUE]}

=============================================================================
