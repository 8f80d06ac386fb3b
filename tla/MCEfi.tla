-------------------------------- MODULE MCEfi --------------------------------
(***************************************************************************)
(* The parts of the EFI layer that share memory and time with the          *)
(* firmware, side by side: a behaviour is one of one part.                 *)
(***************************************************************************)
EXTENDS EfiNetwork, EfiRequests, EfiMemory

VARIABLE part
vars == <<part, netVars, ioVars, memVars>>

MCLayouts == {<<1, 1>>, <<1, 4>>}
MCImages == [boot |-> <<1, 4>>]

Init == /\ part \in {"net", "io", "mem"} /\ NetInit /\ IoInit /\ MemInit
        /\ part # "net" => snp = "stopped"

Only(p, A, rest) == part = p /\ A /\ UNCHANGED <<part, rest>>
Next ==
    \/ Only("net", NetNext, <<ioVars, memVars>>)
    \/ Only("io", IoNext, <<netVars, memVars>>)
    \/ Only("mem", MemNext, <<netVars, ioVars>>)

(* The application goes on polling; firmware timers expire.                 *)
Fairness ==
    /\ WF_vars(part = "net" /\ NetDevice /\ UNCHANGED <<part, ioVars, memVars>>)
    /\ WF_vars(part = "net" /\ Timer /\ UNCHANGED <<part, ioVars, memVars>>)
    /\ WF_vars(part = "io" /\ Polls /\ UNCHANGED <<part, netVars, memVars>>)
    /\ \A t \in Disks : WF_vars(part = "io" /\ FwCompletes(t) /\ UNCHANGED <<part, netVars, memVars>>)
    /\ \A t \in Usb \cup Local : WF_vars(part = "io" /\ FwTimer(t) /\ UNCHANGED <<part, netVars, memVars>>)
Spec == Init /\ [][Next]_vars /\ Fairness

(* Memory lent to the firmware, a network frame or the buffer and token of  *)
(* a block request, is neither used nor freed until it is given back.       *)
LentMemoryKept == FrameExclusive /\ RequestExclusive
=============================================================================
