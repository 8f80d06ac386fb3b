---------------------------- MODULE MCAlgorithms ----------------------------
(***************************************************************************)
(* One behaviour is one call of the pure parts, or a series of questions   *)
(* to the platform.                                                        *)
(***************************************************************************)
EXTENDS Algorithms, EfiOps

AtRest == store = [n \in Names |-> NoValue] /\ regs = [rollback |-> 0, locks |-> {}] /\ ask = [op |-> "none"] /\ ans = Gives(0)

MCInit ==
    \/ Init /\ AtRest
    \/ job = [op |-> "platform"] /\ out = None /\ OpsInit

MCNext ==
    \/ job.op # "platform" /\ Next /\ UNCHANGED opsVars
    \/ job.op = "platform" /\ OpsNext /\ UNCHANGED vars

MCSpec == MCInit /\ [][MCNext]_<<vars, opsVars>>
=============================================================================
