----------------------------- MODULE EfiNetwork -----------------------------
(***************************************************************************)
(* The network device under the TCP stack of the EFI application           *)
(* (gbl/efi/src/net.rs) over EFI_SIMPLE_NETWORK (libefi simple_network.rs).*)
(* Transmit() hands a frame to the firmware, which works on it on its own  *)
(* time; GetStatus() gives one transmitted frame back.  Other services of  *)
(* the firmware use the same interface and may take a transmitted frame    *)
(* before GBL asks for it.                                                 *)
(***************************************************************************)
EXTENDS Naturals

CONSTANTS
    ExtraTxFrames,  \* extra_tx_frames: frames of the pool, less one
    MaxNetFaults,   \* firmware calls that fail, frames refused or taken
    NoFrame

ASSUME NetAssumption == ExtraTxFrames \in Nat /\ MaxNetFaults \in Nat /\ NoFrame \notin Nat

VARIABLES
    snp,       \* the interface: "stopped", "started", "initialized"
    held,      \* frames the firmware is working on
    sent,      \* frames it has transmitted and not given back
    alive,     \* tx_frames: the frames allocated
    curr,      \* tx_frame_curr
    npc,       \* where GBL stands
    buf,       \* the frame taken by TxToken::consume()
    wait,      \* loop_with_timeout(): "fresh", "tried" in vain, "late"
    netFaults

netVars == <<snp, held, sent, alive, curr, npc, buf, wait, netFaults>>

tx_frames == 1..(ExtraTxFrames + 1)

NetInit ==
    /\ snp \in {"stopped", "started", "initialized"}   \* other services run before GBL
    /\ held = {} /\ sent = {} /\ alive = {} /\ curr = 0
    /\ npc = "down" /\ buf = NoFrame /\ wait = "fresh" /\ netFaults = 0

NetFault == netFaults < MaxNetFaults /\ netFaults' = netFaults + 1
Released == held' = {} /\ sent' = {}

(* Shutdown() releases the frames; NotStarted is no error to either caller. *)
shutdown(ok, failed) ==
    \/ snp' = "stopped" /\ Released /\ ok
    \/ NetFault /\ UNCHANGED <<snp, held, sent>> /\ failed

(* The interface after Shutdown(), Start(), Initialize() (and Reset()).      *)
AfterCall == {"stopped", "started", "initialized"}

(* Mutant: a network that is up already is only reset. *)
reset_simple_network_soft(ok, failed) ==
    \/ /\ snp' = "initialized" /\ UNCHANGED netFaults /\ ok
       /\ IF snp = "stopped" THEN Released ELSE UNCHANGED <<held, sent>>
    \/ NetFault /\ failed /\ UNCHANGED <<snp, held, sent>>

(* Shutdown, Start, Initialize, Reset; the first failure ends it.           *)
reset_simple_network(ok, failed) ==
    \/ snp' = "initialized" /\ Released /\ UNCHANGED netFaults /\ ok
    \/ /\ NetFault /\ failed
       /\ \/ UNCHANGED <<snp, held, sent>>
          \/ snp' \in AfterCall /\ Released

(* EfiGblNetwork::init(): the old network is dropped before the new one is  *)
(* reset; the pool exists only once the reset has succeeded.                *)
init ==
    /\ npc = "down"
    /\ reset_simple_network(npc' = "idle" /\ alive' = tx_frames, npc' = "failed" /\ UNCHANGED alive)
    /\ curr' = 0
    /\ UNCHANGED <<buf, wait>>

(* A caller whose network did not come up goes on without, and may retry    *)
(* in its next fastboot session.                                            *)
next_session ==
    /\ npc = "failed" /\ npc' = "down"
    /\ UNCHANGED <<snp, held, sent, alive, curr, buf, wait, netFaults>>

(* EfiNetworkDevice::drop(): without a shutdown the frames are not freed.   *)
drop ==
    /\ npc = "idle"
    /\ shutdown(npc' = "down" /\ alive' = {} /\ UNCHANGED netFaults,
                npc' = "panic" /\ UNCHANGED alive)
    /\ UNCHANGED <<curr, buf, wait>>

(* Device::receive(), transmit(): a token for one frame.  What is received  *)
(* is in rx_frame, which the firmware does not keep.                        *)
transmit ==
    /\ npc = "idle" /\ npc' = "acquire" /\ wait' = "fresh"
    /\ UNCHANGED <<snp, held, sent, alive, curr, buf, netFaults>>

(* try_get_buffer(): a frame from GetStatus(), or the next of the pool.     *)
try_get_buffer ==
    /\ npc = "acquire" /\ wait # "late"
    /\ \/ /\ \E f \in sent : buf' = f /\ sent' = sent \ {f}
          /\ npc' = "fill" /\ UNCHANGED <<curr, wait, netFaults>>
       \/ /\ IF sent = {} THEN UNCHANGED netFaults ELSE NetFault   \* GetStatus() fails
          /\ IF curr \in 0..ExtraTxFrames
             THEN buf' = curr + 1 /\ curr' = curr + 1 /\ npc' = "fill" /\ UNCHANGED wait
             ELSE wait' = "tried" /\ UNCHANGED <<buf, curr, npc>>
          /\ UNCHANGED sent
    /\ UNCHANGED <<snp, held, alive>>

(* The stack writes the frame, then Transmit(), whose result is ignored.    *)
TxToken_consume ==
    /\ npc = "fill" /\ npc' = "idle" /\ buf' = NoFrame
    /\ \/ snp = "initialized" /\ held' = held \cup {buf} /\ UNCHANGED netFaults
       \/ UNCHANGED held /\ IF snp = "initialized" THEN NetFault ELSE UNCHANGED netFaults
    /\ UNCHANGED <<snp, sent, alive, curr, wait>>

(* loop_with_timeout(): the timer is looked at before each try; when it     *)
(* fails the wait starts anew.                                              *)
Timer ==
    /\ npc = "acquire"
    /\ \/ wait = "tried" /\ wait' = "late" /\ UNCHANGED netFaults
       \/ wait # "late" /\ NetFault /\ wait' = "fresh"
    /\ UNCHANGED <<snp, held, sent, alive, curr, npc, buf>>

(* Mutant: the pool is not started anew. *)
Timeout_curr_kept ==
    /\ npc = "acquire" /\ wait = "late"
    /\ reset_simple_network(wait' = "fresh" /\ curr' = curr /\ npc' = npc,
                            npc' = "panic" /\ UNCHANGED <<wait, curr>>)
    /\ UNCHANGED <<alive, buf>>

(* "Timeout recycling TX buffers": the network is reset and all frames are  *)
(* free again; a reset that fails is a panic.                               *)
Timeout ==
    /\ npc = "acquire" /\ wait = "late"
    /\ reset_simple_network(wait' = "fresh" /\ curr' = 0 /\ npc' = npc,
                            npc' = "panic" /\ UNCHANGED <<wait, curr>>)
    /\ UNCHANGED <<alive, buf>>

(* The firmware, external: it finishes a frame; another of its services     *)
(* asks for the status and gets a frame of GBL.                             *)
FwTransmits ==
    /\ \E f \in held : held' = held \ {f} /\ sent' = sent \cup {f}
    /\ UNCHANGED <<snp, alive, curr, npc, buf, wait, netFaults>>

FwHijacks ==
    /\ NetFault /\ \E f \in sent : sent' = sent \ {f}
    /\ UNCHANGED <<snp, held, alive, curr, npc, buf, wait>>

NetDevice == init \/ next_session \/ try_get_buffer \/ TxToken_consume \/ Timeout
NetNext == NetDevice \/ drop \/ transmit \/ Timer \/ FwTransmits \/ FwHijacks
           \/ (npc = "panic" /\ UNCHANGED netVars)

(* A frame that is written or freed is not one the firmware works on or     *)
(* will give back: the promise of the unsafe blocks around Transmit().      *)
FrameExclusive ==
    /\ npc = "fill" => buf \in alive \ (held \cup sent)
    /\ held \subseteq alive

(* Somebody who wants to send gets a frame, however many the firmware keeps.*)
TxProgress == npc = "acquire" ~> npc \in {"fill", "panic"}
=============================================================================
