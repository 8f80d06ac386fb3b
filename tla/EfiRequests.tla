---------------------------- MODULE EfiRequests ----------------------------
(***************************************************************************)
(* Asynchronous requests to the firmware: block I/O (libefi block_io2.rs,  *)
(* block_io.rs, efi_blocks.rs), USB sends with a timeout and the periodic  *)
(* timer of a local session (libefi utils.rs, local_session.rs), each a    *)
(* future that waits for an EFI event and is polled by the cyclic executor *)
(* (gbl/libasync).  The firmware works on a request between polls.         *)
(***************************************************************************)
EXTENDS Naturals, Sequences, SequencesExt

CONSTANTS
    Disks, Usb, Local,  \* the futures of each kind
    MaxIoFaults         \* firmware calls that fail

ASSUME RequestAssumption == Disks \cap (Usb \cup Local) = {} /\ Usb \cap Local = {} /\ MaxIoFaults \in Nat

VARIABLES
    queue,   \* CyclicExecutor::tasks
    idx,     \* the task polled next; 0 between two rounds
    st,      \* each future: "new", "wait", "ok", "err"
    event,   \* its EFI event: "none", "clear", "set"
    fw,      \* is the firmware at work on its buffer and token?
    status,  \* transaction_status in the token
    timer,   \* its timeout: "off", "armed", "due"
    crashed, \* has a task panicked?
    ioFaults

ioVars == <<queue, idx, st, event, fw, status, timer, crashed, ioFaults>>

Tasks == Disks \cup Usb \cup Local
Ended == {"ok", "err"}

IoInit ==
    /\ queue = <<>> /\ idx = 0
    /\ st = [t \in Tasks |-> "new"] /\ event = [t \in Tasks |-> "none"]
    /\ fw = [t \in Tasks |-> FALSE] /\ status = [t \in Tasks |-> "NOT_READY"]
    /\ timer = [t \in Tasks |-> "off"] /\ crashed = FALSE /\ ioFaults = 0

IoFault == ioFaults < MaxIoFaults /\ ioFaults' = ioFaults + 1

(* CyclicExecutor: poll() goes over the tasks; the last one takes the place *)
(* of one that ends, and is polled next.                                    *)
swap_remove(i) ==
    [j \in 1..(Len(queue) - 1) |-> IF j = i THEN queue[Len(queue)] ELSE queue[j]]
CyclicExecutor_poll(t, ends) ==
    /\ ~crashed /\ idx \in DOMAIN queue /\ queue[idx] = t
    /\ IF ends THEN queue' = swap_remove(idx) /\ UNCHANGED idx
       ELSE idx' = idx + 1 /\ UNCHANGED queue
CyclicExecutor_run ==
    /\ ~crashed
    /\ \/ idx > Len(queue) /\ idx' = 0
       \/ idx = 0 /\ queue # <<>> /\ idx' = 1
    /\ UNCHANGED <<queue, st, event, fw, status, timer, crashed, ioFaults>>

(* Events and timers.  The USB event belongs to the firmware: it is never   *)
(* closed, and may still be set by a send that was given up.                *)
create_event(t) == [event EXCEPT ![t] = IF t \in Usb /\ @ = "set" THEN "set" ELSE "clear"]
close_event(t) == IF t \in Usb THEN event ELSE [event EXCEPT ![t] = "none"]
check_event(t) == event[t] = "set"
set_timer(t) == [timer EXCEPT ![t] = IF t \in Disks THEN "off" ELSE "armed"]

(* A future returns: the event it owns is closed, its buffer and token may  *)
(* be freed.                                                                *)
Return(t, r) ==
    /\ CyclicExecutor_poll(t, TRUE)
    /\ st' = [st EXCEPT ![t] = r]
    /\ event' = close_event(t)
    /\ timer' = [timer EXCEPT ![t] = "off"]
    /\ UNCHANGED crashed

(* The first poll of a task, when it is spawned: CreateEvent() and the call *)
(* that starts the request.  Tasks are added between the rounds of the      *)
(* executor.                                                                *)
Start(t) ==
    /\ ~crashed /\ st[t] \in {"new"} \cup Ended /\ idx = 0
    /\ \/ IoFault /\ st' = [st EXCEPT ![t] = "err"] /\ UNCHANGED <<queue, event, fw, status, timer>>
       \/ /\ st' = [st EXCEPT ![t] = "wait"] /\ queue' = Append(queue, t)
          /\ event' = create_event(t)
          /\ fw' = [fw EXCEPT ![t] = t \notin Local]
          /\ status' = [status EXCEPT ![t] = "NOT_READY"]
          /\ timer' = set_timer(t)
          /\ UNCHANGED ioFaults
    /\ UNCHANGED <<idx, crashed>>

read_blocks_ex == \E t \in Disks : Start(t)
send_packet    == \E t \in Usb : Start(t)
RecurringTimer == \E t \in Local : Start(t)

(* EfiBlockDeviceIo::Sync: the call returns when the firmware is done.      *)
read_blocks ==
    /\ ~crashed
    /\ \E t \in Disks, r \in Ended :
          /\ st[t] \in {"new"} \cup Ended /\ st' = [st EXCEPT ![t] = r]
          /\ status' = [status EXCEPT ![t] = r]
          /\ IF r = "err" THEN IoFault ELSE UNCHANGED ioFaults
    /\ UNCHANGED <<queue, idx, event, fw, timer, crashed>>

yield_now(t) ==
    /\ CyclicExecutor_poll(t, FALSE)
    /\ UNCHANGED <<st, event, fw, status, timer, crashed, ioFaults>>

(* Mutant: a failing CheckEvent() ends the wait and leaves the request.     *)
CheckFails_abandoned(t) ==
    /\ IoFault /\ Return(t, "err") /\ UNCHANGED <<fw, status>>

(* wait_io_completion(): when CheckEvent() fails the device is reset, which *)
(* takes the request back; a reset that fails is a panic.                   *)
CheckFails(t) ==
    /\ IoFault
    /\ \/ Return(t, "err") /\ fw' = [fw EXCEPT ![t] = FALSE] /\ UNCHANGED status
       \/ /\ ~crashed /\ idx \in DOMAIN queue /\ queue[idx] = t /\ crashed' = TRUE
          /\ UNCHANGED <<queue, idx, st, event, fw, status, timer>>

Completed(t) ==
    /\ check_event(t) /\ Return(t, status[t]) /\ UNCHANGED <<fw, status, ioFaults>>

wait_io_completion ==
    \E t \in Disks : st[t] = "wait" /\
        (CheckFails(t) \/ Completed(t) \/ (~check_event(t) /\ yield_now(t)))

(* Mutant: the timer is not looked at. *)
select_patient(t) == IF check_event(t) THEN "answer" ELSE "pending"

(* select(): the timer and the answer are both polled in each round.        *)
select(t) == IF check_event(t) THEN "answer" ELSE IF timer[t] = "due" THEN "timeout" ELSE "pending"

(* with_timeout(): an answer counts even when it comes with the timeout.    *)
with_timeout ==
    \E t \in Usb : st[t] = "wait" /\
        \/ IoFault /\ Return(t, "err") /\ UNCHANGED <<fw, status>>
        \/ select(t) = "timeout" /\ Return(t, "err") /\ UNCHANGED <<fw, status, ioFaults>>
        \/ /\ select(t) = "answer" /\ CyclicExecutor_poll(t, TRUE)   \* CheckEvent() clears it
           /\ st' = [st EXCEPT ![t] = "ok"] /\ event' = [event EXCEPT ![t] = "clear"]
           /\ timer' = [timer EXCEPT ![t] = "off"] /\ UNCHANGED <<fw, status, crashed, ioFaults>>
        \/ select(t) = "pending" /\ yield_now(t)

(* LocalFastbootSession::update() waits for the next tick.                  *)
RecurringTimer_wait ==
    \E t \in Local : st[t] = "wait" /\
        \/ timer[t] = "due" /\ Return(t, "ok") /\ UNCHANGED <<fw, status, ioFaults>>
        \/ IoFault /\ Return(t, "err") /\ UNCHANGED <<fw, status>>
        \/ timer[t] = "armed" /\ yield_now(t)

(* assert_return(): a block request dropped before it is done is a panic.   *)
DropFuture ==
    /\ ~crashed /\ idx = 0
    /\ \E i \in 1..Len(queue) :
          LET t == queue[i] IN
          IF t \in Disks THEN crashed' = TRUE /\ UNCHANGED <<queue, idx, st, event, timer>>
          ELSE /\ queue' = RemoveAt(queue, i) /\ UNCHANGED idx
               /\ st' = [st EXCEPT ![t] = "err"] /\ timer' = [timer EXCEPT ![t] = "off"]
               /\ event' = close_event(t)
               /\ UNCHANGED crashed
    /\ IoFault /\ UNCHANGED <<fw, status>>

(* The firmware, external.                                                  *)
FwCompletes(t) ==
    /\ fw[t] /\ fw' = [fw EXCEPT ![t] = FALSE]
    /\ \E r \in Ended : /\ status' = [status EXCEPT ![t] = r]
                        /\ IF r = "err" THEN IoFault ELSE UNCHANGED ioFaults
    /\ event' = [event EXCEPT ![t] = IF t \in Usb \/ @ = "clear" THEN "set" ELSE @]
    /\ UNCHANGED <<queue, idx, st, timer, crashed>>
FwTimer(t) ==
    /\ timer[t] = "armed" /\ timer' = [timer EXCEPT ![t] = "due"]
    /\ UNCHANGED <<queue, idx, st, event, fw, status, crashed, ioFaults>>

Polls == wait_io_completion \/ with_timeout \/ RecurringTimer_wait \/ CyclicExecutor_run
IoNext == read_blocks_ex \/ send_packet \/ RecurringTimer \/ read_blocks \/ Polls
          \/ DropFuture \/ (\E t \in Tasks : FwCompletes(t) \/ FwTimer(t)) \/ (crashed /\ UNCHANGED ioVars)

(* While the firmware works on a block request the future that owns buffer, *)
(* token and event waits for it, and what it reports is what happened.      *)
RequestExclusive ==
    ~crashed => \A t \in Disks :
        /\ fw[t] => st[t] = "wait"
        /\ st[t] = "ok" => status[t] = "ok"

(* Every request ends: the executor starves nobody, and a send ends without *)
(* the firmware.                                                            *)
RequestsEnd == \A t \in Tasks : st[t] = "wait" ~> st[t] # "wait" \/ crashed
=============================================================================
