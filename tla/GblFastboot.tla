---------------------------- MODULE GblFastboot ----------------------------
(***************************************************************************)
(* GBL Fastboot (gbl/libgbl/src/fastboot): the command loop and the        *)
(* background tasks it starts, which share download buffers and disks.     *)
(* The loop and the tasks are futures polled in turn, so a step here is    *)
(* what runs between two awaits.  A command takes a disk (the RefCell of   *)
(* GblDisk) and a buffer (the BufferPool) and hands both to a task; a task *)
(* returns them when its write is done.                                    *)
(***************************************************************************)
EXTENDS Naturals, FiniteSets

CONSTANTS
    NumDisks,     \* block devices, disks[0..NumDisks)
    Bufs,         \* download buffers of the pool
    Workers,      \* capacity of the task container
    Images,       \* images the host downloads
    Sparse,       \* those in the sparse format
    None,
    Scrap,        \* bytes that are no image: zeros, fetched, torn or mixed data
    IoErrors,     \* may a disk write fail?
    SendErrors,   \* may the transport fail to deliver a message?
    Disciplined   \* does the host flash only right after a download that was OKAY,
                  \* or with nothing staged at all?

ASSUME FastbootAssumption ==
    /\ NumDisks \in Nat \ {0} /\ Workers \in Nat \ {0} /\ IsFiniteSet(Bufs)
    /\ Sparse \subseteq Images
    /\ None \notin Images \cup Bufs \cup {Scrap} /\ Scrap \notin Images
    /\ IoErrors \in BOOLEAN /\ SendErrors \in BOOLEAN /\ Disciplined \in BOOLEAN

Disks == 1..NumDisks
Contents == Images \cup {Scrap}

VARIABLES
    disk,                    \* what the flashed range of each disk holds
    buf,                     \* the bytes at the start of each buffer
    free,                    \* buffers in the pool
    borrowed,                \* disks whose RefCell is mutably borrowed
    tasks,                   \* the task container
    current_download_buffer,
    current_download_size,   \* the image whose length it is; None is 0
    enable_async_task,
    cmd,                     \* the command being served, or the last one
    step,                    \* where the command loop stands
    task,                    \* the task the command has built
    next,                    \* the disk sync_all_blocks() waits for
    reply,                   \* the command's reply
    staged,                  \* history: the image last downloaded and not yet taken
    promised                 \* history: what each disk will hold once the tasks are done

host == <<cmd, reply>>
download == <<current_download_buffer, current_download_size, staged>>
storage == <<disk, borrowed, tasks, promised>>
vars == <<disk, buf, free, borrowed, tasks, download, enable_async_task, host, step, task, next, promised>>

(* A task owns its disk and its buffer; `wants` is history: the download    *)
(* the host meant.                                                          *)
Task == [kind: {"flash", "sparse", "erase", "gpt"}, disk: Disks, buf: Bufs,
         size: Images \cup {None}, wants: Images \cup {None}, begun: BOOLEAN]
ASSUME NoneIsNoTask == None \notin Task

Stopped == {"rebooted", "returned", "task_panic", "busy_panic"}

Init ==
    /\ disk = [d \in Disks |-> Scrap] /\ promised = disk
    /\ buf = [b \in Bufs |-> Scrap] /\ free = Bufs
    /\ borrowed = {} /\ tasks = {} /\ task = None
    /\ current_download_buffer = None /\ current_download_size = None /\ staged = None
    /\ enable_async_task = FALSE
    /\ cmd = [op |-> "none", disk |-> 1, img |-> None] /\ step = "idle" /\ next = 1 /\ reply = "none"

-----------------------------------------------------------------------------
(* The host may not get the reply; the session then ends with an error and  *)
(* the next one goes on with the same GblFastboot.                          *)
Reply(r) == reply' \in IF SendErrors THEN {r, "lost"} ELSE {r}

(* Once a command is answered only what kind it was is still of interest.   *)
Served(op) == [op |-> IF op \in {"download", "sync", "set_active"} THEN op ELSE "none",
               disk |-> 1, img |-> None]
Answer(r) == Reply(r) /\ step' = "idle" /\ cmd' = Served(cmd.op)

(* `boot` and `continue` end the command loop, unless their reply is lost.  *)
AnswerAndEnd(r) ==
    /\ Reply(r) /\ cmd' = Served(cmd.op)
    /\ step' = IF reply' = "lost" THEN "idle" ELSE "ended"

Receive(op, d, i, s) ==
    /\ step = "idle" /\ step' = s /\ cmd' = [op |-> op, disk |-> d, img |-> i] /\ reply' = "none"
    /\ UNCHANGED <<storage, buf, free, download, enable_async_task, task, next>>

(* Bad arguments, unknown partitions, the variables of the backend and the  *)
(* oem commands that only read are answered without a change of state.      *)
Simple(r) ==
    /\ step = "idle" /\ Reply(r) /\ cmd' = Served("none")
    /\ UNCHANGED <<storage, buf, free, download, enable_async_task, step, task, next>>

set_async(on) ==
    /\ step = "idle" /\ Reply("okay") /\ cmd' = Served("none")
    /\ enable_async_task' = on
    /\ UNCHANGED <<storage, buf, free, download, step, task, next>>

Commands ==
    \/ \E i \in Images : Receive("download", 1, i, "buffer")
    \/ \E d \in Disks :
         \/ /\ Disciplined => \/ cmd.op = "download" /\ reply = "okay"
                           \/ current_download_buffer = None
            /\ \E op \in {"flash", "flash_gpt"} : Receive(op, d, None, "disk")
         \/ \E op \in {"erase", "erase_gpt", "fetch"} : Receive(op, d, None, "disk")
    \/ \E op \in {"sync", "set_active"} : Receive(op, 1, None, "sync")
    \/ \E op \in {"continue", "reboot"} : Receive(op, 1, None, "info")
    \/ Receive("boot", 1, None, "boot")
    \/ Receive("getvar", 1, None, "buffer")
    \/ \E r \in {"okay", "fail"} : Simple(r)
    \/ \E on \in BOOLEAN : set_async(on)

-----------------------------------------------------------------------------
(* Mutant: the disk is not waited for. *)
wait_partition_io_once ==
    /\ step = "disk"
    /\ borrowed' = IF cmd.op \in {"flash_gpt", "erase_gpt"} THEN borrowed ELSE borrowed \cup {cmd.disk}
    /\ step' = CASE cmd.op \in {"flash", "flash_gpt"} -> "take"
                 [] cmd.op \in {"erase", "fetch"}     -> "buffer"
                 [] cmd.op = "erase_gpt"              -> "gpt"
    /\ UNCHANGED <<disk, tasks, promised, buf, free, download, enable_async_task, host, task, next>>

(* wait_partition_io(): the GPT commands drop what they get at once.        *)
wait_partition_io ==
    /\ step = "disk" /\ cmd.disk \notin borrowed
    /\ borrowed' = IF cmd.op \in {"flash_gpt", "erase_gpt"} THEN borrowed ELSE borrowed \cup {cmd.disk}
    /\ step' = CASE cmd.op \in {"flash", "flash_gpt"} -> "take"
                 [] cmd.op \in {"erase", "fetch"}     -> "buffer"
                 [] cmd.op = "erase_gpt"              -> "gpt"
    /\ UNCHANGED <<disk, tasks, promised, buf, free, download, enable_async_task, host, task, next>>

(* allocate_async(): any free buffer, as soon as there is one.              *)
allocate(b) == b \in free /\ free' = free \ {b}

(* get_download_buffer(): the current buffer, or one from the pool as soon  *)
(* as a task returns it.                                                    *)
get_download_buffer ==
    /\ step = "buffer"
    /\ IF current_download_buffer = None
       THEN \E b \in Bufs : allocate(b) /\ current_download_buffer' = b
       ELSE UNCHANGED <<free, current_download_buffer>>
    /\ step' = IF cmd.op = "erase" THEN "take" ELSE cmd.op
    /\ UNCHANGED <<storage, buf, current_download_size, staged, enable_async_task, host, task, next>>

(* getvar max-download-size, getvar all: the length of the download buffer  *)
(* is asked of a buffer, which stays the current one.                       *)
get_var ==
    /\ step = "getvar"
    /\ \E r \in {"okay", "fail"} : Answer(r)
    /\ UNCHANGED <<storage, buf, free, download, enable_async_task, task, next>>

(* All bytes arrive: download_complete().                                   *)
download_complete ==
    /\ step = "download"
    /\ buf' = [buf EXCEPT ![current_download_buffer] = cmd.img]
    /\ current_download_size' = cmd.img /\ staged' = cmd.img
    /\ Answer("okay")
    /\ UNCHANGED <<storage, free, current_download_buffer, enable_async_task, task, next>>

(* The download is refused for its size, or fails after any of its bytes.   *)
DownloadFails ==
    /\ step = "download"
    /\ \E c \in {buf[current_download_buffer], Scrap} : buf' = [buf EXCEPT ![current_download_buffer] = c]
    /\ Answer("fail")
    /\ UNCHANGED <<storage, free, download, enable_async_task, task, next>>

(* The buffer is fetch's scratch space; nothing is read for an empty range. *)
fetch ==
    /\ step = "fetch"
    /\ \E c \in {buf[current_download_buffer], Scrap} : buf' = [buf EXCEPT ![current_download_buffer] = c]
    /\ borrowed' = borrowed \ {cmd.disk}
    /\ \E r \in {"okay", "fail"} : Answer(r)
    /\ UNCHANGED <<disk, tasks, promised, free, download, enable_async_task, task, next>>

-----------------------------------------------------------------------------
(* is_sparse_image() looks at the whole buffer.                             *)
Workload(op) ==
    CASE op = "flash" /\ buf[current_download_buffer] \in Sparse -> "sparse"
      [] op = "flash_gpt" -> "gpt"
      [] OTHER -> op

NewTask == [kind |-> Workload(cmd.op), disk |-> cmd.disk, buf |-> current_download_buffer,
            size |-> current_download_size, wants |-> staged, begun |-> FALSE]

(* Mutant: the buffer stays the current download buffer as well. *)
take_download_keep == /\ current_download_size' = None /\ staged' = None
                      /\ UNCHANGED current_download_buffer

take_download == /\ current_download_buffer' = None
                 /\ current_download_size' = None /\ staged' = None

(* Returning the disk the command holds.                                    *)
DropIo == borrowed' = borrowed \ {cmd.disk}

(* "No download", "No GPT downloaded".                                      *)
NothingStaged ==
    /\ step = "take" /\ current_download_buffer = None
    /\ DropIo /\ Answer("fail")
    /\ UNCHANGED <<disk, tasks, promised, buf, free, download, enable_async_task, task, next>>

(* Mutant: the buffer is not given back. *)
DoesNotFit_leak ==
    /\ step = "take" /\ current_download_buffer # None /\ cmd.op = "flash"
    /\ take_download /\ DropIo /\ Answer("fail")
    /\ UNCHANGED <<disk, tasks, promised, buf, free, enable_async_task, task, next>>

(* The image is larger than the partition: sub() fails after the download   *)
(* was taken, and both are dropped.                                         *)
DoesNotFit ==
    /\ step = "take" /\ current_download_buffer # None /\ cmd.op = "flash"
    /\ free' = free \cup {current_download_buffer}
    /\ take_download /\ DropIo /\ Answer("fail")
    /\ UNCHANGED <<disk, tasks, promised, buf, enable_async_task, task, next>>

BuildTask ==
    /\ step = "take" /\ current_download_buffer # None
    /\ task' = NewTask
    /\ take_download
    /\ step' = IF cmd.op = "flash_gpt" THEN "gpt_info"
               ELSE IF enable_async_task THEN "schedule" ELSE "inline"
    /\ UNCHANGED <<storage, buf, free, enable_async_task, host, next>>

(* What a task leaves on its disk.  A raw image is cut at the download size;*)
(* a sparse one brings its own.                                             *)
Written(t) ==
    CASE t.kind = "gpt"    -> disk[t.disk]
      [] t.kind = "erase"  -> Scrap
      [] t.kind = "sparse" -> buf[t.buf]
      [] t.kind = "flash"  -> IF t.size = None THEN disk[t.disk]
                              ELSE IF t.size = buf[t.buf] THEN t.size ELSE Scrap

(* schedule_task() with async tasks on: waits for room in the container.    *)
(* The INFO that follows may fail, with the task already launched.          *)
Launch ==
    /\ step = "schedule" /\ Cardinality(tasks) < Workers
    /\ tasks' = tasks \cup {task} /\ task' = None
    /\ promised' = [promised EXCEPT ![task.disk] = Written(task)]
    /\ \E r \in {"okay"} \cup (IF SendErrors THEN {"fail"} ELSE {}) : Answer(r)
    /\ UNCHANGED <<disk, borrowed, buf, free, download, enable_async_task, next>>

(* The buffer after the write: write_sparse_image() and the zero fill use   *)
(* it as scratch space, a raw write leaves it as it was.                    *)
Used(t) == [buf EXCEPT ![t.buf] = IF t.kind = "flash" THEN buf[t.buf] ELSE Scrap]

(* schedule_task() without: the command runs the task and reports errors.   *)
RunInline ==
    /\ step = "inline"
    /\ \/ disk' = [disk EXCEPT ![task.disk] = Written(task)] /\ Answer("okay")
       \/ IoErrors /\ disk' = [disk EXCEPT ![task.disk] = Scrap] /\ Answer("fail")
    /\ promised' = [promised EXCEPT ![task.disk] = disk'[task.disk]]
    /\ buf' = Used(task) /\ free' = free \cup {task.buf}
    /\ DropIo /\ task' = None
    /\ UNCHANGED <<tasks, download, enable_async_task, next>>

(* Mutant: the disk is given back when the write starts.                    *)
TaskBegins_unlocked(t) ==
    /\ ~t.begun /\ step \notin Stopped
    /\ tasks' = (tasks \ {t}) \cup {[t EXCEPT !.begun = TRUE]}
    /\ disk' = [disk EXCEPT ![t.disk] = Scrap]
    /\ borrowed' = borrowed \ {t.disk}
    /\ UNCHANGED <<promised, buf, free, download, enable_async_task, host, step, task, next>>

(* A background task is polled: it writes, and at the end drops its disk    *)
(* and its buffer, or panics on an error.                                   *)
TaskBegins(t) ==
    /\ ~t.begun /\ step \notin Stopped
    /\ tasks' = (tasks \ {t}) \cup {[t EXCEPT !.begun = TRUE]}
    /\ disk' = [disk EXCEPT ![t.disk] = IF t.kind = "flash" /\ t.size = None THEN disk[t.disk] ELSE Scrap]
    /\ UNCHANGED <<borrowed, promised, buf, free, download, enable_async_task, host, step, task, next>>

TaskEnds(t) ==
    /\ t.begun /\ step \notin Stopped
    /\ tasks' = tasks \ {t}
    /\ disk' = [disk EXCEPT ![t.disk] = Written(t)]
    /\ borrowed' = borrowed \ {t.disk}
    /\ buf' = Used(t) /\ free' = free \cup {t.buf}
    /\ UNCHANGED <<promised, download, enable_async_task, host, step, task, next>>

TaskFails(t) ==
    /\ IoErrors /\ t.begun /\ step \notin Stopped
    /\ step' = "task_panic"
    /\ UNCHANGED <<storage, buf, free, download, enable_async_task, host, task, next>>

-----------------------------------------------------------------------------
(* "Updating GPT..." is sent between the wait and the update.               *)
GptInfo ==
    /\ step = "gpt_info"
    /\ \/ step' = "gpt" /\ UNCHANGED <<free, task, host>>
       \/ SendErrors /\ free' = free \cup {task.buf} /\ task' = None /\ Answer("fail")
    /\ UNCHANGED <<storage, buf, download, enable_async_task, next>>

(* update_gpt(), erase_gpt(): NotReady is answered by panic!("Should not be *)
(* busy"); otherwise the GPT is written, or the command fails.              *)
UpdateGpt ==
    /\ step = "gpt"
    /\ IF cmd.disk \in borrowed
       THEN step' = "busy_panic" /\ UNCHANGED <<free, task, host>>
       ELSE /\ \E r \in {"okay", "fail"} : Answer(r)
            /\ free' = IF task = None THEN free ELSE free \cup {task.buf}
            /\ task' = None
    /\ UNCHANGED <<storage, buf, download, enable_async_task, next>>

(* boot: the image must be staged and the disks it reads not busy; the      *)
(* buffer is dropped in any case.                                           *)
boot ==
    /\ step = "boot"
    /\ IF current_download_buffer = None
       THEN AnswerAndEnd("fail") /\ UNCHANGED <<free, download>>
       ELSE /\ free' = free \cup {current_download_buffer} /\ take_download
            /\ \/ borrowed = {} /\ AnswerAndEnd("okay")
               \/ AnswerAndEnd("fail")
    /\ UNCHANGED <<storage, buf, enable_async_task, task, next>>

(* "Syncing storage..."; if it cannot be sent the command fails, and for    *)
(* `continue` that still ends the loop.                                     *)
SyncInfo ==
    /\ step = "info"
    /\ \/ step' = "sync" /\ UNCHANGED host
       \/ SendErrors /\ cmd.op = "continue" /\ AnswerAndEnd("fail")
       \/ SendErrors /\ cmd.op = "reboot" /\ Answer("fail")
    /\ UNCHANGED <<storage, buf, free, download, enable_async_task, task, next>>

(* Mutant: sync_all_blocks() skips the first disk. *)
sync_all_blocks_skip ==
    /\ step = "sync" /\ next =< NumDisks /\ (next = 1 \/ next \notin borrowed)
    /\ next' = next + 1
    /\ UNCHANGED <<storage, buf, free, download, enable_async_task, host, step, task>>

(* sync_all_blocks(): each disk in turn is waited for and let go.           *)
sync_all_blocks ==
    /\ step = "sync" /\ next =< NumDisks /\ next \notin borrowed
    /\ next' = next + 1
    /\ UNCHANGED <<storage, buf, free, download, enable_async_task, host, step, task>>

Synced ==
    /\ step = "sync" /\ next > NumDisks /\ next' = 1
    /\ \/ cmd.op = "sync" /\ Answer("okay")
       \/ cmd.op = "set_active" /\ \E r \in {"okay", "fail"} : Answer(r)
       \/ cmd.op = "continue" /\ AnswerAndEnd("okay")
       \/ cmd.op = "reboot" /\ step' = "rebooted" /\ reply' = "okay" /\ UNCHANGED cmd
       \/ cmd.op = "reboot" /\ Answer("fail")   \* unsupported, or it came back
    /\ UNCHANGED <<storage, buf, free, download, enable_async_task, task>>

(* Mutant: run() does not wait for the tasks. *)
RunReturns_early ==
    /\ step = "ended" /\ step' = "returned"
    /\ UNCHANGED <<storage, buf, free, download, enable_async_task, host, task, next>>

(* run() returns once the loop has ended and the container is empty.        *)
RunReturns ==
    /\ step = "ended" /\ tasks = {} /\ step' = "returned"
    /\ UNCHANGED <<storage, buf, free, download, enable_async_task, host, task, next>>

(* The bootloader has gone on, rebooted or panicked.                        *)
Over == step \in Stopped /\ UNCHANGED vars

CommandLoop ==
    \/ wait_partition_io \/ get_download_buffer \/ get_var
    \/ download_complete \/ DownloadFails \/ fetch
    \/ NothingStaged \/ DoesNotFit \/ BuildTask \/ Launch \/ RunInline
    \/ GptInfo \/ UpdateGpt \/ boot \/ SyncInfo \/ sync_all_blocks \/ Synced \/ RunReturns

Next ==
    \/ Commands \/ CommandLoop \/ Over
    \/ \E t \in tasks : TaskBegins(t) \/ TaskEnds(t) \/ TaskFails(t)

Spec == Init /\ [][Next]_vars

(* join() polls the loop and every task in turn, and every disk answers in  *)
(* the end, with success or an error; a send ends with its timeout.  The    *)
(* host owes nothing, not even the data of its download: over USB           *)
(* receive_packet() waits for the next packet without a limit.              *)
TaskOn(d) == \E t \in tasks : t.disk = d /\ (TaskBegins(t) \/ TaskEnds(t) \/ TaskFails(t))
FairSpec == Spec /\ WF_vars(step # "download" /\ CommandLoop) /\ \A d \in Disks : WF_vars(TaskOn(d))

-----------------------------------------------------------------------------
(* Type invariant; the container never holds more than it can.              *)
TypeOK ==
    /\ disk \in [Disks -> Contents] /\ promised \in [Disks -> Contents] /\ buf \in [Bufs -> Contents]
    /\ free \subseteq Bufs /\ borrowed \subseteq Disks
    /\ tasks \subseteq Task /\ Cardinality(tasks) =< Workers /\ task \in Task \cup {None}
    /\ current_download_buffer \in Bufs \cup {None}
    /\ current_download_size \in Images \cup {None} /\ staged \in Images \cup {None}
    /\ enable_async_task \in BOOLEAN /\ next \in 1..(NumDisks + 1)
    /\ reply \in {"none", "okay", "fail", "lost"}
    /\ step \in Stopped \cup {"idle", "disk", "buffer", "getvar", "download", "fetch", "take", "inline",
                              "schedule", "gpt_info", "gpt", "boot", "info", "sync", "ended"}

(* No buffer is lost or shared: each is in the pool, or the current         *)
(* download buffer, or owned by one task.                                   *)
TaskBufs == {t.buf : t \in tasks}
CmdBufs == IF task = None THEN {} ELSE {task.buf}
CurBufs == {current_download_buffer} \ {None}
BuffersAccounted ==
    /\ Bufs = free \cup TaskBufs \cup CmdBufs \cup CurBufs
    /\ Cardinality(Bufs) = Cardinality(free) + Cardinality(tasks) + Cardinality(CmdBufs)
                             + Cardinality(CurBufs)

(* A disk is borrowed exactly while one task or the command works on it, as *)
(* long as nothing has panicked.                                            *)
CmdDisks == IF step \in {"fetch", "inline", "schedule"}
               \/ (step = "take" /\ cmd.op # "flash_gpt")
               \/ (step = "buffer" /\ cmd.op \in {"erase", "fetch"})
            THEN {cmd.disk} ELSE {}
DisksAccounted ==
    step # "task_panic" =>
    /\ borrowed = {t.disk : t \in tasks} \cup CmdDisks
    /\ \A t \in tasks : t.disk \notin CmdDisks /\ \A u \in tasks \ {t} : u.disk # t.disk

(* Buffers and disks are neither lost nor shared, whichever step of a flash,*)
(* an erase or a fetch fails, and the container is never over its limit.    *)
ResourcesAccounted == TypeOK /\ BuffersAccounted /\ DisksAccounted

(* panic!("Should not be busy") in `flash gpt` and `erase gpt` is never     *)
(* reached.                                                                 *)
NeverBusy == step # "busy_panic"

(* After "oem gbl-sync-tasks", set_active and before a reboot, and when     *)
(* run() hands over to the boot flow, every flash that was accepted is on   *)
(* its disk (test_reboot_sync_all_blocks, test_continue_sync_all_blocks).   *)
SyncedMeansWritten ==
    \/ step = "idle" /\ cmd.op \in {"sync", "set_active"} /\ reply = "okay"
    \/ step \in {"rebooted", "returned"}
    => tasks = {} /\ disk = promised

(* "Image flashing task. (partition io, downloaded data, data size)": a     *)
(* flash writes the image the host downloaded for it.                       *)
FlashesDownloaded ==
    \A t \in tasks \cup ({task} \ {None}) :
        t.kind = "sparse" \/ (t.kind = "flash" /\ t.size # None) => Written(t) = t.wants

(* Every command is answered, or the session is over, or it is a download   *)
(* that has its buffer and waits for the host: no command waits for ever    *)
(* for a disk, a buffer, room in the container or the tasks.                *)
CommandsAnswered == step # "idle" ~> step \in {"idle", "download"} \cup Stopped

=============================================================================
