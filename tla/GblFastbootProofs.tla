------------------------- MODULE GblFastbootProofs -------------------------
(***************************************************************************)
(* Proofs about GblFastboot for every number of disks, buffers and tasks,  *)
(* every set of images, and with failing disks and transports.             *)
(***************************************************************************)
EXTENDS GblFastboot, FiniteSetTheorems, TLAPS

(* The command that may be under way at each step of the loop.              *)
CommandAt ==
    /\ cmd \in [op: {"none", "download", "flash", "flash_gpt", "erase", "erase_gpt", "fetch", "sync",
                     "set_active", "continue", "reboot", "boot", "getvar"},
                disk: Disks, img: Images \cup {None}]
    /\ step = "disk" => cmd.op \in {"flash", "flash_gpt", "erase", "erase_gpt", "fetch"}
    /\ step = "take" => cmd.op \in {"flash", "flash_gpt", "erase"}
    /\ step = "buffer" => cmd.op \in {"download", "erase", "fetch", "getvar"}
    /\ step \in {"buffer", "download"} /\ cmd.op = "download" => cmd.img \in Images
    /\ step = "download" => cmd.op = "download" /\ current_download_buffer # None
    /\ step = "getvar" => cmd.op = "getvar" /\ current_download_buffer # None
    /\ step = "fetch" => cmd.op = "fetch" /\ current_download_buffer # None
    /\ step \in {"inline", "schedule"} => cmd.op \in {"flash", "erase"}
    /\ step = "gpt_info" => cmd.op = "flash_gpt"
    /\ step = "gpt" => cmd.op \in {"flash_gpt", "erase_gpt"}
    /\ step = "sync" => cmd.op \in {"sync", "set_active", "continue", "reboot"}
    /\ step = "info" => cmd.op \in {"continue", "reboot"}
    /\ step = "boot" => cmd.op = "boot"

(* The command owns a task from the moment it is built until it is launched,*)
(* run or dropped.                                                          *)
Holding == step \in {"inline", "schedule", "gpt_info"} \/ (step = "gpt" /\ cmd.op = "flash_gpt")

TaskAt ==
    /\ step # "task_panic" => (task # None <=> Holding)
    /\ task # None => task \in Task
    /\ Holding => task.disk = cmd.disk
    /\ step \in {"inline", "schedule"} => task.kind # "gpt"
    /\ IsFiniteSet(tasks)
    /\ \A t \in tasks : t.kind # "gpt"

(* No two owners of a buffer, and no buffer without one.                    *)
BufferOwners ==
    /\ current_download_buffer \notin free
    /\ \A t \in tasks : t.buf \notin free /\ t.buf # current_download_buffer
    /\ \A t \in tasks : \A u \in tasks : t # u => t.buf # u.buf
    /\ task # None => /\ task.buf \notin free /\ task.buf # current_download_buffer
                      /\ \A t \in tasks : t.buf # task.buf
    /\ \A b \in Bufs : \/ b \in free \/ b = current_download_buffer
                       \/ task # None /\ b = task.buf
                       \/ \E t \in tasks : b = t.buf

(* Once the GPT commands have waited for their disk nobody can take it: the *)
(* only one to launch a task is the command itself.                         *)
DiskWaited ==
    (step = "take" /\ cmd.op = "flash_gpt") \/ step \in {"gpt_info", "gpt"} => cmd.disk \notin borrowed

(* sync_all_blocks() has let go of the disks before `next`.                 *)
SyncAt ==
    /\ step \notin {"sync", "task_panic"} => next = 1
    /\ step = "sync" => \A d \in Disks : d < next => d \notin borrowed

(* A disk that no task works on holds what was promised; the others will.   *)
Promises ==
    /\ \A d \in Disks : (\A t \in tasks : t.disk # d) => disk[d] = promised[d]
    /\ \A t \in tasks : promised[t.disk] = Written(t)

IInv ==
    /\ TypeOK /\ CommandAt /\ TaskAt /\ BufferOwners /\ DisksAccounted /\ DiskWaited /\ SyncAt
    /\ Promises /\ SyncedMeansWritten /\ NeverBusy

(* What is staged is one download, from its OKAY until the flash takes it.  *)
Meant ==
    current_download_buffer # None =>
        /\ staged \in Images /\ current_download_size = staged
        /\ buf[current_download_buffer] = staged

Meets(t) ==
    /\ t.kind = "sparse" => buf[t.buf] = t.wants
    /\ t.kind = "flash" /\ t.size # None => buf[t.buf] = t.wants /\ t.size = t.wants

FlashInv ==
    /\ step = "idle" /\ cmd.op = "download" /\ reply = "okay" => Meant
    /\ step \in {"disk", "take"} /\ cmd.op \in {"flash", "flash_gpt"} => Meant
    /\ task # None => Meets(task)
    /\ \A t \in tasks : Meets(t)

-----------------------------------------------------------------------------
(* What a step leaves alone.                                                *)
LEMMA OwnersFrame ==
    ASSUME BufferOwners, UNCHANGED <<free, current_download_buffer, task, tasks>>
    PROVE  BufferOwners'
BY DEF BufferOwners

LEMMA PromisesFrame ==
    ASSUME Promises, UNCHANGED <<disk, buf, promised, tasks>>
    PROVE  Promises'
BY DEF Promises, Written

LEMMA ServedType ==
    ASSUME NEW op
    PROVE  /\ Served(op).op \in {"none", "download", "sync", "set_active"}
           /\ Served(op).op \in {"none", op}
           /\ op \notin {"download", "sync", "set_active"} => Served(op).op = "none"
           /\ Served(op) \in [op: {"none", "download", "sync", "set_active"}, disk: Disks,
                               img: Images \cup {None}]
BY FastbootAssumption DEF Served, Disks

(* The steps that only move the command loop on.                            *)
LEMMA ReceiveInv ==
    ASSUME IInv, Commands
    PROVE  IInv'
<1>1. /\ step = "idle"
      /\ UNCHANGED <<disk, borrowed, tasks, promised, buf, free, current_download_buffer,
                     current_download_size, staged, task, next>>
      /\ enable_async_task' \in BOOLEAN
  BY DEF Commands, Receive, Simple, set_async, storage, download, IInv, TypeOK
<1>2. /\ reply' \in {"none", "okay", "fail", "lost"}
      /\ step' \in {"idle", "buffer", "disk", "sync", "info", "boot"}
  BY <1>1 DEF Commands, Receive, Simple, set_async, Reply
<1>3. CommandAt'
  <2>1. ASSUME NEW op \in {"download", "flash", "flash_gpt", "erase", "erase_gpt", "fetch", "sync",
                     "set_active", "continue", "reboot", "boot", "getvar"},
               NEW d \in Disks, NEW i \in Images \cup {None}, NEW s, Receive(op, d, i, s),
               s = "buffer" => op = "getvar" \/ (op = "download" /\ i \in Images),
               s = "disk" => op \in {"flash", "flash_gpt", "erase", "erase_gpt", "fetch"},
               s = "sync" => op \in {"sync", "set_active"},
               s = "info" => op \in {"continue", "reboot"}, s = "boot" => op = "boot",
               s \in {"buffer", "disk", "sync", "info", "boot"}
        PROVE  CommandAt'
    BY <2>1 DEF Receive, CommandAt
  <2>2. ASSUME step' = "idle", cmd' = Served("none") PROVE CommandAt'
    BY <2>2, ServedType DEF CommandAt
  <2>3. 1 \in Disks
    BY FastbootAssumption DEF Disks
  <2> QED BY <1>1, <2>1, <2>2, <2>3 DEF Commands, Simple, set_async
<1>4. TypeOK'
  BY <1>1, <1>2 DEF IInv, TypeOK
<1>5. TaskAt'
  BY <1>1, <1>2 DEF IInv, TaskAt, Holding
<1>6. DisksAccounted'
  <2>1. CmdDisks = {} /\ CmdDisks' = {}
    BY <1>1, <1>2, <1>3, ServedType DEF CmdDisks, Commands, Receive, Simple, set_async
  <2> QED BY <1>1, <2>1 DEF IInv, DisksAccounted
<1>7. DiskWaited' /\ NeverBusy'
  BY <1>2 DEF DiskWaited, NeverBusy
<1>8. SyncAt'
  BY <1>1, <1>2 DEF IInv, SyncAt, TypeOK, Disks
<1>9. SyncedMeansWritten'
  <2>1. CASE step' # "idle"
    BY <1>2, <2>1 DEF SyncedMeansWritten, Stopped
  <2>2. CASE step' = "idle"
    <3>1. cmd'.op = "none"
      BY <1>1, <2>2, ServedType DEF Commands, Receive, Simple, set_async
    <3> QED BY <2>2, <3>1 DEF SyncedMeansWritten
  <2> QED BY <2>1, <2>2
<1> QED BY <1>1, <1>3, <1>4, <1>5, <1>6, <1>7, <1>8, <1>9, OwnersFrame, PromisesFrame DEF IInv

(* A command is answered, or ends the loop: it owns nothing any more.       *)
LEMMA Answered ==
    ASSUME IInv, cmd' = Served(cmd.op), step' \in {"idle", "ended"},
           cmd.op \in {"sync", "set_active"} => step' = "ended"
    PROVE  /\ CommandAt' /\ DiskWaited' /\ NeverBusy' /\ SyncedMeansWritten'
           /\ CmdDisks' = {} /\ ~Holding' /\ step' # "task_panic"
           /\ next' = 1 => SyncAt'
<1>1. /\ cmd' \in [op: {"none", "download", "sync", "set_active"}, disk: Disks, img: Images \cup {None}]
      /\ cmd.op \notin {"sync", "set_active"} => cmd'.op \in {"none", "download"}
  BY ServedType
<1>2. CommandAt' /\ DiskWaited' /\ NeverBusy' /\ CmdDisks' = {} /\ ~Holding'
  BY <1>1 DEF CommandAt, DiskWaited, NeverBusy, CmdDisks, Holding
<1>3. SyncedMeansWritten'
  BY <1>1 DEF SyncedMeansWritten
<1>4. next' = 1 => SyncAt'
  BY DEF SyncAt
<1> QED BY <1>2, <1>3, <1>4

LEMMA AnswerGives ==
    ASSUME NEW r \in {"okay", "fail"}, Answer(r)
    PROVE  cmd' = Served(cmd.op) /\ step' = "idle" /\ reply' \in {"okay", "fail", "lost"}
BY DEF Answer, Reply

LEMMA AnswerAndEndGives ==
    ASSUME NEW r \in {"okay", "fail"}, AnswerAndEnd(r)
    PROVE  cmd' = Served(cmd.op) /\ step' \in {"idle", "ended"} /\ reply' \in {"okay", "fail", "lost"}
BY DEF AnswerAndEnd, Reply

(* A step of the loop that goes on with the same command.                   *)
LEMMA GoesOn ==
    ASSUME IInv, step' \in {"take", "buffer", "getvar", "gpt", "download", "fetch", "gpt_info", "schedule",
                            "inline", "sync"},
           next' = 1
    PROVE  SyncAt' /\ SyncedMeansWritten' /\ NeverBusy' /\ step' # "task_panic"
<1>1. \A d \in Disks : ~(d < 1)
  BY DEF Disks
<1> QED BY <1>1 DEF SyncAt, SyncedMeansWritten, NeverBusy

LEMMA WaitInv ==
    ASSUME IInv, wait_partition_io
    PROVE  IInv'
<1>1. /\ step = "disk" /\ cmd.disk \notin borrowed
      /\ cmd.op \in {"flash", "flash_gpt", "erase", "erase_gpt", "fetch"} /\ cmd.disk \in Disks
      /\ next = 1
  BY DEF wait_partition_io, IInv, CommandAt, SyncAt
<1>2. /\ borrowed' = IF cmd.op \in {"flash_gpt", "erase_gpt"} THEN borrowed ELSE borrowed \cup {cmd.disk}
      /\ step' = CASE cmd.op \in {"flash", "flash_gpt"} -> "take"
                   [] cmd.op \in {"erase", "fetch"}     -> "buffer"
                   [] cmd.op = "erase_gpt"              -> "gpt"
      /\ UNCHANGED <<disk, tasks, promised, buf, free, current_download_buffer,
                     current_download_size, staged, enable_async_task, cmd, reply, task, next>>
  BY DEF wait_partition_io, download, host
<1>3. \/ cmd.op \in {"flash", "flash_gpt"} /\ step' = "take"
      \/ cmd.op \in {"erase", "fetch"} /\ step' = "buffer"
      \/ cmd.op = "erase_gpt" /\ step' = "gpt"
  BY <1>1, <1>2
<1>4. TypeOK'
  BY <1>1, <1>2, <1>3 DEF IInv, TypeOK
<1>5. CommandAt' /\ TaskAt'
  BY <1>1, <1>2, <1>3 DEF IInv, CommandAt, TaskAt, Holding
<1>6. DisksAccounted'
  <2>1. CmdDisks = {} /\ CmdDisks' = IF cmd.op \in {"flash_gpt", "erase_gpt"} THEN {} ELSE {cmd.disk}
    BY <1>1, <1>2, <1>3 DEF CmdDisks
  <2>2. /\ borrowed = {t.disk : t \in tasks}
        /\ \A t \in tasks : \A u \in tasks \ {t} : u.disk # t.disk
    BY <1>1, <2>1 DEF IInv, DisksAccounted
  <2>3. \A t \in tasks : t.disk # cmd.disk
    BY <1>1, <2>2
  <2> QED BY <1>2, <2>1, <2>2, <2>3 DEF DisksAccounted
<1>7. DiskWaited'
  BY <1>1, <1>2, <1>3 DEF DiskWaited
<1>8. SyncAt' /\ SyncedMeansWritten' /\ NeverBusy'
  BY <1>1, <1>2, <1>3, GoesOn
<1> QED BY <1>2, <1>4, <1>5, <1>6, <1>7, <1>8, OwnersFrame, PromisesFrame DEF IInv

LEMMA GetBufferInv ==
    ASSUME IInv, get_download_buffer
    PROVE  IInv'
<1>1. /\ step = "buffer" /\ cmd.op \in {"download", "erase", "fetch", "getvar"} /\ next = 1
      /\ step' = IF cmd.op = "erase" THEN "take" ELSE cmd.op
      /\ UNCHANGED <<disk, borrowed, tasks, promised, buf, current_download_size, staged,
                     enable_async_task, cmd, reply, task, next>>
  BY DEF get_download_buffer, IInv, CommandAt, SyncAt, storage, host
<1>2. task = None
  BY <1>1 DEF IInv, TaskAt, Holding
<1>3. /\ free' \subseteq Bufs /\ current_download_buffer' \in Bufs
      /\ BufferOwners'
  <2>1. CASE current_download_buffer = None
    <3>1. PICK b \in Bufs : b \in free /\ free' = free \ {b} /\ current_download_buffer' = b
      BY <2>1 DEF get_download_buffer, allocate
    <3>2. None \notin Bufs /\ free \subseteq Bufs
      BY FastbootAssumption DEF IInv, TypeOK
    <3> QED BY <1>1, <1>2, <2>1, <3>1, <3>2 DEF BufferOwners, IInv
  <2>2. CASE current_download_buffer # None
    BY <1>1, <2>2, OwnersFrame DEF get_download_buffer, IInv, TypeOK
  <2> QED BY <2>1, <2>2
<1>4. TypeOK'
  BY <1>1, <1>3 DEF IInv, TypeOK
<1>5. CommandAt' /\ TaskAt'
  <2>1. current_download_buffer' # None
    BY <1>3, FastbootAssumption
  <2> QED BY <1>1, <2>1 DEF IInv, CommandAt, TaskAt, Holding
<1>6. DisksAccounted'
  <2>1. CmdDisks' = CmdDisks
    BY <1>1 DEF CmdDisks
  <2> QED BY <1>1, <2>1 DEF IInv, DisksAccounted
<1>7. DiskWaited'
  BY <1>1 DEF DiskWaited
<1>8. SyncAt' /\ SyncedMeansWritten' /\ NeverBusy'
  BY <1>1, GoesOn
<1> QED BY <1>1, <1>3, <1>4, <1>5, <1>6, <1>7, <1>8, PromisesFrame DEF IInv

LEMMA GetVarInv ==
    ASSUME IInv, get_var
    PROVE  IInv'
<1>1. /\ step = "getvar" /\ cmd.op = "getvar" /\ next = 1
      /\ UNCHANGED <<disk, borrowed, tasks, promised, buf, free, current_download_buffer,
                     current_download_size, staged, enable_async_task, task, next>>
  BY DEF IInv, CommandAt, SyncAt, get_var, storage, download
<1>2. cmd' = Served(cmd.op) /\ step' = "idle" /\ reply' \in {"okay", "fail", "lost"}
  <2>1. PICK r \in {"okay", "fail"} : Answer(r)
    BY DEF get_var
  <2> QED BY <2>1, AnswerGives
<1>3. TypeOK'
  BY <1>1, <1>2 DEF IInv, TypeOK
<1>4. /\ CommandAt' /\ DiskWaited' /\ NeverBusy' /\ SyncedMeansWritten' /\ SyncAt'
      /\ CmdDisks' = {} /\ ~Holding'
  BY <1>1, <1>2, Answered
<1>5. TaskAt'
  BY <1>1, <1>2, <1>4 DEF IInv, TaskAt, Holding
<1>6. DisksAccounted'
  BY <1>1, <1>4 DEF IInv, DisksAccounted, CmdDisks
<1> QED BY <1>1, <1>3, <1>4, <1>5, <1>6, OwnersFrame, PromisesFrame DEF IInv

(* The bytes of a buffer that no task owns are nobody else's.               *)
LEMMA ScratchPromises ==
    ASSUME IInv, NEW c, buf' = [buf EXCEPT ![current_download_buffer] = c],
           UNCHANGED <<disk, promised, tasks>>
    PROVE  Promises'
<1>1. \A t \in tasks : t \in Task /\ t.buf \in Bufs /\ t.buf # current_download_buffer
  BY DEF IInv, BufferOwners, TypeOK, Task
<1>2. \A t \in tasks : buf'[t.buf] = buf[t.buf]
  BY <1>1 DEF IInv, TypeOK
<1>3. \A t \in tasks : Written(t)' = Written(t)
  BY <1>2 DEF Written
<1> QED BY <1>3 DEF IInv, Promises

LEMMA DownloadInv ==
    ASSUME IInv, download_complete \/ DownloadFails
    PROVE  IInv'
<1>1. PICK c \in Contents : buf' = [buf EXCEPT ![current_download_buffer] = c]
  BY DEF IInv, TypeOK, CommandAt, Contents, download_complete, DownloadFails
<1>2. PICK r \in {"okay", "fail"} : Answer(r)
  BY DEF download_complete, DownloadFails
<1>3. /\ step = "download" /\ cmd.op = "download" /\ next = 1 /\ cmd.img \in Images
      /\ current_download_size' \in Images \cup {None} /\ staged' \in Images \cup {None}
      /\ UNCHANGED <<disk, borrowed, tasks, promised, free, current_download_buffer,
                     enable_async_task, task, next>>
  BY DEF IInv, CommandAt, SyncAt, TypeOK, download_complete, DownloadFails, storage, download
<1>4. cmd' = Served(cmd.op) /\ step' = "idle" /\ reply' \in {"okay", "fail", "lost"}
  BY <1>2, AnswerGives
<1>5. TypeOK'
  BY <1>1, <1>3, <1>4 DEF IInv, TypeOK
<1>6. /\ CommandAt' /\ DiskWaited' /\ NeverBusy' /\ SyncedMeansWritten' /\ SyncAt'
      /\ CmdDisks' = {} /\ ~Holding'
  BY <1>3, <1>4, Answered
<1>7. TaskAt'
  BY <1>3, <1>4, <1>6 DEF IInv, TaskAt, Holding
<1>8. DisksAccounted'
  BY <1>3, <1>6 DEF IInv, DisksAccounted, CmdDisks
<1> QED BY <1>1, <1>3, <1>5, <1>6, <1>7, <1>8, OwnersFrame, ScratchPromises DEF IInv

LEMMA FetchInv ==
    ASSUME IInv, fetch
    PROVE  IInv'
<1>1. PICK c \in Contents : buf' = [buf EXCEPT ![current_download_buffer] = c]
  BY DEF IInv, TypeOK, CommandAt, Contents, fetch
<1>2. PICK r \in {"okay", "fail"} : Answer(r)
  BY DEF fetch
<1>3. /\ step = "fetch" /\ cmd.op = "fetch" /\ next = 1 /\ borrowed' = borrowed \ {cmd.disk}
      /\ UNCHANGED <<disk, tasks, promised, free, current_download_buffer, current_download_size,
                     staged, enable_async_task, task, next>>
  BY DEF IInv, CommandAt, SyncAt, fetch, download
<1>4. cmd' = Served(cmd.op) /\ step' = "idle" /\ reply' \in {"okay", "fail", "lost"}
  BY <1>2, AnswerGives
<1>5. TypeOK'
  BY <1>1, <1>3, <1>4 DEF IInv, TypeOK
<1>6. /\ CommandAt' /\ DiskWaited' /\ NeverBusy' /\ SyncedMeansWritten' /\ SyncAt'
      /\ CmdDisks' = {} /\ ~Holding'
  BY <1>3, <1>4, Answered
<1>7. TaskAt'
  BY <1>3, <1>4, <1>6 DEF IInv, TaskAt, Holding
<1>8. DisksAccounted'
  BY <1>3, <1>6 DEF IInv, DisksAccounted, CmdDisks
<1> QED BY <1>1, <1>3, <1>5, <1>6, <1>7, <1>8, OwnersFrame, ScratchPromises DEF IInv

LEMMA NothingStagedInv ==
    ASSUME IInv, NothingStaged
    PROVE  IInv'
<1>1. /\ step = "take" /\ cmd.op \in {"flash", "flash_gpt", "erase"} /\ next = 1
      /\ borrowed' = borrowed \ {cmd.disk}
      /\ UNCHANGED <<disk, tasks, promised, buf, free, current_download_buffer,
                     current_download_size, staged, enable_async_task, task, next>>
  BY DEF IInv, CommandAt, SyncAt, NothingStaged, DropIo, download
<1>2. cmd' = Served(cmd.op) /\ step' = "idle" /\ reply' \in {"okay", "fail", "lost"}
  BY AnswerGives DEF NothingStaged
<1>3. TypeOK'
  BY <1>1, <1>2 DEF IInv, TypeOK
<1>4. /\ CommandAt' /\ DiskWaited' /\ NeverBusy' /\ SyncedMeansWritten' /\ SyncAt'
      /\ CmdDisks' = {} /\ ~Holding'
  BY <1>1, <1>2, Answered
<1>5. TaskAt'
  BY <1>1, <1>2, <1>4 DEF IInv, TaskAt, Holding
<1>6. DisksAccounted'
  BY <1>1, <1>4 DEF IInv, DisksAccounted, CmdDisks, DiskWaited
<1> QED BY <1>1, <1>3, <1>4, <1>5, <1>6, OwnersFrame, PromisesFrame DEF IInv

LEMMA DoesNotFitInv ==
    ASSUME IInv, DoesNotFit
    PROVE  IInv'
<1>1. /\ step = "take" /\ cmd.op = "flash" /\ next = 1 /\ current_download_buffer # None
      /\ borrowed' = borrowed \ {cmd.disk}
      /\ free' = free \cup {current_download_buffer} /\ current_download_buffer' = None
      /\ current_download_size' = None /\ staged' = None
      /\ UNCHANGED <<disk, tasks, promised, buf, enable_async_task, task, next>>
  BY DEF IInv, CommandAt, SyncAt, DoesNotFit, DropIo, take_download
<1>2. cmd' = Served(cmd.op) /\ step' = "idle" /\ reply' \in {"okay", "fail", "lost"}
  BY AnswerGives DEF DoesNotFit
<1>3. TypeOK'
  BY <1>1, <1>2 DEF IInv, TypeOK
<1>4. /\ CommandAt' /\ DiskWaited' /\ NeverBusy' /\ SyncedMeansWritten' /\ SyncAt'
      /\ CmdDisks' = {} /\ ~Holding'
  BY <1>1, <1>2, Answered
<1>5. TaskAt' /\ task = None
  BY <1>1, <1>2, <1>4 DEF IInv, TaskAt, Holding
<1>6. DisksAccounted'
  BY <1>1, <1>4 DEF IInv, DisksAccounted, CmdDisks
<1>7. BufferOwners'
  <2>1. None \notin Bufs /\ free \subseteq Bufs /\ \A t \in tasks : t.buf \in Bufs
    BY FastbootAssumption DEF IInv, TypeOK, Task
  <2> QED BY <1>1, <1>5, <2>1 DEF IInv, BufferOwners, TypeOK
<1> QED BY <1>1, <1>3, <1>4, <1>5, <1>6, <1>7, PromisesFrame DEF IInv

(* The command's own task: a new owner for its buffer and its disk.         *)
LEMMA BuildTaskInv ==
    ASSUME IInv, BuildTask
    PROVE  IInv'
<1>1. /\ step = "take" /\ cmd.op \in {"flash", "flash_gpt", "erase"} /\ next = 1
      /\ current_download_buffer \in Bufs /\ current_download_buffer # None /\ task' = NewTask
      /\ current_download_buffer' = None /\ current_download_size' = None /\ staged' = None
      /\ UNCHANGED <<disk, borrowed, tasks, promised, buf, free, enable_async_task, cmd, reply, next>>
  BY DEF IInv, TypeOK, CommandAt, SyncAt, BuildTask, take_download, storage, host
<1>2. \/ cmd.op = "flash_gpt" /\ step' = "gpt_info"
      \/ cmd.op # "flash_gpt" /\ step' \in {"schedule", "inline"}
  BY DEF BuildTask
<1>3. /\ Workload(cmd.op) \in {"flash", "sparse", "erase", "gpt"}
      /\ cmd.op # "flash_gpt" => Workload(cmd.op) # "gpt"
  BY <1>1 DEF Workload
<1>4. /\ task' \in Task /\ task'.disk = cmd.disk /\ task'.buf = current_download_buffer
      /\ task'.kind = Workload(cmd.op) /\ task' # None
  <2>1. /\ cmd.disk \in Disks /\ current_download_size \in Images \cup {None}
        /\ staged \in Images \cup {None}
    BY DEF IInv, TypeOK, CommandAt
  <2>2. task' \in Task
    BY <1>1, <1>3, <2>1 DEF NewTask, Task
  <2> QED BY <1>1, <2>2, NoneIsNoTask DEF NewTask
<1>5. TypeOK'
  BY <1>1, <1>2, <1>4 DEF IInv, TypeOK
<1>6. CommandAt'
  BY <1>1, <1>2 DEF IInv, CommandAt
<1>7. TaskAt'
  BY <1>1, <1>2, <1>3, <1>4 DEF IInv, TaskAt, Holding
<1>8. DisksAccounted'
  <2>1. CmdDisks' = CmdDisks
    BY <1>1, <1>2 DEF CmdDisks
  <2> QED BY <1>1, <2>1 DEF IInv, DisksAccounted
<1>9. DiskWaited'
  BY <1>1, <1>2 DEF IInv, DiskWaited
<1>10. BufferOwners'
  <2>1. None \notin Bufs /\ free \subseteq Bufs /\ \A t \in tasks : t.buf \in Bufs
    BY FastbootAssumption DEF IInv, TypeOK, Task
  <2>2. task = None
    BY <1>1 DEF IInv, TaskAt, Holding
  <2> QED BY <1>1, <1>4, <2>1, <2>2 DEF IInv, BufferOwners
<1>11. SyncAt' /\ SyncedMeansWritten' /\ NeverBusy'
  BY <1>1, <1>2, GoesOn
<1> QED BY <1>1, <1>5, <1>6, <1>7, <1>8, <1>9, <1>10, <1>11, PromisesFrame DEF IInv

LEMMA WrittenType ==
    ASSUME IInv, NEW t \in Task
    PROVE  Written(t) \in Contents
<1>1. t.disk \in Disks /\ t.buf \in Bufs /\ t.size \in Images \cup {None}
      /\ t.kind \in {"flash", "sparse", "erase", "gpt"}
  BY DEF Task
<1>2. disk[t.disk] \in Contents /\ buf[t.buf] \in Contents /\ Scrap \in Contents
  BY <1>1 DEF IInv, TypeOK, Contents
<1> QED BY <1>1, <1>2 DEF Written, Contents

(* schedule_task() hands the task to the container.                         *)
LEMMA LaunchInv ==
    ASSUME IInv, Launch
    PROVE  IInv'
<1>1. /\ step = "schedule" /\ cmd.op \in {"flash", "erase"} /\ next = 1 /\ Cardinality(tasks) < Workers
      /\ task \in Task /\ task # None /\ task.disk = cmd.disk /\ task.kind # "gpt"
      /\ tasks' = tasks \cup {task} /\ task' = None
      /\ promised' = [promised EXCEPT ![task.disk] = Written(task)]
      /\ UNCHANGED <<disk, borrowed, buf, free, current_download_buffer, current_download_size,
                     staged, enable_async_task, next>>
  BY DEF IInv, CommandAt, TaskAt, Holding, SyncAt, Launch, download
<1>2. cmd' = Served(cmd.op) /\ step' = "idle" /\ reply' \in {"okay", "fail", "lost"}
  <2>1. PICK r \in {"okay", "fail"} : Answer(r)
    BY DEF Launch
  <2> QED BY <2>1, AnswerGives
<1>3. /\ CommandAt' /\ DiskWaited' /\ NeverBusy' /\ SyncedMeansWritten' /\ SyncAt'
      /\ CmdDisks' = {} /\ ~Holding'
  BY <1>1, <1>2, Answered
<1>4. CmdDisks = {cmd.disk} /\ task.disk \in Disks
  BY <1>1 DEF CmdDisks, Task
<1>5. /\ borrowed = {t.disk : t \in tasks} \cup {task.disk}
      /\ \A t \in tasks : t.disk # task.disk /\ \A u \in tasks \ {t} : u.disk # t.disk
  BY <1>1, <1>4 DEF IInv, DisksAccounted
<1>6. IsFiniteSet(tasks') /\ Cardinality(tasks') =< Workers
  <2>1. IsFiniteSet(tasks) /\ task \notin tasks
    BY <1>5 DEF IInv, TaskAt
  <2>2. IsFiniteSet(tasks') /\ Cardinality(tasks') = Cardinality(tasks) + 1 /\ Cardinality(tasks) \in Nat
    BY <1>1, <2>1, FS_AddElement, FS_CardinalityType
  <2> QED BY <1>1, <2>2, FastbootAssumption
<1>7. TypeOK'
  <2>1. Written(task) \in Contents
    BY <1>1, WrittenType
  <2> QED BY <1>1, <1>2, <1>4, <1>6, <2>1 DEF IInv, TypeOK
<1>8. TaskAt'
  BY <1>1, <1>2, <1>3, <1>6 DEF IInv, TaskAt
<1>9. DisksAccounted'
  BY <1>1, <1>3, <1>5 DEF DisksAccounted
<1>10. BufferOwners'
  BY <1>1 DEF IInv, BufferOwners
<1>11. Promises'
  <2>1. \A t \in tasks' : Written(t)' = Written(t)
    BY <1>1 DEF Written
  <2>2. \A d \in Disks : d # task.disk => promised'[d] = promised[d]
    BY <1>1 DEF IInv, TypeOK
  <2>3. promised'[task.disk] = Written(task)
    BY <1>1, <1>4 DEF IInv, TypeOK
  <2>4. \A t \in tasks : t.disk \in Disks
    BY DEF IInv, TypeOK, Task
  <2> QED BY <1>1, <1>5, <2>1, <2>2, <2>3, <2>4 DEF IInv, Promises
<1> QED BY <1>3, <1>7, <1>8, <1>9, <1>10, <1>11 DEF IInv

-----------------------------------------------------------------------------
(* A write to one disk out of one buffer leaves what the tasks on the other *)
(* disks will write.                                                        *)
LEMMA WrittenFrame ==
    ASSUME IInv, NEW d \in Disks, NEW b \in Bufs, NEW w, NEW c,
           disk' = [disk EXCEPT ![d] = w], buf' = [buf EXCEPT ![b] = c],
           NEW t \in tasks, t.disk # d, t.buf # b
    PROVE  Written(t)' = Written(t)
<1>1. t.disk \in Disks /\ t.buf \in Bufs
  BY DEF IInv, TypeOK, Task
<1>2. disk'[t.disk] = disk[t.disk] /\ buf'[t.buf] = buf[t.buf]
  BY <1>1 DEF IInv, TypeOK
<1> QED BY <1>2 DEF Written

LEMMA UsedGives ==
    ASSUME IInv, NEW t \in Task
    PROVE  \E c \in Contents : Used(t) = [buf EXCEPT ![t.buf] = c]
<1>1. buf[t.buf] \in Contents /\ Scrap \in Contents
  BY DEF IInv, TypeOK, Task, Contents
<1> QED BY <1>1 DEF Used

(* schedule_task() without async tasks: the command is its own task.        *)
LEMMA RunInlineInv ==
    ASSUME IInv, RunInline
    PROVE  IInv'
<1>1. /\ step = "inline" /\ cmd.op \in {"flash", "erase"} /\ next = 1
      /\ task \in Task /\ task # None /\ task.disk = cmd.disk /\ task.kind # "gpt"
      /\ free' = free \cup {task.buf} /\ borrowed' = borrowed \ {task.disk} /\ task' = None
      /\ UNCHANGED <<tasks, current_download_buffer, current_download_size, staged,
                     enable_async_task, next>>
  BY DEF IInv, CommandAt, TaskAt, Holding, SyncAt, RunInline, DropIo, download
<1>2. task.disk \in Disks /\ task.buf \in Bufs
  BY <1>1 DEF Task
<1>3. PICK w \in Contents : disk' = [disk EXCEPT ![task.disk] = w]
  <2>1. Written(task) \in Contents /\ Scrap \in Contents
    BY <1>1, WrittenType DEF Contents
  <2> QED BY <2>1 DEF RunInline
<1>4. promised' = [promised EXCEPT ![task.disk] = w]
  <2>1. disk'[task.disk] = w
    BY <1>2, <1>3 DEF IInv, TypeOK
  <2> QED BY <2>1 DEF RunInline
<1>5. PICK c \in Contents : buf' = [buf EXCEPT ![task.buf] = c]
  BY <1>1, UsedGives DEF RunInline
<1>6. cmd' = Served(cmd.op) /\ step' = "idle" /\ reply' \in {"okay", "fail", "lost"}
  <2>1. Answer("okay") \/ Answer("fail")
    BY DEF RunInline
  <2> QED BY <2>1, AnswerGives
<1>7. /\ CommandAt' /\ DiskWaited' /\ NeverBusy' /\ SyncedMeansWritten' /\ SyncAt'
      /\ CmdDisks' = {} /\ ~Holding'
  BY <1>1, <1>6, Answered
<1>8. /\ borrowed = {t.disk : t \in tasks} \cup {task.disk}
      /\ \A t \in tasks : t.disk # task.disk /\ \A u \in tasks \ {t} : u.disk # t.disk
  <2>1. CmdDisks = {task.disk}
    BY <1>1 DEF CmdDisks
  <2> QED BY <1>1, <2>1 DEF IInv, DisksAccounted
<1>9. TypeOK'
  <2>1. disk' \in [Disks -> Contents] /\ promised' \in [Disks -> Contents]
    BY <1>3, <1>4 DEF IInv, TypeOK
  <2>2. buf' \in [Bufs -> Contents]
    BY <1>5 DEF IInv, TypeOK
  <2> QED BY <1>1, <1>2, <1>6, <2>1, <2>2 DEF IInv, TypeOK
<1>10. TaskAt'
  BY <1>1, <1>6, <1>7 DEF IInv, TaskAt
<1>11. DisksAccounted'
  BY <1>1, <1>7, <1>8 DEF DisksAccounted
<1>12. BufferOwners'
  BY <1>1, <1>2, FastbootAssumption DEF IInv, BufferOwners
<1>13. Promises'
  <2>1. \A t \in tasks : t.buf # task.buf /\ t.disk \in Disks
    BY <1>1 DEF IInv, BufferOwners, TypeOK, Task
  <2>2. \A t \in tasks : Written(t)' = Written(t)
    BY <1>2, <1>3, <1>5, <1>8, <2>1, WrittenFrame
  <2>3. /\ \A d \in Disks : d # task.disk => promised'[d] = promised[d] /\ disk'[d] = disk[d]
        /\ disk'[task.disk] = promised'[task.disk]
    BY <1>2, <1>3, <1>4 DEF IInv, TypeOK
  <2> QED BY <1>1, <1>8, <2>1, <2>2, <2>3 DEF IInv, Promises
<1> QED BY <1>7, <1>9, <1>10, <1>11, <1>12, <1>13 DEF IInv

(* A background task that has begun is the same task.                       *)
Begun(t) == [t EXCEPT !.begun = TRUE]

LEMMA BegunSame ==
    ASSUME NEW t \in Task
    PROVE  /\ Begun(t) \in Task /\ Begun(t).kind = t.kind /\ Begun(t).disk = t.disk
           /\ Begun(t).buf = t.buf /\ Begun(t).size = t.size /\ Begun(t).wants = t.wants
BY DEF Task, Begun

LEMMA TaskBeginsInv ==
    ASSUME IInv, NEW t \in tasks, TaskBegins(t)
    PROVE  IInv'
<1> DEFINE u == Begun(t)
<1>1. /\ step \notin Stopped /\ tasks' = (tasks \ {t}) \cup {u}
      /\ UNCHANGED <<borrowed, promised, buf, free, current_download_buffer, current_download_size,
                     staged, enable_async_task, cmd, reply, step, task, next>>
  BY DEF TaskBegins, Begun, download, host
<1>2. /\ t \in Task /\ u \in Task /\ u.kind = t.kind /\ u.disk = t.disk /\ u.buf = t.buf
      /\ u.size = t.size /\ t.disk \in Disks /\ t.buf \in Bufs /\ t.kind # "gpt"
      /\ t.kind \in {"flash", "sparse", "erase"}
  <2>1. t \in Task
    BY DEF IInv, TypeOK
  <2>2. t.disk \in Disks /\ t.buf \in Bufs /\ t.kind # "gpt" /\ t.kind \in {"flash", "sparse", "erase"}
    BY <2>1 DEF Task, IInv, TaskAt
  <2> QED BY <2>1, <2>2, BegunSame
<1> HIDE DEF u
<1>3. PICK w \in Contents : /\ disk' = [disk EXCEPT ![t.disk] = w]
                            /\ t.kind = "flash" /\ t.size = None => w = disk[t.disk]
  <2>1. disk[t.disk] \in Contents /\ Scrap \in Contents
    BY <1>2 DEF IInv, TypeOK, Contents
  <2> QED BY <2>1 DEF TaskBegins
<1>4. step # "task_panic"
  BY <1>1 DEF Stopped
<1>5. /\ borrowed = {v.disk : v \in tasks} \cup CmdDisks
      /\ \A v \in tasks : v.disk \notin CmdDisks
      /\ \A v \in tasks \ {t} : v.disk # t.disk /\ v # u
      /\ \A v \in tasks : \A x \in tasks \ {v} : x.disk # v.disk
  BY <1>2, <1>4 DEF IInv, DisksAccounted
<1>6. IsFiniteSet(tasks') /\ Cardinality(tasks') = Cardinality(tasks)
  <2>1. IsFiniteSet(tasks)
    BY DEF IInv, TaskAt
  <2>2. /\ IsFiniteSet(tasks \ {t}) /\ Cardinality(tasks \ {t}) = Cardinality(tasks) - 1
        /\ Cardinality(tasks) \in Nat
    BY <2>1, FS_RemoveElement, FS_CardinalityType
  <2>3. u \notin tasks \ {t}
    BY <1>5
  <2>4. IsFiniteSet(tasks') /\ Cardinality(tasks') = Cardinality(tasks \ {t}) + 1
    BY <1>1, <2>2, <2>3, FS_AddElement
  <2> QED BY <2>2, <2>4
<1>7. TypeOK'
  <2>1. disk' \in [Disks -> Contents]
    BY <1>3 DEF IInv, TypeOK
  <2>2. tasks' \subseteq Task
    BY <1>1, <1>2 DEF IInv, TypeOK
  <2> QED BY <1>1, <1>6, <2>1, <2>2 DEF IInv, TypeOK
<1>8. CommandAt' /\ DiskWaited' /\ SyncAt' /\ NeverBusy'
  BY <1>1 DEF IInv, CommandAt, DiskWaited, SyncAt, NeverBusy
<1>9. TaskAt'
  BY <1>1, <1>2, <1>6 DEF IInv, TaskAt, Holding
<1>10. BufferOwners'
  BY <1>1, <1>2 DEF IInv, BufferOwners
<1>11. DisksAccounted'
  <2>1. CmdDisks' = CmdDisks
    BY <1>1 DEF CmdDisks
  <2>2. {v.disk : v \in tasks'} = {v.disk : v \in tasks}
    BY <1>1, <1>2
  <2>3. \A v \in tasks' : v.disk \notin CmdDisks /\ \A x \in tasks' \ {v} : x.disk # v.disk
    BY <1>1, <1>2, <1>5
  <2> QED BY <1>1, <1>5, <2>1, <2>2, <2>3 DEF DisksAccounted
<1>12. Promises'
  <2>1. \A v \in tasks \ {t} : v.disk \in Disks /\ v.disk # t.disk
    BY <1>5 DEF IInv, TypeOK, Task
  <2>2. \A d \in Disks : d # t.disk => disk'[d] = disk[d]
    BY <1>3 DEF IInv, TypeOK
  <2>3. \A v \in tasks \ {t} : Written(v)' = Written(v)
    BY <1>1, <2>1, <2>2 DEF Written
  <2>4. Written(u)' = Written(t)
    <3>1. disk'[t.disk] = w
      BY <1>2, <1>3 DEF IInv, TypeOK
    <3> QED BY <1>1, <1>2, <1>3, <3>1 DEF Written
  <2> QED BY <1>1, <1>2, <2>1, <2>2, <2>3, <2>4 DEF IInv, Promises
<1>13. SyncedMeansWritten'
  BY <1>1 DEF IInv, SyncedMeansWritten
<1> QED BY <1>7, <1>8, <1>9, <1>10, <1>11, <1>12, <1>13 DEF IInv

LEMMA TaskEndsInv ==
    ASSUME IInv, NEW t \in tasks, TaskEnds(t)
    PROVE  IInv'
<1>1. /\ step \notin Stopped /\ tasks' = tasks \ {t}
      /\ disk' = [disk EXCEPT ![t.disk] = Written(t)]
      /\ borrowed' = borrowed \ {t.disk} /\ free' = free \cup {t.buf}
      /\ UNCHANGED <<promised, current_download_buffer, current_download_size, staged,
                     enable_async_task, cmd, reply, step, task, next>>
  BY DEF TaskEnds, download, host
<1>2. /\ t \in Task /\ t.disk \in Disks /\ t.buf \in Bufs
      /\ Written(t) \in Contents
  <2>1. t \in Task
    BY DEF IInv, TypeOK
  <2> QED BY <2>1, WrittenType DEF Task
<1>3. PICK c \in Contents : buf' = [buf EXCEPT ![t.buf] = c]
  BY <1>2, UsedGives DEF TaskEnds
<1>4. step # "task_panic"
  BY <1>1 DEF Stopped
<1>5. /\ borrowed = {v.disk : v \in tasks} \cup CmdDisks
      /\ \A v \in tasks : v.disk \notin CmdDisks
      /\ \A v \in tasks : \A x \in tasks \ {v} : x.disk # v.disk
  BY <1>4 DEF IInv, DisksAccounted
<1>6. IsFiniteSet(tasks') /\ Cardinality(tasks') =< Workers
  <2>1. IsFiniteSet(tasks)
    BY DEF IInv, TaskAt
  <2>2. /\ IsFiniteSet(tasks \ {t}) /\ Cardinality(tasks \ {t}) = Cardinality(tasks) - 1
        /\ Cardinality(tasks) \in Nat
    BY <2>1, FS_RemoveElement, FS_CardinalityType
  <2> QED BY <1>1, <2>2, FastbootAssumption DEF IInv, TypeOK
<1>7. TypeOK'
  <2>1. disk' \in [Disks -> Contents]
    BY <1>1, <1>2 DEF IInv, TypeOK
  <2>2. buf' \in [Bufs -> Contents]
    BY <1>3 DEF IInv, TypeOK
  <2> QED BY <1>1, <1>2, <1>6, <2>1, <2>2 DEF IInv, TypeOK
<1>8. CommandAt' /\ DiskWaited' /\ SyncAt' /\ NeverBusy'
  BY <1>1 DEF IInv, CommandAt, DiskWaited, SyncAt, NeverBusy
<1>9. TaskAt'
  BY <1>1, <1>6 DEF IInv, TaskAt, Holding
<1>10. BufferOwners'
  BY <1>1, <1>2 DEF IInv, BufferOwners
<1>11. DisksAccounted'
  <2>1. CmdDisks' = CmdDisks
    BY <1>1 DEF CmdDisks
  <2>2. borrowed' = {v.disk : v \in tasks'} \cup CmdDisks
    BY <1>1, <1>5
  <2> QED BY <1>1, <1>5, <2>1, <2>2 DEF DisksAccounted
<1>12. Promises'
  <2>1. \A v \in tasks' : v.disk # t.disk /\ v.buf # t.buf /\ v \in tasks
    BY <1>1, <1>5 DEF IInv, BufferOwners
  <2>2. \A v \in tasks' : Written(v)' = Written(v)
    BY <1>1, <1>2, <1>3, <2>1, WrittenFrame
  <2>3. /\ \A d \in Disks : d # t.disk => disk'[d] = disk[d]
        /\ disk'[t.disk] = Written(t)
    BY <1>1, <1>2 DEF IInv, TypeOK
  <2> QED BY <1>1, <1>2, <2>1, <2>2, <2>3 DEF IInv, Promises
<1>13. SyncedMeansWritten'
  BY <1>1 DEF IInv, SyncedMeansWritten
<1> QED BY <1>7, <1>8, <1>9, <1>10, <1>11, <1>12, <1>13 DEF IInv

LEMMA TaskFailsInv ==
    ASSUME IInv, NEW t \in tasks, TaskFails(t)
    PROVE  IInv'
<1>1. /\ step' = "task_panic"
      /\ UNCHANGED <<disk, borrowed, tasks, promised, buf, free, current_download_buffer,
                     current_download_size, staged, enable_async_task, cmd, reply, task, next>>
  BY DEF TaskFails, storage, download, host
<1>2. TypeOK' /\ CommandAt'
  BY <1>1 DEF IInv, TypeOK, CommandAt, Stopped
<1>3. TaskAt' /\ DisksAccounted' /\ DiskWaited' /\ SyncAt' /\ SyncedMeansWritten' /\ NeverBusy'
  BY <1>1 DEF IInv, TaskAt, Holding, DisksAccounted, DiskWaited, SyncAt, SyncedMeansWritten, NeverBusy
<1> QED BY <1>1, <1>2, <1>3, OwnersFrame, PromisesFrame DEF IInv

-----------------------------------------------------------------------------
(* The buffer of a dropped task goes back to the pool.                      *)
LEMMA DropTask ==
    ASSUME IInv, task # None, free' = free \cup {task.buf}, task' = None,
           UNCHANGED <<current_download_buffer, tasks>>
    PROVE  BufferOwners' /\ free' \subseteq Bufs
<1>1. task.buf \in Bufs /\ task.buf # None
  BY FastbootAssumption DEF IInv, TaskAt, Task
<1> QED BY <1>1 DEF IInv, BufferOwners, TypeOK

LEMMA GptInfoInv ==
    ASSUME IInv, GptInfo
    PROVE  IInv'
<1>1. /\ step = "gpt_info" /\ cmd.op = "flash_gpt" /\ next = 1 /\ task # None
      /\ UNCHANGED <<disk, borrowed, tasks, promised, buf, current_download_buffer,
                     current_download_size, staged, enable_async_task, next>>
  BY DEF IInv, CommandAt, TaskAt, Holding, SyncAt, GptInfo, storage, download
<1>2. CmdDisks = {}
  BY <1>1 DEF CmdDisks
<1>3. CASE step' = "gpt" /\ UNCHANGED <<free, task, cmd, reply>>
  <2>1. TypeOK' /\ CommandAt' /\ TaskAt' /\ DiskWaited'
    BY <1>1, <1>3 DEF IInv, TypeOK, CommandAt, TaskAt, Holding, DiskWaited
  <2>2. CmdDisks' = {}
    BY <1>3 DEF CmdDisks
  <2>3. DisksAccounted'
    BY <1>1, <1>2, <1>3, <2>2 DEF IInv, DisksAccounted
  <2>4. SyncAt' /\ SyncedMeansWritten' /\ NeverBusy'
    BY <1>1, <1>3, GoesOn
  <2> QED BY <1>1, <1>3, <2>1, <2>3, <2>4, OwnersFrame, PromisesFrame DEF IInv
<1>4. CASE free' = free \cup {task.buf} /\ task' = None /\ Answer("fail")
  <2>1. cmd' = Served(cmd.op) /\ step' = "idle" /\ reply' \in {"okay", "fail", "lost"}
    BY <1>4, AnswerGives
  <2>2. /\ CommandAt' /\ DiskWaited' /\ NeverBusy' /\ SyncedMeansWritten' /\ SyncAt'
        /\ CmdDisks' = {} /\ ~Holding'
    BY <1>1, <2>1, Answered
  <2>3. BufferOwners' /\ free' \subseteq Bufs
    BY <1>1, <1>4, DropTask
  <2>4. TypeOK'
    BY <1>1, <1>4, <2>1, <2>3 DEF IInv, TypeOK
  <2>5. TaskAt'
    BY <1>1, <1>4, <2>1, <2>2 DEF IInv, TaskAt
  <2>6. DisksAccounted'
    BY <1>1, <1>2, <2>2 DEF IInv, DisksAccounted
  <2> QED BY <1>1, <2>2, <2>3, <2>4, <2>5, <2>6, PromisesFrame DEF IInv
<1> QED BY <1>3, <1>4 DEF GptInfo, host

(* The disk that was waited for is still free, so update_gpt() never finds  *)
(* it busy.                                                                 *)
LEMMA UpdateGptInv ==
    ASSUME IInv, UpdateGpt
    PROVE  IInv'
<1>1. /\ step = "gpt" /\ cmd.op \in {"flash_gpt", "erase_gpt"} /\ next = 1
      /\ cmd.disk \notin borrowed
      /\ UNCHANGED <<disk, borrowed, tasks, promised, buf, current_download_buffer,
                     current_download_size, staged, enable_async_task, next>>
  BY DEF IInv, CommandAt, DiskWaited, SyncAt, UpdateGpt, storage, download
<1>2. /\ free' = IF task = None THEN free ELSE free \cup {task.buf}
      /\ task' = None
  BY <1>1 DEF UpdateGpt
<1>3. cmd' = Served(cmd.op) /\ step' = "idle" /\ reply' \in {"okay", "fail", "lost"}
  <2>1. PICK r \in {"okay", "fail"} : Answer(r)
    BY <1>1 DEF UpdateGpt
  <2> QED BY <2>1, AnswerGives
<1>4. /\ CommandAt' /\ DiskWaited' /\ NeverBusy' /\ SyncedMeansWritten' /\ SyncAt'
      /\ CmdDisks' = {} /\ ~Holding'
  BY <1>1, <1>3, Answered
<1>5. BufferOwners' /\ free' \subseteq Bufs
  <2>1. CASE task = None
    BY <1>1, <1>2, <2>1, OwnersFrame DEF IInv, TypeOK
  <2>2. CASE task # None
    BY <1>1, <1>2, <2>2, DropTask
  <2> QED BY <2>1, <2>2
<1>6. TypeOK'
  BY <1>1, <1>2, <1>3, <1>5 DEF IInv, TypeOK
<1>7. TaskAt'
  BY <1>1, <1>2, <1>3, <1>4 DEF IInv, TaskAt
<1>8. DisksAccounted'
  <2>1. CmdDisks = {}
    BY <1>1 DEF CmdDisks
  <2> QED BY <1>1, <1>4, <2>1 DEF IInv, DisksAccounted
<1> QED BY <1>1, <1>4, <1>5, <1>6, <1>7, <1>8, PromisesFrame DEF IInv

LEMMA BootInv ==
    ASSUME IInv, boot
    PROVE  IInv'
<1>1. /\ step = "boot" /\ next = 1 /\ task = None
      /\ UNCHANGED <<disk, borrowed, tasks, promised, buf, enable_async_task, task, next>>
  BY DEF IInv, TaskAt, Holding, SyncAt, boot, storage
<1>2. AnswerAndEnd("okay") \/ AnswerAndEnd("fail")
  BY DEF boot
<1>3. /\ cmd' = Served(cmd.op) /\ step' \in {"idle", "ended"}
      /\ reply' \in {"okay", "fail", "lost"}
  BY <1>2, AnswerAndEndGives
<1>4. /\ CommandAt' /\ DiskWaited' /\ NeverBusy' /\ SyncAt' /\ CmdDisks' = {} /\ ~Holding'
      /\ SyncedMeansWritten'
  BY <1>1, <1>2, <1>3, Answered DEF IInv, CommandAt
<1>5. /\ BufferOwners' /\ free' \subseteq Bufs /\ current_download_buffer' \in Bufs \cup {None}
      /\ current_download_size' \in Images \cup {None} /\ staged' \in Images \cup {None}
  <2>1. CASE current_download_buffer = None
    BY <1>1, <2>1, OwnersFrame DEF boot, download, IInv, TypeOK
  <2>2. CASE current_download_buffer # None
    <3>1. /\ free' = free \cup {current_download_buffer} /\ current_download_buffer' = None
          /\ current_download_size' = None /\ staged' = None
      BY <2>2 DEF boot, take_download
    <3>2. /\ None \notin Bufs /\ free \subseteq Bufs /\ current_download_buffer \in Bufs
          /\ \A t \in tasks : t.buf \in Bufs
      BY <2>2, FastbootAssumption DEF IInv, TypeOK, Task
    <3>3. BufferOwners'
      BY <1>1, <2>2, <3>1, <3>2 DEF IInv, BufferOwners
    <3> QED BY <3>1, <3>2, <3>3
  <2> QED BY <2>1, <2>2
<1>6. TypeOK'
  BY <1>1, <1>3, <1>5 DEF IInv, TypeOK
<1>7. TaskAt'
  BY <1>1, <1>3, <1>4 DEF IInv, TaskAt
<1>8. DisksAccounted'
  <2>1. CmdDisks = {}
    BY <1>1 DEF CmdDisks
  <2> QED BY <1>1, <1>4, <2>1 DEF IInv, DisksAccounted
<1> QED BY <1>1, <1>4, <1>5, <1>6, <1>7, <1>8, PromisesFrame DEF IInv

-----------------------------------------------------------------------------
(* sync_all_blocks() and what is answered after it.                         *)
LEMMA SyncInfoInv ==
    ASSUME IInv, SyncInfo
    PROVE  IInv'
<1>1. /\ step = "info" /\ cmd.op \in {"continue", "reboot"} /\ next = 1
      /\ UNCHANGED <<disk, borrowed, tasks, promised, buf, free, current_download_buffer,
                     current_download_size, staged, enable_async_task, task, next>>
  BY DEF IInv, CommandAt, SyncAt, SyncInfo, storage, download
<1>2. CmdDisks = {} /\ ~Holding
  BY <1>1 DEF CmdDisks, Holding
<1>3. CASE step' = "sync" /\ UNCHANGED <<cmd, reply>>
  <2>1. TypeOK' /\ CommandAt' /\ TaskAt' /\ DiskWaited'
    BY <1>1, <1>2, <1>3 DEF IInv, TypeOK, CommandAt, TaskAt, Holding, DiskWaited
  <2>2. CmdDisks' = {}
    BY <1>3 DEF CmdDisks
  <2>3. DisksAccounted'
    BY <1>1, <1>2, <1>3, <2>2 DEF IInv, DisksAccounted
  <2>4. SyncAt' /\ SyncedMeansWritten' /\ NeverBusy'
    BY <1>1, <1>3, GoesOn
  <2> QED BY <1>1, <1>3, <2>1, <2>3, <2>4, OwnersFrame, PromisesFrame DEF IInv
<1>4. CASE AnswerAndEnd("fail") \/ Answer("fail")
  <2>1. /\ cmd' = Served(cmd.op) /\ step' \in {"idle", "ended"}
        /\ reply' \in {"okay", "fail", "lost"}
    BY <1>4, AnswerGives, AnswerAndEndGives
  <2>2. /\ CommandAt' /\ DiskWaited' /\ NeverBusy' /\ SyncedMeansWritten' /\ SyncAt'
        /\ CmdDisks' = {} /\ ~Holding'
    BY <1>1, <2>1, Answered
  <2>3. TypeOK' /\ TaskAt'
    BY <1>1, <1>2, <2>1, <2>2 DEF IInv, TypeOK, TaskAt
  <2>4. DisksAccounted'
    BY <1>1, <1>2, <2>2 DEF IInv, DisksAccounted
  <2> QED BY <1>1, <2>2, <2>3, <2>4, OwnersFrame, PromisesFrame DEF IInv
<1> QED BY <1>3, <1>4 DEF SyncInfo, host

LEMMA SyncInv ==
    ASSUME IInv, sync_all_blocks
    PROVE  IInv'
<1>1. /\ step = "sync" /\ next =< NumDisks /\ next \notin borrowed /\ next' = next + 1
      /\ UNCHANGED <<disk, borrowed, tasks, promised, buf, free, current_download_buffer,
                     current_download_size, staged, enable_async_task, cmd, reply, step, task>>
  BY DEF sync_all_blocks, storage, download, host
<1>2. next \in Nat /\ next' \in 1..(NumDisks + 1)
  BY <1>1, FastbootAssumption DEF IInv, TypeOK
<1>3. TypeOK'
  BY <1>1, <1>2 DEF IInv, TypeOK
<1>4. CommandAt' /\ TaskAt' /\ DiskWaited' /\ SyncedMeansWritten' /\ NeverBusy'
  BY <1>1 DEF IInv, CommandAt, TaskAt, Holding, DiskWaited, SyncedMeansWritten, NeverBusy
<1>5. DisksAccounted'
  BY <1>1 DEF IInv, DisksAccounted, CmdDisks
<1>6. SyncAt'
  <2>1. ASSUME NEW d \in Disks, d < next + 1 PROVE d \notin borrowed
    <3>1. d < next \/ d = next
      BY <1>2, <2>1, FastbootAssumption DEF Disks
    <3> QED BY <1>1, <3>1 DEF IInv, SyncAt
  <2> QED BY <1>1, <2>1 DEF SyncAt
<1> QED BY <1>1, <1>3, <1>4, <1>5, <1>6, OwnersFrame, PromisesFrame DEF IInv

(* The last disk has been let go of: no task is left, and the promises are  *)
(* kept.                                                                    *)
LEMMA AllWritten ==
    ASSUME IInv, step # "task_panic", tasks = {}
    PROVE  disk = promised
<1>1. \A d \in Disks : disk[d] = promised[d]
  BY DEF IInv, Promises
<1> QED BY <1>1 DEF IInv, TypeOK

LEMMA SyncedInv ==
    ASSUME IInv, Synced
    PROVE  IInv'
<1>1. /\ step = "sync" /\ next > NumDisks /\ next' = 1
      /\ cmd.op \in {"sync", "set_active", "continue", "reboot"}
      /\ UNCHANGED <<disk, borrowed, tasks, promised, buf, free, current_download_buffer,
                     current_download_size, staged, enable_async_task, task>>
  BY DEF IInv, CommandAt, Synced, storage, download
<1>2. CmdDisks = {} /\ ~Holding
  BY <1>1 DEF CmdDisks, Holding
<1>3. borrowed = {}
  <2>1. \A d \in Disks : d < next
    BY <1>1, FastbootAssumption DEF IInv, TypeOK, Disks
  <2> QED BY <1>1, <2>1 DEF IInv, SyncAt, TypeOK
<1>4. tasks = {} /\ disk = promised
  <2>1. tasks = {}
    BY <1>1, <1>2, <1>3 DEF IInv, DisksAccounted
  <2> QED BY <1>1, <2>1, AllWritten
<1>5. /\ cmd' \in {Served(cmd.op), cmd} /\ reply' \in {"okay", "fail", "lost"}
      /\ step' \in {"idle", "ended", "rebooted"}
      /\ step' = "rebooted" => cmd' = cmd
  BY AnswerGives, AnswerAndEndGives DEF Synced
<1>6. CommandAt'
  <2>1. /\ Served(cmd.op) \in [op: {"none", "download", "sync", "set_active"}, disk: Disks,
                               img: Images \cup {None}]
    BY ServedType
  <2>2. cmd' \in [op: {"none", "download", "flash", "flash_gpt", "erase", "erase_gpt", "fetch", "sync",
                       "set_active", "continue", "reboot", "boot", "getvar"},
                  disk: Disks, img: Images \cup {None}]
    BY <1>5, <2>1 DEF IInv, CommandAt
  <2> QED BY <1>5, <2>2 DEF CommandAt
<1>7. TypeOK'
  <2>1. next' \in 1..(NumDisks + 1)
    BY <1>1, FastbootAssumption
  <2> QED BY <1>1, <1>5, <2>1 DEF IInv, TypeOK, Stopped
<1>8. TaskAt'
  BY <1>1, <1>2, <1>5 DEF IInv, TaskAt, Holding
<1>9. DisksAccounted'
  BY <1>1, <1>3, <1>4, <1>5 DEF DisksAccounted, CmdDisks
<1>10. DiskWaited' /\ NeverBusy' /\ SyncAt'
  BY <1>1, <1>5 DEF DiskWaited, NeverBusy, SyncAt
<1>11. SyncedMeansWritten'
  BY <1>1, <1>4 DEF SyncedMeansWritten
<1> QED BY <1>1, <1>6, <1>7, <1>8, <1>9, <1>10, <1>11, OwnersFrame, PromisesFrame DEF IInv

LEMMA RunReturnsInv ==
    ASSUME IInv, RunReturns
    PROVE  IInv'
<1>1. /\ step = "ended" /\ tasks = {} /\ step' = "returned"
      /\ UNCHANGED <<disk, borrowed, tasks, promised, buf, free, current_download_buffer,
                     current_download_size, staged, enable_async_task, cmd, reply, task, next>>
  BY DEF RunReturns, storage, download, host
<1>2. TypeOK' /\ CommandAt' /\ TaskAt' /\ DiskWaited' /\ SyncAt' /\ NeverBusy'
  BY <1>1 DEF IInv, TypeOK, CommandAt, TaskAt, Holding, DiskWaited, SyncAt, NeverBusy, Stopped
<1>3. SyncedMeansWritten'
  BY <1>1, AllWritten DEF SyncedMeansWritten
<1>4. DisksAccounted'
  BY <1>1 DEF IInv, DisksAccounted, CmdDisks
<1> QED BY <1>1, <1>2, <1>3, <1>4, OwnersFrame, PromisesFrame DEF IInv

LEMMA InitIInv ==
    ASSUME Init
    PROVE  IInv
<1>1. 1 \in Disks /\ 1 \in 1..(NumDisks + 1)
  BY FastbootAssumption DEF Disks
<1>2. IsFiniteSet({}) /\ Cardinality({}) = 0
  BY FS_EmptySet
<1>3. TypeOK
  <2>1. disk \in [Disks -> Contents] /\ promised \in [Disks -> Contents] /\ buf \in [Bufs -> Contents]
    BY DEF Init, Contents
  <2>2. tasks \subseteq Task /\ Cardinality(tasks) =< Workers
    BY <1>2, FastbootAssumption DEF Init
  <2> QED BY <1>1, <2>1, <2>2 DEF Init, TypeOK
<1>4. CommandAt
  <2>1. cmd \in [op: {"none", "download", "flash", "flash_gpt", "erase", "erase_gpt", "fetch", "sync",
                      "set_active", "continue", "reboot", "boot"},
                 disk: Disks, img: Images \cup {None}]
    BY <1>1 DEF Init
  <2>2. step = "idle"
    BY DEF Init
  <2> QED BY <2>1, <2>2 DEF CommandAt
<1>5. TaskAt
  BY <1>2 DEF Init, TaskAt, Holding
<1>6. BufferOwners
  BY FastbootAssumption DEF Init, BufferOwners
<1>7. DisksAccounted /\ DiskWaited /\ SyncAt
  BY DEF Init, DisksAccounted, CmdDisks, DiskWaited, SyncAt
<1>8. Promises /\ SyncedMeansWritten /\ NeverBusy
  BY DEF Init, Promises, SyncedMeansWritten, NeverBusy
<1> QED BY <1>3, <1>4, <1>5, <1>6, <1>7, <1>8 DEF IInv

LEMMA NextIInv ==
    ASSUME IInv, [Next]_vars
    PROVE  IInv'
<1>1. CASE UNCHANGED vars
  <2>1. UNCHANGED <<disk, borrowed, tasks, promised, buf, free, current_download_buffer,
                    current_download_size, staged, enable_async_task, cmd, reply, step, task, next>>
    BY <1>1 DEF vars, download, host
  <2>2. TypeOK' /\ CommandAt' /\ TaskAt' /\ DiskWaited' /\ SyncAt' /\ NeverBusy'
    BY <2>1 DEF IInv, TypeOK, CommandAt, TaskAt, Holding, DiskWaited, SyncAt, NeverBusy
  <2>3. SyncedMeansWritten' /\ DisksAccounted'
    BY <2>1 DEF IInv, SyncedMeansWritten, DisksAccounted, CmdDisks
  <2> QED BY <2>1, <2>2, <2>3, OwnersFrame, PromisesFrame DEF IInv
<1>2. CASE Commands
  BY <1>2, ReceiveInv
<1>3. CASE CommandLoop
  BY <1>3, WaitInv, GetBufferInv, GetVarInv, DownloadInv, FetchInv, NothingStagedInv, DoesNotFitInv,
     BuildTaskInv, LaunchInv, RunInlineInv, GptInfoInv, UpdateGptInv, BootInv, SyncInfoInv,
     SyncInv, SyncedInv, RunReturnsInv
     DEF CommandLoop
<1>4. CASE \E t \in tasks : TaskBegins(t) \/ TaskEnds(t) \/ TaskFails(t)
  BY <1>4, TaskBeginsInv, TaskEndsInv, TaskFailsInv
<1> QED BY <1>1, <1>2, <1>3, <1>4 DEF Next, Over

-----------------------------------------------------------------------------
LEMMA DisjointUnion ==
    ASSUME NEW S, NEW T, IsFiniteSet(S), IsFiniteSet(T), S \cap T = {}
    PROVE  IsFiniteSet(S \cup T) /\ Cardinality(S \cup T) = Cardinality(S) + Cardinality(T)
<1>1. Cardinality(S \cap T) = 0
  BY FS_EmptySet
<1>2. /\ IsFiniteSet(S \cup T)
      /\ Cardinality(S \cup T) = Cardinality(S) + Cardinality(T) - Cardinality(S \cap T)
  BY FS_Union
<1>3. Cardinality(S) \in Nat /\ Cardinality(T) \in Nat
  BY FS_CardinalityType
<1> QED BY <1>1, <1>2, <1>3

(* No buffer without an owner and none with two: the owners add up.         *)
LEMMA OwnersAddUp ==
    ASSUME IInv
    PROVE  BuffersAccounted
<1>1. /\ free \subseteq Bufs /\ TaskBufs \subseteq Bufs /\ CmdBufs \subseteq Bufs
      /\ CurBufs \subseteq Bufs /\ IsFiniteSet(Bufs)
  BY FastbootAssumption DEF IInv, TypeOK, TaskAt, Task, TaskBufs, CmdBufs, CurBufs
<1>2. /\ Bufs = free \cup TaskBufs \cup CmdBufs \cup CurBufs
  <2>1. \A b \in Bufs : b # None
    BY FastbootAssumption
  <2>2. \A b \in Bufs : b \in free \/ b \in TaskBufs \/ b \in CmdBufs \/ b \in CurBufs
    BY <2>1 DEF IInv, BufferOwners, TaskBufs, CmdBufs, CurBufs
  <2> QED BY <1>1, <2>2
<1>3. /\ free \cap TaskBufs = {} /\ (free \cup TaskBufs) \cap CmdBufs = {}
      /\ (free \cup TaskBufs \cup CmdBufs) \cap CurBufs = {}
  BY DEF IInv, BufferOwners, TaskBufs, CmdBufs, CurBufs
<1>4. IsFiniteSet(free) /\ IsFiniteSet(TaskBufs) /\ IsFiniteSet(CmdBufs) /\ IsFiniteSet(CurBufs)
  BY <1>1, FS_Subset
<1>5. /\ IsFiniteSet(free \cup TaskBufs)
      /\ Cardinality(free \cup TaskBufs) = Cardinality(free) + Cardinality(TaskBufs)
  BY <1>3, <1>4, DisjointUnion
<1>6. /\ IsFiniteSet(free \cup TaskBufs \cup CmdBufs)
      /\ Cardinality(free \cup TaskBufs \cup CmdBufs)
           = Cardinality(free \cup TaskBufs) + Cardinality(CmdBufs)
  BY <1>3, <1>4, <1>5, DisjointUnion
<1>7. Cardinality(Bufs) = Cardinality(free \cup TaskBufs \cup CmdBufs) + Cardinality(CurBufs)
  BY <1>2, <1>3, <1>4, <1>6, DisjointUnion
<1>8. Cardinality(TaskBufs) = Cardinality(tasks)
  <2> DEFINE f == [t \in tasks |-> t.buf]
  <2>1. f \in Bijection(tasks, TaskBufs)
    <3>1. f \in [tasks -> TaskBufs]
      BY DEF TaskBufs
    <3>2. \A t, u \in tasks : f[t] = f[u] => t = u
      BY DEF IInv, BufferOwners
    <3>3. \A b \in TaskBufs : \E t \in tasks : f[t] = b
      BY DEF TaskBufs
    <3> QED BY <3>1, <3>2, <3>3 DEF Bijection, Injection, Surjection, IsInjective
  <2>2. IsFiniteSet(tasks)
    BY DEF IInv, TaskAt
  <2> QED BY <2>1, <2>2, FS_Bijection DEF ExistsBijection
<1>9. /\ Cardinality(free) \in Nat /\ Cardinality(tasks) \in Nat
      /\ Cardinality(CmdBufs) \in Nat /\ Cardinality(CurBufs) \in Nat
  BY <1>4, FS_CardinalityType DEF IInv, TaskAt
<1> QED BY <1>2, <1>5, <1>6, <1>7, <1>8, <1>9 DEF BuffersAccounted

(* Whatever fails, buffers and disks are neither lost nor shared, and the   *)
(* container stays within its limit: GblFastboot for every number of disks, *)
(* buffers and workers.                                                     *)
THEOREM FastbootAccounted == Spec => []ResourcesAccounted
<1>1. Init => IInv
  BY InitIInv
<1>2. IInv /\ [Next]_vars => IInv'
  BY NextIInv
<1>3. IInv => ResourcesAccounted
  BY OwnersAddUp DEF IInv, ResourcesAccounted
<1> QED BY <1>1, <1>2, <1>3, PTL DEF Spec

(* panic!("Should not be busy") of `flash gpt` and `erase gpt` is never     *)
(* reached: a disk that was waited for and let go cannot be taken by anyone *)
(* else before the command uses it.                                         *)
THEOREM FastbootNeverBusy == Spec => []NeverBusy
<1>1. Init => IInv
  BY InitIInv
<1>2. IInv /\ [Next]_vars => IInv'
  BY NextIInv
<1>3. IInv => NeverBusy
  BY DEF IInv
<1> QED BY <1>1, <1>2, <1>3, PTL DEF Spec

(* sync_all_blocks() waits for the disks one after the other, and that is   *)
(* enough: when it is through, and when run() returns, every accepted flash *)
(* is on its disk.                                                          *)
THEOREM FastbootSynced == Spec => []SyncedMeansWritten
<1>1. Init => IInv
  BY InitIInv
<1>2. IInv /\ [Next]_vars => IInv'
  BY NextIInv
<1>3. IInv => SyncedMeansWritten
  BY DEF IInv
<1> QED BY <1>1, <1>2, <1>3, PTL DEF Spec

-----------------------------------------------------------------------------
(* The host that flashes right after a download, or with nothing staged.    *)

(* A step that neither stages nor takes a download, and writes no buffer a  *)
(* remaining task owns.                                                     *)
LEMMA FlashFrame ==
    ASSUME IInv, FlashInv,
           ~(step' = "idle" /\ cmd'.op = "download" /\ reply' = "okay"),
           ~(step' \in {"disk", "take"} /\ cmd'.op \in {"flash", "flash_gpt"}),
           task' # None => task' = task /\ buf'[task.buf] = buf[task.buf],
           \A t \in tasks' : t \in tasks /\ buf'[t.buf] = buf[t.buf]
    PROVE  FlashInv'
BY DEF FlashInv, Meets

LEMMA NotDownload ==
    ASSUME cmd.op # "download", cmd' = Served(cmd.op)
    PROVE  cmd'.op \notin {"download", "flash", "flash_gpt"}
BY ServedType

LEMMA CommandsFlash ==
    ASSUME IInv, FlashInv, Commands, Disciplined = TRUE
    PROVE  FlashInv'
<1>1. /\ step = "idle"
      /\ UNCHANGED <<disk, borrowed, tasks, promised, buf, free, current_download_buffer,
                     current_download_size, staged, task, next>>
  BY DEF Commands, Receive, Simple, set_async, storage, download
<1>2. CASE step' = "disk" /\ cmd'.op \in {"flash", "flash_gpt"}
  <2>1. (cmd.op = "download" /\ reply = "okay") \/ current_download_buffer = None
    BY <1>2, <1>1, ServedType DEF Commands, Receive, Simple, set_async
  <2>2. Meant'
    BY <1>1, <2>1 DEF FlashInv, Meant
  <2> QED BY <1>1, <1>2, <2>2 DEF FlashInv, Meets
<1>3. CASE ~(step' = "disk" /\ cmd'.op \in {"flash", "flash_gpt"})
  <2>1. ~(step' = "idle" /\ cmd'.op = "download") /\ step' # "take"
    BY <1>1, ServedType DEF Commands, Receive, Simple, set_async
  <2> QED BY <1>1, <1>3, <2>1, FlashFrame
<1> QED BY <1>2, <1>3

LEMMA WaitFlash ==
    ASSUME IInv, FlashInv, wait_partition_io
    PROVE  FlashInv'
<1>1. /\ step = "disk" /\ step' \in {"take", "buffer", "gpt"}
      /\ UNCHANGED <<tasks, buf, current_download_buffer, current_download_size, staged, cmd, task>>
  <2>1. cmd.op \in {"flash", "flash_gpt", "erase", "erase_gpt", "fetch"}
    BY DEF wait_partition_io, IInv, CommandAt
  <2> QED BY <2>1 DEF wait_partition_io, download, host
<1> QED BY <1>1 DEF FlashInv, Meant, Meets

LEMMA DownloadFlash ==
    ASSUME IInv, FlashInv, download_complete \/ DownloadFails
    PROVE  FlashInv'
<1>1. /\ step = "download" /\ cmd.op = "download" /\ cmd.img \in Images
      /\ current_download_buffer \in Bufs /\ task = None
      /\ UNCHANGED <<tasks, current_download_buffer, task>>
  BY DEF IInv, CommandAt, TypeOK, TaskAt, Holding, download_complete, DownloadFails, storage, download
<1>2. PICK c \in Contents : buf' = [buf EXCEPT ![current_download_buffer] = c]
  BY DEF IInv, TypeOK, CommandAt, Contents, download_complete, DownloadFails
<1>3. \A t \in tasks : buf'[t.buf] = buf[t.buf]
  <2>1. \A t \in tasks : t.buf \in Bufs /\ t.buf # current_download_buffer
    BY DEF IInv, BufferOwners, TypeOK, Task
  <2> QED BY <1>2, <2>1 DEF IInv, TypeOK
<1>4. CASE download_complete
  <2>1. step' = "idle"
    BY <1>4, AnswerGives DEF download_complete
  <2>2. buf'[current_download_buffer] = cmd.img
    BY <1>1, <1>4 DEF download_complete, IInv, TypeOK
  <2>3. Meant'
    BY <1>1, <1>4, <2>2 DEF Meant, download_complete
  <2> QED BY <1>1, <1>3, <2>1, <2>3 DEF FlashInv, Meets
<1>5. CASE DownloadFails
  <2>1. step' = "idle" /\ reply' # "okay"
    BY <1>5 DEF DownloadFails, Answer, Reply
  <2> QED BY <1>1, <1>3, <2>1, FlashFrame
<1> QED BY <1>4, <1>5

LEMMA FetchFlash ==
    ASSUME IInv, FlashInv, fetch
    PROVE  FlashInv'
<1>1. /\ step = "fetch" /\ cmd.op = "fetch" /\ task = None
      /\ UNCHANGED <<tasks, task>>
  BY DEF IInv, CommandAt, TaskAt, Holding, fetch
<1>2. PICK c \in Contents : buf' = [buf EXCEPT ![current_download_buffer] = c]
  BY DEF IInv, TypeOK, CommandAt, Contents, fetch
<1>3. \A t \in tasks : buf'[t.buf] = buf[t.buf]
  <2>1. \A t \in tasks : t.buf \in Bufs /\ t.buf # current_download_buffer
    BY DEF IInv, BufferOwners, TypeOK, Task
  <2> QED BY <1>2, <2>1 DEF IInv, TypeOK
<1>4. cmd' = Served(cmd.op) /\ step' = "idle"
  <2>1. PICK r \in {"okay", "fail"} : Answer(r)
    BY DEF fetch
  <2> QED BY <2>1, AnswerGives
<1> QED BY <1>1, <1>3, <1>4, NotDownload, FlashFrame

(* The task is built from the download that was meant for it.               *)
LEMMA BuildTaskFlash ==
    ASSUME IInv, FlashInv, BuildTask
    PROVE  FlashInv'
<1>1. /\ step = "take" /\ cmd.op \in {"flash", "flash_gpt", "erase"}
      /\ current_download_buffer # None /\ task' = NewTask
      /\ step' \in {"gpt_info", "schedule", "inline"}
      /\ UNCHANGED <<tasks, buf>>
  BY DEF IInv, CommandAt, BuildTask, storage
<1>2. /\ task'.kind = Workload(cmd.op) /\ task'.buf = current_download_buffer
      /\ task'.size = current_download_size /\ task'.wants = staged
  BY <1>1 DEF NewTask
<1>3. Meets(task)'
  <2>1. CASE cmd.op = "flash"
    <3>1. Meant
      BY <1>1, <2>1 DEF FlashInv
    <3> QED BY <1>1, <1>2, <3>1 DEF Meant, Meets
  <2>2. CASE cmd.op # "flash"
    <3>1. Workload(cmd.op) \in {"erase", "gpt"}
      BY <1>1, <2>2 DEF Workload
    <3> QED BY <1>2, <3>1 DEF Meets
  <2> QED BY <2>1, <2>2
<1> QED BY <1>1, <1>3 DEF FlashInv, Meets

LEMMA LaunchFlash ==
    ASSUME IInv, FlashInv, Launch
    PROVE  FlashInv'
<1>1. /\ step = "schedule" /\ cmd.op \in {"flash", "erase"} /\ task # None
      /\ tasks' = tasks \cup {task} /\ task' = None /\ buf' = buf
  BY DEF IInv, CommandAt, TaskAt, Holding, Launch
<1>2. cmd' = Served(cmd.op) /\ step' = "idle"
  <2>1. PICK r \in {"okay", "fail"} : Answer(r)
    BY DEF Launch
  <2> QED BY <2>1, AnswerGives
<1>3. cmd'.op # "download"
  BY <1>1, <1>2, NotDownload
<1> QED BY <1>1, <1>2, <1>3 DEF FlashInv, Meets

LEMMA RunInlineFlash ==
    ASSUME IInv, FlashInv, RunInline
    PROVE  FlashInv'
<1>1. /\ step = "inline" /\ cmd.op \in {"flash", "erase"} /\ task # None /\ task \in Task
      /\ task' = None /\ tasks' = tasks
  BY DEF IInv, CommandAt, TaskAt, Holding, RunInline
<1>2. PICK c \in Contents : buf' = [buf EXCEPT ![task.buf] = c]
  BY <1>1, UsedGives DEF RunInline
<1>3. \A t \in tasks : buf'[t.buf] = buf[t.buf]
  <2>1. \A t \in tasks : t.buf \in Bufs /\ t.buf # task.buf
    BY <1>1 DEF IInv, BufferOwners, TypeOK, Task
  <2> QED BY <1>2, <2>1 DEF IInv, TypeOK
<1>4. cmd' = Served(cmd.op) /\ step' = "idle"
  <2>1. Answer("okay") \/ Answer("fail")
    BY DEF RunInline
  <2> QED BY <2>1, AnswerGives
<1> QED BY <1>1, <1>3, <1>4, NotDownload, FlashFrame

LEMMA TasksFlash ==
    ASSUME IInv, FlashInv, NEW t \in tasks, TaskBegins(t) \/ TaskEnds(t) \/ TaskFails(t)
    PROVE  FlashInv'
<1>1. /\ UNCHANGED <<cmd, reply, task, current_download_buffer, current_download_size, staged>>
      /\ step' \in {step, "task_panic"}
  BY DEF TaskBegins, TaskEnds, TaskFails, host, download
<1>2. t \in Task /\ t.buf \in Bufs
  BY DEF IInv, TypeOK, Task
<1>3. CASE TaskBegins(t)
  <2>1. tasks' = (tasks \ {t}) \cup {Begun(t)} /\ buf' = buf
    BY <1>3 DEF TaskBegins, Begun
  <2>2. Meets(Begun(t))
    BY <1>2, BegunSame DEF FlashInv, Meets
  <2> QED BY <1>1, <2>1, <2>2 DEF FlashInv, Meets, Meant
<1>4. CASE TaskEnds(t)
  <2>1. tasks' = tasks \ {t}
    BY <1>4 DEF TaskEnds
  <2>2. PICK c \in Contents : buf' = [buf EXCEPT ![t.buf] = c]
    BY <1>2, <1>4, UsedGives DEF TaskEnds
  <2>3. /\ \A u \in tasks' : u \in tasks /\ u.buf \in Bufs /\ u.buf # t.buf
        /\ task # None => task.buf \in Bufs /\ task.buf # t.buf
        /\ current_download_buffer # None =>
              current_download_buffer \in Bufs /\ current_download_buffer # t.buf
    BY <2>1 DEF IInv, BufferOwners, TypeOK, TaskAt, Task
  <2>4. /\ \A u \in tasks' : buf'[u.buf] = buf[u.buf]
        /\ task # None => buf'[task.buf] = buf[task.buf]
        /\ current_download_buffer # None =>
              buf'[current_download_buffer] = buf[current_download_buffer]
    BY <2>2, <2>3 DEF IInv, TypeOK
  <2> QED BY <1>1, <2>3, <2>4 DEF FlashInv, Meets, Meant
<1>5. CASE TaskFails(t)
  <2>1. UNCHANGED <<tasks, buf>>
    BY <1>5 DEF TaskFails, storage
  <2> QED BY <1>1, <2>1 DEF FlashInv, Meets, Meant
<1> QED BY <1>3, <1>4, <1>5

(* The rest of the loop writes no buffer and answers no download.           *)
LEMMA LoopFlash ==
    ASSUME IInv, FlashInv,
           \/ get_download_buffer \/ get_var \/ NothingStaged \/ DoesNotFit \/ GptInfo \/ UpdateGpt \/ boot
           \/ SyncInfo \/ sync_all_blocks \/ Synced \/ RunReturns
    PROVE  FlashInv'
<1>1. UNCHANGED <<tasks, buf>> /\ task' \in {task, None}
  BY DEF get_download_buffer, get_var, NothingStaged, DoesNotFit, GptInfo, UpdateGpt, boot, SyncInfo,
         sync_all_blocks, Synced, RunReturns, storage
<1>2. ~(step' = "idle" /\ cmd'.op = "download" /\ reply' = "okay")
  <2>1. CASE cmd.op # "download"
    <3>1. cmd' \in {cmd, Served(cmd.op)}
      BY DEF get_download_buffer, get_var, NothingStaged, DoesNotFit, GptInfo, UpdateGpt, boot, SyncInfo,
             sync_all_blocks, Synced, RunReturns, host, Answer, AnswerAndEnd
    <3> QED BY <2>1, <3>1, NotDownload
  <2>2. CASE cmd.op = "download"
    <3>1. step \in {"idle", "buffer", "download", "ended"} \cup Stopped
      BY <2>2 DEF IInv, CommandAt, TypeOK
    <3>2. get_download_buffer \/ RunReturns
      BY <3>1 DEF get_download_buffer, get_var, NothingStaged, DoesNotFit, GptInfo, UpdateGpt, boot, SyncInfo,
             sync_all_blocks, Synced, RunReturns, Stopped
    <3> QED BY <2>2, <3>2 DEF get_download_buffer, RunReturns
  <2> QED BY <2>1, <2>2
<1>3. ~(step' \in {"disk", "take"} /\ cmd'.op \in {"flash", "flash_gpt"})
  <2>1. CASE get_download_buffer
    BY <2>1 DEF get_download_buffer, host, IInv, CommandAt
  <2>2. CASE ~get_download_buffer
    BY <2>2 DEF get_var, NothingStaged, DoesNotFit, GptInfo, UpdateGpt, boot, SyncInfo,
                sync_all_blocks, Synced, RunReturns, Answer, AnswerAndEnd
  <2> QED BY <2>1, <2>2
<1> QED BY <1>1, <1>2, <1>3, FlashFrame

(* "(partition io, downloaded data, data size)": a flash writes the image   *)
(* the host downloaded for it, however many tasks and buffers are in use,   *)
(* if the host flashes right after an OKAY or with nothing staged.          *)
THEOREM FastbootFlashes ==
    ASSUME Disciplined = TRUE
    PROVE  Spec => []FlashesDownloaded
<1>1. Init => IInv /\ FlashInv
  <2>1. Init => FlashInv
    BY DEF Init, FlashInv
  <2> QED BY <2>1, InitIInv
<1>2. IInv /\ FlashInv /\ [Next]_vars => IInv' /\ FlashInv'
  <2> SUFFICES ASSUME IInv, FlashInv, [Next]_vars PROVE FlashInv'
    BY NextIInv
  <2>1. CASE UNCHANGED vars
    BY <2>1 DEF vars, download, host, FlashInv, Meant, Meets
  <2>2. CASE Commands
    BY <2>2, CommandsFlash
  <2>3. CASE CommandLoop
    BY <2>3, WaitFlash, DownloadFlash, FetchFlash, BuildTaskFlash, LaunchFlash, RunInlineFlash,
       LoopFlash DEF CommandLoop
  <2>4. CASE \E t \in tasks : TaskBegins(t) \/ TaskEnds(t) \/ TaskFails(t)
    BY <2>4, TasksFlash
  <2> QED BY <2>1, <2>2, <2>3, <2>4 DEF Next, Over
<1>3. FlashInv => FlashesDownloaded
  <2> SUFFICES ASSUME FlashInv, NEW t \in tasks \cup ({task} \ {None}),
                      t.kind = "sparse" \/ (t.kind = "flash" /\ t.size # None)
               PROVE  Written(t) = t.wants
    BY DEF FlashesDownloaded
  <2>1. Meets(t)
    BY DEF FlashInv
  <2> QED BY <2>1 DEF Meets, Written
<1> QED BY <1>1, <1>2, <1>3, PTL DEF Spec

=============================================================================
