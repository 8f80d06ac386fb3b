------------------------------ MODULE EfiProofs ------------------------------
(***************************************************************************)
(* Proofs about what the EFI application shares with the firmware: network *)
(* frames, block requests and memory, for every number of frames, futures, *)
(* layouts and addresses; and about what it asks the platform (EfiOps).    *)
(***************************************************************************)
EXTENDS MCEfi, EfiOps, TLAPS, FiniteSetTheorems, SequenceTheorems

(* The network: the firmware has frames below curr only, GBL's is none of   *)
(* them, and the pool is allocated as long as the network is up.            *)
NetInv ==
    /\ npc \in {"down", "failed", "idle", "acquire", "fill", "panic"}
    /\ curr \in 0..(ExtraTxFrames + 1)
    /\ held \subseteq 1..curr /\ sent \subseteq 1..curr /\ held \cap sent = {}
    /\ npc \in {"down", "failed"} => held = {} /\ sent = {}
    /\ npc \notin {"down", "failed"} => alive = tx_frames
    /\ npc = "fill" => buf \in (1..curr) \ (held \cup sent)

(* Requests: the firmware works on a request only while its event is clear. *)
IoInv ==
    /\ st \in [Tasks -> {"new", "wait", "ok", "err"}]
    /\ event \in [Tasks -> {"none", "clear", "set"}]
    /\ fw \in [Tasks -> BOOLEAN]
    /\ status \in [Tasks -> {"NOT_READY", "ok", "err"}]
    /\ crashed \in BOOLEAN
    /\ ~crashed => \A t \in Disks :
          /\ fw[t] => st[t] = "wait" /\ event[t] = "clear"
          /\ event[t] = "set" => st[t] = "wait" /\ status[t] \in Ended
          /\ st[t] = "ok" => status[t] = "ok"

(* Memory: each piece GBL holds has a block of its own, and what is stored  *)
(* behind over-aligned memory leads back to the start of that block.        *)
Alloc == [ptr: Nat, size: Nat \ {0}, align: Nat \ {0}]
Users == ({"allocated"} \X Nat) \cup ({"reserved"} \X Reserved)

MemType ==
    /\ pool \subseteq Nat \X (Nat \ {0}) /\ live \subseteq Alloc /\ offsets \subseteq Nat \X Nat
    /\ users \in Seq(Users) /\ returned \in Seq(Reserved)
    /\ services \in BOOLEAN /\ late = FALSE

StateInv ==
    /\ efi \in {"Uninitialized", "Initialized"} => services
    /\ mpc \in {"up", "mapped"} => efi = "Initialized"
    /\ mpc = "left" => ~services

Apart(b, c) == b[1] + b[2] =< c[1] \/ c[1] + c[2] =< b[1]
Own(a, b) ==
    /\ b[2] = PoolSize(a.size, a.align) /\ Within(a, b)
    /\ IF a.align =< EFI_ALLOCATE_POOL_ALIGNMENT THEN b[1] = a.ptr
       ELSE b[1] < a.ptr /\ <<a.ptr + a.size, a.ptr - b[1]>> \in offsets

BlocksInv ==
    /\ \A b, c \in pool : b # c => Apart(b, c)
    /\ \A o, p \in offsets : o[1] = p[1] => o = p
    /\ services => \A a \in live : \E b \in pool : Own(a, b)
    /\ services => \A b \in pool : \E a \in live : Within(a, b)
    /\ services => \A a, c \in live, b \in pool : Within(a, b) /\ Within(c, b) => a = c
    /\ \A a \in live : a.ptr % a.align = 0

UsersInv ==
    /\ \A i \in 1..Len(users) :
          /\ users[i][1] = "allocated" => \E a \in live : a.ptr = users[i][2]
          /\ users[i][1] = "reserved" => \E k \in 1..Len(returned) : returned[k] = users[i][2]
    /\ \A i, j \in 1..Len(users) : users[i] = users[j] => i = j

MemInv == MemType /\ StateInv /\ BlocksInv /\ UsersInv

-----------------------------------------------------------------------------
LEMMA NetInitInv == NetInit => NetInv
BY NetAssumption DEF NetInit, NetInv

LEMMA NetNextInv ==
    ASSUME NetInv, NetNext
    PROVE  NetInv'
<1>0. ExtraTxFrames \in Nat
  BY NetAssumption
<1>1. ASSUME init PROVE NetInv'
  <2>1. npc = "down" /\ curr' = 0 /\ UNCHANGED <<buf, wait>>
    BY <1>1 DEF init
  <2>2. /\ \/ npc' = "idle" /\ alive' = tx_frames
           \/ npc' = "failed"
        /\ (held' = {} /\ sent' = {}) \/ UNCHANGED <<held, sent>>
    BY <1>1 DEF init, reset_simple_network, Released
  <2>3. held' = {} /\ sent' = {}
    BY <2>1, <2>2 DEF NetInv
  <2> QED BY <1>0, <2>1, <2>2, <2>3 DEF NetInv, tx_frames
<1>2. ASSUME next_session PROVE NetInv'
  BY <1>2 DEF next_session, NetInv, tx_frames
<1>3. ASSUME drop PROVE NetInv'
  BY <1>0, <1>3 DEF drop, shutdown, Released, NetInv, tx_frames
<1>4. ASSUME transmit PROVE NetInv'
  BY <1>4 DEF transmit, NetInv, tx_frames
<1>5. ASSUME try_get_buffer PROVE NetInv'
  <2>1. UNCHANGED <<snp, held, alive>> /\ npc = "acquire"
    BY <1>5 DEF try_get_buffer
  <2>2. CASE \E f \in sent : /\ buf' = f /\ sent' = sent \ {f} /\ npc' = "fill" /\ curr' = curr
    BY <1>0, <2>1, <2>2 DEF NetInv, tx_frames
  <2>3. CASE curr \in 0..ExtraTxFrames /\ buf' = curr + 1 /\ curr' = curr + 1 /\ npc' = "fill" /\ sent' = sent
    BY <1>0, <2>1, <2>3 DEF NetInv, tx_frames
  <2>4. CASE UNCHANGED <<buf, curr, npc, sent>>
    BY <2>1, <2>4 DEF NetInv, tx_frames
  <2> QED BY <1>5, <2>2, <2>3, <2>4 DEF try_get_buffer
<1>6. ASSUME TxToken_consume PROVE NetInv'
  BY <1>0, <1>6 DEF TxToken_consume, NetInv, tx_frames
<1>7. ASSUME Timer PROVE NetInv'
  BY <1>7 DEF Timer, NetInv, tx_frames
<1>8. ASSUME Timeout PROVE NetInv'
  <2>1. npc = "acquire" /\ UNCHANGED <<alive, buf>>
    BY <1>8 DEF Timeout
  <2>2. \/ curr' = 0 /\ npc' = npc /\ held' = {} /\ sent' = {}
        \/ /\ npc' = "panic" /\ curr' = curr
           /\ (held' = {} /\ sent' = {}) \/ UNCHANGED <<held, sent>>
    BY <1>8 DEF Timeout, reset_simple_network, Released
  <2>3. CASE curr' = 0 /\ npc' = npc /\ held' = {} /\ sent' = {}
    BY <1>0, <2>1, <2>3 DEF NetInv, tx_frames
  <2>4. CASE /\ npc' = "panic" /\ curr' = curr
             /\ (held' = {} /\ sent' = {}) \/ UNCHANGED <<held, sent>>
    BY <2>1, <2>4 DEF NetInv, tx_frames
  <2> QED BY <2>2, <2>3, <2>4
<1>9. ASSUME FwTransmits PROVE NetInv'
  BY <1>9 DEF FwTransmits, NetInv, tx_frames
<1>10. ASSUME FwHijacks PROVE NetInv'
  BY <1>10 DEF FwHijacks, NetInv, tx_frames
<1>11. ASSUME UNCHANGED netVars PROVE NetInv'
  BY <1>11 DEF netVars, NetInv, tx_frames
<1> QED
  BY <1>1, <1>2, <1>3, <1>4, <1>5, <1>6, <1>7, <1>8, <1>9, <1>10, <1>11 DEF NetNext, NetDevice

LEMMA NetInvSafe == NetInv => FrameExclusive
BY NetAssumption DEF NetInv, FrameExclusive, tx_frames

-----------------------------------------------------------------------------
LEMMA IoInitInv == IoInit => IoInv
BY ZenonT(40) DEF IoInit, IoInv, Tasks

LEMMA IoNextInv ==
    ASSUME IoInv, IoNext
    PROVE  IoInv'
<1>0. Disks \cap Usb = {} /\ Disks \cap Local = {} /\ Disks \subseteq Tasks
  BY RequestAssumption DEF Tasks
<1>1. ASSUME NEW t \in Tasks, Start(t) PROVE IoInv'
  <2>1. st[t] \in {"new", "ok", "err"} /\ crashed' = crashed /\ ~crashed
    BY <1>1 DEF Start, Ended
  <2>2. CASE st' = [st EXCEPT ![t] = "err"] /\ UNCHANGED <<event, fw, status>>
    BY <1>0, <2>1, <2>2 DEF IoInv
  <2>3. CASE /\ st' = [st EXCEPT ![t] = "wait"] /\ event' = create_event(t)
             /\ fw' = [fw EXCEPT ![t] = t \notin Local] /\ status' = [status EXCEPT ![t] = "NOT_READY"]
    <3>1. event' \in [Tasks -> {"none", "clear", "set"}] /\ (t \in Disks => event'[t] = "clear")
          /\ \A u \in Tasks : u # t => event'[u] = event[u]
      BY <1>0, <2>3 DEF IoInv, create_event
    <3>2. fw' \in [Tasks -> BOOLEAN] /\ \A u \in Tasks : u # t => fw'[u] = fw[u]
      BY <2>3 DEF IoInv
    <3>3. /\ st' \in [Tasks -> {"new", "wait", "ok", "err"}] /\ st'[t] = "wait"
          /\ status' \in [Tasks -> {"NOT_READY", "ok", "err"}]
          /\ \A u \in Tasks : u # t => st'[u] = st[u] /\ status'[u] = status[u]
      BY <2>3 DEF IoInv
    <3> QED BY <1>0, <2>1, <3>1, <3>2, <3>3 DEF IoInv
  <2> QED BY <1>1, <2>2, <2>3 DEF Start
<1>2. ASSUME read_blocks PROVE IoInv'
  <2>1. PICK t \in Disks, r \in Ended :
           /\ st[t] \in {"new"} \cup Ended /\ st' = [st EXCEPT ![t] = r] /\ status' = [status EXCEPT ![t] = r]
           /\ UNCHANGED <<event, fw, crashed>>
    BY <1>2 DEF read_blocks
  <2> QED BY <1>0, <2>1 DEF IoInv, Ended
<1>3. ASSUME NEW t \in Tasks, NEW r \in Ended, Return(t, r), t \in Disks => ~fw'[t] /\ (r = "ok" => status[t] = "ok"),
             UNCHANGED status, fw' \in [Tasks -> BOOLEAN], \A u \in Tasks : u # t => fw'[u] = fw[u]
      PROVE  IoInv'
  <2>1. /\ st' = [st EXCEPT ![t] = r] /\ crashed' = crashed
        /\ event' = IF t \in Usb THEN event ELSE [event EXCEPT ![t] = "none"]
    BY <1>3 DEF Return, close_event
  <2> QED BY <1>0, <1>3, <2>1 DEF IoInv, Ended
<1>4. ASSUME wait_io_completion PROVE IoInv'
  <2>1. PICK t \in Disks : st[t] = "wait" /\ (CheckFails(t) \/ Completed(t) \/ (~check_event(t) /\ yield_now(t)))
    BY <1>4 DEF wait_io_completion
  <2>2. CASE Completed(t)
    <3>1. ~crashed /\ event[t] = "set" /\ status[t] \in Ended
      BY <2>2, <1>0 DEF Completed, check_event, Return, CyclicExecutor_poll, IoInv
    <3>2. ~fw[t] /\ fw' = fw /\ fw \in [Tasks -> BOOLEAN]
      BY <2>2, <3>1 DEF Completed, IoInv
    <3> QED BY <1>0, <1>3, <2>2, <3>1, <3>2 DEF Completed
  <2>3. CASE CheckFails(t)
    <3>1. CASE Return(t, "err") /\ fw' = [fw EXCEPT ![t] = FALSE] /\ UNCHANGED status
      <4>1. fw' \in [Tasks -> BOOLEAN] /\ ~fw'[t] /\ \A u \in Tasks : u # t => fw'[u] = fw[u]
        BY <1>0, <3>1 DEF IoInv
      <4> QED BY <1>0, <1>3, <3>1, <4>1 DEF Ended
    <3>2. CASE crashed' = TRUE /\ UNCHANGED <<st, event, fw, status>>
      BY <3>2 DEF IoInv
    <3> QED BY <2>3, <3>1, <3>2 DEF CheckFails
  <2>4. CASE yield_now(t)
    BY <2>4 DEF yield_now, IoInv
  <2> QED BY <2>1, <2>2, <2>3, <2>4
<1>5. ASSUME with_timeout PROVE IoInv'
  <2>1. PICK t \in Usb :
        \/ Return(t, "err") /\ UNCHANGED <<fw, status>>
        \/ /\ st' = [st EXCEPT ![t] = "ok"] /\ event' = [event EXCEPT ![t] = "clear"]
           /\ UNCHANGED <<fw, status, crashed>>
        \/ yield_now(t)
    BY <1>5 DEF with_timeout
  <2>2. t \in Tasks /\ t \notin Disks
    BY <1>0 DEF Tasks
  <2>3. CASE Return(t, "err") /\ UNCHANGED <<fw, status>>
    <3>1. fw' = fw /\ fw \in [Tasks -> BOOLEAN]
      BY <2>3 DEF IoInv
    <3> QED BY <1>3, <2>2, <2>3, <3>1 DEF Ended
  <2>4. CASE /\ st' = [st EXCEPT ![t] = "ok"] /\ event' = [event EXCEPT ![t] = "clear"]
             /\ UNCHANGED <<fw, status, crashed>>
    BY <1>0, <2>2, <2>4 DEF IoInv
  <2>5. CASE yield_now(t)
    BY <2>5 DEF yield_now, IoInv
  <2> QED BY <2>1, <2>3, <2>4, <2>5
<1>6. ASSUME RecurringTimer_wait PROVE IoInv'
  <2>1. PICK t \in Local : \/ \E r \in Ended : Return(t, r) /\ UNCHANGED <<fw, status>>
                           \/ yield_now(t)
    BY <1>6 DEF RecurringTimer_wait, Ended
  <2>2. t \in Tasks /\ t \notin Disks
    BY <1>0 DEF Tasks
  <2>3. ASSUME NEW r \in Ended, Return(t, r) /\ UNCHANGED <<fw, status>> PROVE IoInv'
    <3>1. fw' = fw /\ fw \in [Tasks -> BOOLEAN]
      BY <2>3 DEF IoInv
    <3> QED BY <1>3, <2>2, <2>3, <3>1
  <2>4. CASE yield_now(t)
    BY <2>4 DEF yield_now, IoInv
  <2> QED BY <2>1, <2>3, <2>4
<1>7. ASSUME CyclicExecutor_run PROVE IoInv'
  BY <1>7 DEF CyclicExecutor_run, IoInv
<1>8. ASSUME DropFuture PROVE IoInv'
  <2>1. PICK t : \/ crashed' = TRUE /\ UNCHANGED <<st, event>>
                 \/ /\ t \notin Disks /\ st' = [st EXCEPT ![t] = "err"] /\ event' = close_event(t)
                    /\ UNCHANGED crashed
    BY <1>8 DEF DropFuture
  <2>2. UNCHANGED <<fw, status>>
    BY <1>8 DEF DropFuture
  <2> QED BY <1>0, <2>1, <2>2 DEF IoInv, close_event
<1>9. ASSUME NEW t \in Tasks, FwCompletes(t) PROVE IoInv'
  <2>1. PICK r \in Ended : /\ fw[t] /\ fw' = [fw EXCEPT ![t] = FALSE] /\ status' = [status EXCEPT ![t] = r]
                           /\ event' = [event EXCEPT ![t] = IF t \in Usb \/ @ = "clear" THEN "set" ELSE @]
                           /\ UNCHANGED <<st, crashed>>
    BY <1>9 DEF FwCompletes
  <2>2. event' \in [Tasks -> {"none", "clear", "set"}] /\ \A u \in Tasks : u # t => event'[u] = event[u]
    BY <2>1 DEF IoInv
  <2> QED BY <1>0, <2>1, <2>2 DEF IoInv, Ended
<1>10. ASSUME NEW t \in Tasks, FwTimer(t) PROVE IoInv'
  BY <1>10 DEF FwTimer, IoInv
<1>11. ASSUME UNCHANGED ioVars PROVE IoInv'
  BY <1>11 DEF ioVars, IoInv
<1>12. ASSUME read_blocks_ex \/ send_packet \/ RecurringTimer PROVE IoInv'
  BY <1>1, <1>12 DEF read_blocks_ex, send_packet, RecurringTimer, Tasks
<1> QED
  BY <1>2, <1>4, <1>5, <1>6, <1>7, <1>8, <1>9, <1>10, <1>11, <1>12 DEF IoNext, Polls

LEMMA IoInvSafe == IoInv => RequestExclusive
BY DEF IoInv, RequestExclusive

-----------------------------------------------------------------------------
(* Alignment. *)
LEMMA Distribute == \A a, b, c \in Int : a * (b - c) = a * b - a * c
OBVIOUS

LEMMA Multiple ==
    ASSUME NEW m \in Nat \ {0}, NEW k \in Nat
    PROVE  (m * k) % m = 0
<1> DEFINE x == m * k
           q == x \div m
           r == x % m
<1>1. x \in Nat /\ q \in Int /\ r \in 0..(m - 1) /\ x = m * q + r
  OBVIOUS
<1> HIDE DEF q, r
<1> DEFINE d == k - q
<1>2. d \in Int /\ m * d = r
  <2>1. m * d = m * k - m * q
    BY <1>1, Distribute
  <2> QED BY <1>1, <2>1
<1> HIDE DEF d, x
<1>3. CASE d = 0
  BY <1>2, <1>3 DEF r, x
<1>4. CASE d >= 1
  <2>1. m * d >= m
    BY <1>2, <1>4
  <2> QED BY <1>1, <1>2, <2>1
<1>5. CASE d =< 0 - 1
  <2>1. m * d =< 0 - m
    BY <1>2, <1>5
  <2> QED BY <1>1, <1>2, <2>1
<1> QED BY <1>2, <1>3, <1>4, <1>5

LEMMA Divides ==
    ASSUME NEW x \in Nat, NEW p \in Nat \ {0}, NEW m \in Nat \ {0}, x % p = 0, p % m = 0
    PROVE  x % m = 0
<1> DEFINE q == x \div p
           r == p \div m
<1>1. q \in Nat /\ x = p * q
  OBVIOUS
<1>2. r \in Nat /\ p = m * r
  OBVIOUS
<1> HIDE DEF q, r
<1>3. x = m * (r * q) /\ r * q \in Nat
  BY <1>1, <1>2
<1> QED BY <1>3, Multiple

LEMMA NextMultiple ==
    ASSUME NEW x \in Nat, NEW m \in Nat \ {0}
    PROVE  (x + (m - (x % m))) % m = 0 /\ x % m \in 0..(m - 1)
<1> DEFINE q == x \div m
<1>1. q \in Nat /\ x % m \in 0..(m - 1) /\ x = m * q + (x % m)
  OBVIOUS
<1> DEFINE y == x + (m - (x % m))
<1> HIDE DEF q
<1>2. y = m * (q + 1) /\ q + 1 \in Nat
  <2>1. m * (q + 1) = m * q + m
    BY <1>1
  <2> QED BY <1>1, <2>1
<1> HIDE DEF y
<1>3. y % m = 0
  BY <1>2, Multiple
<1> QED BY <1>1, <1>3 DEF y

(* A layout: not empty, and a smaller alignment divides the pool's.         *)
Layout(size, align) ==
    /\ size \in Nat \ {0} /\ align \in Nat \ {0}
    /\ align =< EFI_ALLOCATE_POOL_ALIGNMENT => EFI_ALLOCATE_POOL_ALIGNMENT % align = 0

LEMMA GivenAligned ==
    ASSUME NEW size, NEW align, Layout(size, align), NEW at \in Nat, at % EFI_ALLOCATE_POOL_ALIGNMENT = 0
    PROVE  LET a == Given(size, align, at)
               b == <<at, PoolSize(size, align)>> IN
           /\ a \in Alloc /\ a.ptr % a.align = 0 /\ b \in Nat \X (Nat \ {0}) /\ Within(a, b)
           /\ a.size = size /\ a.align = align /\ a.ptr = at + Offset(at, align) /\ Offset(at, align) \in Nat
           /\ align =< EFI_ALLOCATE_POOL_ALIGNMENT => a.ptr = at
           /\ align > EFI_ALLOCATE_POOL_ALIGNMENT => a.ptr > at
<1>0. EFI_ALLOCATE_POOL_ALIGNMENT \in Nat \ {0} /\ USIZE \in Nat \ {0}
  BY MemAssumption
<1>1. CASE align =< EFI_ALLOCATE_POOL_ALIGNMENT
  <2>1. at % align = 0
    BY <1>0, <1>1, Divides DEF Layout
  <2> QED BY <1>0, <1>1, <2>1 DEF Layout, Given, Offset, PoolSize, Within, Alloc
<1>2. CASE align > EFI_ALLOCATE_POOL_ALIGNMENT
  <2> DEFINE g == align - (at % align)
  <2>1. (at + g) % align = 0 /\ g \in 1..align
    <3>1. align \in Nat \ {0}
      BY DEF Layout
    <3>2. (at + g) % align = 0 /\ at % align \in 0..(align - 1)
      BY <3>1, NextMultiple
    <3> QED BY <3>1, <3>2
  <2>2. Offset(at, align) = g /\ PoolSize(size, align) = size + align + USIZE
    BY <1>0, <1>2 DEF Offset, PoolSize, Layout
  <2> HIDE DEF g
  <2> QED BY <1>0, <1>2, <2>1, <2>2 DEF Layout, Given, Within, Alloc
<1> QED BY <1>0, <1>1, <1>2 DEF Layout

-----------------------------------------------------------------------------
(* A piece of memory lies in one block only.                                *)
LEMMA OneBlock ==
    ASSUME NEW a \in Alloc, NEW b \in Nat \X (Nat \ {0}), NEW c \in Nat \X (Nat \ {0}),
           Within(a, b), Within(a, c)
    PROVE  ~Apart(b, c)
BY MemAssumption DEF Alloc, Within, Apart

LEMMA RoomIsApart ==
    ASSUME NEW n \in Nat \ {0}, NEW at \in Room(n), pool \subseteq Nat \X (Nat \ {0}), NEW b \in pool
    PROVE  at \in Nat /\ at % EFI_ALLOCATE_POOL_ALIGNMENT = 0 /\ Apart(<<at, n>>, b)
<1>1. at \in Nat /\ at % EFI_ALLOCATE_POOL_ALIGNMENT = 0 /\ Bytes(at, n) \cap Bytes(b[1], b[2]) = {}
  BY MemAssumption DEF Room, Taken
<1>2. b[1] \in Nat /\ b[2] \in Nat \ {0}
  OBVIOUS
<1>3. CASE at =< b[1]
  <2>1. b[1] \in Bytes(b[1], b[2])
    BY <1>2 DEF Bytes
  <2>2. b[1] \notin Bytes(at, n)
    BY <1>1, <2>1
  <2> QED BY <1>1, <1>2, <1>3, <2>2 DEF Bytes, Apart
<1>4. CASE at > b[1]
  <2>1. at \in Bytes(at, n)
    BY <1>1 DEF Bytes
  <2>2. at \notin Bytes(b[1], b[2])
    BY <1>1, <2>1
  <2> QED BY <1>1, <1>2, <1>4, <2>2 DEF Bytes, Apart
<1> QED BY <1>1, <1>2, <1>3, <1>4

(* EfiAllocator::alloc(): the new memory is aligned, in a block of its own, *)
(* and the distances stored for other memory are not overwritten.           *)
LEMMA AllocStep ==
    ASSUME MemType, BlocksInv, services, services' = services,
           NEW size, NEW align, Layout(size, align),
           NEW at \in Room(PoolSize(size, align)),
           pool' = pool \cup {<<at, PoolSize(size, align)>>},
           live' = live \cup {Given(size, align, at)},
           offsets' = Store(size, align, at)
    PROVE  /\ pool' \subseteq Nat \X (Nat \ {0}) /\ live' \subseteq Alloc /\ offsets' \subseteq Nat \X Nat
           /\ BlocksInv'
           /\ \A c \in live : c.ptr # Given(size, align, at).ptr
<1> DEFINE n == PoolSize(size, align)
           new == Given(size, align, at)
           blk == <<at, n>>
<1>0. EFI_ALLOCATE_POOL_ALIGNMENT \in Nat \ {0} /\ USIZE \in Nat \ {0} /\ n \in Nat \ {0}
  BY MemAssumption DEF PoolSize, Layout
<1>1. at \in Nat /\ at % EFI_ALLOCATE_POOL_ALIGNMENT = 0
  BY MemAssumption DEF Room
<1>2. /\ new \in Alloc /\ new.ptr % new.align = 0 /\ blk \in Nat \X (Nat \ {0}) /\ Within(new, blk)
      /\ new.size = size /\ new.align = align /\ new.ptr = at + Offset(at, align) /\ Offset(at, align) \in Nat
      /\ align =< EFI_ALLOCATE_POOL_ALIGNMENT => new.ptr = at
      /\ align > EFI_ALLOCATE_POOL_ALIGNMENT => new.ptr > at
  BY <1>1, GivenAligned
<1>3. \A b \in pool : b \in Nat \X (Nat \ {0}) /\ Apart(blk, b)
  BY <1>0, RoomIsApart DEF MemType
<1>4. \A a \in live : a \in Alloc /\ \E b \in pool : Own(a, b)
  BY DEF MemType, BlocksInv
<1> DEFINE w == new.ptr + size
<1>5. /\ align =< EFI_ALLOCATE_POOL_ALIGNMENT => offsets' = offsets
      /\ align > EFI_ALLOCATE_POOL_ALIGNMENT =>
            offsets' = {o \in offsets : Bytes(o[1], USIZE) \cap Bytes(w, USIZE) = {}} \cup {<<w, Offset(at, align)>>}
  BY <1>0, <1>2 DEF Store, Layout
<1>6. w \in Nat /\ size \in Nat \ {0} /\ align \in Nat \ {0}
  BY <1>2 DEF Alloc, Layout
<1> HIDE DEF n, new, blk, w
<1>7. pool' \subseteq Nat \X (Nat \ {0}) /\ live' \subseteq Alloc
  BY <1>2 DEF MemType, n, new, blk
<1>8. offsets' \subseteq Nat \X Nat
  <2>1. <<w, Offset(at, align)>> \in Nat \X Nat
    BY <1>2, <1>6
  <2> QED BY <1>0, <1>5, <1>6, <2>1 DEF MemType
<1>9. \A o, p \in offsets' : o[1] = p[1] => o = p
  <2>1. CASE align =< EFI_ALLOCATE_POOL_ALIGNMENT
    BY <1>5, <2>1 DEF BlocksInv
  <2>2. CASE align > EFI_ALLOCATE_POOL_ALIGNMENT
    <3> DEFINE kept == {o \in offsets : Bytes(o[1], USIZE) \cap Bytes(w, USIZE) = {}}
               mine == <<w, Offset(at, align)>>
    <3>1. \A o \in kept : o \in offsets /\ o[1] # w
      <4>1. w \in Bytes(w, USIZE)
        BY <1>0, <1>6 DEF Bytes
      <4> QED BY <4>1
    <3>2. offsets' = kept \cup {mine} /\ mine[1] = w
      BY <1>5, <2>2
    <3> HIDE DEF kept, mine
    <3> QED BY <3>1, <3>2 DEF BlocksInv
  <2> QED BY <1>0, <1>6, <2>1, <2>2
<1>10. Own(new, blk)'
  <2>1. align > EFI_ALLOCATE_POOL_ALIGNMENT => <<w, new.ptr - at>> \in offsets'
    <3>1. new.ptr - at = Offset(at, align)
      BY <1>1, <1>2
    <3> QED BY <1>5, <3>1
  <2> QED BY <1>0, <1>1, <1>2, <1>6, <2>1 DEF Own, blk, n, w, Within
<1>11. ASSUME NEW a \in live, NEW b \in pool, Own(a, b) PROVE Own(a, b)'
  <2>1. CASE a.align =< EFI_ALLOCATE_POOL_ALIGNMENT
    BY <1>11, <2>1 DEF Own, Within
  <2>2. CASE ~(a.align =< EFI_ALLOCATE_POOL_ALIGNMENT)
    <3>1. <<a.ptr + a.size, a.ptr - b[1]>> \in offsets /\ b[1] < a.ptr /\ Within(a, b)
      BY <1>11, <2>2 DEF Own
    <3> DEFINE v == a.ptr + a.size
    <3>2. v \in Nat /\ a.ptr \in Nat /\ b[1] =< v /\ v + USIZE =< b[1] + b[2] /\ b[1] \in Nat /\ b[2] \in Nat
      BY <1>0, <1>3, <1>4, <2>2, <3>1 DEF Within, Alloc
    <3>3. align > EFI_ALLOCATE_POOL_ALIGNMENT => at =< w /\ w + USIZE =< at + n
      BY <1>0, <1>1, <1>2, <1>6 DEF Within, blk, w, Alloc
    <3>4. at + n =< b[1] \/ b[1] + b[2] =< at
      BY <1>3 DEF Apart, blk
    <3> HIDE DEF v
    <3>5. align > EFI_ALLOCATE_POOL_ALIGNMENT => Bytes(v, USIZE) \cap Bytes(w, USIZE) = {}
      BY <1>0, <1>1, <1>6, <3>2, <3>3, <3>4 DEF Bytes
    <3>6. <<v, a.ptr - b[1]>> \in offsets'
      BY <1>0, <1>5, <1>6, <3>1, <3>5 DEF v
    <3> QED BY <1>11, <3>6 DEF Own, v, Within
  <2> QED BY <2>1, <2>2
<1>12. /\ \A a \in live : ~Within(a, blk)
       /\ \A b \in pool : ~Within(new, b)
  <2>1. ASSUME NEW a \in live, Within(a, blk) PROVE FALSE
    <3>1. PICK b \in pool : Within(a, b)
      BY <1>4 DEF Own
    <3> QED BY <1>2, <1>3, <1>4, <2>1, <3>1, OneBlock
  <2>2. ASSUME NEW b \in pool, Within(new, b) PROVE FALSE
    BY <1>2, <1>3, <2>2, OneBlock
  <2> QED BY <2>1, <2>2
<1>13. pool' = pool \cup {blk} /\ live' = live \cup {new}
  BY DEF n, new, blk
<1>14. \A b, c \in pool' : b # c => Apart(b, c)
  BY <1>3, <1>13 DEF BlocksInv, Apart
<1>15. \A a \in live' : \E b \in pool' : Own(a, b)'
  BY <1>4, <1>10, <1>11, <1>13
<1>16. \A b \in pool' : \E a \in live' : Within(a, b)
  BY <1>2, <1>13 DEF BlocksInv
<1>17. \A a, c \in live', b \in pool' : Within(a, b) /\ Within(c, b) => a = c
  BY <1>12, <1>13 DEF BlocksInv
<1>18. \A a \in live' : a.ptr % a.align = 0
  BY <1>2, <1>13 DEF BlocksInv
<1>19. BlocksInv'
  BY <1>9, <1>14, <1>15, <1>16, <1>17, <1>18 DEF BlocksInv, Within
<1>20. \A c \in live : c.ptr # new.ptr
  <2> SUFFICES ASSUME NEW c \in live, c.ptr = new.ptr PROVE FALSE
    OBVIOUS
  <2>1. PICK b \in pool : Within(c, b)
    BY <1>4 DEF Own
  <2> QED BY <1>0, <1>1, <1>2, <1>3, <1>4, <2>1 DEF Within, Alloc, Apart, blk
<1> QED BY <1>7, <1>8, <1>19, <1>20 DEF new

(* EfiAllocator::dealloc(): the stored distance leads to the block.         *)
LEMMA BlockIsOwn ==
    ASSUME MemType, BlocksInv, NEW a \in live, NEW b \in pool, Own(a, b)
    PROVE  BlockOf(a) = b[1]
<1>1. a.ptr \in Nat /\ b[1] \in Nat
  BY DEF MemType, Alloc
<1>2. CASE a.align =< EFI_ALLOCATE_POOL_ALIGNMENT
  BY <1>2 DEF Own, BlockOf
<1>3. CASE ~(a.align =< EFI_ALLOCATE_POOL_ALIGNMENT)
  <2> DEFINE mine == <<a.ptr + a.size, a.ptr - b[1]>>
             found == CHOOSE o \in offsets : o[1] = a.ptr + a.size
  <2>1. mine \in offsets /\ mine[1] = a.ptr + a.size /\ mine[2] = a.ptr - b[1]
    BY <1>3 DEF Own
  <2>2. found \in offsets /\ found[1] = a.ptr + a.size
    BY <2>1
  <2> HIDE DEF found, mine
  <2>3. found = mine
    BY <2>1, <2>2 DEF BlocksInv
  <2>4. BlockOf(a) = a.ptr - found[2]
    BY <1>3 DEF BlockOf, found
  <2> QED BY <1>1, <2>1, <2>3, <2>4
<1> QED BY <1>2, <1>3

LEMMA DeallocStep ==
    ASSUME MemType, BlocksInv, services' = services, NEW a \in live,
           live' = live \ {a}, offsets' = {o \in offsets : o[1] # a.ptr + a.size},
           services => pool' = {b \in pool : b[1] # BlockOf(a)},
           ~services => pool' = pool
    PROVE  BlocksInv'
<1>0. EFI_ALLOCATE_POOL_ALIGNMENT \in Nat \ {0} /\ USIZE \in Nat \ {0}
  BY MemAssumption
<1>1. pool' \subseteq pool /\ offsets' \subseteq offsets /\ live' \subseteq live
  OBVIOUS
<1>2. /\ \A b, c \in pool' : b # c => Apart(b, c)
      /\ \A o, p \in offsets' : o[1] = p[1] => o = p
      /\ \A c \in live' : c.ptr % c.align = 0
  BY <1>1 DEF BlocksInv
<1>3. ASSUME services
      PROVE  /\ \A c \in live' : \E b \in pool' : Own(c, b)'
             /\ \A b \in pool' : \E c \in live' : Within(c, b)
             /\ \A c, d \in live', b \in pool' : Within(c, b) /\ Within(d, b) => c = d
  <2>1. PICK mine \in pool : Own(a, mine)
    BY <1>3 DEF BlocksInv
  <2>2. BlockOf(a) = mine[1]
    BY <2>1, BlockIsOwn
  <2>3. pool' = {b \in pool : b[1] # mine[1]}
    BY <1>3, <2>2
  <2>4. \A b \in pool : b \in Nat \X (Nat \ {0}) /\ (b # mine => Apart(b, mine))
    BY DEF MemType, BlocksInv
  <2>5. a \in Alloc /\ Within(a, mine) /\ \A c \in live : c \in Alloc
    BY <2>1 DEF MemType, Own
  <2>6. ASSUME NEW c \in live' PROVE \E b \in pool' : Own(c, b)'
    <3>1. PICK b \in pool : Own(c, b)
      BY <1>1, <1>3, <2>6 DEF BlocksInv
    <3>2. Within(c, b) /\ c # a /\ c \in Alloc /\ c \in live
      BY <2>5, <2>6, <3>1 DEF Own
    <3>3. b # mine
      BY <1>3, <2>5, <3>2 DEF BlocksInv
    <3>4. Apart(b, mine) /\ b[1] \in Nat /\ b[2] \in Nat \ {0} /\ mine[1] \in Nat /\ mine[2] \in Nat \ {0}
      BY <2>4, <3>3
    <3>5. b \in pool'
      BY <2>3, <3>4 DEF Apart
    <3>6. ~(c.align =< EFI_ALLOCATE_POOL_ALIGNMENT) => c.ptr + c.size # a.ptr + a.size
      <4> SUFFICES ASSUME ~(c.align =< EFI_ALLOCATE_POOL_ALIGNMENT), c.ptr + c.size = a.ptr + a.size PROVE FALSE
        OBVIOUS
      <4>1. b[1] =< c.ptr /\ c.ptr + c.size + USIZE =< b[1] + b[2]
        BY <3>2 DEF Within
      <4>2. mine[1] =< a.ptr /\ a.ptr + a.size =< mine[1] + mine[2]
        BY <1>0, <2>5, <3>4 DEF Within, Alloc
      <4>3. c.ptr \in Nat /\ c.size \in Nat \ {0} /\ a.ptr \in Nat /\ a.size \in Nat \ {0}
        BY <2>5, <3>2 DEF Alloc
      <4> QED BY <1>0, <3>4, <4>1, <4>2, <4>3 DEF Apart
    <3>7. ~(c.align =< EFI_ALLOCATE_POOL_ALIGNMENT) => <<c.ptr + c.size, c.ptr - b[1]>> \in offsets'
      BY <3>1, <3>6 DEF Own
    <3>8. Own(c, b)'
      BY <3>1, <3>7 DEF Own, Within
    <3> QED BY <3>5, <3>8
  <2>7. ASSUME NEW b \in pool' PROVE \E c \in live' : Within(c, b)
    <3>1. b \in pool /\ b # mine
      BY <2>3, <2>7
    <3>2. PICK c \in live : Within(c, b)
      BY <1>3, <3>1 DEF BlocksInv
    <3>3. c # a
      BY <2>4, <2>5, <3>1, <3>2, OneBlock
    <3> QED BY <3>2, <3>3
  <2>8. \A c, d \in live', b \in pool' : Within(c, b) /\ Within(d, b) => c = d
    BY <1>1, <1>3 DEF BlocksInv
  <2> QED BY <2>6, <2>7, <2>8
<1> QED BY <1>2, <1>3 DEF BlocksInv, Within

-----------------------------------------------------------------------------
(* Calls that leave the blocks and their owners alone.                      *)
BlockVars == <<services, pool, live, offsets>>

LEMMA SameBlocks ==
    ASSUME BlocksInv, UNCHANGED BlockVars
    PROVE  BlocksInv'
BY DEF BlocksInv, BlockVars, Own, Within, Apart

(* A caller that is given memory nobody had is the only one to have it.     *)
Distinct(s) == \A i, j \in 1..Len(s) : s[i] = s[j] => i = j

LEMMA AddUser ==
    ASSUME NEW s \in Seq(Users), NEW u \in Users, \A i \in 1..Len(s) : s[i] # u, Distinct(s)
    PROVE  LET new == Append(s, u) IN
           /\ new \in Seq(Users) /\ Len(new) = Len(s) + 1 /\ Distinct(new)
           /\ \A i \in 1..Len(new) : new[i] = IF i = Len(new) THEN u ELSE s[i]
<1> DEFINE new == Append(s, u)
<1>1. new \in Seq(Users) /\ Len(new) = Len(s) + 1 /\ Len(s) \in Nat
  OBVIOUS
<1>2. \A i \in 1..Len(new) : new[i] = IF i = Len(new) THEN u ELSE s[i]
  OBVIOUS
<1> HIDE DEF new
<1>3. Distinct(new)
  BY <1>1, <1>2 DEF Distinct
<1> QED BY <1>1, <1>2, <1>3 DEF new

(* Drop of an image buffer: the address that was pushed last goes again.    *)
LEMMA ReleaseLast ==
    ASSUME NEW S, NEW s \in Seq(S), NEW x \in S, \A k \in 1..Len(s) : s[k] # x
    PROVE  release(Append(s, x), x) = s
<1> DEFINE t == Append(s, x)
           n == Len(s)
           First(i) == t[i] = x /\ \A j \in 1..(i - 1) : t[j] # x
           pos == CHOOSE i \in DOMAIN t : First(i)
<1>1. Len(t) = n + 1 /\ DOMAIN t = 1..(n + 1) /\ n \in Nat /\ t[n + 1] = x /\ \A i \in 1..n : t[i] = s[i]
  OBVIOUS
<1> HIDE DEF t
<1>2. n + 1 \in DOMAIN t /\ First(n + 1)
  BY <1>1
<1>3. pos \in DOMAIN t /\ First(pos)
  BY <1>2
<1>4. pos = n + 1
  BY <1>1, <1>3
<1> HIDE DEF pos, First
<1>5. release(t, x) = [i \in 1..(Len(t) - 1) |-> IF i = pos THEN t[Len(t)] ELSE t[i]]
  BY DEF release, pos, First
<1>6. release(t, x) = [i \in 1..n |-> s[i]]
  BY <1>1, <1>4, <1>5
<1>7. s = [i \in 1..n |-> s[i]]
  OBVIOUS
<1> QED BY <1>6, <1>7 DEF t

LEMMA MemInitInv == MemInit => MemInv
<1> SUFFICES ASSUME MemInit PROVE MemInv
  OBVIOUS
<1>1. MemType /\ StateInv
  BY DEF MemInit, MemType, StateInv
<1>2. BlocksInv
  BY DEF MemInit, BlocksInv
<1>3. UsersInv
  BY DEF MemInit, UsersInv
<1> QED BY <1>1, <1>2, <1>3 DEF MemInv

(* What a user has stays his as long as the memory is not given back.       *)
LEMMA SameUsers ==
    ASSUME UsersInv, MemType, users' = users, live \subseteq live',
           returned' = returned \/ \E x \in Reserved : returned' = Append(returned, x)
    PROVE  UsersInv'
<1>1. \A k \in 1..Len(returned) : k \in 1..Len(returned') /\ returned'[k] = returned[k]
  BY DEF MemType
<1>2. \A i \in 1..Len(users) :
          /\ users[i][1] = "allocated" => \E a \in live' : a.ptr = users[i][2]
          /\ users[i][1] = "reserved" => \E k \in 1..Len(returned') : returned'[k] = users[i][2]
  BY <1>1 DEF UsersInv
<1> QED BY <1>2 DEF UsersInv

LEMMA BufferOf ==
    ASSUME NEW r \in FwBuffers, EfiImageBuffer_new(r), MemType
    PROVE  r[2] \in Reserved /\ \A k \in 1..Len(returned) : returned[k] # r[2]
<1>1. r[2] \in Reserved
  BY DEF FwBuffers, EfiImageBuffer_new
<1>2. \A k \in 1..Len(returned) : returned[k] \in Range(returned)
  BY DEF Range, MemType
<1> QED BY <1>1, <1>2 DEF EfiImageBuffer_new, Tracked

LEMMA NotLate ==
    ASSUME MemType, StateInv, Called
    PROVE  late' = FALSE
BY DEF MemType, StateInv, Called, Entry

LEMMA LayoutOf ==
    /\ \A l \in Layouts : Layout(l[1], l[2])
    /\ \A i \in DOMAIN Images : Layout(Images[i][1], Images[i][2])
BY MemAssumption DEF Layout

LEMMA MemAlloc ==
    ASSUME MemInv, alloc
    PROVE  MemInv'
<1> USE DEF MemInv
<1>1. PICK l \in Layouts : allocate(l[1], l[2], mpc' = mpc, mpc' = "panic")
  BY DEF alloc
<1>2. Called /\ mpc \in {"up", "left"} /\ UNCHANGED <<efi, rt, services, returned, users, gotKey>>
  BY DEF alloc
<1>3. late' = FALSE
  BY <1>2, NotLate
<1>4. CASE Entry /\ mpc' = mpc /\ \E at \in EveryPlace :
             /\ at \in Room(PoolSize(l[1], l[2]))
             /\ pool' = pool \cup {<<at, PoolSize(l[1], l[2])>>}
             /\ live' = live \cup {Given(l[1], l[2], at)}
             /\ offsets' = Store(l[1], l[2], at)
  <2>1. PICK at : /\ at \in Room(PoolSize(l[1], l[2]))
                  /\ pool' = pool \cup {<<at, PoolSize(l[1], l[2])>>}
                  /\ live' = live \cup {Given(l[1], l[2], at)}
                  /\ offsets' = Store(l[1], l[2], at)
    BY <1>4
  <2>2. services /\ services' = services /\ Layout(l[1], l[2])
    BY <1>2, <1>4, LayoutOf DEF StateInv, Entry
  <2>3. /\ pool' \subseteq Nat \X (Nat \ {0}) /\ live' \subseteq Alloc /\ offsets' \subseteq Nat \X Nat
        /\ BlocksInv'
    BY <2>1, <2>2, AllocStep
  <2>4. MemType' /\ StateInv'
    BY <1>2, <1>3, <1>4, <2>3 DEF MemType, StateInv
  <2>5. UsersInv'
    BY <1>2, <2>1, SameUsers
  <2> QED BY <2>3, <2>4, <2>5
<1>5. CASE mpc' = "panic" /\ UNCHANGED <<pool, live, offsets, key>>
  <2>1. MemType' /\ StateInv'
    BY <1>2, <1>3, <1>5 DEF MemType, StateInv
  <2>2. BlocksInv'
    BY <1>2, <1>5, SameBlocks DEF BlockVars
  <2>3. UsersInv'
    BY <1>2, <1>5, SameUsers
  <2> QED BY <2>1, <2>2, <2>3
<1> QED BY <1>1, <1>4, <1>5 DEF allocate

LEMMA MemDealloc ==
    ASSUME MemInv, dealloc
    PROVE  MemInv'
<1> USE DEF MemInv
<1>1. PICK a \in live :
          /\ ~\E u \in Range(users) : u[1] = "allocated" /\ u[2] = a.ptr
          /\ live' = live \ {a} /\ offsets' = {o \in offsets : o[1] # a.ptr + a.size}
          /\ IF Entry THEN pool' = {b \in pool : b[1] # BlockOf(a)} ELSE UNCHANGED pool
  BY DEF dealloc
<1>2. Called /\ mpc \in {"up", "left"} /\ UNCHANGED <<efi, rt, services, returned, users, key, gotKey, mpc>>
  BY DEF dealloc
<1>3. late' = FALSE
  BY <1>2, NotLate
<1>4. Entry <=> services
  BY <1>2 DEF StateInv, Entry
<1>5. BlocksInv'
  <2>1. services => pool' = {b \in pool : b[1] # BlockOf(a)}
    BY <1>1, <1>4
  <2>2. ~services => pool' = pool
    BY <1>1, <1>4
  <2> QED BY <1>1, <1>2, <2>1, <2>2, DeallocStep
<1>6. MemType' /\ StateInv'
  BY <1>1, <1>2, <1>3 DEF MemType, StateInv
<1>7. UsersInv'
  <2>1. \A i \in 1..Len(users) : users[i] \in Range(users)
    BY DEF Range, MemType
  <2>2. \A i \in 1..Len(users) : users[i][1] = "allocated" => users[i][2] # a.ptr
    BY <1>1, <2>1
  <2> QED BY <1>1, <1>2, <2>2 DEF UsersInv
<1> QED BY <1>5, <1>6, <1>7

(* get_image_buffer(): the memory allocated is new, and so is the reserved. *)
LEMMA MemImageBuffer ==
    ASSUME MemInv, get_image_buffer
    PROVE  MemInv'
<1> USE DEF MemInv
<1>1. Called /\ mpc = "up" /\ UNCHANGED <<efi, rt, services, gotKey>>
  BY DEF get_image_buffer
<1>2. late' = FALSE
  BY <1>1, NotLate
<1>3. PICK r \in FwBuffers, i \in DOMAIN Images :
          IF Overfull(r)
          THEN mpc' = "panic" /\ UNCHANGED <<pool, live, offsets, returned, users, key>>
          ELSE /\ IF EfiImageBuffer_new(r) THEN Push(r) ELSE UNCHANGED returned
               /\ allocate(Images[i][1], Images[i][2],
                     /\ mpc' = mpc
                     /\ \E a \in live' \ live :
                           users' = users \o <<<<"allocated", a.ptr>>>>
                                          \o (IF EfiImageBuffer_new(r) THEN <<<<"reserved", r[2]>>>> ELSE <<>>),
                     mpc' = "panic" /\ UNCHANGED users)
  BY DEF get_image_buffer
<1> DEFINE size == Images[i][1]
           align == Images[i][2]
<1>4. Layout(size, align)
  BY LayoutOf
<1> HIDE DEF size, align
<1>5. returned' = returned \/ (EfiImageBuffer_new(r) /\ returned' = Append(returned, r[2]))
  BY <1>3 DEF Push
<1>6. returned' \in Seq(Reserved) /\ (returned' = returned \/ \E x \in Reserved : returned' = Append(returned, x))
  <2>1. EfiImageBuffer_new(r) => r[2] \in Reserved
    BY BufferOf
  <2>2. returned \in Seq(Reserved)
    BY DEF MemType
  <2> QED BY <1>5, <2>1, <2>2
<1>7. CASE mpc' = "panic" /\ UNCHANGED <<pool, live, offsets, users>>
  <2>1. MemType' /\ StateInv'
    BY <1>1, <1>2, <1>6, <1>7 DEF MemType, StateInv
  <2>2. BlocksInv'
    BY <1>1, <1>7, SameBlocks DEF BlockVars
  <2>3. UsersInv'
    BY <1>6, <1>7, SameUsers
  <2> QED BY <2>1, <2>2, <2>3
<1>8. CASE ~Overfull(r) /\ Entry /\ mpc' = mpc
           /\ (\E at \in EveryPlace :
                 /\ at \in Room(PoolSize(size, align))
                 /\ pool' = pool \cup {<<at, PoolSize(size, align)>>}
                 /\ live' = live \cup {Given(size, align, at)}
                 /\ offsets' = Store(size, align, at))
           /\ (\E a \in live' \ live :
                 users' = users \o <<<<"allocated", a.ptr>>>>
                                \o (IF EfiImageBuffer_new(r) THEN <<<<"reserved", r[2]>>>> ELSE <<>>))
  <2>1. PICK at : /\ at \in Room(PoolSize(size, align))
                  /\ pool' = pool \cup {<<at, PoolSize(size, align)>>}
                  /\ live' = live \cup {Given(size, align, at)}
                  /\ offsets' = Store(size, align, at)
    BY <1>8
  <2> DEFINE new == Given(size, align, at)
  <2>2. services /\ services' = services
    BY <1>1, <1>8 DEF StateInv, Entry
  <2>3. /\ pool' \subseteq Nat \X (Nat \ {0}) /\ live' \subseteq Alloc /\ offsets' \subseteq Nat \X Nat
        /\ BlocksInv' /\ \A c \in live : c.ptr # new.ptr
    BY <1>4, <2>1, <2>2, AllocStep
  <2> DEFINE u == <<"allocated", new.ptr>>
             v == <<"reserved", r[2]>>
             one == Append(users, u)
             two == Append(one, v)
  <2>4. users' = IF EfiImageBuffer_new(r) THEN two ELSE one
    <3>1. PICK a \in live' \ live :
                 users' = users \o <<<<"allocated", a.ptr>>>>
                                \o (IF EfiImageBuffer_new(r) THEN <<<<"reserved", r[2]>>>> ELSE <<>>)
      BY <1>8
    <3>2. a = new
      BY <2>1, <3>1
    <3> HIDE DEF new
    <3>3. users' = (users \o <<u>>) \o (IF EfiImageBuffer_new(r) THEN <<v>> ELSE <<>>)
      BY <3>1, <3>2
    <3>4. u \in Users /\ (EfiImageBuffer_new(r) => v \in Users)
      BY <1>6, <2>1, <2>3, BufferOf DEF Users, new, Alloc
    <3>5. one \in Seq(Users) /\ users \in Seq(Users)
      BY <3>4 DEF MemType
    <3> HIDE DEF u, v
    <3>6. one = users \o <<u>>
      BY <3>4, <3>5, AppendIsConcat
    <3>7. EfiImageBuffer_new(r) => two = one \o <<v>>
      <4> HIDE DEF one
      <4> QED BY <3>4, <3>5, AppendIsConcat
    <3>8. one \o <<>> = one
      <4> HIDE DEF one
      <4> QED BY <3>5, ConcatEmptySeq
    <3> HIDE DEF one, two
    <3> QED BY <3>3, <3>6, <3>7, <3>8
  <2>5. new.ptr \in Nat /\ new \in live'
    BY <2>1, <2>3 DEF Alloc
  <2> HIDE DEF new
  <2>6. /\ one \in Seq(Users) /\ Len(one) = Len(users) + 1 /\ Distinct(one)
        /\ \A j \in 1..Len(one) : one[j] = IF j = Len(one) THEN u ELSE users[j]
    <3>1. u \in Users
      BY <2>5 DEF Users
    <3>2. \A j \in 1..Len(users) : users[j] # u
      BY <2>3 DEF UsersInv
    <3>3. users \in Seq(Users) /\ Distinct(users)
      BY DEF MemType, UsersInv, Distinct
    <3> HIDE DEF u
    <3> QED BY <3>1, <3>2, <3>3, AddUser
  <2>7. Len(users) \in Nat /\ live \subseteq live'
    BY <2>1 DEF MemType
  <2> DEFINE Has(x) == /\ x[1] = "allocated" => \E a \in live' : a.ptr = x[2]
                       /\ x[1] = "reserved" => \E k \in 1..Len(returned') : returned'[k] = x[2]
  <2>8. \A j \in 1..Len(users) : Has(users[j])
    <3>1. \A k \in 1..Len(returned) : k \in 1..Len(returned') /\ returned'[k] = returned[k]
      BY <1>6, SMTT(20) DEF MemType
    <3> QED BY <2>7, <3>1 DEF UsersInv
  <2>9. Has(u)
    BY <2>5
  <2> HIDE DEF Has, one
  <2>10. \A j \in 1..Len(one) : Has(one[j])
    <3>1. \A j \in 1..Len(one) : j = Len(one) \/ j \in 1..Len(users)
      BY <2>6, <2>7
    <3> QED BY <2>6, <2>8, <2>9, <3>1
  <2>11. users' \in Seq(Users) /\ Distinct(users') /\ \A j \in 1..Len(users') : Has(users'[j])
    <3>1. CASE ~EfiImageBuffer_new(r)
      BY <2>4, <2>6, <2>10, <3>1
    <3>2. CASE EfiImageBuffer_new(r)
      <4>1. r[2] \in Reserved /\ (\A k \in 1..Len(returned) : returned[k] # r[2])
            /\ returned' = Append(returned, r[2])
        BY <1>3, <1>8, <3>2, BufferOf DEF Push
      <4>2. v \in Users /\ Has(v)
        <5>1. Len(returned') \in 1..Len(returned') /\ returned'[Len(returned')] = r[2]
          BY <4>1 DEF MemType
        <5> QED BY <4>1, <5>1 DEF Has, Users
      <4>3. \A j \in 1..Len(one) : one[j] # v
        <5>1. \A j \in 1..Len(users) : users[j] # v
          BY <4>1 DEF UsersInv
        <5>2. \A j \in 1..Len(one) : j = Len(one) \/ j \in 1..Len(users)
          BY <2>6, <2>7
        <5> QED BY <2>6, <5>1, <5>2
      <4> HIDE DEF v, u
      <4>4. /\ two \in Seq(Users) /\ Len(two) = Len(one) + 1 /\ Distinct(two)
            /\ \A j \in 1..Len(two) : two[j] = IF j = Len(two) THEN v ELSE one[j]
        BY <2>6, <4>2, <4>3, AddUser
      <4>5. Len(one) \in Nat
        BY <2>6
      <4> HIDE DEF two
      <4>6. \A j \in 1..Len(two) : j = Len(two) \/ j \in 1..Len(one)
        BY <4>4, <4>5
      <4> QED BY <2>4, <2>10, <3>2, <4>2, <4>4, <4>6
    <3> QED BY <3>1, <3>2
  <2>12. MemType' /\ StateInv'
    BY <1>1, <1>2, <1>6, <1>8, <2>3, <2>11 DEF MemType, StateInv
  <2>13. UsersInv'
    BY <2>11 DEF UsersInv, Distinct, Has
  <2> QED BY <2>3, <2>12, <2>13
<1> QED BY <1>3, <1>7, <1>8 DEF allocate, size, align

LEMMA MemPlatformBuffer ==
    ASSUME MemInv, get_platform_buffer_info
    PROVE  MemInv'
<1> USE DEF MemInv
<1>1. Called /\ mpc = "up" /\ UNCHANGED <<efi, rt, services, pool, live, offsets, key, gotKey>>
  BY DEF get_platform_buffer_info
<1>2. late' = FALSE
  BY <1>1, NotLate
<1>3. BlocksInv'
  BY <1>1, SameBlocks DEF BlockVars
<1>4. PICK r \in FwBuffers :
          /\ EfiImageBuffer_new(r)
          /\ IF Overfull(r) THEN mpc' = "panic" /\ UNCHANGED <<returned, users>>
             ELSE Push(r) /\ users' = Append(users, <<"reserved", r[2]>>) /\ UNCHANGED mpc
  BY DEF get_platform_buffer_info
<1>5. CASE Overfull(r)
  <2>1. MemType' /\ StateInv'
    BY <1>1, <1>2, <1>4, <1>5 DEF MemType, StateInv
  <2>2. UsersInv'
    BY <1>1, <1>4, <1>5, SameUsers
  <2> QED BY <1>3, <2>1, <2>2
<1>6. CASE ~Overfull(r)
  <2> DEFINE v == <<"reserved", r[2]>>
             new == Append(users, v)
  <2>1. r[2] \in Reserved /\ \A k \in 1..Len(returned) : returned[k] # r[2]
    BY <1>4, BufferOf
  <2>2. returned' = Append(returned, r[2]) /\ users' = new /\ mpc' = mpc
    BY <1>4, <1>6 DEF Push
  <2>3. v \in Users /\ \A j \in 1..Len(users) : users[j] # v
    BY <2>1 DEF Users, UsersInv
  <2>4. users \in Seq(Users) /\ Distinct(users) /\ Len(users) \in Nat
    BY DEF MemType, UsersInv, Distinct
  <2>5. /\ returned' \in Seq(Reserved) /\ Len(returned') \in 1..Len(returned') /\ returned'[Len(returned')] = v[2]
        /\ \A k \in 1..Len(returned) : k \in 1..Len(returned') /\ returned'[k] = returned[k]
    BY <2>1, <2>2 DEF MemType
  <2>6. v[1] = "reserved"
    OBVIOUS
  <2> HIDE DEF v
  <2>7. /\ new \in Seq(Users) /\ Len(new) = Len(users) + 1 /\ Distinct(new)
        /\ \A j \in 1..Len(new) : new[j] = IF j = Len(new) THEN v ELSE users[j]
    BY <2>3, <2>4, AddUser
  <2> HIDE DEF new
  <2>8. \A j \in 1..Len(new) : j = Len(new) \/ j \in 1..Len(users)
    BY <2>4, <2>7
  <2>9. MemType' /\ StateInv'
    BY <1>1, <1>2, <2>2, <2>5, <2>7 DEF MemType, StateInv
  <2>10. UsersInv'
    <3>1. \A j \in 1..Len(users) :
             /\ users[j][1] = "allocated" => \E a \in live' : a.ptr = users[j][2]
             /\ users[j][1] = "reserved" => \E k \in 1..Len(returned') : returned'[k] = users[j][2]
      BY <1>1, <2>5 DEF UsersInv
    <3>2. /\ v[1] = "allocated" => \E a \in live' : a.ptr = v[2]
          /\ v[1] = "reserved" => \E k \in 1..Len(returned') : returned'[k] = v[2]
      BY <2>5, <2>6
    <3>3. \A j \in 1..Len(new) :
             /\ new[j][1] = "allocated" => \E a \in live' : a.ptr = new[j][2]
             /\ new[j][1] = "reserved" => \E k \in 1..Len(returned') : returned'[k] = new[j][2]
      BY <2>7, <2>8, <3>1, <3>2
    <3> QED BY <2>2, <2>7, <3>3 DEF UsersInv, Distinct
  <2> QED BY <1>3, <2>9, <2>10
<1> QED BY <1>5, <1>6

LEMMA MemDropBuffer ==
    ASSUME MemInv, drop_image_buffer
    PROVE  MemInv'
<1> USE DEF MemInv
<1>1. Called /\ UNCHANGED <<efi, rt, services, pool, live, offsets, users, key, gotKey, mpc>>
  BY DEF drop_image_buffer
<1>2. PICK r \in FwBuffers : EfiImageBuffer_new(r) /\ returned' = release(Append(returned, r[2]), r[2])
  BY DEF drop_image_buffer
<1>3. r[2] \in Reserved /\ \A k \in 1..Len(returned) : returned[k] # r[2]
  BY <1>2, BufferOf
<1>4. returned \in Seq(Reserved)
  BY DEF MemType
<1>5. returned' = returned
  BY <1>2, <1>3, <1>4, ReleaseLast
<1>6. late' = FALSE
  BY <1>1, NotLate
<1>7. MemType' /\ StateInv'
  BY <1>1, <1>5, <1>6 DEF MemType, StateInv
<1>8. BlocksInv'
  BY <1>1, SameBlocks DEF BlockVars
<1>9. UsersInv'
  BY <1>1, <1>5, SameUsers
<1> QED BY <1>7, <1>8, <1>9

LEMMA MemNextInv ==
    ASSUME MemInv, MemNext
    PROVE  MemInv'
<1> USE DEF MemInv
<1>1. ASSUME UNCHANGED <<pool, live, offsets, returned, users>>, late' = FALSE, StateInv',
             services' = services \/ services' = FALSE
      PROVE  MemInv'
  <2>1. MemType'
    BY <1>1 DEF MemType
  <2>2. UsersInv'
    BY <1>1, SameUsers
  <2>3. BlocksInv'
    <3>1. CASE services' = services
      BY <1>1, <3>1, SameBlocks DEF BlockVars
    <3>2. CASE services' = FALSE
      BY <1>1, <3>2 DEF BlocksInv, Apart
    <3> QED BY <1>1, <3>1, <3>2
  <2> QED BY <1>1, <2>1, <2>2, <2>3
<1>2. ASSUME initialize PROVE MemInv'
  <2>1. late' = FALSE /\ StateInv'
    BY <1>2 DEF initialize, MemType, StateInv
  <2> QED BY <1>1, <1>2, <2>1 DEF initialize
<1>3. ASSUME get_memory_map PROVE MemInv'
  <2>1. late' = FALSE
    BY <1>3, NotLate DEF get_memory_map
  <2>2. StateInv'
    BY <1>3 DEF get_memory_map, StateInv
  <2> QED BY <1>1, <1>3, <2>1, <2>2 DEF get_memory_map
<1>4. ASSUME exit_boot_services PROVE MemInv'
  <2>1. late' = FALSE
    BY <1>4, NotLate DEF exit_boot_services
  <2>2. StateInv'
    BY <1>4 DEF exit_boot_services, StateInv
  <2> QED BY <1>1, <1>4, <2>1, <2>2 DEF exit_boot_services
<1>5. ASSUME FwChangesMap \/ jump_kernel PROVE MemInv'
  <2>1. late' = FALSE /\ StateInv'
    BY <1>5 DEF FwChangesMap, jump_kernel, MemType, StateInv
  <2> QED BY <1>1, <1>5, <2>1 DEF FwChangesMap, jump_kernel
<1>6. ASSUME panic PROVE MemInv'
  <2>1. late' = FALSE
    BY <1>6, NotLate DEF panic
  <2>2. StateInv'
    BY <1>6 DEF panic, StateInv
  <2> QED BY <1>1, <1>6, <2>1, <2>2 DEF panic
<1>7. ASSUME UNCHANGED memVars PROVE MemInv'
  <2>1. late' = FALSE /\ StateInv'
    BY <1>7 DEF memVars, MemType, StateInv
  <2> QED BY <1>1, <1>7, <2>1 DEF memVars
<1> QED
  BY <1>2, <1>3, <1>4, <1>5, <1>6, <1>7, MemAlloc, MemDealloc, MemImageBuffer, MemPlatformBuffer, MemDropBuffer
  DEF MemNext

LEMMA MemInvSafe ==
    ASSUME MemInv
    PROVE  MemoryExact
<1> USE DEF MemInv
<1>1. \A a \in live : a.ptr % a.align = 0
  BY DEF BlocksInv
<1>2. services => \A a \in live : \E b \in pool : Within(a, b)
  BY DEF BlocksInv, Own
<1>3. services => \A b \in pool : Cardinality({a \in live : Within(a, b)}) = 1
  <2> SUFFICES ASSUME services, NEW b \in pool PROVE Cardinality({a \in live : Within(a, b)}) = 1
    OBVIOUS
  <2>1. PICK a \in live : Within(a, b)
    BY DEF BlocksInv
  <2>2. {c \in live : Within(c, b)} = {a}
    BY <2>1 DEF BlocksInv
  <2> QED BY <2>2, FS_Singleton
<1>4. \A i, j \in 1..Len(users) : users[i] = users[j] => i = j
  BY DEF UsersInv
<1>5. ~late
  BY DEF MemType
<1> QED BY <1>1, <1>2, <1>3, <1>4, <1>5 DEF MemoryExact

-----------------------------------------------------------------------------
(* The parts side by side.                                                  *)
EfiInv == NetInv /\ IoInv /\ MemInv

LEMMA SameNet == NetInv /\ UNCHANGED netVars => NetInv'
BY DEF NetInv, netVars, tx_frames

LEMMA SameIo == IoInv /\ UNCHANGED ioVars => IoInv'
BY DEF IoInv, ioVars

LEMMA SameMem == MemInv /\ UNCHANGED memVars => MemInv'
<1> SUFFICES ASSUME MemInv, UNCHANGED memVars PROVE MemInv'
  OBVIOUS
<1>1. BlocksInv'
  BY SameBlocks DEF MemInv, memVars, BlockVars
<1>2. UsersInv'
  BY DEF MemInv, UsersInv, memVars
<1>3. MemType' /\ StateInv'
  BY DEF MemInv, MemType, StateInv, memVars
<1> QED BY <1>1, <1>2, <1>3 DEF MemInv

LEMMA EfiInvariant == Spec => []EfiInv
<1>1. Init => EfiInv
  BY NetInitInv, IoInitInv, MemInitInv DEF Init, EfiInv
<1>2. ASSUME EfiInv, [Next]_vars PROVE EfiInv'
  <2>1. CASE NetNext /\ UNCHANGED <<ioVars, memVars>>
    BY <1>2, <2>1, NetNextInv, SameIo, SameMem DEF EfiInv
  <2>2. CASE IoNext /\ UNCHANGED <<netVars, memVars>>
    BY <1>2, <2>2, IoNextInv, SameNet, SameMem DEF EfiInv
  <2>3. CASE MemNext /\ UNCHANGED <<netVars, ioVars>>
    BY <1>2, <2>3, MemNextInv, SameNet, SameIo DEF EfiInv
  <2>4. CASE UNCHANGED vars
    BY <1>2, <2>4, SameNet, SameIo, SameMem DEF EfiInv, vars
  <2> QED BY <1>2, <2>1, <2>2, <2>3, <2>4 DEF Next, Only
<1> QED BY <1>1, <1>2, PTL DEF Spec

(* The unsafe blocks around Transmit() and wait_io_completion(): a network  *)
(* frame or the buffer and token of a block request is neither written nor  *)
(* freed while the firmware has it, and a request that returns Ok was       *)
(* completed with success, for every number of frames, disks and faults.    *)
THEOREM EfiLent == Spec => []LentMemoryKept
<1>1. EfiInv => LentMemoryKept
  BY NetInvSafe, IoInvSafe DEF EfiInv, LentMemoryKept
<1> QED BY <1>1, EfiInvariant, PTL

(* EfiAllocator, RETURNED_BUFFERS and exit_boot_services(): for every pool, *)
(* layout and image size the memory handed out is aligned and in a block of *)
(* its own, dealloc() finds that block through the stored distance,         *)
(* reserved memory has one user, and no boot service is called late.        *)
THEOREM EfiMemorySafe == Spec => []MemoryExact
<1>1. EfiInv => MemoryExact
  BY MemInvSafe DEF EfiInv
<1> QED BY <1>1, EfiInvariant, PTL

-----------------------------------------------------------------------------
(* The platform: values of a legal length; and a caller who was told a size *)
(* was told what the platform reported, of a value that is still there.     *)
Regs == [rollback: 0..1, locks: SUBSET Locks]
OpsInv ==
    /\ store \in [Names -> Lens \cup {NoValue}] /\ regs \in Regs
    /\ ask.op = "value" /\ ans.r = "err" /\ ans.v[1] = "InsufficientSpace" =>
          ask.n \in Names /\ store[ask.n] # NoValue /\ ans.v = <<"InsufficientSpace", ask.z>>

(* What each status becomes.                                                *)
Plain == {"ok", "err"}
LEMMA StatusResults ==
    /\ efi_status_to_result("SUCCESS") = Gives(0)
    /\ efi_status_to_result("DEVICE_ERROR") = Err("DeviceError")
    /\ efi_status_to_result("OUT_OF_RESOURCES") = Err("OutOfResources")
    /\ efi_status_to_result("NOT_FOUND") = Err("NotFound")
    /\ efi_status_to_result("END_OF_FILE") = Err("EndOfFile")
    /\ efi_status_to_result("INVALID_PARAMETER") = Err("InvalidInput")
    /\ efi_status_to_result("UNSUPPORTED") = Err("Unsupported")
    /\ efi_status_to_result("BUFFER_TOO_SMALL") = Err("BufferTooSmall")
    /\ efi_status_to_result("TIMEOUT") = Err("Timeout")
BY DEF efi_status_to_result

LEMMA Gave == ASSUME NEW x, NEW v, x = Gives(v) PROVE x.r = "ok" /\ x.v = v
BY DEF Gives
LEMMA Erred == ASSUME NEW x, NEW e, x = Err(e) PROVE x.r = "err" /\ x.v = <<e, NoValue>> /\ x.v[1] = e
BY DEF Err, ErrSize
LEMMA ErredSize ==
    ASSUME NEW x, NEW e, NEW n, x = ErrSize(e, n) PROVE x.r = "err" /\ x.v = <<e, n>> /\ x.v[1] = e /\ x.v[2] = n
BY DEF ErrSize
LEMMA Then == ASSUME NEW x, NEW y PROVE (x.r = "ok" => AndThen(x, y) = y) /\ (x.r # "ok" => AndThen(x, y) = x)
BY DEF AndThen

(* A protocol that cannot be used.                                          *)
LEMMA Opening ==
    ASSUME NEW p \in Platforms
    PROVE  /\ p.found \in Found /\ p.fails \in Statuses \cup {"no"}
           /\ p.found \notin {"absent", "denied"} => find_first_and_open(p) = Gives(0)
           /\ p.found = "absent" => find_first_and_open(p) = Err("NotFound")
           /\ p.found = "denied" => find_first_and_open(p) = Err("AccessDenied")
           /\ p.found = "no interface" => interface(p) = Err("InvalidInput")
           /\ p.found # "no interface" => interface(p) = Gives(0)
BY DEF AndThen, Gives, Err, ErrSize, Platforms, find_first_and_open, locate_handle_buffer_by_protocol,
       open_protocol, interface

(* A call of a wrapper: the platform's answer, or the error it deserves.    *)
Failed(p, x) ==
    \/ p.found = "no interface" /\ x = Err("InvalidInput")
    \/ p.found = "no function" /\ x = Err("NotFound")
    \/ p.found \notin {"no interface", "no function"} /\ p.fails # "no" /\ x = efi_status_to_result(p.fails)
Usable(p) == p.found \notin {"no interface", "no function"} /\ p.fails = "no"
CallErrors == {"InvalidInput", "NotFound", "DeviceError", "OutOfResources", "EndOfFile", "Unsupported", "Timeout"}

LEMMA Failing ==
    ASSUME NEW p \in Platforms, NEW x, Failed(p, x)
    PROVE  /\ x.r = "err" /\ ~Usable(p)
           /\ \E e \in CallErrors :
                 /\ x = Err(e)
                 /\ e \in {"Unsupported", "Timeout"} =>
                       p.found \notin {"no interface", "no function"} /\ p.fails \in {"UNSUPPORTED", "TIMEOUT"}
<1>1. p.found \in Found /\ p.fails \in Statuses \cup {"no"}
  BY Opening
<1>3. CASE p.found \in {"no interface", "no function"}
  BY <1>3, Erred DEF Failed, Usable, CallErrors
<1>4. CASE p.found \notin {"no interface", "no function"}
  <2>1. p.fails \in Statuses /\ x = efi_status_to_result(p.fails)
    BY <1>1, <1>4 DEF Failed
  <2>2. \E e \in CallErrors : x = Err(e) /\ (e \in {"Unsupported", "Timeout"} => p.fails \in {"UNSUPPORTED", "TIMEOUT"})
    BY <2>1, StatusResults DEF Statuses, CallErrors
  <2>3. p.fails # "no"
    BY <2>1 DEF Statuses
  <2> QED BY <1>4, <2>2, <2>3, Erred DEF Usable
<1> QED BY <1>3, <1>4

LEMMA StatusFails ==
    ASSUME NEW s \in Statuses PROVE efi_status_to_result(s).r # "ok" /\ s # "BUFFER_TOO_SMALL" /\ s # "no"
<1>1. \E e \in CallErrors : efi_status_to_result(s) = Err(e)
  BY StatusResults DEF Statuses, CallErrors
<1> QED BY <1>1, Erred DEF Statuses

LEMMA Wrapped ==
    ASSUME NEW p \in Platforms, NEW v
    PROVE  /\ Usable(p) => Wrap(p, "SUCCESS", v) = Gives(v)
           /\ ~Usable(p) => Failed(p, Wrap(p, "SUCCESS", v))
<1> DEFINE x == Wrap(p, "SUCCESS", v)
           c == efi_call(p, Answer(p, "SUCCESS"))
<1>1. p.found \in Found /\ p.fails \in Statuses \cup {"no"}
  BY Opening
<1>2. x = AndThen(interface(p), AndThen(c, Gives(v)))
  BY DEF Wrap
<1> HIDE DEF x, c
<1>3. CASE p.found = "no interface"
  <2>1. interface(p).r = "err" /\ interface(p) = Err("InvalidInput")
    BY <1>3, Opening, Erred
  <2> QED BY <1>2, <1>3, <2>1, Then DEF Failed, Usable, x
<1>4. p.found # "no interface" => x = AndThen(c, Gives(v))
  <2>1. p.found # "no interface" => interface(p).r = "ok"
    BY Opening, Gave
  <2> QED BY <1>2, <2>1, Then
<1>5. CASE p.found = "no function"
  <2>1. c = Err("NotFound")
    BY <1>5 DEF c, efi_call
  <2>2. c.r = "err"
    BY <2>1, Erred
  <2> QED BY <1>4, <1>5, <2>1, <2>2, Then DEF Failed, Usable, x
<1>6. CASE p.found \notin {"no interface", "no function"}
  <2>1. c = efi_status_to_result(Answer(p, "SUCCESS"))
    BY <1>6 DEF efi_call, c
  <2>2. CASE p.fails = "no"
    <3>1. c = Gives(0)
      BY <2>1, <2>2, StatusResults DEF Answer
    <3>2. c.r = "ok"
      BY <3>1, Gave
    <3> QED BY <1>4, <1>6, <2>2, <3>2, Then DEF Usable, x
  <2>3. CASE p.fails # "no"
    <3>1. c = efi_status_to_result(p.fails)
      BY <2>1, <2>3 DEF Answer
    <3>2. c.r # "ok"
      BY <1>1, <2>3, <3>1, StatusFails
    <3> QED BY <1>4, <1>6, <2>3, <3>1, <3>2, Then DEF Usable, Failed, x
  <2> QED BY <2>2, <2>3
<1> QED BY <1>3, <1>5, <1>6

LEMMA WrappedSized ==
    ASSUME NEW p \in Platforms, NEW size, NEW s \in {"SUCCESS", "BUFFER_TOO_SMALL", "NOT_FOUND"}
    PROVE  LET x == WrapSized(p, s, size) IN
           /\ Usable(p) => /\ s = "SUCCESS" => x = Gives(size)
                           /\ s = "BUFFER_TOO_SMALL" => x = ErrSize("BufferTooSmall", size)
                           /\ s = "NOT_FOUND" => x = Err("NotFound")
           /\ ~Usable(p) => Failed(p, x)
<1> DEFINE x == WrapSized(p, s, size)
           c == efi_call_bufsize(p, Answer(p, s), size)
<1>1. p.found \in Found /\ p.fails \in Statuses \cup {"no"}
  BY Opening
<1>2. x = AndThen(interface(p), AndThen(c, Gives(size)))
  BY DEF WrapSized
<1> HIDE DEF x, c
<1>3. CASE p.found = "no interface"
  <2>1. interface(p).r = "err" /\ interface(p) = Err("InvalidInput")
    BY <1>3, Opening, Erred
  <2> QED BY <1>2, <1>3, <2>1, Then DEF Failed, Usable, x
<1>4. p.found # "no interface" => x = AndThen(c, Gives(size))
  <2>1. p.found # "no interface" => interface(p).r = "ok"
    BY Opening, Gave
  <2> QED BY <1>2, <2>1, Then
<1>5. CASE p.found = "no function"
  <2>1. c = Err("NotFound")
    BY <1>5 DEF c, efi_call_bufsize, efi_call
  <2>2. c.r = "err"
    BY <2>1, Erred
  <2> QED BY <1>4, <1>5, <2>1, <2>2, Then DEF Failed, Usable, x
<1>6. CASE p.found \notin {"no interface", "no function"}
  <2> DEFINE t == Answer(p, s)
  <2>1. c = IF t = "BUFFER_TOO_SMALL" THEN ErrSize("BufferTooSmall", size) ELSE efi_status_to_result(t)
    BY <1>6 DEF efi_call_bufsize, efi_call, c
  <2>2. CASE p.fails = "no"
    <3>1. t = s
      BY <2>2 DEF Answer
    <3> HIDE DEF t
    <3>2. CASE s = "SUCCESS"
      <4>1. c = Gives(0)
        BY <2>1, <3>1, <3>2, StatusResults
      <4>2. c.r = "ok"
        BY <4>1, Gave
      <4> QED BY <1>4, <1>6, <2>2, <3>2, <4>2, Then DEF Usable, x
    <3>3. CASE s = "BUFFER_TOO_SMALL"
      <4>1. c = ErrSize("BufferTooSmall", size)
        BY <2>1, <3>1, <3>3
      <4>2. c.r = "err"
        BY <4>1, ErredSize
      <4> QED BY <1>4, <1>6, <2>2, <3>3, <4>1, <4>2, Then DEF Usable, x
    <3>4. CASE s = "NOT_FOUND"
      <4>1. c = Err("NotFound")
        BY <2>1, <3>1, <3>4, StatusResults
      <4>2. c.r = "err"
        BY <4>1, Erred
      <4> QED BY <1>4, <1>6, <2>2, <3>4, <4>1, <4>2, Then DEF Usable, x
    <3> QED BY <3>2, <3>3, <3>4
  <2>3. CASE p.fails # "no"
    <3>1. t = p.fails /\ p.fails \in Statuses
      BY <1>1, <2>3 DEF Answer
    <3> HIDE DEF t
    <3>2. c = efi_status_to_result(p.fails) /\ c.r # "ok"
      BY <2>1, <3>1, StatusFails
    <3> QED BY <1>4, <1>6, <2>3, <3>2, Then DEF Usable, Failed, x
  <2> QED BY <2>2, <2>3
<1> QED BY <1>3, <1>5, <1>6

(* An AVB error: only a platform that has none of it is not implemented.    *)
LEMMA AvbOpen ==
    ASSUME NEW p \in Platforms, NEW x
    PROVE  /\ p.found \in {"absent", "denied"} => Avb(p, x) = Err("NotImplemented")
           /\ p.found \notin {"absent", "denied"} => Avb(p, x) = MapErr(x, efi_error_to_avb_error)
<1>1. p.found \in {"absent", "denied"} => find_first_and_open(p).r = "err"
  BY Opening, Erred
<1>2. p.found \notin {"absent", "denied"} => find_first_and_open(p).r = "ok"
  BY Opening, Gave
<1> QED BY <1>1, <1>2 DEF Avb

LEMMA Mapped ==
    ASSUME NEW x
    PROVE  LET y == MapErr(x, efi_error_to_avb_error) IN
           /\ x.r # "err" => y = x
           /\ \A e, n : x = ErrSize(e, n) => y.r = "err" /\ y.v = efi_error_to_avb_error(<<e, n>>)
BY DEF MapErr, ErrSize

LEMMA AvbErrors ==
    /\ \A n : n # NoValue => efi_error_to_avb_error(<<"BufferTooSmall", n>>) = <<"InsufficientSpace", n>>
    /\ \A e \in CallErrors : LET f == efi_error_to_avb_error(<<e, NoValue>>)[1] IN
          f # "InsufficientSpace" /\ (f = "NotImplemented" => e \in {"Unsupported", "Timeout"})
BY DEF efi_error_to_avb_error, CallErrors

LEMMA AvbFailed ==
    ASSUME NEW p \in Platforms, NEW x, Failed(p, x)
    PROVE  LET y == Avb(p, x) IN
           /\ y.r = "err" /\ y.v[1] # "InsufficientSpace"
           /\ y.v[1] = "NotImplemented" => TakenForMissing(p)
<1> DEFINE y == Avb(p, x)
<1>1. CASE p.found \in {"absent", "denied"}
  <2>1. y = Err("NotImplemented")
    BY <1>1, AvbOpen
  <2> HIDE DEF y
  <2>2. y.r = "err" /\ y.v[1] = "NotImplemented"
    BY <2>1, Erred
  <2> QED BY <1>1, <2>2 DEF TakenForMissing, y
<1>2. CASE p.found \notin {"absent", "denied"}
  <2>1. PICK e \in CallErrors :
              /\ x = Err(e)
              /\ e \in {"Unsupported", "Timeout"} =>
                    p.found \notin {"no interface", "no function"} /\ p.fails \in {"UNSUPPORTED", "TIMEOUT"}
    BY Failing
  <2>2. y = MapErr(x, efi_error_to_avb_error)
    BY <1>2, AvbOpen
  <2> HIDE DEF y
  <2>3. x = ErrSize(e, NoValue)
    BY <2>1 DEF Err
  <2>4. y.r = "err" /\ y.v = efi_error_to_avb_error(<<e, NoValue>>)
    BY <2>2, <2>3, Mapped
  <2>5. y.v[1] # "InsufficientSpace" /\ (y.v[1] = "NotImplemented" => e \in {"Unsupported", "Timeout"})
    BY <2>1, <2>4, AvbErrors
  <2>6. p.found \in Found
    BY Opening
  <2>7. e \in {"Unsupported", "Timeout"} => TakenForMissing(p)
    BY <1>2, <2>1, <2>6 DEF TakenForMissing, Found
  <2> QED BY <2>4, <2>5, <2>7 DEF y
<1> QED BY <1>1, <1>2

(* A call without a buffer, and what GBL takes for its answer.              *)
Met(p) == p.found = "open" /\ p.fails = "no"
LEMMA MetUsable ==
    ASSUME NEW p \in Platforms
    PROVE  /\ Met(p) <=> Usable(p) /\ p.found \notin {"absent", "denied"}
           /\ Met(p) => ~TakenForMissing(p)
<1>1. p.found \in Found /\ p.fails \in Statuses \cup {"no"}
  BY Opening
<1> QED BY <1>1 DEF Met, Usable, TakenForMissing, Found

LEMMA AvbCall ==
    ASSUME NEW p \in Platforms, NEW v
    PROVE  LET y == Avb(p, Wrap(p, "SUCCESS", v)) IN
           /\ Met(p) => y.r = "ok" /\ y.v = v
           /\ ~Met(p) => y.r = "err" /\ y.v[1] # "InsufficientSpace" /\ (y.v[1] = "NotImplemented" => TakenForMissing(p))
<1> DEFINE x == Wrap(p, "SUCCESS", v)
           y == Avb(p, x)
<1>1. (Usable(p) => x = Gives(v)) /\ (~Usable(p) => Failed(p, x))
  BY Wrapped
<1> HIDE DEF x, y
<1>2. CASE Usable(p) /\ p.found \notin {"absent", "denied"}
  <2>1. x = Gives(v) /\ x.r = "ok" /\ x.v = v
    BY <1>1, <1>2, Gave
  <2>2. y = x
    BY <1>2, <2>1, AvbOpen, Mapped DEF y
  <2> QED BY <1>2, <2>1, <2>2, MetUsable DEF x, y
<1>3. CASE Usable(p) /\ p.found \in {"absent", "denied"}
  <2>1. y = Err("NotImplemented")
    BY <1>3, AvbOpen DEF y
  <2>2. y.r = "err" /\ y.v[1] = "NotImplemented"
    BY <2>1, Erred
  <2> QED BY <1>3, <2>2, MetUsable DEF TakenForMissing, x, y
<1>4. CASE ~Usable(p)
  <2>1. y.r = "err" /\ y.v[1] # "InsufficientSpace" /\ (y.v[1] = "NotImplemented" => TakenForMissing(p))
    BY <1>1, <1>4, AvbFailed DEF y
  <2> QED BY <1>4, <2>1, MetUsable DEF x, y
<1> QED BY <1>2, <1>3, <1>4

(* A persistent value.                                                      *)
LEMMA AvbValue ==
    ASSUME NEW p \in Platforms, NEW n \in Names, NEW cap \in Lens, NEW size \in Lens, store \in [Names -> Lens \cup {NoValue}]
    PROVE  LET y == avb_read_persistent_value(p, n, cap, size) IN
           /\ y.r \in Plain
           /\ y.r = "ok" => Met(p) /\ y.v = size /\ store[n] \in Lens /\ store[n] =< cap
           /\ y.r = "err" /\ y.v[1] = "InsufficientSpace" =>
                 store[n] # NoValue /\ y.v = <<"InsufficientSpace", size>>
           /\ y.r = "err" /\ y.v[1] = "NotImplemented" => TakenForMissing(p)
           /\ Met(p) /\ store[n] # NoValue /\ store[n] =< cap => y.r = "ok"
<1> DEFINE s == ReadStatus(n, cap)
           x == WrapSized(p, s, size)
           y == Avb(p, x)
<1>0. y = avb_read_persistent_value(p, n, cap, size)
  BY DEF avb_read_persistent_value
<1>1. /\ store[n] = NoValue => s = "NOT_FOUND"
      /\ store[n] # NoValue => store[n] \in Lens
      /\ store[n] # NoValue /\ store[n] > cap => s = "BUFFER_TOO_SMALL"
      /\ store[n] # NoValue /\ ~(store[n] > cap) => s = "SUCCESS"
      /\ s \in {"SUCCESS", "BUFFER_TOO_SMALL", "NOT_FOUND"}
  BY DEF ReadStatus
<1>2. store[n] # NoValue => (store[n] > cap <=> ~(store[n] =< cap))
  BY <1>1, OpsAssumption DEF Lens
<1> HIDE DEF s
<1>3. /\ Usable(p) => /\ s = "SUCCESS" => x = Gives(size)
                      /\ s = "BUFFER_TOO_SMALL" => x = ErrSize("BufferTooSmall", size)
                      /\ s = "NOT_FOUND" => x = Err("NotFound")
      /\ ~Usable(p) => Failed(p, x)
  BY <1>1, WrappedSized
<1> HIDE DEF x, y
<1>4. CASE p.found \in {"absent", "denied"}
  <2>1. y = Err("NotImplemented")
    BY <1>4, AvbOpen DEF y
  <2>2. y.r = "err" /\ y.v[1] = "NotImplemented"
    BY <2>1, Erred
  <2> QED BY <1>0, <1>4, <2>2, MetUsable DEF TakenForMissing, Plain
<1>5. CASE ~Usable(p)
  <2>1. y.r = "err" /\ y.v[1] # "InsufficientSpace" /\ (y.v[1] = "NotImplemented" => TakenForMissing(p))
    BY <1>3, <1>5, AvbFailed DEF y
  <2> QED BY <1>0, <1>5, <2>1, MetUsable DEF Plain
<1>6. CASE Usable(p) /\ p.found \notin {"absent", "denied"}
  <2>1. y = MapErr(x, efi_error_to_avb_error) /\ Met(p)
    BY <1>6, AvbOpen, MetUsable DEF y
  <2>2. CASE s = "SUCCESS"
    <3>1. x.r = "ok" /\ x.v = size
      BY <1>3, <1>6, <2>2, Gave
    <3>2. y = x
      BY <2>1, <3>1, Mapped
    <3>3. store[n] # NoValue /\ store[n] =< cap
      BY <1>1, <1>2, <2>2
    <3> QED BY <1>0, <1>1, <2>1, <3>1, <3>2, <3>3 DEF Plain
  <2>3. CASE s = "BUFFER_TOO_SMALL"
    <3>1. store[n] # NoValue /\ size # NoValue /\ ~(store[n] =< cap)
      BY <1>1, <1>2, <2>3, OpsAssumption DEF Lens
    <3>2. y.r = "err" /\ y.v = efi_error_to_avb_error(<<"BufferTooSmall", size>>)
      BY <1>3, <1>6, <2>1, <2>3, Mapped
    <3>3. y.v = <<"InsufficientSpace", size>>
      BY <3>1, <3>2, AvbErrors
    <3>4. y.v[1] = "InsufficientSpace"
      BY <3>3
    <3> QED BY <1>0, <3>1, <3>2, <3>3, <3>4 DEF Plain
  <2>4. CASE s = "NOT_FOUND"
    <3>1. store[n] = NoValue
      BY <1>1, <2>4
    <3>2. x = ErrSize("NotFound", NoValue)
      BY <1>3, <1>6, <2>4 DEF Err
    <3>3. y.r = "err" /\ y.v = efi_error_to_avb_error(<<"NotFound", NoValue>>)
      BY <2>1, <3>2, Mapped
    <3>4. y.v[1] # "InsufficientSpace" /\ y.v[1] # "NotImplemented"
      BY <3>3, AvbErrors DEF CallErrors
    <3> QED BY <1>0, <3>1, <3>3, <3>4 DEF Plain
  <2> QED BY <1>1, <2>2, <2>3, <2>4
<1> QED BY <1>4, <1>5, <1>6

LEMMA Fallback ==
    ASSUME NEW x, NEW value
    PROVE  LET y == fallback_not_implemented(x, value) IN
           /\ x.r = "err" /\ x.v[1] = "NotImplemented" => y = Gives(value) /\ y.r = "ok" /\ y.v = value
           /\ ~(x.r = "err" /\ x.v[1] = "NotImplemented") => y = x
<1>1. Gives(value).r = "ok" /\ Gives(value).v = value
  BY Gave
<1> QED BY <1>1 DEF fallback_not_implemented

(* The judgement of a key.                                                  *)
LEMMA KeyJudged ==
    ASSUME NEW p \in Platforms, NEW s \in KeyStatuses
    PROVE  LET y == avb_validate_vbmeta_public_key(p, s) IN
           /\ ~Met(p) => y.r = "err" /\ (y.v[1] = "NotImplemented" => TakenForMissing(p)) /\ y.v[1] # "InsufficientSpace"
           /\ y.r = "ok" => (y.v = "Valid" => s = "VALID") /\ (Accepts(y.v) => s \in {"VALID", "VALID_CUSTOM_KEY"})
           /\ y.r = "panic" => s = "unknown"
           /\ y.r \in Plain \cup {"panic"} /\ (Met(p) => y.r # "err")
<1> DEFINE x == Wrap(p, "SUCCESS", s)
           k == to_avb_validation_status_or_panic(s)
           z == IF x.r = "ok" THEN k ELSE x
           y == Avb(p, z)
<1>0. y = avb_validate_vbmeta_public_key(p, s)
  BY DEF avb_validate_vbmeta_public_key
<1>1. (Usable(p) => x = Gives(s)) /\ (~Usable(p) => Failed(p, x))
  BY Wrapped
<1>2. /\ s = "unknown" => k.r = "panic"
      /\ s # "unknown" => /\ k.r = "ok" /\ (k.v = "Valid" => s = "VALID")
                          /\ Accepts(k.v) => s \in {"VALID", "VALID_CUSTOM_KEY"}
  BY DEF to_avb_validation_status_or_panic, KeyStatuses, Gives, Panic, Accepts
<1> HIDE DEF x, k, y
<1>3. CASE Met(p)
  <2>1. x.r = "ok"
    BY <1>1, <1>3, Gave, MetUsable
  <2>2. z = k /\ k.r # "err"
    BY <1>2, <2>1
  <2>3. y = MapErr(k, efi_error_to_avb_error)
    BY <1>3, <2>2, AvbOpen, MetUsable DEF y
  <2>4. y = k
    BY <2>2, <2>3, Mapped
  <2> QED BY <1>0, <1>2, <1>3, <2>4 DEF Plain
<1>4. CASE p.found \in {"absent", "denied"}
  <2>1. y = Err("NotImplemented")
    BY <1>4, AvbOpen DEF y
  <2>2. y.r = "err" /\ y.v[1] = "NotImplemented"
    BY <2>1, Erred
  <2> QED BY <1>0, <1>4, <2>2, MetUsable DEF TakenForMissing, Plain
<1>5. CASE ~Usable(p)
  <2>1. x.r = "err" /\ Failed(p, x)
    BY <1>1, <1>5, Failing
  <2>2. z = x
    BY <2>1
  <2>3. y.r = "err" /\ y.v[1] # "InsufficientSpace" /\ (y.v[1] = "NotImplemented" => TakenForMissing(p))
    BY <2>1, <2>2, AvbFailed DEF y
  <2> QED BY <1>0, <1>5, <2>3, MetUsable DEF Plain
<1> QED BY <1>3, <1>4, <1>5, MetUsable

(* A call without and with a buffer, and a protocol that is optional.       *)
LEMMA Calls ==
    ASSUME NEW p \in Platforms, NEW v
    PROVE  LET x == Wrap(p, "SUCCESS", v) IN
           x.r \in Plain /\ (Usable(p) <=> x.r = "ok") /\ (x.r = "ok" => x.v = v)
<1>1. CASE Usable(p)
  BY <1>1, Wrapped, Gave DEF Plain
<1>2. CASE ~Usable(p)
  BY <1>2, Wrapped, Failing DEF Plain
<1> QED BY <1>1, <1>2

LEMMA SizedCalls ==
    ASSUME NEW p \in Platforms, NEW v, NEW s \in Sized
    PROVE  LET x == WrapSized(p, s, v) IN
           x.r \in Plain /\ (x.r = "ok" => x.v = v /\ Usable(p))
<1> DEFINE x == WrapSized(p, s, v)
<1>1. s \in {"SUCCESS", "BUFFER_TOO_SMALL"}
  BY DEF Sized
<1>2. /\ Usable(p) => /\ s = "SUCCESS" => x = Gives(v)
                      /\ s = "BUFFER_TOO_SMALL" => x = ErrSize("BufferTooSmall", v)
      /\ ~Usable(p) => Failed(p, x)
  BY <1>1, WrappedSized
<1> HIDE DEF x
<1>3. CASE ~Usable(p)
  BY <1>2, <1>3, Failing DEF Plain, x
<1>4. CASE Usable(p) /\ s = "SUCCESS"
  BY <1>2, <1>4, Gave DEF Plain, x
<1>5. CASE Usable(p) /\ s = "BUFFER_TOO_SMALL"
  BY <1>2, <1>5, ErredSize DEF Plain, x
<1> QED BY <1>1, <1>3, <1>4, <1>5

LEMMA ThenPlain ==
    ASSUME NEW x, NEW y, x.r \in Plain
    PROVE  /\ y.r \in Plain => AndThen(x, y).r \in Plain
           /\ AndThen(x, y).r = "ok" => x.r = "ok" /\ AndThen(x, y) = y /\ y.r = "ok"
           /\ AndThen(x, y).r = "panic" => y.r = "panic" /\ x.r = "ok"
BY Then DEF Plain

LEMMA FirstPlain ==
    ASSUME NEW p \in Platforms
    PROVE  find_first_and_open(p).r \in Plain /\ (find_first_and_open(p).r = "ok" <=> p.found \notin {"absent", "denied"})
<1>1. p.found \notin {"absent", "denied"} => find_first_and_open(p).r = "ok"
  BY Opening, Gave
<1>2. p.found \in {"absent", "denied"} => find_first_and_open(p).r = "err"
  BY Opening, Erred
<1> QED BY <1>1, <1>2 DEF Plain

LEMMA Optionals ==
    ASSUME NEW p \in Platforms, NEW w, NEW x
    PROVE  LET y == Optional(p, w, x) IN
           /\ p.found = "absent" => y = w
           /\ p.found = "denied" => y.r = "err"
           /\ p.found \notin {"absent", "denied"} => y = x
<1>1. CASE p.found \notin {"absent", "denied"}
  BY <1>1, FirstPlain DEF Optional
<1>2. CASE p.found = "absent"
  <2>1. find_first_and_open(p).r = "err" /\ find_first_and_open(p).v[1] = "NotFound"
    BY <1>2, Opening, Erred
  <2> QED BY <1>2, <2>1 DEF Optional
<1>3. CASE p.found = "denied"
  <2>1. find_first_and_open(p).r = "err" /\ find_first_and_open(p).v[1] = "AccessDenied"
    BY <1>3, Opening, Erred
  <2> QED BY <1>3, <2>1 DEF Optional
<1> QED BY <1>1, <1>2, <1>3

LEMMA IsPlain == (\A v : Gives(v).r \in Plain) /\ (\A e : Err(e).r \in Plain)
BY Gave, Erred DEF Plain

(* Steps about which AnswersTruthful has nothing more to say, and what a    *)
(* step that only reads leaves alone.                                       *)
Checked == {"unlocked", "rollback", "value", "key", "policy", "lock state", "index", "key judged", "stored",
            "store", "set index", "trees", "commandline", "bootconfig", "oem", "disks"}
LEMMA Harmless == ASSUME ask'.op \notin Checked, ans'.r \in Plain PROVE AnswersTruthful'
BY DEF AnswersTruthful, Checked, Plain

LEMMA ReadOnly ==
    ASSUME OpsInv, UNCHANGED <<store, regs>>, ask'.op # "value"
    PROVE  OpsInv' /\ RetryFits
BY DEF OpsInv, RetryFits, Retry

LEMMA AskAvbTrue == ASSUME OpsInv, AskAvb PROVE OpsInv' /\ AnswersTruthful' /\ RetryFits
<1>1. PICK p \in Platforms :
        \/ \E u \in BOOLEAN : Reads([op |-> "unlocked", p |-> p, fw |-> u], avb_read_is_device_unlocked(p, u))
        \/ Reads([op |-> "rollback", p |-> p, fw |-> regs.rollback], avb_read_rollback_index(p))
        \/ \E s \in KeyStatuses : Reads([op |-> "key", p |-> p, fw |-> s], avb_validate_vbmeta_public_key(p, s))
        \/ Reads([op |-> "report", p |-> p], avb_handle_verification_result(p))
  BY DEF AskAvb
<1>2. ASSUME NEW o \in {"unlocked", "rollback"}, NEW u,
             Reads([op |-> o, p |-> p, fw |-> u], Avb(p, Wrap(p, "SUCCESS", u)))
      PROVE  OpsInv' /\ AnswersTruthful' /\ RetryFits
  <2>1. ask'.op = o /\ ask'.p = p /\ ask'.fw = u /\ UNCHANGED <<store, regs>>
    BY <1>2 DEF Reads, Asks
  <2>2. (Met(p) => ans'.r = "ok" /\ ans'.v = u) /\ (~Met(p) => ans'.r = "err")
    BY <1>2, AvbCall DEF Reads, Asks
  <2>3. AnswersTruthful'
    BY <2>1, <2>2 DEF AnswersTruthful, Silent, Met
  <2> QED BY <2>1, <2>3, ReadOnly
<1>3. ASSUME NEW s \in KeyStatuses, Reads([op |-> "key", p |-> p, fw |-> s], avb_validate_vbmeta_public_key(p, s))
      PROVE  OpsInv' /\ AnswersTruthful' /\ RetryFits
  <2>1. ask'.op = "key" /\ ask'.p = p /\ ask'.fw = s /\ UNCHANGED <<store, regs>>
    BY <1>3 DEF Reads, Asks
  <2>2. /\ ~Met(p) => ans'.r = "err"
        /\ ans'.r = "ok" => (ans'.v = "Valid" => s = "VALID")
        /\ ans'.r = "panic" => s = "unknown"
    BY <1>3, KeyJudged DEF Reads, Asks
  <2>3. AnswersTruthful'
    BY <2>1, <2>2 DEF AnswersTruthful, Silent, Met
  <2> QED BY <2>1, <2>3, ReadOnly
<1>4. CASE Reads([op |-> "report", p |-> p], avb_handle_verification_result(p))
  <2> DEFINE x == Wrap(p, "SUCCESS", 0)
  <2>1. ask'.op = "report" /\ UNCHANGED <<store, regs>> /\ ans' = avb_handle_verification_result(p)
    BY <1>4 DEF Reads, Asks
  <2>2. x.r \in Plain
    BY Calls
  <2> HIDE DEF x
  <2>3. MapErr(x, efi_error_to_avb_error).r \in Plain
    BY <2>2 DEF MapErr, Plain
  <2>4. ans'.r \in Plain
    BY <2>1, <2>3, IsPlain DEF avb_handle_verification_result, x
  <2> QED BY <2>1, <2>4, Harmless, ReadOnly DEF Checked
<1> QED BY <1>1, <1>2, <1>3, <1>4 DEF avb_read_is_device_unlocked, avb_read_rollback_index

LEMMA AskValueTrue == ASSUME OpsInv, AskValue PROVE OpsInv' /\ AnswersTruthful' /\ RetryFits
<1>1. PICK p \in Platforms, n \in Names, c \in Lens, z \in Lens :
           Reads([op |-> "value", p |-> p, n |-> n, c |-> c, z |-> z], avb_read_persistent_value(p, n, c, z))
  BY DEF AskValue
<1>2. ask'.op = "value" /\ ask'.p = p /\ ask'.n = n /\ ask'.c = c /\ ask'.z = z /\ UNCHANGED <<store, regs>>
  BY <1>1 DEF Reads, Asks
<1>3. ans' = avb_read_persistent_value(p, n, c, z) /\ "p" \in DOMAIN ask'
  BY <1>1 DEF Reads, Asks
<1>4. /\ ans'.r \in Plain
      /\ ans'.r = "ok" => Met(p) /\ ans'.v = z /\ store[n] \in Lens /\ store[n] =< c
      /\ ans'.r = "err" /\ ans'.v[1] = "InsufficientSpace" =>
            store[n] # NoValue /\ ans'.v = <<"InsufficientSpace", z>>
      /\ Met(p) /\ store[n] # NoValue /\ store[n] =< c => ans'.r = "ok"
  BY <1>3, AvbValue DEF OpsInv
<1>5. OpsInv'
  BY <1>2, <1>4 DEF OpsInv
<1>6. AnswersTruthful'
  <2>1. ~Met(p) => ans'.r = "err"
    BY <1>4 DEF Plain
  <2> QED BY <1>2, <1>4, <2>1 DEF AnswersTruthful, Silent, Honest, Met, Plain
<1>7. RetryFits
  <2>1. ASSUME Retry PROVE ans'.r = "ok"
    <3>1. ask.op = "value" /\ n = ask.n /\ Met(p) /\ ans.r = "err" /\ ans.v = <<"InsufficientSpace", c>>
          /\ ask.z = store[ask.n]
      BY <1>2, <1>3, <2>1 DEF Retry, Silent, Honest, Met
    <3>2. ans.v[1] = "InsufficientSpace" /\ ans.v[2] = c
      BY <3>1
    <3>3. store[n] # NoValue /\ ans.v = <<"InsufficientSpace", ask.z>>
      BY <3>1, <3>2 DEF OpsInv
    <3>4. store[n] = c /\ c =< c
      BY <3>1, <3>2, <3>3, OpsAssumption DEF Lens
    <3> QED BY <1>4, <3>1, <3>3, <3>4
  <2> QED BY <1>2, <2>1 DEF RetryFits
<1> QED BY <1>5, <1>6, <1>7

LEMMA AskAvbWriteTrue == ASSUME OpsInv, AskAvbWrite PROVE OpsInv' /\ AnswersTruthful' /\ RetryFits
<1>1. PICK p \in Platforms :
    \/ \E i \in 0..1 : /\ Asks([op |-> "set rollback", p |-> p, i |-> i], avb_write_rollback_index(p))
                       /\ regs' = (IF Done(ans') THEN [regs EXCEPT !.rollback = i] ELSE regs) /\ UNCHANGED store
    \/ \E n \in Names, l \in Lens \cup {NoValue} :
          /\ Asks([op |-> "set value", p |-> p, n |-> n, l |-> l], avb_write_persistent_value(p))
          /\ store' = (IF Done(ans') THEN [store EXCEPT ![n] = l] ELSE store) /\ UNCHANGED regs
  BY DEF AskAvbWrite
<1>2. ASSUME NEW i \in 0..1, Asks([op |-> "set rollback", p |-> p, i |-> i], avb_write_rollback_index(p)),
             regs' = (IF Done(ans') THEN [regs EXCEPT !.rollback = i] ELSE regs), UNCHANGED store
      PROVE  OpsInv' /\ AnswersTruthful' /\ RetryFits
  <2>1. ask'.op = "set rollback" /\ ans' = Avb(p, Wrap(p, "SUCCESS", 0))
    BY <1>2 DEF Asks, avb_write_rollback_index
  <2>2. ans'.r \in Plain
    BY <2>1, AvbCall DEF Plain
  <2>3. regs' \in Regs
    BY <1>2 DEF OpsInv, Regs
  <2>4. OpsInv'
    BY <1>2, <2>1, <2>3 DEF OpsInv
  <2>5. RetryFits
    BY <1>2, <2>1 DEF RetryFits, Retry, Done
  <2> QED BY <2>1, <2>2, <2>4, <2>5, Harmless DEF Checked
<1>3. ASSUME NEW n \in Names, NEW l \in Lens \cup {NoValue},
             Asks([op |-> "set value", p |-> p, n |-> n, l |-> l], avb_write_persistent_value(p)),
             store' = (IF Done(ans') THEN [store EXCEPT ![n] = l] ELSE store), UNCHANGED regs
      PROVE  OpsInv' /\ AnswersTruthful' /\ RetryFits
  <2>1. ask'.op = "set value" /\ ans' = Avb(p, Wrap(p, "SUCCESS", 0))
    BY <1>3 DEF Asks, avb_write_persistent_value
  <2>2. ans'.r \in Plain
    BY <2>1, AvbCall DEF Plain
  <2>3. OpsInv'
    BY <1>3, <2>1 DEF OpsInv
  <2>4. RetryFits
    BY <1>3, <2>1 DEF RetryFits, Retry, Done
  <2> QED BY <2>1, <2>2, <2>3, <2>4, Harmless DEF Checked
<1> QED BY <1>1, <1>2, <1>3

LEMMA AskGblAvbTrue == ASSUME OpsInv, AskGblAvb PROVE OpsInv' /\ AnswersTruthful' /\ RetryFits
<1>1. PICK p \in Platforms :
    \/ \E u \in BOOLEAN : Reads([op |-> "lock state", p |-> p, fw |-> u], GblAvb_read_is_device_unlocked(p, u))
    \/ Reads([op |-> "index", p |-> p, fw |-> regs.rollback], GblAvb_read_rollback_index(p))
    \/ \E n \in Names, c, z \in Lens :
          Reads([op |-> "stored", p |-> p, n |-> n, c |-> c, z |-> z], GblAvb_read_persistent_value(p, n, c, z))
    \/ \E s \in KeyStatuses, cert \in BOOLEAN :
          Reads([op |-> "key judged", p |-> p, fw |-> s, cert |-> cert], GblAvb_validate_vbmeta_public_key(p, s, cert))
    \/ \E n \in Names, l \in Lens \cup {NoValue} :
          /\ Asks([op |-> "store", p |-> p, n |-> n, l |-> l], GblAvb_write_persistent_value(p))
          /\ store' = (IF Done(avb_write_persistent_value(p)) THEN [store EXCEPT ![n] = l] ELSE store) /\ UNCHANGED regs
    \/ \E i \in 0..1 : /\ Asks([op |-> "set index", p |-> p, i |-> i], GblAvb_write_rollback_index(p))
                       /\ regs' = (IF Done(avb_write_rollback_index(p)) THEN [regs EXCEPT !.rollback = i] ELSE regs)
                       /\ UNCHANGED store
  BY DEF AskGblAvb
<1>2. ASSUME NEW o \in {"lock state", "index"}, NEW u, NEW default,
             Reads([op |-> o, p |-> p, fw |-> u], fallback_not_implemented(Avb(p, Wrap(p, "SUCCESS", u)), default))
      PROVE  OpsInv' /\ AnswersTruthful' /\ RetryFits
  <2> DEFINE x == Avb(p, Wrap(p, "SUCCESS", u))
  <2>1. ask'.op = o /\ ask'.p = p /\ ask'.fw = u /\ UNCHANGED <<store, regs>>
    BY <1>2 DEF Reads, Asks
  <2>2. ans' = fallback_not_implemented(x, default)
    BY <1>2 DEF Reads, Asks
  <2>3. /\ Met(p) => x.r = "ok" /\ x.v = u
        /\ ~Met(p) => x.r = "err" /\ (x.v[1] = "NotImplemented" => TakenForMissing(p))
    BY AvbCall
  <2> HIDE DEF x
  <2>4. CASE Met(p)
    <3>1. ans'.r = "ok" /\ ans'.v = u
      BY <2>2, <2>3, <2>4, Fallback
    <3> QED BY <2>1, <2>4, <3>1, ReadOnly DEF AnswersTruthful, Silent, Met
  <2>5. CASE ~Met(p)
    <3>1. CASE x.v[1] = "NotImplemented"
      <4>0. x.r = "err" /\ TakenForMissing(p)
        BY <2>3, <2>5, <3>1
      <4>1. ans' = Gives(default)
        BY <2>2, <3>1, <4>0 DEF fallback_not_implemented
      <4>2. ans'.r = "ok"
        BY <4>1, Gave
      <4> QED BY <2>1, <4>0, <4>2, ReadOnly DEF AnswersTruthful
    <3>2. CASE x.v[1] # "NotImplemented"
      <4>1. ans' = x
        BY <2>2, <3>2, Fallback
      <4>2. ans'.r = "err"
        BY <2>3, <2>5, <4>1
      <4> QED BY <2>1, <4>2, ReadOnly DEF AnswersTruthful
    <3> QED BY <3>1, <3>2
  <2> QED BY <2>4, <2>5
<1>3. ASSUME NEW n \in Names, NEW c \in Lens, NEW z \in Lens,
             Reads([op |-> "stored", p |-> p, n |-> n, c |-> c, z |-> z], GblAvb_read_persistent_value(p, n, c, z))
      PROVE  OpsInv' /\ AnswersTruthful' /\ RetryFits
  <2> DEFINE x == avb_read_persistent_value(p, n, c, z)
  <2>1. ask'.op = "stored" /\ ask'.p = p /\ ask'.n = n /\ ask'.z = z /\ UNCHANGED <<store, regs>>
    BY <1>3 DEF Reads, Asks
  <2>2. ans' = fallback_not_implemented(x, 0)
    BY <1>3 DEF Reads, Asks, GblAvb_read_persistent_value
  <2>3. /\ x.r \in Plain /\ (x.r = "ok" => x.v = z)
        /\ x.r = "err" /\ x.v[1] = "NotImplemented" => TakenForMissing(p)
    BY AvbValue DEF OpsInv
  <2> HIDE DEF x
  <2>4. ans'.r = "err" \/ (ans'.r = "ok" /\ (ans'.v = z \/ TakenForMissing(p)))
    BY <2>2, <2>3, Fallback DEF Plain
  <2> QED BY <2>1, <2>4, ReadOnly DEF AnswersTruthful, Honest
<1>4. ASSUME NEW s \in KeyStatuses, NEW cert \in BOOLEAN,
             Reads([op |-> "key judged", p |-> p, fw |-> s, cert |-> cert], GblAvb_validate_vbmeta_public_key(p, s, cert))
      PROVE  OpsInv' /\ AnswersTruthful' /\ RetryFits
  <2> DEFINE x == avb_validate_vbmeta_public_key(p, s)
  <2>1. ask'.op = "key judged" /\ ask'.p = p /\ ask'.fw = s /\ ask'.cert = cert /\ UNCHANGED <<store, regs>>
    BY <1>4 DEF Reads, Asks
  <2>2. ans' = GblAvb_validate_vbmeta_public_key(p, s, cert)
    BY <1>4 DEF Reads, Asks
  <2>3. CASE cert
    <3>1. CASE s = "unknown"
      <4>1. ans' = Err("Io")
        BY <2>2, <2>3, <3>1 DEF GblAvb_validate_vbmeta_public_key
      <4>2. ans'.r = "err"
        BY <4>1, Erred
      <4> QED BY <2>1, <4>2, ReadOnly DEF AnswersTruthful
    <3>2. CASE s # "unknown"
      <4>1. ans' = Gives(IF s = "VALID" THEN "Valid" ELSE "Invalid")
        BY <2>2, <2>3, <3>2 DEF GblAvb_validate_vbmeta_public_key
      <4>2. ans'.r = "ok" /\ ans'.v = IF s = "VALID" THEN "Valid" ELSE "Invalid"
        BY <4>1, Gave
      <4> QED BY <2>1, <4>2, ReadOnly DEF AnswersTruthful, Accepts
    <3> QED BY <3>1, <3>2
  <2>4. CASE ~cert
    <3>1. ans' = fallback_not_implemented(x, "ValidCustomKey")
      BY <2>2, <2>4 DEF GblAvb_validate_vbmeta_public_key
    <3>2. /\ ~Met(p) => x.r = "err" /\ (x.v[1] = "NotImplemented" => TakenForMissing(p))
          /\ x.r = "ok" => (Accepts(x.v) => s \in {"VALID", "VALID_CUSTOM_KEY"})
          /\ x.r = "panic" => s = "unknown"
          /\ x.r \in Plain \cup {"panic"} /\ (Met(p) => x.r # "err")
      BY KeyJudged
    <3> HIDE DEF x
    <3>3. \/ ans'.r = "err"
          \/ ans'.r = "ok" /\ ans'.v = "ValidCustomKey" /\ TakenForMissing(p)
          \/ ans'.r = "ok" /\ (Accepts(ans'.v) => s \in {"VALID", "VALID_CUSTOM_KEY"})
          \/ ans'.r = "panic" /\ s = "unknown"
      BY <3>1, <3>2, Fallback DEF Plain
    <3> QED BY <2>1, <2>4, <3>3, ReadOnly DEF AnswersTruthful
  <2> QED BY <2>3, <2>4
<1>5. ASSUME NEW n \in Names, NEW l \in Lens \cup {NoValue},
             Asks([op |-> "store", p |-> p, n |-> n, l |-> l], GblAvb_write_persistent_value(p)),
             store' = (IF Done(avb_write_persistent_value(p)) THEN [store EXCEPT ![n] = l] ELSE store), UNCHANGED regs
      PROVE  OpsInv' /\ AnswersTruthful' /\ RetryFits
  <2> DEFINE x == avb_write_persistent_value(p)
  <2>1. ask'.op = "store" /\ ask'.p = p /\ ask'.n = n /\ ask'.l = l
    BY <1>5 DEF Asks
  <2>2. ans' = fallback_not_implemented(x, 0)
    BY <1>5 DEF Asks, GblAvb_write_persistent_value
  <2>3. /\ Met(p) => x.r = "ok"
        /\ ~Met(p) => x.r = "err" /\ (x.v[1] = "NotImplemented" => TakenForMissing(p))
    BY AvbCall DEF avb_write_persistent_value
  <2>4. OpsInv'
    BY <1>5, <2>1 DEF OpsInv
  <2> HIDE DEF x
  <2>5. CASE Met(p)
    <3>1. ans'.r = "ok"
      BY <2>2, <2>3, <2>5, Fallback
    <3>2. store'[n] = l
      BY <1>5, <2>3, <2>5 DEF Done, x, OpsInv
    <3>3. AnswersTruthful'
      BY <2>1, <3>1, <3>2 DEF AnswersTruthful
    <3> QED BY <2>1, <2>4, <3>1, <3>3 DEF RetryFits, Retry
  <2>6. CASE ~Met(p)
    <3>1. ans'.r = "err" \/ (ans'.r = "ok" /\ TakenForMissing(p))
      BY <2>2, <2>3, <2>6, Fallback
    <3>2. UNCHANGED <<store, regs>>
      BY <1>5, <2>3, <2>6 DEF Done, x
    <3>3. AnswersTruthful'
      BY <2>1, <3>1 DEF AnswersTruthful
    <3> QED BY <2>1, <3>2, <3>3, ReadOnly
  <2> QED BY <2>5, <2>6
<1>6. ASSUME NEW i \in 0..1, Asks([op |-> "set index", p |-> p, i |-> i], GblAvb_write_rollback_index(p)),
             regs' = (IF Done(avb_write_rollback_index(p)) THEN [regs EXCEPT !.rollback = i] ELSE regs), UNCHANGED store
      PROVE  OpsInv' /\ AnswersTruthful' /\ RetryFits
  <2> DEFINE x == avb_write_rollback_index(p)
  <2>1. ask'.op = "set index" /\ ask'.p = p /\ ask'.i = i
    BY <1>6 DEF Asks
  <2>2. ans' = fallback_not_implemented(x, 0)
    BY <1>6 DEF Asks, GblAvb_write_rollback_index
  <2>3. /\ Met(p) => x.r = "ok"
        /\ ~Met(p) => x.r = "err" /\ (x.v[1] = "NotImplemented" => TakenForMissing(p))
    BY AvbCall DEF avb_write_rollback_index
  <2>4. regs' \in Regs
    BY <1>6 DEF OpsInv, Regs
  <2>5. OpsInv'
    BY <1>6, <2>1, <2>4 DEF OpsInv
  <2> HIDE DEF x
  <2>6. CASE Met(p)
    <3>1. ans'.r = "ok"
      BY <2>2, <2>3, <2>6, Fallback
    <3>2. regs'.rollback = i
      BY <1>6, <2>3, <2>6 DEF Done, x, OpsInv, Regs
    <3>3. AnswersTruthful'
      BY <2>1, <3>1, <3>2 DEF AnswersTruthful
    <3> QED BY <2>1, <2>5, <3>1, <3>3 DEF RetryFits, Retry
  <2>7. CASE ~Met(p)
    <3>1. ans'.r = "err" \/ (ans'.r = "ok" /\ TakenForMissing(p))
      BY <2>2, <2>3, <2>7, Fallback
    <3>2. UNCHANGED <<store, regs>>
      BY <1>6, <2>3, <2>7 DEF Done, x
    <3>3. AnswersTruthful'
      BY <2>1, <3>1 DEF AnswersTruthful
    <3> QED BY <2>1, <3>2, <3>3, ReadOnly
  <2> QED BY <2>6, <2>7
<1>7. ASSUME NEW u \in BOOLEAN,
             Reads([op |-> "lock state", p |-> p, fw |-> u], GblAvb_read_is_device_unlocked(p, u))
      PROVE  OpsInv' /\ AnswersTruthful' /\ RetryFits
  <2> DEFINE unlocked == TRUE
  <2>1. Reads([op |-> "lock state", p |-> p, fw |-> u], fallback_not_implemented(Avb(p, Wrap(p, "SUCCESS", u)), unlocked))
    BY <1>7 DEF GblAvb_read_is_device_unlocked, avb_read_is_device_unlocked
  <2> HIDE DEF unlocked
  <2> QED BY <1>2, <2>1
<1>8. CASE Reads([op |-> "index", p |-> p, fw |-> regs.rollback], GblAvb_read_rollback_index(p))
  BY <1>2, <1>8 DEF GblAvb_read_rollback_index, avb_read_rollback_index
<1> QED BY <1>1, <1>3, <1>4, <1>5, <1>6, <1>7, <1>8

LEMMA AskCertTrue == ASSUME OpsInv, AskCert PROVE OpsInv' /\ AnswersTruthful' /\ RetryFits
<1>1. PICK len \in Lens \cup {NoValue} :
    \/ Reads([op |-> "attributes", fw |-> len], avb_cert_read_permanent_attributes(len, 1))
    \/ Reads([op |-> "hash", fw |-> len], avb_cert_read_permanent_attributes_hash(len, 1))
  BY DEF AskCert
<1>2. CASE Reads([op |-> "attributes", fw |-> len], avb_cert_read_permanent_attributes(len, 1))
  <2>1. ask'.op = "attributes" /\ ask'.fw = len /\ UNCHANGED <<store, regs>>
    BY <1>2 DEF Reads, Asks
  <2>2. ans'.r = "panic" => len # 1
    BY <1>2 DEF Reads, Asks, avb_cert_read_permanent_attributes, Gives, Err, ErrSize
  <2> QED BY <2>1, <2>2, ReadOnly DEF AnswersTruthful
<1>3. CASE Reads([op |-> "hash", fw |-> len], avb_cert_read_permanent_attributes_hash(len, 1))
  <2>1. ask'.op = "hash" /\ UNCHANGED <<store, regs>>
    BY <1>3 DEF Reads, Asks
  <2>2. ans'.r \in Plain
    BY <1>3 DEF Reads, Asks, avb_cert_read_permanent_attributes_hash, Gives, Err, ErrSize, Plain
  <2> QED BY <2>1, <2>2, ReadOnly, Harmless DEF Checked
<1> QED BY <1>1, <1>2, <1>3

LEMMA AskConfigTrue == ASSUME OpsInv, AskConfig PROVE OpsInv' /\ AnswersTruthful' /\ RetryFits
<1>1. PICK p \in Platforms, c \in Lens, s \in Sized :
    \/ \E nul \in Lens : Reads([op |-> "commandline", p |-> p, c |-> c, fw |-> nul], fixup_os_commandline(p, c, s, nul))
    \/ \E n \in Lens : Reads([op |-> "bootconfig", p |-> p, c |-> c, fw |-> n], fixup_bootconfig(p, c, s, n))
    \/ Reads([op |-> "fdt", p |-> p, c |-> c, fw |-> s], fixup_device_tree(p, c, s))
    \/ \E w \in SUBSET Lens : Reads([op |-> "trees", p |-> p, fw |-> w], select_device_trees(p, w, Gives({0})))
  BY DEF AskConfig
<1>0. p.found \in Found
  BY Opening
<1>2. ASSUME NEW nul \in Lens,
             Reads([op |-> "commandline", p |-> p, c |-> c, fw |-> nul], fixup_os_commandline(p, c, s, nul))
      PROVE  OpsInv' /\ AnswersTruthful' /\ RetryFits
  <2> DEFINE k == fixup_kernel_commandline(p, c, s)
             t == IF nul < c THEN Gives(nul) ELSE Err("InvalidInput")
             x == AndThen(k, t)
  <2>1. ask'.op = "commandline" /\ ask'.c = c /\ UNCHANGED <<store, regs>>
    BY <1>2 DEF Reads, Asks
  <2>2. ans' = Optional(p, Gives(NoValue), x)
    BY <1>2 DEF Reads, Asks, fixup_os_commandline
  <2>3. k.r \in Plain
    BY SizedCalls, IsPlain DEF fixup_kernel_commandline
  <2>4. t.r \in Plain /\ (t.r = "ok" => t.v = nul /\ nul < c)
    <3>1. CASE nul < c
      BY <3>1, Gave DEF Plain
    <3>2. CASE ~(nul < c)
      BY <3>2, Erred DEF Plain
    <3> QED BY <3>1, <3>2
  <2> HIDE DEF k, t
  <2>5. x.r \in Plain /\ (x.r = "ok" => x.v = nul /\ nul < c)
    BY <2>3, <2>4, ThenPlain
  <2> HIDE DEF x
  <2>6. ans'.r = "err" \/ (ans'.r = "ok" /\ (ans'.v = NoValue \/ (ans'.v = nul /\ nul < c)))
    <3>1. CASE p.found = "absent"
      BY <2>2, <3>1, Optionals, Gave
    <3>2. CASE p.found # "absent"
      BY <2>2, <2>5, <3>2, Optionals DEF Plain
    <3> QED BY <3>1, <3>2
  <2>7. nul < c => nul =< c
    BY OpsAssumption DEF Lens
  <2> QED BY <2>1, <2>6, <2>7, ReadOnly DEF AnswersTruthful
<1>3. ASSUME NEW n \in Lens,
             Reads([op |-> "bootconfig", p |-> p, c |-> c, fw |-> n], fixup_bootconfig(p, c, s, n))
      PROVE  OpsInv' /\ AnswersTruthful' /\ RetryFits
  <2> DEFINE k == protocol_fixup_bootconfig(p, c, s, n)
             t == IF n =< c THEN Gives(n) ELSE Panic
             x == AndThen(k, t)
  <2>1. ask'.op = "bootconfig" /\ ask'.c = c /\ ask'.fw = n /\ UNCHANGED <<store, regs>>
    BY <1>3 DEF Reads, Asks
  <2>2. ans' = Optional(p, Gives(NoValue), x)
    BY <1>3 DEF Reads, Asks, fixup_bootconfig
  <2>3. k.r \in Plain
    BY SizedCalls, IsPlain DEF protocol_fixup_bootconfig
  <2>4. t.r \in {"ok", "panic"} /\ (t.r = "ok" => t.v = n /\ n =< c) /\ (t.r = "panic" => ~(n =< c))
    <3>1. CASE n =< c
      BY <3>1, Gave
    <3>2. CASE ~(n =< c)
      BY <3>2 DEF Panic
    <3> QED BY <3>1, <3>2
  <2> HIDE DEF k, t
  <2>5. x.r \in Plain \cup {"panic"} /\ (x.r = "ok" => x.v = n /\ n =< c) /\ (x.r = "panic" => ~(n =< c))
    BY <2>3, <2>4, Then DEF Plain
  <2> HIDE DEF x
  <2>6. \/ ans'.r = "err"
        \/ ans'.r = "ok" /\ (ans'.v = NoValue \/ (ans'.v = n /\ n =< c))
        \/ ans'.r = "panic" /\ ~(n =< c)
    <3>1. CASE p.found = "absent"
      BY <2>2, <3>1, Optionals, Gave
    <3>2. CASE p.found # "absent"
      BY <2>2, <2>5, <3>2, Optionals DEF Plain
    <3> QED BY <3>1, <3>2
  <2>7. ~(n =< c) => n > c
    BY OpsAssumption DEF Lens
  <2> QED BY <2>1, <2>6, <2>7, ReadOnly DEF AnswersTruthful
<1>4. CASE Reads([op |-> "fdt", p |-> p, c |-> c, fw |-> s], fixup_device_tree(p, c, s))
  <2> DEFINE k == WrapSized(p, s, c)
             x == AndThen(k, Gives(0))
  <2>1. ask'.op = "fdt" /\ UNCHANGED <<store, regs>>
    BY <1>4 DEF Reads, Asks
  <2>2. ans' = Optional(p, Gives(0), x)
    BY <1>4 DEF Reads, Asks, fixup_device_tree
  <2>3. k.r \in Plain
    BY SizedCalls
  <2> HIDE DEF k
  <2>4. x.r \in Plain
    BY <2>3, ThenPlain, IsPlain
  <2> HIDE DEF x
  <2>5. ans'.r \in Plain
    BY <2>2, <2>4, Optionals, IsPlain DEF Plain
  <2> QED BY <2>1, <2>5, ReadOnly, Harmless DEF Checked
<1>5. ASSUME NEW w \in SUBSET Lens,
             Reads([op |-> "trees", p |-> p, fw |-> w], select_device_trees(p, w, Gives({0})))
      PROVE  OpsInv' /\ AnswersTruthful' /\ RetryFits
  <2> DEFINE x == Wrap(p, "SUCCESS", w)
  <2>1. ask'.op = "trees" /\ ask'.p = p /\ ask'.fw = w /\ UNCHANGED <<store, regs>>
    BY <1>5 DEF Reads, Asks
  <2>2. ans' = Optional(p, Gives({0}), x)
    BY <1>5 DEF Reads, Asks, select_device_trees
  <2>3. x.r \in Plain /\ (x.r = "ok" => x.v = w)
    BY Calls
  <2> HIDE DEF x
  <2>4. ans'.r \in Plain /\ (ans'.r = "ok" /\ p.found # "absent" => ans'.v = w)
    BY <2>2, <2>3, Optionals, IsPlain DEF Plain
  <2> QED BY <2>1, <2>4, ReadOnly DEF AnswersTruthful, Plain
<1> QED BY <1>1, <1>2, <1>3, <1>4, <1>5

LEMMA AskFastbootTrue == ASSUME OpsInv, AskFastboot PROVE OpsInv' /\ AnswersTruthful' /\ RetryFits
<1>1. PICK p \in Platforms, c \in Lens, s \in Sized :
    \/ \E n \in Lens, k \in 0..MAX_ARGS : Reads([op |-> "getvar", p |-> p, c |-> c, k |-> k, fw |-> n], fastboot_variable(p, k, c, s, n))
    \/ \E k \in 0..(MAX_ARGS + 1) : Reads([op |-> "getvar all", p |-> p, k |-> k], fastboot_visit_all_variables(p, k))
    \/ \E n, nul \in Lens : Reads([op |-> "oem", p |-> p, c |-> c, fw |-> n, nul |-> nul], run_oem_function(p, c, s, n, nul))
    \/ \E nul \in Lens : Reads([op |-> "serial", p |-> p, c |-> c], serial_number(p, nul, c))
    \/ Reads([op |-> "local", p |-> p], start_local_session(p))
    \/ \E prop \in {NoValue, <<>>, <<0>>, <<1>>, <<1, 0>>, <<2>>}, keys \in [1..2 -> Keys] :
          Reads([op |-> "stop", p |-> p, fw |-> prop, keys |-> keys], should_stop_in_fastboot(p, prop, keys))
  BY DEF AskFastboot
<1>2. ASSUME NEW q, NEW a, Reads(q, a), q.op \notin Checked, a.r \in Plain
      PROVE  OpsInv' /\ AnswersTruthful' /\ RetryFits
  BY <1>2, Harmless, ReadOnly DEF Reads, Asks, Checked
<1>3. ASSUME NEW n \in Lens, NEW k \in 0..MAX_ARGS PROVE fastboot_variable(p, k, c, s, n).r \in Plain
  <2>1. get_var(p, k, c, s, n).r \in Plain
    BY SizedCalls, IsPlain DEF get_var
  <2> QED BY <2>1, FirstPlain, ThenPlain DEF fastboot_variable
<1>4. ASSUME NEW k \in 0..(MAX_ARGS + 1) PROVE fastboot_visit_all_variables(p, k).r \in Plain
  <2> DEFINE x == Wrap(p, "SUCCESS", get_var_all_cb(k))
  <2>1. x.r \in Plain
    BY Calls
  <2>2. fastboot_visit_all_variables(p, k) = Optional(p, Gives(<<>>), x)
    BY DEF fastboot_visit_all_variables
  <2> HIDE DEF x
  <2> QED BY <2>1, <2>2, Optionals, IsPlain DEF Plain
<1>5. ASSUME NEW n \in Lens, NEW nul \in Lens,
             Reads([op |-> "oem", p |-> p, c |-> c, fw |-> n, nul |-> nul], run_oem_function(p, c, s, n, nul))
      PROVE  OpsInv' /\ AnswersTruthful' /\ RetryFits
  <2> DEFINE text == IF nul < c THEN nul ELSE c
             m == IF n < text THEN n ELSE text
             x == WrapSized(p, s, n)
             y == Gives(m)
  <2>1. ask'.op = "oem" /\ ask'.c = c /\ UNCHANGED <<store, regs>>
    BY <1>5 DEF Reads, Asks
  <2>2. ans' = AndThen(x, y)
    BY <1>5 DEF Reads, Asks, run_oem_function
  <2>3. m =< c
    BY OpsAssumption DEF Lens
  <2>4. x.r \in Plain
    BY SizedCalls
  <2> HIDE DEF m, x
  <2>5. y.r = "ok" /\ y.v = m
    BY Gave
  <2> HIDE DEF y
  <2>6. ans'.r \in Plain /\ (ans'.r = "ok" => ans'.v =< c)
    BY <2>2, <2>3, <2>4, <2>5, Then
  <2> QED BY <2>1, <2>6, ReadOnly DEF AnswersTruthful, Plain
<1>6. ASSUME NEW nul \in Lens PROVE serial_number(p, nul, c).r \in Plain
  <2>1. interface(p).r \in Plain
    BY Opening, IsPlain
  <2> QED BY <2>1, ThenPlain, IsPlain DEF serial_number
<1>7. start_local_session(p).r \in Plain
  BY Calls, FirstPlain, ThenPlain DEF start_local_session
<1>8. ASSUME NEW prop, NEW keys PROVE should_stop_in_fastboot(p, prop, keys).r \in Plain
  <2>1. \A k : read_key_stroke(k).r \in Plain
    BY DEF read_key_stroke, Gives, Err, ErrSize, Plain
  <2> DEFINE i == SelectInSeq(keys, LAMBDA k : k = "backspace" \/ read_key_stroke(k).r = "err")
             y == AndThen(read_key_stroke(keys[i]), Gives(TRUE))
             z == IF i = 0 THEN Gives(FALSE) ELSE y
  <2>2. wait_key_stroke(p, keys) = AndThen(find_first_and_open(p), z)
    BY DEF wait_key_stroke
  <2> HIDE DEF i
  <2>3. y.r \in Plain
    BY <2>1, ThenPlain, IsPlain
  <2> HIDE DEF y
  <2>4. z.r \in Plain
    BY <2>3, IsPlain
  <2> HIDE DEF z
  <2>5. wait_key_stroke(p, keys).r \in Plain
    BY <2>2, <2>4, ThenPlain, FirstPlain
  <2> DEFINE w == wait_key_stroke(p, keys)
  <2> HIDE DEF w
  <2>6. w.r \in Plain
    BY <2>5 DEF w
  <2>7. MapErr(w, LAMBDA e : <<"Other", NoValue>>).r \in Plain
    BY <2>6 DEF MapErr, Plain
  <2>8. CASE prop # NoValue
    <3> DEFINE b == prop # <<>> /\ prop[1] = 1
    <3>1. should_stop_in_fastboot(p, prop, keys) = Gives(b)
      BY <2>8 DEF should_stop_in_fastboot
    <3> HIDE DEF b
    <3> QED BY <3>1, IsPlain
  <2>9. CASE prop = NoValue
    BY <2>7, <2>9 DEF should_stop_in_fastboot, w
  <2> QED BY <2>8, <2>9
<1> QED BY <1>1, <1>2, <1>3, <1>4, <1>5, <1>6, <1>7, <1>8 DEF Checked

LEMMA AskSlotsTrue == ASSUME OpsInv, AskSlots PROVE OpsInv' /\ AnswersTruthful' /\ RetryFits
<1>1. PICK p \in Platforms :
    \/ \E n \in Lens : Reads([op |-> "slots", p |-> p, fw |-> n], slots_metadata(p, n))
    \/ Reads([op |-> "slot", p |-> p], get_current_slot(p))
  BY DEF AskSlots
<1>2. ASSUME NEW q, NEW a, Reads(q, a), q.op \notin Checked, a.r \in Plain
      PROVE  OpsInv' /\ AnswersTruthful' /\ RetryFits
  BY <1>2, Harmless, ReadOnly DEF Reads, Asks, Checked
<1>3. ASSUME NEW n \in Lens PROVE slots_metadata(p, n).r \in Plain
  BY Calls, FirstPlain, ThenPlain DEF slots_metadata
<1>4. get_current_slot(p).r \in Plain
  BY IsPlain DEF get_current_slot
<1> QED BY <1>1, <1>2, <1>3, <1>4 DEF Checked

LEMMA AskPolicyTrue == ASSUME OpsInv, AskPolicy PROVE OpsInv' /\ AnswersTruthful' /\ RetryFits
<1>1. PICK p \in {q \in Platforms : find_first_and_open(q).r = "ok"} :
    \/ Reads([op |-> "policy", p |-> p, fw |-> regs.locks], get_policy(p))
    \/ \E w \in BOOLEAN : Reads([op |-> "stop wanted", p |-> p, fw |-> w], Gives(should_stop(p, w)))
    \/ \E s \in Sized, n \in Lens : Reads([op |-> "local update", p |-> p, fw |-> n], update_local_session(p, s, n))
    \/ \E l \in Locks, on \in BOOLEAN :
          /\ Asks([op |-> "lock", p |-> p, l |-> l, on |-> on], set_lock(p))
          /\ regs' = (IF Done(ans') THEN [regs EXCEPT !.locks = IF on THEN @ \cup {l} ELSE @ \ {l}] ELSE regs)
          /\ UNCHANGED store
  BY DEF AskPolicy
<1>0. p \in Platforms /\ p.found \notin {"absent", "denied"}
  BY FirstPlain
<1>2. ASSUME NEW q, NEW a, Reads(q, a), q.op \notin Checked, a.r \in Plain
      PROVE  OpsInv' /\ AnswersTruthful' /\ RetryFits
  BY <1>2, Harmless, ReadOnly DEF Reads, Asks, Checked
<1>3. CASE Reads([op |-> "policy", p |-> p, fw |-> regs.locks], get_policy(p))
  <2>1. ask'.op = "policy" /\ ask'.p = p /\ ask'.fw = regs.locks /\ UNCHANGED <<store, regs>>
    BY <1>3 DEF Reads, Asks
  <2>2. ans'.r \in Plain /\ (ans'.r = "ok" => Usable(p) /\ ans'.v = regs.locks)
    BY <1>0, <1>3, Calls DEF Reads, Asks, get_policy
  <2>3. ans'.r = "ok" => Met(p)
    BY <1>0, <2>2, MetUsable
  <2> QED BY <2>1, <2>2, <2>3, ReadOnly DEF AnswersTruthful, Silent, Met, Plain
<1>4. ASSUME NEW w \in BOOLEAN PROVE Gives(should_stop(p, w)).r \in Plain
  BY IsPlain
<1>5. ASSUME NEW s \in Sized, NEW n \in Lens PROVE update_local_session(p, s, n).r \in Plain
  BY <1>0, SizedCalls DEF update_local_session
<1>6. ASSUME NEW l \in Locks, NEW on \in BOOLEAN, Asks([op |-> "lock", p |-> p, l |-> l, on |-> on], set_lock(p)),
             regs' = (IF Done(ans') THEN [regs EXCEPT !.locks = IF on THEN @ \cup {l} ELSE @ \ {l}] ELSE regs),
             UNCHANGED store
      PROVE  OpsInv' /\ AnswersTruthful' /\ RetryFits
  <2>1. ask'.op = "lock" /\ ans' = set_lock(p)
    BY <1>6 DEF Asks
  <2>2. ans'.r \in Plain
    BY <1>0, <2>1, Calls DEF set_lock
  <2> DEFINE s == IF on THEN regs.locks \cup {l} ELSE regs.locks \ {l}
  <2>3. s \in SUBSET Locks
    BY DEF OpsInv, Regs
  <2>4. OpsInv'
    <3>1. CASE Done(ans')
      <4>1. regs' = [regs EXCEPT !.locks = s]
        BY <1>6, <3>1
      <4> HIDE DEF s
      <4>2. regs' \in Regs
        BY <2>3, <4>1 DEF OpsInv, Regs
      <4> QED BY <1>6, <2>1, <4>2 DEF OpsInv
    <3>2. CASE ~Done(ans')
      BY <1>6, <2>1, <3>2 DEF OpsInv
    <3> QED BY <3>1, <3>2
  <2>5. RetryFits
    BY <1>6, <2>1 DEF RetryFits, Retry, Done
  <2> QED BY <2>1, <2>2, <2>4, <2>5, Harmless DEF Checked
<1> QED BY <1>1, <1>2, <1>3, <1>4, <1>5, <1>6 DEF Checked

LEMMA AskDevicesTrue == ASSUME OpsInv, AskDevices PROVE OpsInv' /\ AnswersTruthful' /\ RetryFits
<1>1. PICK p \in Platforms :
    \/ p.fails = "no" /\ \E hs \in [1..2 -> Handles] : Reads([op |-> "disks", p |-> p, fw |-> hs], find_block_devices(p, hs))
    \/ \E ts \in [1..2 -> Tables] : Reads([op |-> "tables", fw |-> ts], Gives(get_efi_fdt(ts)))
    \/ \E t \in [1..2 -> 0..1] : Reads([op |-> "path", fw |-> t], Gives(DevicePathText_new(t \o <<0>>)))
    \/ \E l \in Lens \cup {NoValue}, g \in BOOLEAN :
          Reads([op |-> "os", p |-> p, fw |-> l, g |-> g], Gives(get_target_os(get_variable(p, l, 1), g)))
  BY DEF AskDevices
<1>2. ASSUME NEW q, NEW v, Reads(q, Gives(v)), q.op \notin Checked
      PROVE  OpsInv' /\ AnswersTruthful' /\ RetryFits
  BY <1>2, IsPlain, Harmless, ReadOnly DEF Reads, Asks, Checked
<1>3. ASSUME NEW hs \in [1..2 -> Handles], Reads([op |-> "disks", p |-> p, fw |-> hs], find_block_devices(p, hs))
      PROVE  OpsInv' /\ AnswersTruthful' /\ RetryFits
  <2> DEFINE whole == {i \in DOMAIN hs : ~hs[i].logical_partition}
  <2>1. ask'.op = "disks" /\ ask'.fw = hs /\ UNCHANGED <<store, regs>> /\ ans' = find_block_devices(p, hs)
    BY <1>3 DEF Reads, Asks
  <2>2. CASE p.found = "absent"
    <3>1. ans'.r = "err"
      BY <2>1, <2>2, Erred DEF find_block_devices
    <3> QED BY <2>1, <3>1, ReadOnly DEF AnswersTruthful
  <2>3. CASE p.found # "absent" /\ \E i \in DOMAIN hs : FirstUnusable(hs, i)
    <3> DEFINE i == CHOOSE k \in DOMAIN hs : FirstUnusable(hs, k)
    <3>1. i \in DOMAIN hs /\ ~(Opened(hs[i]) /\ hs[i].media)
      BY <2>3 DEF FirstUnusable
    <3>2. ans' = IF Opened(hs[i]) THEN Panic ELSE Err("AccessDenied")
      BY <2>1, <2>3 DEF find_block_devices
    <3> HIDE DEF i
    <3>3. CASE Opened(hs[i])
      <4>1. ans'.r = "panic" /\ \E k \in DOMAIN hs : ~hs[k].media
        BY <3>1, <3>2, <3>3 DEF Panic
      <4> QED BY <2>1, <4>1, ReadOnly DEF AnswersTruthful
    <3>4. CASE ~Opened(hs[i])
      <4>1. ans'.r = "err"
        BY <3>2, <3>4, Erred
      <4> QED BY <2>1, <4>1, ReadOnly DEF AnswersTruthful
    <3> QED BY <3>3, <3>4
  <2>4. CASE p.found # "absent" /\ ~\E i \in DOMAIN hs : FirstUnusable(hs, i)
    <3>1. ans' = Gives(whole)
      BY <2>1, <2>4 DEF find_block_devices
    <3>2. \A i \in DOMAIN hs : Opened(hs[i]) /\ hs[i].media
      <4>1. DOMAIN hs = 1..2 /\ 1..(1 - 1) = {} /\ 1..(2 - 1) = {1}
        OBVIOUS
      <4>2. Opened(hs[1]) /\ hs[1].media
        BY <2>4, <4>1 DEF FirstUnusable
      <4>3. Opened(hs[2]) /\ hs[2].media
        BY <2>4, <4>1, <4>2 DEF FirstUnusable
      <4> QED BY <4>1, <4>2, <4>3
    <3>3. \A i \in DOMAIN hs : i \in whole <=> ~hs[i].logical_partition
      OBVIOUS
    <3> HIDE DEF whole
    <3>4. ans'.r = "ok" /\ ans'.v = whole
      BY <3>1, Gave
    <3> QED BY <2>1, <3>2, <3>3, <3>4, ReadOnly DEF AnswersTruthful
  <2> QED BY <2>2, <2>3, <2>4
<1> QED BY <1>1, <1>2, <1>3 DEF Checked

LEMMA GoesOnTrue == ASSUME OpsInv, GoesOn PROVE OpsInv' /\ AnswersTruthful' /\ RetryFits
<1>1. ask'.op = "none" /\ UNCHANGED <<store, regs>> /\ ans'.r \in Plain
  BY IsPlain DEF GoesOn
<1> QED BY <1>1, Harmless, ReadOnly DEF Checked

(* EfiOps, for every set of names, length of a value and number of          *)
(* arguments: what GBL reads is what the platform holds and nothing is read *)
(* out of one that is missing or failed; an AVB failure with an error of    *)
(* its own reaches libavb and no default takes its place; a caller told the *)
(* size of a value gets it with a buffer of that size; a write that is      *)
(* refused changes nothing.                                                 *)
THEOREM PlatformAnswers == OpsSpec => PlatformTruthful
<1>1. OpsInit => OpsInv
  <2>1. ASSUME OpsInit PROVE OpsInv
    <3>1. regs \in Regs
      BY <2>1 DEF OpsInit, Regs
    <3>2. store \in [Names -> Lens \cup {NoValue}]
      BY <2>1, OpsAssumption DEF OpsInit, Lens
    <3>3. ask.op = "none"
      BY <2>1 DEF OpsInit
    <3> QED BY <3>1, <3>2, <3>3 DEF OpsInv
  <2> QED BY <2>1
<1>2. OpsInv /\ [OpsNext]_opsVars => OpsInv' /\ [AnswersTruthful' /\ RetryFits]_opsVars
  <2>1. ASSUME OpsInv, OpsNext PROVE OpsInv' /\ AnswersTruthful' /\ RetryFits
    BY <2>1, AskAvbTrue, AskGblAvbTrue, AskValueTrue, AskAvbWriteTrue, AskCertTrue, AskConfigTrue, AskFastbootTrue,
       AskPolicyTrue, AskSlotsTrue, AskDevicesTrue, GoesOnTrue DEF OpsNext
  <2>2. ASSUME OpsInv, UNCHANGED opsVars PROVE OpsInv'
    BY <2>2 DEF opsVars, OpsInv
  <2> QED BY <2>1, <2>2
<1> QED BY <1>1, <1>2, PTL DEF OpsSpec, PlatformTruthful
=============================================================================
