----------------------------- MODULE LinkProofs -----------------------------
(***************************************************************************)
(* Proofs about FastbootLink, for every number of commands, units, faults  *)
(* and INFOs, over either transport, where a USB send that timed out is    *)
(* not delivered after all.                                                *)
(***************************************************************************)
EXTENDS FastbootLink, SequenceTheorems, TLAPS

(* What the variables hold.                                                 *)
Stages == {"poll", "send", "error", "command", "dispatch", "receive", "complete", "backend",
           "handshake", "ended", "rebooted", "panic"}
Afters == {"poll", "done", "backend", "initiated", "receive", "rebooted", "handshake"}
WireOps == Ops \cup {"unknown", "zlp", "huge", "len", "FB01", "junk", "data", "all", "none", "simple"}
Packets == [id : Nat, op : WireOps, n : Nat]
Messages ==
    (Nat \X ({"len", "FB01", "INFO"} \cup Final))
    \cup (Nat \X {"DATA"} \X Nat) \cup (Nat \X {"bytes"} \X Nat \X Nat)
Cells == Nat \X (Nat \cup WireOps)
Hosts == [conn : {"up", "none", "shut", "gone", "left"}, met : BOOLEAN, sent : Nat,
          op : Ops \cup {"unknown", "zlp", "huge", "none"}, n : Nat, busy : BOOLEAN,
          pend : Seq(Packets), seen : Seq(Messages)]
Responders == [err : BOOLEAN, remaining : Nat, infos : Nat, uploading : BOOLEAN]

LinkType ==
    /\ link \in {"usb", "tcp"} /\ sock \in {"closed", "listen", "syn", "open", "fin"}
    /\ old \in BOOLEAN /\ prefix \in BOOLEAN /\ prefetched \in Packets \cup {None}
    /\ to_dev \in Seq(Packets) /\ to_host \in Seq(Messages) /\ todo \in Seq(Messages)
    /\ pc \in Stages /\ after \in Afters /\ cmd \in Packets /\ resp \in Responders
    /\ got \in Seq(Cells) /\ host \in Hosts

Up == host.conn = "up"
Unconnected == link = "tcp" /\ sock \in {"closed", "listen", "syn"}
Hello == <<0, "FB01">>

(* What is on its way between the current command and the host's memory.    *)
Wire == host.seen \o to_host \o todo
Said == Range(Wire)
Unread == Range(to_host \o todo)

(* Nothing of an old connection is there when the next one is accepted, and *)
(* nothing is sent after an error.                                          *)
ChannelInv ==
    /\ link = "usb" => ~prefix /\ Up /\ host.met /\ pc # "handshake" /\ (pc = "send" => after # "handshake")
    /\ link = "tcp" => prefetched = None
    /\ prefix => pc \in {"command", "receive"}
    /\ Unconnected =>
         /\ to_dev = <<>> /\ to_host = <<>> /\ ~host.met
         /\ host.pend = <<>> \/ \E good \in BOOLEAN : host.pend = <<Handshake(good)>>
         /\ pc \in {"poll", "handshake", "error"} \/ (pc = "send" /\ after = "handshake")
    /\ pc \in {"poll", "command", "handshake", "dispatch"} => resp = Responder
    /\ pc = "send" /\ after = "handshake" /\ ~resp.err => resp = Responder
    /\ pc # "send" => todo = <<>>
    /\ pc = "send" => after # "poll"
    /\ pc = "send" /\ resp.err => todo = <<>>
    /\ pc \in {"receive", "complete"} => ~resp.err

(* What a host that has not been greeted, and one that has, may still read. *)
HostInv ==
    /\ ~Up => ~host.met
    /\ ~host.met => host.seen = <<>> /\ (host.busy => host.conn = "left")
    /\ host.conn = "left" => host.pend = <<>>
    /\ ~host.met /\ Up => (to_host = <<>> /\ todo \in {<<>>, <<Hello>>}) \/ (to_host = <<Hello>> /\ todo = <<>>)
    /\ host.met => Talk(Wire, host.sent, host.op) /\ \A m \in Said : m[2] # "FB01"
    /\ host.met /\ ~host.busy => to_host = <<>> /\ todo = <<>>
    /\ host.seen # <<>> => (host.busy <=> host.seen[Len(host.seen)][2] \notin Final)
    /\ pc = "send" /\ after = "handshake" => todo = <<>> \/ (todo = <<Hello>> /\ ~host.met /\ to_host = <<>>)

(* The device waits for a command: at most one is under way to it, as the   *)
(* last packet, and nothing has been said about it.                         *)
Idle(p, l) == p.op = "zlp" \/ (l = "tcp" /\ p.op \in {"len", "FB01", "junk"})
Command(p, h, unread) ==
    /\ p = Packet(h.sent, h.op, h.n)
    /\ h.conn = "up" => h.busy /\ h.seen = <<>> /\ unread

Silent == to_host = <<>> /\ todo = <<>>

Quiet ==
    /\ prefetched # None =>
         Command(prefetched, host, Silent) /\ to_dev = <<>> /\ host.pend = <<>> /\ pc \in {"poll", "command"}
    /\ \A i \in 1..Len(to_dev) :
          \/ Idle(to_dev[i], link)
          \/ i = Len(to_dev) /\ host.pend = <<>> /\ Command(to_dev[i], host, Silent)
    /\ \A i \in 1..Len(host.pend) :
          Idle(host.pend[i], link) \/ (i = Len(host.pend) /\ Command(host.pend[i], host, Silent))

Attentive ==
    \/ pc \in {"command", "handshake"}
    \/ pc = "send" /\ ~resp.err /\ (after = "handshake" \/ (after = "done" /\ todo = <<>>))
    \/ pc = "poll" /\ (link = "usb" \/ Unconnected)
    \/ link = "usb" /\ (pc = "error" \/ resp.err)

(* The device serves the command the host waits for an answer to.           *)
Serving ==
    /\ ~resp.err
    /\ \/ pc \in {"backend", "receive", "complete"}
       \/ pc = "dispatch" /\ ~Idle(cmd, link)
       \/ pc = "send" /\ after # "handshake" /\ (after \in {"done", "rebooted"} => todo # <<>>)

Receiving == pc = "receive" \/ (pc = "send" /\ after = "receive")

ServedInv ==
    /\ cmd.id = host.sent /\ cmd.n = host.n
    /\ cmd.op = host.op \/ (cmd.op = "simple" /\ host.op \in Simple)
    /\ prefetched = None
    /\ ~Receiving => to_dev = <<>> /\ host.pend = <<>>
    /\ Receiving \/ pc = "complete" => cmd.op = "download"
    /\ pc = "backend" \/ (pc = "send" /\ after \in {"backend", "initiated", "rebooted"}) => cmd.op # "download"
    /\ Up => /\ host.busy
             /\ \A m \in Said : m[2] \in Final => pc = "send" /\ after \in {"done", "rebooted"}

(* Of an upload the first bytes are said, all but the remaining ones.       *)
Covered(n) == \A b \in 1..n : \E m \in Said : m[2] = "bytes" /\ b \in m[3]..m[4]
Initiating == pc = "send" /\ after = "initiated"

UploadInv ==
    /\ resp.uploading => cmd.op \in Uploads
    /\ Initiating => resp.uploading
    /\ ~resp.uploading \/ Initiating => resp.remaining = 0
    /\ resp.remaining =< cmd.n
    /\ Up =>
       /\ pc = "dispatch" => Wire = <<>>
       /\ \A m \in Said : m[2] = "DATA" => m[3] = cmd.n
       /\ ~resp.uploading \/ Initiating => \A m \in Said : m[2] # "bytes"
       /\ ~resp.uploading /\ cmd.op # "download" => \A m \in Said : m[2] # "DATA"
       /\ resp.uploading =>
            /\ \E m \in Said : m[2] = "DATA"
            /\ ~Initiating =>
                 /\ Covered(cmd.n - resp.remaining)
                 /\ \A m \in Said : m[2] = "bytes" => m[4] =< cmd.n - resp.remaining

(* Of a download the first bytes are there; the next ones are at the front  *)
(* of what the host has written or will write.                              *)
Consumed == IF link = "usb" THEN Len(got) ELSE 2 * Len(got) + (IF prefix THEN 1 ELSE 0)
Ahead == to_dev \o host.pend
RestOf(d) == \A i \in 1..Len(Ahead) : Consumed + i =< Len(d) /\ Ahead[i] = d[Consumed + i]

DownloadInv ==
    /\ Receiving =>
         /\ cmd.n > 0 /\ Len(got) < cmd.n /\ got = [i \in 1..Len(got) |-> <<cmd.id, i>>]
         /\ \/ RestOf(DataPackets(cmd.id, cmd.n))
            \/ got = <<>> /\ RestOf(Framed(Packet(cmd.id, "all", cmd.n)))
    /\ pc = "send" /\ after = "receive" => got = <<>> /\ (todo # <<>> => todo[Len(todo)][2] = "DATA")
    /\ pc = "complete" => got = [i \in 1..cmd.n |-> <<cmd.id, i>>]

(* The host has yet to read that it may send its bytes.                     *)
Asked == Up /\ host.op = "download" /\ \E m \in Unread : m[2] = "DATA"
AskedInv == Asked => Receiving /\ ~resp.err /\ to_dev = <<>> /\ host.pend = <<>> /\ got = <<>> /\ ~prefix

LinkInv ==
    /\ LinkType /\ ChannelInv /\ HostInv
    /\ Attentive => Quiet
    /\ Serving => ServedInv /\ UploadInv /\ DownloadInv
    /\ Attentive \/ Serving => AskedInv

-----------------------------------------------------------------------------
(* Sequences. *)
LEMMA PassOn ==
    ASSUME NEW S, NEW s \in Seq(S), NEW t \in Seq(S), t # <<>>
    PROVE  Append(s, Head(t)) \o Tail(t) = s \o t
<1>1. /\ Head(t) \in S /\ Tail(t) \in Seq(S) /\ Len(Tail(t)) = Len(t) - 1
      /\ \A i \in 1..Len(Tail(t)) : Tail(t)[i] = t[i + 1]
      /\ Head(t) = t[1] /\ Len(t) \in Nat \ {0} /\ Len(s) \in Nat
  BY HeadTailProperties, EmptySeq, LenProperties
<1> DEFINE a == Append(s, Head(t))
<1>2. /\ a \in Seq(S) /\ Len(a) = Len(s) + 1
      /\ \A i \in 1..Len(s) : a[i] = s[i]
      /\ a[Len(s) + 1] = Head(t)
  BY <1>1, AppendProperties
<1> HIDE DEF a
<1> DEFINE c == s \o t
           d == a \o Tail(t)
<1>3. /\ d \in Seq(S) /\ Len(d) = Len(a) + Len(Tail(t))
      /\ \A i \in 1..(Len(a) + Len(Tail(t))) : d[i] = IF i =< Len(a) THEN a[i] ELSE Tail(t)[i - Len(a)]
  BY <1>1, <1>2, ConcatProperties
<1>4. /\ c \in Seq(S) /\ Len(c) = Len(s) + Len(t)
      /\ \A i \in 1..(Len(s) + Len(t)) : c[i] = IF i =< Len(s) THEN s[i] ELSE t[i - Len(s)]
  BY ConcatProperties
<1> HIDE DEF c, d
<1>5. ASSUME NEW i \in 1..Len(c) PROVE d[i] = c[i]
  <2>0. i \in 1..(Len(s) + Len(t)) /\ i \in 1..(Len(a) + Len(Tail(t)))
    BY <1>1, <1>2, <1>4
  <2>1. CASE i =< Len(s)
    <3>1. i \in 1..Len(s) /\ i =< Len(a)
      BY <2>0, <2>1, <1>1, <1>2
    <3>2. d[i] = a[i]
      BY <2>0, <3>1, <1>3
    <3>3. c[i] = s[i]
      BY <2>0, <2>1, <1>4
    <3> QED BY <3>1, <3>2, <3>3, <1>2
  <2>2. CASE i = Len(s) + 1
    BY <2>0, <2>2, <1>1, <1>2, <1>3, <1>4
  <2>3. CASE i > Len(s) + 1
    <3>1. d[i] = Tail(t)[i - (Len(s) + 1)]
      BY <2>0, <2>3, <1>1, <1>2, <1>3
    <3>2. i - (Len(s) + 1) \in 1..Len(Tail(t))
      BY <2>0, <2>3, <1>1
    <3>3. Tail(t)[i - (Len(s) + 1)] = t[i - (Len(s) + 1) + 1]
      BY <3>2, <1>1
    <3>4. c[i] = t[i - Len(s)]
      BY <2>0, <2>3, <1>1, <1>4
    <3>5. i - (Len(s) + 1) + 1 = i - Len(s)
      BY <2>0, <1>1
    <3> QED BY <3>1, <3>3, <3>4, <3>5
  <2>4. i =< Len(s) \/ i = Len(s) + 1 \/ i > Len(s) + 1
    BY <2>0, <1>1
  <2> QED BY <2>1, <2>2, <2>3, <2>4
<1>6. Len(d) = Len(c)
  BY <1>1, <1>2, <1>3, <1>4
<1>7. d = c
  BY <1>3, <1>4, <1>5, <1>6, SeqEqual
<1> QED BY <1>7 DEF a, c, d

LEMMA RangeOf ==
    ASSUME NEW S, NEW s \in Seq(S)
    PROVE  /\ \A m : m \in Range(s) <=> \E i \in 1..Len(s) : s[i] = m
           /\ \A m \in Range(s) : m \in S
           /\ Range(<<>>) = {}
BY LenProperties, ElementOfSeq DEF Range

LEMMA RangeConcat ==
    ASSUME NEW S, NEW s \in Seq(S), NEW t \in Seq(S)
    PROVE  Range(s \o t) = Range(s) \cup Range(t)
BY RangeConcatenation

LEMMA RangeAppend ==
    ASSUME NEW S, NEW s \in Seq(S), NEW m \in S
    PROVE  Range(Append(s, m)) = Range(s) \cup {m}
<1>1. /\ Append(s, m) \in Seq(S) /\ Len(Append(s, m)) = Len(s) + 1
      /\ \A i \in 1..Len(s) : Append(s, m)[i] = s[i]
      /\ Append(s, m)[Len(s) + 1] = m
  BY AppendProperties
<1>2. Len(s) \in Nat
  BY LenProperties
<1> DEFINE a == Append(s, m)
<1>3. ASSUME NEW x PROVE x \in Range(a) <=> x \in Range(s) \cup {m}
  <2> HIDE DEF a
  <2>0. a \in Seq(S)
    BY <1>1 DEF a
  <2>1. x \in Range(a) <=> \E i \in 1..Len(a) : a[i] = x
    BY <2>0, RangeOf
  <2>2. x \in Range(s) <=> \E i \in 1..Len(s) : s[i] = x
    BY RangeOf
  <2>3. ASSUME NEW i \in 1..(Len(s) + 1) PROVE i \in 1..Len(s) \/ i = Len(s) + 1
    BY <1>2
  <2>4. \A i \in 1..Len(s) : i \in 1..(Len(s) + 1)
    BY <1>2
  <2>5. Len(s) + 1 \in 1..(Len(s) + 1)
    BY <1>2
  <2>6. Len(a) = Len(s) + 1 /\ a[Len(s) + 1] = m /\ \A i \in 1..Len(s) : a[i] = s[i]
    BY <1>1 DEF a
  <2> QED BY <2>1, <2>2, <2>3, <2>4, <2>5, <2>6
<1> QED BY <1>3

LEMMA TailFacts ==
    ASSUME NEW S, NEW s \in Seq(S), s # <<>>
    PROVE  /\ Tail(s) \in Seq(S) /\ Head(s) \in S /\ Head(s) = s[1] /\ Len(s) \in Nat \ {0}
           /\ Len(Tail(s)) = Len(s) - 1 /\ Len(Tail(s)) \in Nat
           /\ \A i \in 1..Len(Tail(s)) : i + 1 \in 1..Len(s) /\ Tail(s)[i] = s[i + 1]
           /\ 1 \in 1..Len(s) /\ (Len(s) = 1 <=> Tail(s) = <<>>)
           /\ Range(s) = {Head(s)} \cup Range(Tail(s))
<1> DEFINE t == Tail(s)
<1>1. /\ t \in Seq(S) /\ Head(s) \in S /\ Head(s) = s[1] /\ Len(s) \in Nat \ {0}
      /\ Len(t) = Len(s) - 1 /\ Len(t) \in Nat /\ \A i \in 1..Len(t) : t[i] = s[i + 1]
  BY HeadTailProperties, EmptySeq, LenProperties
<1> HIDE DEF t
<1>2. \A i \in 1..Len(t) : i + 1 \in 1..Len(s)
  BY <1>1
<1>3. Len(s) = 1 <=> t = <<>>
  BY <1>1, EmptySeq
<1>4. ASSUME NEW m PROVE m \in Range(s) <=> m = s[1] \/ m \in Range(t)
  <2>1. m \in Range(s) <=> \E i \in 1..Len(s) : s[i] = m
    BY RangeOf
  <2>2. m \in Range(t) <=> \E i \in 1..Len(t) : t[i] = m
    BY <1>1, RangeOf
  <2>3. ASSUME NEW i \in 1..Len(s), s[i] = m PROVE m = s[1] \/ \E k \in 1..Len(t) : t[k] = m
    <3>1. CASE i = 1
      BY <3>1, <2>3
    <3>2. CASE i # 1
      <4>1. i - 1 \in 1..Len(t) /\ (i - 1) + 1 = i
        BY <3>2, <1>1
      <4> QED BY <4>1, <1>1, <2>3
    <3> QED BY <3>1, <3>2
  <2>4. 1 \in 1..Len(s)
    BY <1>1
  <2> QED BY <1>1, <1>2, <2>1, <2>2, <2>3, <2>4
<1>5. 1 \in 1..Len(s)
  BY <1>1
<1> QED BY <1>1, <1>2, <1>3, <1>4, <1>5 DEF t

LEMMA OneOrTwo ==
    ASSUME NEW S, NEW a \in S, NEW b \in S
    PROVE  /\ <<a>> \in Seq(S) /\ Len(<<a>>) = 1 /\ <<a>>[1] = a /\ Range(<<a>>) = {a}
           /\ <<a, b>> \in Seq(S) /\ Len(<<a, b>>) = 2 /\ <<a, b>>[1] = a /\ <<a, b>>[2] = b
           /\ Range(<<a, b>>) = {a, b} /\ <<a>> # <<>> /\ <<a, b>> # <<>>
           /\ Head(<<a>>) = a /\ Tail(<<a>>) = <<>>
<1>1. /\ <<a>> \in Seq(S) /\ Len(<<a>>) = 1 /\ <<a>>[1] = a
      /\ <<a, b>> \in Seq(S) /\ Len(<<a, b>>) = 2 /\ <<a, b>>[1] = a /\ <<a, b>>[2] = b
      /\ <<a>> # <<>> /\ <<a, b>> # <<>>
  OBVIOUS
<1>2. Head(<<a>>) = a /\ Tail(<<a>>) = <<>>
  OBVIOUS
<1>3. Range(<<a>>) = {a}
  BY DEF Range
<1>4. Range(<<a, b>>) = {a, b}
  BY DEF Range
<1> QED BY <1>1, <1>2, <1>3, <1>4

LEMMA AppendTwo ==
    ASSUME NEW S, NEW s \in Seq(S), NEW a \in S, NEW b \in S
    PROVE  s \o <<a>> = Append(s, a) /\ s \o <<a, b>> = Append(Append(s, a), b)
<1>1. s \o <<a>> = Append(s, a) /\ Append(s, a) \in Seq(S)
  BY AppendIsConcat, AppendProperties
<1>2. Append(Append(s, a), b) = Append(s, a) \o <<b>>
  BY <1>1, AppendIsConcat
<1>3. (s \o <<a>>) \o <<b>> = s \o (<<a>> \o <<b>>)
  BY OneOrTwo, ConcatAssociative
<1>4. <<a>> \o <<b>> = <<a, b>>
  <2> DEFINE c == <<a>> \o <<b>>
             d == <<a, b>>
  <2>1. <<a>> \in Seq(S) /\ <<b>> \in Seq(S) /\ d \in Seq(S) /\ Len(d) = 2 /\ d[1] = a /\ d[2] = b
    BY OneOrTwo
  <2>2. c \in Seq(S) /\ Len(c) = 2 /\ c[1] = a /\ c[2] = b
    <3>1. /\ c \in Seq(S) /\ Len(c) = Len(<<a>>) + Len(<<b>>)
          /\ \A i \in 1..(Len(<<a>>) + Len(<<b>>)) :
                c[i] = IF i =< Len(<<a>>) THEN <<a>>[i] ELSE <<b>>[i - Len(<<a>>)]
      BY <2>1, ConcatProperties
    <3> HIDE DEF c
    <3> QED BY <3>1
  <2> HIDE DEF c, d
  <2>3. \A i \in 1..Len(c) : c[i] = d[i]
    BY <2>1, <2>2
  <2>4. c = d
    BY <2>1, <2>2, <2>3, SeqEqual
  <2> QED BY <2>4 DEF c, d
<1> QED BY <1>1, <1>2, <1>3, <1>4

-----------------------------------------------------------------------------
(* Conversations. *)
LEMMA TalkNothing ==
    ASSUME NEW id, NEW op
    PROVE  Talk(<<>>, id, op)
BY DEF Talk

(* What breaks off is still a conversation.                                 *)
LEMMA TalkPrefix ==
    ASSUME NEW S, NEW s \in Seq(S), NEW t \in Seq(S), NEW id, NEW op, Talk(s \o t, id, op)
    PROVE  Talk(s, id, op)
<1> DEFINE c == s \o t
<1>1. /\ Len(c) = Len(s) + Len(t) /\ Len(s) \in Nat /\ Len(t) \in Nat
      /\ \A i \in 1..Len(s) : i \in 1..Len(c) /\ c[i] = s[i]
  <2>1. /\ Len(c) = Len(s) + Len(t) /\ Len(s) \in Nat /\ Len(t) \in Nat
        /\ \A i \in 1..(Len(s) + Len(t)) : c[i] = IF i =< Len(s) THEN s[i] ELSE t[i - Len(s)]
    BY ConcatProperties, LenProperties
  <2> HIDE DEF c
  <2> QED BY <2>1
<1>2. Talk(c, id, op)
  OBVIOUS
<1> HIDE DEF c
<1>3. ASSUME NEW i \in 1..Len(s)
      PROVE  s[i][1] = id /\ (s[i][2] \in Final => i = Len(s))
  <2>1. c[i][1] = id /\ (c[i][2] \in Final => i = Len(c))
    BY <1>1, <1>2 DEF Talk
  <2> QED BY <2>1, <1>1
<1>4. ASSUME NEW i \in 1..Len(s), NEW j \in 1..Len(s)
      PROVE  /\ Is(s[i], "DATA") /\ s[j][2] \in {"INFO", "DATA"} => j =< i
             /\ Is(s[i], "DATA") /\ Is(s[j], "bytes") => i < j /\ s[j][4] =< s[i][3]
             /\ i < j /\ Is(s[i], "bytes") /\ Is(s[j], "bytes") => s[i][4] < s[j][3]
  BY <1>1, <1>2 DEF Talk
<1>5. ASSUME NEW j \in 1..Len(s), Is(s[j], "bytes")
      PROVE  \E i \in 1..Len(s) : Is(s[i], "DATA")
  <2>1. PICK i \in 1..Len(c) : Is(c[i], "DATA")
    BY <1>1, <1>2, <1>5 DEF Talk
  <2>2. i < j
    BY <1>1, <1>2, <1>5, <2>1 DEF Talk
  <2>3. i \in 1..Len(s)
    BY <2>2, <1>1
  <2> QED BY <2>1, <2>3, <1>1
<1>6. ASSUME NEW i \in 1..Len(s), NEW j \in 1..Len(s), Is(s[i], "DATA"), s[j][2] \in Final, op \in Uploads,
             NEW b \in 1..s[i][3]
      PROVE  \E k \in 1..Len(s) : Is(s[k], "bytes") /\ b \in s[k][3]..s[k][4]
  <2>1. j = Len(c) /\ Len(c) = Len(s)
    BY <1>1, <1>2, <1>6 DEF Talk
  <2>2. \E k \in 1..Len(c) : Is(c[k], "bytes") /\ b \in c[k][3]..c[k][4]
    BY <1>1, <1>2, <1>6 DEF Talk
  <2> QED BY <1>1, <2>1, <2>2
<1> QED BY <1>3, <1>4, <1>5, <1>6 DEF Talk

(* What may be said next.                                                   *)
MayFollow(s, m, id, op) ==
    /\ m[1] = id
    /\ \A x \in Range(s) : x[2] \notin Final
    /\ m[2] \in {"INFO", "DATA"} => \A x \in Range(s) : x[2] # "DATA"
    /\ m[2] = "DATA" => \A x \in Range(s) : x[2] # "bytes"
    /\ m[2] = "bytes" =>
         /\ \E x \in Range(s) : x[2] = "DATA"
         /\ \A x \in Range(s) : (x[2] = "DATA" => m[4] =< x[3]) /\ (x[2] = "bytes" => x[4] < m[3])
    /\ m[2] \in Final /\ op \in Uploads =>
         \A x \in Range(s) : x[2] = "DATA" =>
            \A b \in 1..x[3] : \E y \in Range(s) : y[2] = "bytes" /\ b \in y[3]..y[4]

LEMMA TalkAppend ==
    ASSUME NEW S, NEW s \in Seq(S), NEW m \in S, NEW id, NEW op, Talk(s, id, op), MayFollow(s, m, id, op)
    PROVE  Talk(Append(s, m), id, op)
<1> DEFINE c == Append(s, m)
           n == Len(s)
<1>1. /\ Len(c) = n + 1 /\ n \in Nat /\ c[n + 1] = m
      /\ \A i \in 1..n : c[i] = s[i]
  BY AppendProperties, LenProperties
<1>2. \A i \in 1..n : s[i] \in Range(s)
  BY RangeOf
<1>3. \A x \in Range(s) : \E i \in 1..n : s[i] = x
  BY RangeOf
<1>4. \A i \in 1..(n + 1) : i \in 1..n \/ i = n + 1
  BY <1>1
<1>10. n + 1 \in 1..(n + 1) /\ \A i \in 1..n : i \in 1..(n + 1) /\ i # n + 1 /\ i < n + 1 /\ ~(n + 1 < i) /\ i \in Nat
  BY <1>1
<1> HIDE DEF c, n
<1>5. ASSUME NEW i \in 1..(n + 1)
      PROVE  c[i][1] = id /\ (c[i][2] \in Final => i = n + 1)
  <2>1. CASE i \in 1..n
    BY <2>1, <1>1, <1>2 DEF Talk, MayFollow, n
  <2> QED BY <2>1, <1>1, <1>4 DEF MayFollow
<1>6. ASSUME NEW i \in 1..(n + 1), NEW j \in 1..(n + 1)
      PROVE  /\ Is(c[i], "DATA") /\ c[j][2] \in {"INFO", "DATA"} => j =< i
             /\ Is(c[i], "DATA") /\ Is(c[j], "bytes") => i < j /\ c[j][4] =< c[i][3]
             /\ i < j /\ Is(c[i], "bytes") /\ Is(c[j], "bytes") => c[i][4] < c[j][3]
  <2>1. CASE i \in 1..n /\ j \in 1..n
    BY <2>1, <1>1 DEF Talk, n
  <2>2. CASE i \in 1..n /\ j = n + 1
    <3>1. c[i] = s[i] /\ s[i] \in Range(s) /\ c[j] = m /\ i < j
      BY <2>2, <1>1, <1>2, <1>10
    <3> QED BY <3>1 DEF MayFollow, Is
  <2>3. CASE i = n + 1 /\ j \in 1..n
    <3>1. c[j] = s[j] /\ s[j] \in Range(s) /\ c[i] = m /\ ~(i < j) /\ j =< i
      BY <2>3, <1>1, <1>2, <1>10
    <3>2. \E k \in 1..n : s[k] = s[j]
      BY <2>3
    <3> QED BY <3>1 DEF MayFollow, Is
  <2>4. CASE i = n + 1 /\ j = n + 1
    BY <2>4, <1>1 DEF Is
  <2> QED BY <2>1, <2>2, <2>3, <2>4, <1>4
<1>7. ASSUME NEW j \in 1..(n + 1), Is(c[j], "bytes")
      PROVE  \E i \in 1..(n + 1) : Is(c[i], "DATA")
  <2>1. \E i \in 1..n : Is(s[i], "DATA")
    <3>1. CASE j \in 1..n
      BY <3>1, <1>1, <1>7 DEF Talk, n
    <3>2. CASE j = n + 1
      BY <3>2, <1>1, <1>3, <1>7 DEF MayFollow, Is
    <3> QED BY <3>1, <3>2, <1>4
  <2> QED BY <2>1, <1>1, <1>10
<1>8. ASSUME NEW i \in 1..(n + 1), NEW j \in 1..(n + 1), Is(c[i], "DATA"), c[j][2] \in Final, op \in Uploads,
             NEW b \in 1..c[i][3]
      PROVE  \E k \in 1..(n + 1) : Is(c[k], "bytes") /\ b \in c[k][3]..c[k][4]
  <2>1. j = n + 1 /\ m[2] \in Final
    <3>1. j = n + 1
      BY <1>5, <1>8
    <3> QED BY <3>1, <1>1, <1>8
  <2>2. i \in 1..n
    BY <2>1, <1>1, <1>4, <1>8 DEF Is, Final
  <2>3. \E y \in Range(s) : y[2] = "bytes" /\ b \in y[3]..y[4]
    <3>1. c[i] = s[i] /\ s[i] \in Range(s) /\ s[i][2] = "DATA"
      BY <2>2, <1>1, <1>2, <1>8 DEF Is
    <3> QED BY <3>1, <2>1, <1>8 DEF MayFollow
  <2>4. PICK k \in 1..n : s[k][2] = "bytes" /\ b \in s[k][3]..s[k][4]
    BY <2>3, <1>3
  <2> QED BY <2>4, <1>1, <1>10 DEF Is
<1>9. Len(c) = n + 1
  BY <1>1
<1> QED BY <1>5, <1>6, <1>7, <1>8, <1>9 DEF Talk, c

LEMMA MessageType ==
    ASSUME NEW id \in Nat, NEW a \in Nat, NEW b \in Nat, NEW k \in {"len", "FB01", "INFO"} \cup Final
    PROVE  /\ <<id, k>> \in Messages /\ <<id, "DATA", a>> \in Messages /\ <<id, "bytes", a, b>> \in Messages
           /\ <<id, "len">> \in Messages /\ <<id, "INFO">> \in Messages
           /\ <<id, k>>[1] = id /\ <<id, k>>[2] = k /\ <<id, "len">>[1] = id /\ <<id, "len">>[2] = "len"
           /\ <<id, "DATA", a>>[1] = id /\ <<id, "DATA", a>>[2] = "DATA" /\ <<id, "DATA", a>>[3] = a
           /\ <<id, "bytes", a, b>>[1] = id /\ <<id, "bytes", a, b>>[2] = "bytes"
           /\ <<id, "bytes", a, b>>[3] = a /\ <<id, "bytes", a, b>>[4] = b
<1>1. <<id, k>> \in Nat \X ({"len", "FB01", "INFO"} \cup Final) /\ <<id, "len">> \in Nat \X ({"len", "FB01", "INFO"} \cup Final)
      /\ <<id, "INFO">> \in Nat \X ({"len", "FB01", "INFO"} \cup Final)
  OBVIOUS
<1>2. <<id, "DATA", a>> \in Nat \X {"DATA"} \X Nat /\ <<id, "bytes", a, b>> \in Nat \X {"bytes"} \X Nat \X Nat
  OBVIOUS
<1> QED BY <1>1, <1>2 DEF Messages

(* A message on the wire: the message, behind its length over TCP.          *)
LEMMA FramedType ==
    ASSUME NEW m \in Messages, m[1] \in Nat
    PROVE  /\ FramedMsg(m) \in Seq(Messages) /\ FramedMsg(m) # <<>> /\ m \in Range(FramedMsg(m))
           /\ FramedMsg(m)[Len(FramedMsg(m))] = m
           /\ \A x \in Range(FramedMsg(m)) : x = m \/ x = <<m[1], "len">>
<1>1. <<m[1], "len">> \in Messages
  BY MessageType
<1> DEFINE l == <<m[1], "len">>
<1> HIDE DEF l
<1>2. CASE link = "tcp"
  <2>1. FramedMsg(m) = <<l, m>> /\ l \in Messages
    BY <1>1, <1>2 DEF FramedMsg, l
  <2>2. <<l, m>> \in Seq(Messages) /\ <<l, m>> # <<>> /\ Range(<<l, m>>) = {l, m}
        /\ Len(<<l, m>>) = 2 /\ <<l, m>>[2] = m
    BY <2>1, OneOrTwo
  <2> QED BY <2>1, <2>2 DEF l
<1>3. CASE link # "tcp"
  <2>1. FramedMsg(m) = <<m>>
    BY <1>3 DEF FramedMsg
  <2>2. <<m>> \in Seq(Messages) /\ <<m>> # <<>> /\ Range(<<m>>) = {m}
        /\ Len(<<m>>) = 1 /\ <<m>>[1] = m
    BY OneOrTwo
  <2> QED BY <2>1, <2>2
<1> QED BY <1>2, <1>3

LEMMA TalkFramed ==
    ASSUME NEW s \in Seq(Messages), NEW m \in Messages, m[1] \in Nat, NEW id, NEW op,
           Talk(s, id, op), MayFollow(s, m, id, op)
    PROVE  Talk(s \o FramedMsg(m), id, op)
<1>1. CASE link # "tcp"
  <2>1. FramedMsg(m) = <<m>>
    BY <1>1 DEF FramedMsg
  <2>2. s \o <<m>> = Append(s, m)
    BY AppendTwo
  <2>3. Talk(Append(s, m), id, op)
    BY TalkAppend
  <2> QED BY <2>1, <2>2, <2>3
<1>2. CASE link = "tcp"
  <2> DEFINE l == <<m[1], "len">>
  <2>1. l \in Messages /\ l[1] = m[1] /\ l[2] = "len"
    BY MessageType
  <2>2. s \o FramedMsg(m) = Append(Append(s, l), m)
    BY <1>2, <2>1, AppendTwo, SMTT(20) DEF FramedMsg
  <2> HIDE DEF l
  <2>3. MayFollow(s, l, id, op)
    BY <2>1 DEF MayFollow, Final
  <2>4. Talk(Append(s, l), id, op) /\ Append(s, l) \in Seq(Messages)
    BY <2>1, <2>3, TalkAppend, AppendProperties
  <2>5. Range(Append(s, l)) = Range(s) \cup {l}
    BY <2>1, RangeAppend
  <2>6. MayFollow(Append(s, l), m, id, op)
    BY <2>1, <2>5 DEF MayFollow, Final
  <2> QED BY <2>2, <2>4, <2>6, TalkAppend
<1> QED BY <1>1, <1>2

Regrouped(S, a, b, c) == a \o (b \o c) = (a \o b) \o c /\ a \o b \in Seq(S)

LEMMA Regroup ==
    ASSUME NEW S, NEW a \in Seq(S), NEW b \in Seq(S), NEW c \in Seq(S)
    PROVE  Regrouped(S, a, b, c)
<1>1. (a \o b) \o c = a \o (b \o c)
  BY ConcatAssociative
<1>2. a \o b \in Seq(S)
  BY ConcatProperties
<1> QED BY <1>1, <1>2 DEF Regrouped

LEMMA ThreeParts ==
    ASSUME NEW S, NEW a \in Seq(S), NEW b \in Seq(S), NEW c \in Seq(S)
    PROVE  /\ a \o b \in Seq(S) /\ b \o c \in Seq(S) /\ a \o b \o c \in Seq(S)
           /\ a \o b \o c = a \o (b \o c)
           /\ Range(a \o b \o c) = Range(a) \cup Range(b) \cup Range(c)
<1>1. a \o b \in Seq(S) /\ b \o c \in Seq(S) /\ Range(a \o b) = Range(a) \cup Range(b)
  BY ConcatProperties, RangeConcat
<1>2. a \o b \o c = a \o (b \o c)
  BY ConcatAssociative
<1> DEFINE h == a \o b
<1>3. h \o c \in Seq(S) /\ Range(h \o c) = Range(h) \cup Range(c)
  <2>1. h \in Seq(S)
    BY <1>1
  <2> HIDE DEF h
  <2> QED BY <2>1, ConcatProperties, RangeConcat
<1> QED BY <1>1, <1>2, <1>3

(* The wire, seen as a whole, before and after a step.                      *)
LEMMA WireType ==
    ASSUME LinkType
    PROVE  /\ Wire \in Seq(Messages) /\ Ahead \in Seq(Packets) /\ to_host \o todo \in Seq(Messages)
           /\ host.seen \in Seq(Messages) /\ host.pend \in Seq(Packets)
           /\ host.seen \o to_host \in Seq(Messages)
           /\ Wire = host.seen \o (to_host \o todo)
           /\ Said = Range(host.seen) \cup Range(to_host) \cup Range(todo)
           /\ Unread = Range(to_host) \cup Range(todo)
<1>1. host.seen \in Seq(Messages) /\ host.pend \in Seq(Packets) /\ to_host \in Seq(Messages)
      /\ todo \in Seq(Messages) /\ to_dev \in Seq(Packets)
  BY DEF LinkType, Hosts
<1>2. Ahead \in Seq(Packets) /\ Unread = Range(to_host) \cup Range(todo)
  BY <1>1, ConcatProperties, RangeConcat DEF Ahead, Unread
<1> DEFINE a == host.seen
           b == to_host
           c == todo
<1>3. a \in Seq(Messages) /\ b \in Seq(Messages) /\ c \in Seq(Messages)
      /\ Wire = a \o b \o c /\ Said = Range(a \o b \o c)
  BY <1>1 DEF Wire, Said
<1> HIDE DEF a, b, c
<1>4. /\ a \o b \in Seq(Messages) /\ b \o c \in Seq(Messages) /\ a \o b \o c \in Seq(Messages)
      /\ a \o b \o c = a \o (b \o c)
      /\ Range(a \o b \o c) = Range(a) \cup Range(b) \cup Range(c)
  BY <1>3, ThreeParts
<1> QED BY <1>1, <1>2, <1>3, <1>4 DEF a, b, c

LEMMA WireTypeNext ==
    ASSUME LinkType'
    PROVE  /\ Wire' \in Seq(Messages) /\ Ahead' \in Seq(Packets) /\ to_host' \o todo' \in Seq(Messages)
           /\ host'.seen \in Seq(Messages) /\ host'.pend \in Seq(Packets)
           /\ host'.seen \o to_host' \in Seq(Messages)
           /\ Wire' = host'.seen \o (to_host' \o todo')
           /\ Said' = Range(host'.seen) \cup Range(to_host') \cup Range(todo')
           /\ Unread' = Range(to_host') \cup Range(todo')
<1>1. host'.seen \in Seq(Messages) /\ host'.pend \in Seq(Packets) /\ to_host' \in Seq(Messages)
      /\ todo' \in Seq(Messages) /\ to_dev' \in Seq(Packets)
  BY DEF LinkType, Hosts
<1>2. Ahead' \in Seq(Packets) /\ Unread' = Range(to_host') \cup Range(todo')
  BY <1>1, ConcatProperties, RangeConcat DEF Ahead, Unread
<1> DEFINE a == host'.seen
           b == to_host'
           c == todo'
<1>3. a \in Seq(Messages) /\ b \in Seq(Messages) /\ c \in Seq(Messages)
      /\ Wire' = a \o b \o c /\ Said' = Range(a \o b \o c)
  BY <1>1 DEF Wire, Said
<1> HIDE DEF a, b, c
<1>4. /\ a \o b \in Seq(Messages) /\ b \o c \in Seq(Messages) /\ a \o b \o c \in Seq(Messages)
      /\ a \o b \o c = a \o (b \o c)
      /\ Range(a \o b \o c) = Range(a) \cup Range(b) \cup Range(c)
  BY <1>3, ThreeParts
<1> QED BY <1>1, <1>2, <1>3, <1>4 DEF a, b, c

LEMMA HelloType ==
    /\ Hello \in Messages /\ Hello[1] = 0 /\ Hello[2] = "FB01" /\ Hello[2] # "DATA" /\ <<Hello>> # <<>>
    /\ <<Hello>> \in Seq(Messages) /\ Range(<<Hello>>) = {Hello} /\ Range(<<>>) = {}
    /\ Head(<<Hello>>) = Hello /\ Tail(<<Hello>>) = <<>>
<1>1. Hello \in Messages /\ Hello[1] = 0 /\ Hello[2] = "FB01"
  BY MessageType DEF Hello
<1> QED BY <1>1, OneOrTwo, RangeOf, EmptySeq

LEMMA WireSame ==
    ASSUME to_host' = to_host, todo' = todo, host'.seen = host.seen
    PROVE  Wire' = Wire /\ Said' = Said /\ Unread' = Unread
BY DEF Wire, Said, Unread

(* What follows the next message to be read.                                *)
LEMMA ReadNext ==
    ASSUME LinkType, to_host # <<>>, NEW id, NEW op, Talk(Wire, id, op), 
           NEW r, NEW m
    PROVE  m = Head(to_host) /\ r = Tail(to_host) =>
           /\ m[2] \in Final => r = <<>> /\ todo = <<>>
           /\ m[2] = "DATA" => \A x \in Range(r \o todo) : x[2] # "DATA"
           /\ m[1] = id
<1> SUFFICES ASSUME m = Head(to_host), r = Tail(to_host)
             PROVE  /\ m[2] \in Final => r = <<>> /\ todo = <<>>
                    /\ m[2] = "DATA" => \A x \in Range(r \o todo) : x[2] # "DATA"
                    /\ m[1] = id
  OBVIOUS
<1> DEFINE a == host.seen
           u == to_host \o todo
<1>1. a \in Seq(Messages) /\ to_host \in Seq(Messages) /\ todo \in Seq(Messages) /\ Wire = a \o u /\ u \in Seq(Messages)
  BY WireType DEF LinkType
<1>2. /\ r \in Seq(Messages) /\ m = to_host[1] /\ Len(to_host) \in Nat \ {0} /\ Len(r) = Len(to_host) - 1
      /\ Len(r) \in Nat /\ \A i \in 1..Len(r) : r[i] = to_host[i + 1]
  BY <1>1, TailFacts
<1>3. Len(u) = Len(to_host) + Len(todo) /\ Len(todo) \in Nat /\ Len(a) \in Nat
      /\ \A i \in 1..(Len(to_host) + Len(todo)) : u[i] = IF i =< Len(to_host) THEN to_host[i] ELSE todo[i - Len(to_host)]
  BY <1>1, ConcatProperties, LenProperties
<1> HIDE DEF a, u
<1>4. Len(Wire) = Len(a) + Len(u)
      /\ \A i \in 1..(Len(a) + Len(u)) : Wire[i] = IF i =< Len(a) THEN a[i] ELSE u[i - Len(a)]
  BY <1>1, ConcatProperties
<1> DEFINE k == Len(a) + 1
<1>5. k \in 1..Len(Wire) /\ Wire[k] = m
  <2>1. k \in 1..(Len(a) + Len(u)) /\ ~(k =< Len(a)) /\ k - Len(a) = 1 /\ 1 \in 1..(Len(to_host) + Len(todo)) /\ 1 =< Len(to_host)
    BY <1>2, <1>3
  <2>2. Wire[k] = u[1]
    BY <1>4, <2>1
  <2>3. u[1] = to_host[1]
    BY <1>3, <2>1
  <2> QED BY <2>1, <2>2, <2>3, <1>2, <1>4
<1>6. m[1] = id
  BY <1>5 DEF Talk
<1>7. ASSUME m[2] \in Final PROVE r = <<>> /\ todo = <<>>
  <2>1. k = Len(Wire)
    BY <1>5, <1>7 DEF Talk
  <2>2. Len(r) = 0 /\ Len(todo) = 0
    BY <2>1, <1>2, <1>3, <1>4
  <2> QED BY <2>2, <1>1, <1>2, EmptySeq
<1>8. ASSUME m[2] = "DATA", NEW x \in Range(r \o todo), x[2] = "DATA" PROVE FALSE
  <2>0. r \in Seq(Messages) /\ todo \in Seq(Messages)
    BY <1>1, <1>2
  <2>1. x \in Range(r) \/ x \in Range(todo)
    <3>1. Range(r \o todo) = Range(r) \cup Range(todo)
      BY <2>0, RangeConcat
    <3> QED BY <3>1
  <2>2. ASSUME NEW j \in 1..Len(Wire), Wire[j] = x, j > k PROVE FALSE
    <3>1. j =< k
      BY <1>5, <1>8, <2>2 DEF Talk, Is
    <3> QED BY <3>1, <2>2, <1>3
  <2>3. CASE x \in Range(r)
    <3>1. PICK i \in 1..Len(r) : r[i] = x
      BY <2>3, <2>0, RangeOf
    <3>2. /\ i + 1 \in 1..(Len(to_host) + Len(todo)) /\ i + 1 =< Len(to_host)
          /\ Len(a) + (i + 1) \in 1..(Len(a) + Len(u)) /\ ~(Len(a) + (i + 1) =< Len(a))
          /\ (Len(a) + (i + 1)) - Len(a) = i + 1 /\ Len(a) + (i + 1) > k
      BY <1>2, <1>3
    <3>3. Wire[Len(a) + (i + 1)] = u[i + 1] /\ u[i + 1] = to_host[i + 1] /\ to_host[i + 1] = x
      BY <3>1, <3>2, <1>2, <1>3, <1>4
    <3> QED BY <3>2, <3>3, <2>2, <1>4
  <2>4. CASE x \in Range(todo)
    <3>1. PICK i \in 1..Len(todo) : todo[i] = x
      BY <2>4, <1>1, RangeOf
    <3> DEFINE h == Len(to_host) + i
    <3>2. /\ h \in 1..(Len(to_host) + Len(todo)) /\ ~(h =< Len(to_host)) /\ h - Len(to_host) = i
          /\ Len(a) + h \in 1..(Len(a) + Len(u)) /\ ~(Len(a) + h =< Len(a))
          /\ (Len(a) + h) - Len(a) = h /\ Len(a) + h > k
      BY <1>2, <1>3
    <3> HIDE DEF h
    <3>3. Wire[Len(a) + h] = u[h] /\ u[h] = todo[i]
      BY <3>2, <1>3, <1>4
    <3> QED BY <3>1, <3>2, <3>3, <2>2, <1>4
  <2> QED BY <2>1, <2>3, <2>4
<1> QED BY <1>6, <1>7, <1>8

(* The packets of a download, one by one and all in one.                    *)
LEMMA StreamType ==
    ASSUME NEW id \in Nat, NEW n \in Nat
    PROVE  LET d == DataPackets(id, n)
               p == Packet(id, "all", n)
               l == Packet(0, "len", 0)
           IN  /\ d \in Seq(Packets) /\ Framed(p) \in Seq(Packets) /\ p \in Packets
               /\ link = "usb" => Len(d) = n /\ \A i \in 1..n : d[i] = Packet(id, "data", i)
               /\ link # "usb" => /\ Len(d) = 2 * n
                                  /\ \A i \in 1..(2 * n) : d[i] = IF i % 2 = 1 THEN l ELSE Packet(id, "data", i \div 2)
               /\ link # "tcp" => Len(Framed(p)) = 1 /\ Framed(p)[1] = p
               /\ link = "tcp" => Len(Framed(p)) = 2 /\ Framed(p)[1] = l /\ Framed(p)[2] = p
<1> DEFINE d == DataPackets(id, n)
           p == Packet(id, "all", n)
           l == Packet(0, "len", 0)
<1>1. p \in Packets /\ l \in Packets /\ \A i \in Nat : Packet(id, "data", i) \in Packets
  BY DEF Packet, Packets, WireOps
<1>2. CASE link = "usb"
  <2>1. d = [i \in 1..n |-> Packet(id, "data", i)]
    BY <1>2 DEF DataPackets
  <2>2. d \in [1..n -> Packets]
    BY <2>1, <1>1
  <2> QED BY <2>1, <2>2, <1>1, <1>2, OneOrTwo, SeqDef DEF Framed
<1>3. CASE link # "usb"
  <2>1. d = [i \in 1..(2 * n) |-> IF i % 2 = 1 THEN l ELSE Packet(id, "data", i \div 2)]
    BY <1>3 DEF DataPackets
  <2>2. \A i \in 1..(2 * n) : i \div 2 \in Nat
    OBVIOUS
  <2>3. d \in [1..(2 * n) -> Packets]
    BY <2>1, <2>2, <1>1
  <2>4. d \in Seq(Packets) /\ Len(d) = 2 * n
    BY <2>3
  <2>5. Framed(p) \in Seq(Packets) /\ (link # "tcp" => Len(Framed(p)) = 1 /\ Framed(p)[1] = p)
        /\ (link = "tcp" => Len(Framed(p)) = 2 /\ Framed(p)[1] = l /\ Framed(p)[2] = p)
    BY <1>1, OneOrTwo DEF Framed
  <2> QED BY <2>1, <2>4, <2>5, <1>1, <1>3
<1> QED BY <1>2, <1>3

(* What the host writes.                                                    *)
LEMMA PacketsType ==
    ASSUME NEW m \in Messages, m[2] = "DATA", link \in {"usb", "tcp"}
    PROVE  DataPackets(m[1], m[3]) \in Seq(Packets) /\ Framed(Packet(m[1], "all", m[3])) \in Seq(Packets)
<1>1. m[1] \in Nat /\ m[3] \in Nat
  BY DEF Messages, Final
<1> QED BY <1>1, StreamType

-----------------------------------------------------------------------------
(* The steps of the host. *)
LEMMA LinkInit ==
    ASSUME Init
    PROVE  LinkInv
<1>1. LinkType
  <2>1. <<>> \in Seq(Packets) /\ <<>> \in Seq(Messages) /\ <<>> \in Seq(Cells)
    BY EmptySeq
  <2>2. NoCommand \in Packets /\ Responder \in Responders
    BY DEF NoCommand, Packets, WireOps, Responder, Responders
  <2>3. host \in Hosts
    BY <2>1 DEF Init, Hosts
  <2> QED BY <2>1, <2>2, <2>3, LinkAssumption DEF LinkType, Init, Stages, Afters
<1>2. Wire = <<>> /\ Said = {} /\ Unread = {}
  <2>1. host.seen = <<>> /\ to_host = <<>> /\ todo = <<>>
    BY DEF Init
  <2>2. Range(<<>>) = {}
    BY EmptySeq, RangeOf
  <2>3. Said = {} /\ Unread = {}
    BY <1>1, <2>1, <2>2, WireType
  <2>4. <<>> \o <<>> = <<>>
    BY EmptySeq, ConcatEmptySeq
  <2> QED BY <2>1, <2>3, <2>4 DEF Wire
<1>3. ChannelInv
  BY LinkAssumption DEF ChannelInv, Init, Unconnected, Up, Responder
<1>4. HostInv
  BY <1>2, TalkNothing DEF HostInv, Init, Up
<1>5. Quiet
  BY DEF Quiet, Init
<1>6. ~Serving
  BY DEF Serving, Init
<1>7. AskedInv
  BY <1>2 DEF AskedInv, Asked
<1> QED BY <1>1, <1>3, <1>4, <1>5, <1>6, <1>7 DEF LinkInv

LEMMA HostDialsInv ==
    ASSUME LinkInv, HostDials
    PROVE  LinkInv'
<1>1. Unconnected /\ Unconnected' /\ ~Up /\ Up' /\ host' \in Hosts /\ host'.seen = host.seen /\ host'.met = host.met
      /\ host'.busy = host.busy
      /\ \E good \in BOOLEAN : host'.pend = <<Handshake(good)>> /\ Handshake(good) \in Packets
  <2>1. PICK good \in BOOLEAN : host' = [host EXCEPT !.conn = "up", !.pend = <<Handshake(good)>>]
    BY DEF HostDials
  <2>2. Handshake(good) \in Packets
    BY DEF Handshake, Packet, Packets, WireOps
  <2>3. <<Handshake(good)>> \in Seq(Packets)
    BY <2>2, OneOrTwo
  <2>4. host \in Hosts
    BY DEF LinkInv, LinkType
  <2> QED BY <2>1, <2>2, <2>3, <2>4 DEF Hosts, HostDials, Unconnected, Up, channel
<1>2. LinkType'
  BY <1>1 DEF LinkInv, LinkType, HostDials, channel
<1>3. to_dev' = <<>> /\ to_host' = <<>> /\ ~host'.met /\ (todo' = <<>> \/ todo' = <<Hello>>) /\ prefetched' = None
      /\ (pc \in {"poll", "handshake", "error"} \/ (pc = "send" /\ after = "handshake"))
  BY <1>1 DEF LinkInv, ChannelInv, HostInv, HostDials, channel, Unconnected
<1>4. ChannelInv'
  BY <1>1, <1>3 DEF LinkInv, ChannelInv, HostDials, channel, Unconnected, Up
<1>5. HostInv'
  BY <1>1, <1>3 DEF LinkInv, HostInv, HostDials, channel, Up
<1>6. ~Serving'
  BY <1>3 DEF Serving, HostDials
<1>7. Quiet'
  <2>1. PICK good \in BOOLEAN : host'.pend = <<Handshake(good)>> /\ Handshake(good) \in Packets
    BY <1>1
  <2>2. \A i \in 1..Len(host'.pend) : host'.pend[i] = Handshake(good)
    BY <2>1, OneOrTwo
  <2>3. Idle(Handshake(good), link')
    BY <1>1 DEF Idle, Handshake, Packet, Unconnected
  <2>4. Len(to_dev') = 0
    BY <1>3, EmptySeq
  <2> QED BY <1>3, <2>2, <2>3, <2>4 DEF Quiet
<1>8. ~Asked'
  <2>1. Unread' = Range(to_host') \cup Range(todo')
    BY <1>2, WireTypeNext
  <2>2. Range(<<>>) = {} /\ Range(<<Hello>>) = {Hello} /\ Hello[2] # "DATA"
    BY HelloType
  <2> QED BY <1>3, <2>1, <2>2 DEF Asked
<1> QED BY <1>2, <1>4, <1>5, <1>6, <1>7, <1>8 DEF LinkInv, AskedInv

LEMMA HostCommandInv ==
    ASSUME LinkInv, HostCommand
    PROVE  LinkInv'
<1>1. PICK op \in Ops \cup {"unknown", "zlp", "huge"}, n \in 0..MaxData :
        host' = [host EXCEPT !.sent = @ + 1, !.op = op, !.n = n, !.busy = op # "zlp",
                             !.seen = <<>>, !.pend = Framed(Packet(host.sent + 1, op, n))]
  BY DEF HostCommand
<1> DEFINE p == Packet(host.sent + 1, op, n)
           l == Packet(0, "len", 0)
<1>2. host \in Hosts /\ n \in Nat
  BY LinkAssumption DEF LinkInv, LinkType
<1>3. p \in Packets /\ l \in Packets /\ p.op = op /\ l.op = "len"
  BY <1>2 DEF Packet, Packets, WireOps, Hosts
<1> HIDE DEF p, l
<1>4. /\ Framed(p) \in Seq(Packets)
      /\ link # "tcp" => Len(Framed(p)) = 1 /\ Framed(p)[1] = p
      /\ link = "tcp" => Len(Framed(p)) = 2 /\ Framed(p)[1] = l /\ Framed(p)[2] = p
  BY <1>3, OneOrTwo DEF Framed, l
<1>5. /\ host' \in Hosts /\ host'.conn = host.conn /\ host'.met = host.met /\ host'.seen = <<>>
      /\ host'.sent = host.sent + 1 /\ host'.op = op /\ host'.n = n /\ (host'.busy <=> op # "zlp")
      /\ host'.pend = Framed(p)
  <2>1. Framed(p) \in Seq(Packets) /\ <<>> \in Seq(Messages) /\ (op # "zlp") \in BOOLEAN
        /\ op \in Ops \cup {"unknown", "zlp", "huge", "none"} /\ host.sent + 1 \in Nat
    BY <1>2, <1>4, EmptySeq DEF Hosts
  <2>2. host' = [host EXCEPT !.sent = @ + 1, !.op = op, !.n = n, !.busy = op # "zlp",
                             !.seen = <<>>, !.pend = Framed(p)]
    BY <1>1 DEF p
  <2> QED BY <1>2, <2>1, <2>2 DEF Hosts
<1>6. Up /\ Up' /\ host.met /\ ~host.busy /\ to_host = <<>> /\ todo = <<>> /\ ~Unconnected /\ host.pend = <<>>
  BY DEF LinkInv, HostInv, HostCommand, HostUp, Up, Unconnected, HostCommand
<1>7. LinkType'
  BY <1>5 DEF LinkInv, LinkType, HostCommand, channel
<1>8. Wire' = <<>> /\ Said' = {} /\ Unread' = {}
  <2>1. to_host' = <<>> /\ todo' = <<>> /\ host'.seen = <<>>
    BY <1>5, <1>6 DEF HostCommand, channel
  <2>2. Range(<<>>) = {} /\ <<>> \o <<>> = <<>>
    BY HelloType, EmptySeq, ConcatEmptySeq
  <2> QED BY <1>7, <2>1, <2>2, WireTypeNext DEF Wire
<1>9. ChannelInv'
  BY <1>5, <1>6 DEF LinkInv, ChannelInv, HostCommand, channel, Unconnected, Up
<1>10. HostInv'
  BY <1>5, <1>6, <1>8, TalkNothing DEF LinkInv, HostInv, HostCommand, channel, Up
<1>11. ~Serving /\ ~Serving'
  BY <1>6 DEF LinkInv, Serving, ServedInv, HostCommand, Idle, channel
<1>12. Attentive' => Attentive
  BY <1>6 DEF Attentive, HostCommand, channel, Unconnected
<1>13. ASSUME Quiet PROVE Quiet'
  <2>1. \A i \in 1..Len(to_dev) : Idle(to_dev[i], link)
    BY <1>6, <1>13 DEF Quiet, Command, Up
  <2>2. prefetched = None
    BY <1>6, <1>13 DEF Quiet, Command, Up
  <2>3. op = "zlp" => Idle(p, link')
    BY <1>3 DEF Idle
  <2>4. op # "zlp" => Command(p, host', Silent')
    BY <1>5, <1>6 DEF Command, Silent, p, Up, HostCommand, channel
  <2>5. \A i \in 1..Len(host'.pend) : Idle(host'.pend[i], link') \/ (i = Len(host'.pend) /\ Command(host'.pend[i], host', Silent'))
    <3>1. link' = link /\ host'.pend = Framed(p)
      BY <1>5 DEF HostCommand, channel
    <3>2. Idle(p, link') \/ Command(p, host', Silent')
      BY <2>3, <2>4
    <3>3. CASE link = "tcp"
      <4>1. Idle(l, link')
        BY <3>1, <3>3, <1>3 DEF Idle
      <4>2. \A i \in 1..2 : i = 1 \/ i = 2
        OBVIOUS
      <4> QED BY <3>1, <3>2, <3>3, <4>1, <4>2, <1>4
    <3>4. CASE link # "tcp"
      <4>1. \A i \in 1..1 : i = 1
        OBVIOUS
      <4> QED BY <3>1, <3>2, <3>4, <4>1, <1>4
    <3> QED BY <3>3, <3>4
  <2> QED BY <2>1, <2>2, <2>5 DEF Quiet, HostCommand, channel, Idle
<1>14. ~Asked'
  BY <1>8 DEF Asked
<1> QED BY <1>7, <1>9, <1>10, <1>11, <1>12, <1>13, <1>14 DEF LinkInv, AskedInv

LEMMA HostWritesInv ==
    ASSUME LinkInv, HostWrites
    PROVE  LinkInv'
<1> DEFINE q == host.pend
<1>1. host \in Hosts /\ q \in Seq(Packets) /\ to_dev \in Seq(Packets) /\ q # <<>>
  BY DEF LinkInv, LinkType, HostWrites, Hosts
<1>2. /\ Tail(q) \in Seq(Packets) /\ Head(q) \in Packets /\ Head(q) = q[1] /\ Len(Tail(q)) = Len(q) - 1
      /\ Len(q) \in Nat \ {0} /\ \A i \in 1..Len(Tail(q)) : Tail(q)[i] = q[i + 1]
      /\ (Len(q) = 1 <=> Tail(q) = <<>>) /\ 1 \in 1..Len(q)
  BY <1>1, TailFacts
<1>3. /\ host' \in Hosts /\ host'.conn = host.conn /\ host'.met = host.met /\ host'.seen = host.seen
      /\ host'.sent = host.sent /\ host'.op = host.op /\ host'.n = host.n /\ host'.busy = host.busy
      /\ host'.pend = Tail(q)
  BY <1>1, <1>2 DEF Hosts, HostWrites
<1>4. /\ to_dev' = Append(to_dev, Head(q)) /\ to_dev' \in Seq(Packets) /\ Len(to_dev') = Len(to_dev) + 1
      /\ \A i \in 1..Len(to_dev) : to_dev'[i] = to_dev[i]
      /\ to_dev'[Len(to_dev) + 1] = q[1] /\ Len(to_dev) \in Nat
  BY <1>1, <1>2, AppendProperties, LenProperties DEF HostWrites
<1>5. LinkType'
  BY <1>3, <1>4 DEF LinkInv, LinkType, HostWrites
<1>6. Wire' = Wire /\ Said' = Said /\ Unread' = Unread
  BY <1>3, WireSame DEF HostWrites
<1>7. Ahead' = Ahead
  <2>1. Append(to_dev, Head(q)) \o Tail(q) = to_dev \o q
    <3> HIDE DEF q
    <3> QED BY <1>1, PassOn
  <2> QED BY <2>1, <1>3, <1>4 DEF Ahead
<1>8. Up /\ ~Unconnected /\ ~Unconnected'
  BY DEF HostWrites, HostUp, Up, Unconnected
<1>9. ChannelInv'
  BY <1>3, <1>8 DEF LinkInv, ChannelInv, HostWrites, Up
<1>10. HostInv'
  BY <1>3, <1>6 DEF LinkInv, HostInv, HostWrites, Up
<1>11. (Attentive' <=> Attentive) /\ (Serving' <=> Serving) /\ (Receiving' <=> Receiving)
  BY <1>8 DEF Attentive, Serving, Receiving, HostWrites, Idle
<1>12. ASSUME Quiet PROVE Quiet'
  <2>1. \A i \in 1..Len(to_dev) : Idle(to_dev[i], link)
    BY <1>1, <1>12 DEF Quiet
  <2>2. prefetched = None
    BY <1>1, <1>12 DEF Quiet
  <2>3. link' = link /\ \A x : Command(x, host', Silent') <=> Command(x, host, Silent)
    BY <1>3 DEF Command, Silent, HostWrites
  <2>4. \A i \in 1..Len(q) : Idle(q[i], link) \/ (i = Len(q) /\ Command(q[i], host, Silent))
    BY <1>12 DEF Quiet
  <2>5. \A i \in 1..Len(Tail(q)) : Idle(Tail(q)[i], link) \/ (i = Len(Tail(q)) /\ Command(Tail(q)[i], host', Silent'))
    <3> TAKE i \in 1..Len(Tail(q))
    <3>1. i + 1 \in 1..Len(q) /\ Tail(q)[i] = q[i + 1] /\ (i + 1 = Len(q) => i = Len(Tail(q)))
      BY <1>2
    <3> QED BY <2>3, <2>4, <3>1
  <2>6. Idle(q[1], link) \/ (Tail(q) = <<>> /\ Command(q[1], host', Silent'))
    <3>1. 1 \in 1..Len(q) /\ (1 = Len(q) => Tail(q) = <<>>)
      BY <1>2
    <3> QED BY <2>3, <2>4, <3>1
  <2>7. \A i \in 1..Len(to_dev') : Idle(to_dev'[i], link') \/ (i = Len(to_dev') /\ host'.pend = <<>> /\ Command(to_dev'[i], host', Silent'))
    <3> TAKE i \in 1..Len(to_dev')
    <3>1. i \in 1..Len(to_dev) \/ i = Len(to_dev) + 1
      BY <1>4
    <3>2. CASE i \in 1..Len(to_dev)
      BY <3>2, <2>1, <2>3, <1>4
    <3>3. CASE i = Len(to_dev) + 1
      <4>1. to_dev'[i] = q[1] /\ i = Len(to_dev') /\ host'.pend = Tail(q) /\ link' = link
        BY <3>3, <1>3, <1>4, <2>3
      <4> QED BY <4>1, <2>6
    <3> QED BY <3>1, <3>2, <3>3
  <2> QED BY <2>2, <2>5, <2>7, <1>3 DEF Quiet, HostWrites
<1>13. ASSUME Serving, ServedInv, UploadInv, DownloadInv PROVE ServedInv' /\ UploadInv' /\ DownloadInv'
  <2>1. Receiving
    BY <1>1, <1>13 DEF ServedInv
  <2>2. ServedInv'
    BY <1>3, <1>6, <1>11, <1>13, <2>1 DEF ServedInv, HostWrites, Up
  <2>3. UploadInv'
    BY <1>3, <1>6, <1>13 DEF UploadInv, Covered, Initiating, HostWrites, Up
  <2>4. \A d : RestOf(d)' <=> RestOf(d)
    BY <1>7 DEF RestOf, Consumed, HostWrites
  <2>5. DataPackets(cmd.id, cmd.n)' = DataPackets(cmd.id, cmd.n) /\ Framed(Packet(cmd.id, "all", cmd.n))' = Framed(Packet(cmd.id, "all", cmd.n))
    BY DEF DataPackets, Framed, Packet, HostWrites
  <2>6. DownloadInv'
    BY <1>11, <1>13, <2>4, <2>5 DEF DownloadInv, HostWrites
  <2> QED BY <2>2, <2>3, <2>6
<1>14. AskedInv => ~Asked /\ ~Asked'
  BY <1>1, <1>3, <1>6 DEF AskedInv, Asked, Up
<1> QED BY <1>5, <1>9, <1>10, <1>11, <1>12, <1>13, <1>14 DEF LinkInv, AskedInv

LEMMA HostReadsInv ==
    ASSUME LinkInv, HostReads
    PROVE  LinkInv'
<1> DEFINE m == Head(to_host)
<1>1. /\ host \in Hosts /\ to_host \in Seq(Messages) /\ to_host # <<>> /\ m \in Messages /\ to_host' = Tail(to_host)
      /\ Tail(to_host) \in Seq(Messages) /\ Range(to_host) = {m} \cup Range(Tail(to_host)) /\ todo \in Seq(Messages)
      /\ host.seen \in Seq(Messages) /\ link \in {"usb", "tcp"}
  <2>1. to_host \in Seq(Messages) /\ to_host # <<>>
    BY DEF LinkInv, LinkType, HostReads
  <2> QED BY <2>1, TailFacts DEF LinkInv, LinkType, HostReads, Hosts
<1> HIDE DEF m
<1>2. PICK b \in Bytes(m) :
        host' = [host EXCEPT !.pend = b, !.busy = @ /\ m[2] \notin Final, !.met = TRUE,
                             !.seen = IF m[2] = "FB01" THEN @ ELSE Append(@, m)]
  BY DEF HostReads, m
<1>3. Up /\ ~Unconnected /\ ~Unconnected' /\ LinkType /\ ChannelInv /\ HostInv
  BY DEF LinkInv, HostReads, HostUp, Up, Unconnected
<1>4. CASE ~host.met
  <2>1. to_host = <<Hello>> /\ todo = <<>> /\ host.seen = <<>> /\ ~host.busy
    BY <1>1, <1>3, <1>4 DEF HostInv, Up
  <2>2. m = Hello /\ m[2] = "FB01" /\ to_host' = <<>>
    BY <1>1, <2>1, HelloType DEF m
  <2>3. b = host.pend
    BY <2>2 DEF Bytes
  <2>4. /\ host' \in Hosts /\ host'.conn = host.conn /\ host'.met /\ host'.seen = <<>> /\ host'.sent = host.sent
        /\ host'.op = host.op /\ host'.n = host.n /\ ~host'.busy /\ host'.pend = host.pend
    <3>1. host' = [host EXCEPT !.pend = host.pend, !.busy = host.busy /\ m[2] \notin Final, !.met = TRUE, !.seen = host.seen]
      BY <1>1, <1>2, <2>2, <2>3 DEF Hosts
    <3>2. (host.busy /\ m[2] \notin Final) \in BOOLEAN /\ host.pend \in Seq(Packets) /\ TRUE \in BOOLEAN
      BY <1>1 DEF Hosts
    <3> HIDE DEF Final
    <3> QED BY <3>1, <3>2, <1>1, <2>1 DEF Hosts
  <2>5. LinkType'
    BY <1>1, <2>4 DEF LinkInv, LinkType, HostReads
  <2>6. Wire' = <<>> /\ Said' = {} /\ Unread' = {} /\ todo' = <<>>
    <3>1. Range(<<>>) = {} /\ <<>> \o <<>> = <<>> /\ todo' = <<>>
      BY <2>1, HelloType, EmptySeq, ConcatEmptySeq DEF HostReads
    <3> QED BY <2>2, <2>4, <2>5, <3>1, WireTypeNext DEF Wire
  <2>7. ChannelInv'
    BY <1>3, <2>4 DEF ChannelInv, HostReads, Up
  <2>8. HostInv'
    BY <1>3, <2>2, <2>4, <2>6, TalkNothing DEF HostInv, HostReads, Up
  <2>9. ~Serving /\ ~Serving' /\ (Attentive' <=> Attentive)
    BY <1>3, <2>1 DEF LinkInv, Serving, ServedInv, HostReads, Attentive, Unconnected, Up
  <2>10. ASSUME Quiet PROVE Quiet'
    <3>1. prefetched = None /\ (\A i \in 1..Len(to_dev) : Idle(to_dev[i], link))
          /\ \A i \in 1..Len(host.pend) : Idle(host.pend[i], link)
      BY <2>1, <2>10, <1>3 DEF Quiet, Command, Up
    <3> QED BY <3>1, <2>4 DEF Quiet, HostReads
  <2> QED BY <2>5, <2>6, <2>7, <2>8, <2>9, <2>10 DEF LinkInv, AskedInv, Asked
<1>5. CASE host.met
  <2>1. m \in Said /\ m \in Unread /\ m[2] # "FB01" /\ host.busy /\ Talk(Wire, host.sent, host.op)
    BY <1>1, <1>3, <1>5, WireType DEF HostInv
  <2>2. b \in Seq(Packets) /\ (~(m[2] = "DATA" /\ host.op = "download") => b = host.pend)
    <3>1. host.pend \in Seq(Packets)
      BY <1>1 DEF Hosts
    <3>2. CASE m[2] = "DATA" /\ host.op = "download"
      BY <1>1, <3>2, PacketsType DEF Bytes
    <3> QED BY <3>1, <3>2 DEF Bytes
  <2>3. /\ host' \in Hosts /\ host'.conn = host.conn /\ host'.met /\ host'.sent = host.sent /\ host'.op = host.op
        /\ host'.n = host.n /\ (host'.busy <=> m[2] \notin Final) /\ host'.pend = b /\ host'.seen = Append(host.seen, m)
    <3>1. host' = [host EXCEPT !.pend = b, !.busy = host.busy /\ m[2] \notin Final, !.met = TRUE,
                               !.seen = Append(host.seen, m)]
      BY <1>1, <1>2, <2>1 DEF Hosts
    <3>2. (host.busy /\ m[2] \notin Final) \in BOOLEAN /\ TRUE \in BOOLEAN /\ Append(host.seen, m) \in Seq(Messages)
      BY <1>1, AppendProperties
    <3> QED BY <3>1, <3>2, <1>1, <2>1, <2>2 DEF Hosts
  <2>4. LinkType'
    BY <1>1, <2>3 DEF LinkInv, LinkType, HostReads
  <2>5. Wire' = Wire /\ Said' = Said /\ Unread = {m} \cup Unread'
    <3>1. Append(host.seen, m) \o Tail(to_host) = host.seen \o to_host
      BY <1>1, PassOn DEF m
    <3>2. Wire' = Wire
      BY <3>1, <2>3, <1>1 DEF Wire, HostReads
    <3>3. todo' = todo
      BY DEF HostReads
    <3> QED BY <3>2, <3>3, <1>1, <1>3, <2>4, WireType, WireTypeNext DEF Said
  <2>6. Talk(Wire, host.sent, host.op) /\ (Talk(Wire, host.sent, host.op))'
    BY <2>1, <2>3, <2>5
  <2>7. /\ m[2] \in Final => to_host' = <<>> /\ todo' = <<>>
        /\ m[2] = "DATA" => \A x \in Unread' : x[2] # "DATA"
        /\ m[1] = host.sent
    <3>0. m = Head(to_host) /\ to_host' = Tail(to_host) /\ to_host # <<>>
      BY <1>1 DEF m
    <3>1. /\ m[2] \in Final => to_host' = <<>> /\ todo = <<>>
          /\ m[2] = "DATA" => \A x \in Range(to_host' \o todo) : x[2] # "DATA"
          /\ m[1] = host.sent
      <4>1. LinkType /\ to_host # <<>> /\ Talk(Wire, host.sent, host.op)
        BY <3>0, <1>3, <2>1
      <4>2. \A y, n : y = Head(to_host) /\ n = Tail(to_host) =>
              /\ y[2] \in Final => n = <<>> /\ todo = <<>>
              /\ y[2] = "DATA" => \A x \in Range(n \o todo) : x[2] # "DATA"
              /\ y[1] = host.sent
        BY <4>1, ReadNext
      <4> DEFINE r == to_host'
      <4>3. m = Head(to_host) /\ r = Tail(to_host)
        BY <3>0
      <4> HIDE DEF r
      <4>5. m[1] = host.sent
        BY <4>2, <4>3
      <4>6. m[2] \in Final => r = <<>> /\ todo = <<>>
        BY <4>2, <4>3
      <4>7. m[2] = "DATA" => \A x \in Range(r \o todo) : x[2] # "DATA"
        BY <4>2, <4>3
      <4> QED BY <4>5, <4>6, <4>7 DEF r
    <3> QED BY <3>1 DEF HostReads, Unread
  <2>8. ChannelInv'
    BY <1>3, <2>3 DEF ChannelInv, HostReads, Up
  <2>9. HostInv'
    <3>1. host'.seen # <<>> /\ host'.seen[Len(host'.seen)] = m
      <4>1. /\ Len(Append(host.seen, m)) = Len(host.seen) + 1 /\ Append(host.seen, m)[Len(host.seen) + 1] = m
            /\ Append(host.seen, m) # <<>> 
        BY <1>1, AppendProperties
      <4> QED BY <4>1, <2>3
    <3>2. \A x \in Said' : x[2] # "FB01"
      BY <2>5, <1>3, <1>5 DEF HostInv
    <3>3. pc' = pc /\ after' = after /\ todo' = todo
      BY DEF HostReads
    <3>4. pc = "send" /\ after = "handshake" => todo = <<>>
      BY <1>3, <1>5 DEF HostInv
    <3> HIDE DEF Final
    <3> QED BY <3>1, <3>2, <3>3, <3>4, <1>3, <2>3, <2>6, <2>7 DEF HostInv, Up
  <2>10. (Attentive' <=> Attentive) /\ (Serving' <=> Serving) /\ (Receiving' <=> Receiving)
    BY <1>3 DEF Attentive, Serving, Receiving, HostReads
  <2>11. CASE m[2] = "DATA" /\ host.op = "download"
    <3>1. Asked /\ ~Asked'
      BY <1>3, <2>1, <2>7, <2>11 DEF Asked, HostReads
    <3>2. ASSUME Attentive \/ Serving
          PROVE  Receiving /\ ~resp.err /\ to_dev = <<>> /\ host.pend = <<>> /\ got = <<>> /\ ~prefix
      BY <3>1, <3>2 DEF LinkInv, AskedInv
    <3>3. ~Attentive
      BY <3>2 DEF Attentive, Receiving
    <3>4. ASSUME Serving PROVE ServedInv' /\ UploadInv' /\ DownloadInv'
      <4>1. Receiving /\ to_dev = <<>> /\ got = <<>> /\ ~prefix /\ ServedInv /\ UploadInv /\ DownloadInv
        BY <3>2, <3>4 DEF LinkInv
      <4>2. m[1] = cmd.id /\ m[3] = cmd.n
        BY <1>3, <2>1, <2>7, <2>11, <4>1 DEF ServedInv, UploadInv
      <4>3. m[2] \notin Final
        BY <2>11 DEF Final
      <4>4. ServedInv'
        BY <1>3, <2>3, <2>5, <2>10, <4>1, <4>3 DEF ServedInv, HostReads, Up
      <4>5. UploadInv'
        BY <1>3, <2>3, <2>5, <4>1 DEF UploadInv, Covered, Initiating, HostReads, Up
      <4>6. Ahead' = b /\ Consumed' = 0
        <5>1. to_dev' = <<>> /\ host'.pend = b /\ got' = <<>> /\ prefix' = prefix
          BY <4>1, <2>3 DEF HostReads
        <5>2. Len(<<>>) = 0 /\ <<>> \o b = b
          BY <2>2, EmptySeq, ConcatEmptySeq
        <5>3. Ahead' = b
          BY <5>1, <5>2 DEF Ahead
        <5>4. Consumed' = 0
          BY <5>1, <5>2, <4>1 DEF Consumed
        <5> QED BY <5>3, <5>4
      <4>7. RestOf(b)'
        <5>1. Len(b) \in Nat
          BY <2>2, LenProperties
        <5> QED BY <4>6, <5>1 DEF RestOf
      <4>8. b \in {DataPackets(cmd.id, cmd.n), Framed(Packet(cmd.id, "all", cmd.n))}
        BY <2>11, <4>2 DEF Bytes
      <4>9. DataPackets(cmd.id, cmd.n)' = DataPackets(cmd.id, cmd.n)
            /\ Framed(Packet(cmd.id, "all", cmd.n))' = Framed(Packet(cmd.id, "all", cmd.n))
        BY DEF DataPackets, Framed, Packet, HostReads
      <4>10. RestOf(DataPackets(cmd.id, cmd.n))' \/ RestOf(Framed(Packet(cmd.id, "all", cmd.n)))'
        BY <4>7, <4>8, <4>9 DEF RestOf
      <4>11. DownloadInv'
        BY <2>10, <4>1, <4>10 DEF DownloadInv, HostReads
      <4> QED BY <4>4, <4>5, <4>11
    <3> QED BY <2>4, <2>8, <2>9, <2>10, <3>1, <3>3, <3>4 DEF LinkInv, AskedInv
  <2>12. CASE ~(m[2] = "DATA" /\ host.op = "download")
    <3>1. host'.pend = host.pend
      BY <2>2, <2>3, <2>12
    <3>2. ASSUME Quiet PROVE Quiet'
      <4>1. prefetched = None /\ (\A i \in 1..Len(to_dev) : Idle(to_dev[i], link))
            /\ \A i \in 1..Len(host.pend) : Idle(host.pend[i], link)
        BY <1>1, <1>3, <3>2 DEF Quiet, Command, Up, Silent
      <4> QED BY <4>1, <3>1 DEF Quiet, HostReads
    <3>3. ASSUME Serving PROVE ServedInv' /\ UploadInv' /\ DownloadInv'
      <4>1. ServedInv /\ UploadInv /\ DownloadInv
        BY <3>3 DEF LinkInv
      <4>2. m[2] \notin Final
        <5>1. m[2] \in Final => pc = "send" /\ after \in {"done", "rebooted"} /\ todo # <<>>
          BY <1>3, <2>1, <3>3, <4>1 DEF ServedInv, Serving
        <5> QED BY <5>1, <2>7 DEF HostReads
      <4>3. ServedInv'
        BY <1>3, <2>3, <2>5, <2>10, <3>1, <4>1, <4>2 DEF ServedInv, HostReads, Up
      <4>4. UploadInv'
        BY <1>3, <2>3, <2>5, <4>1 DEF UploadInv, Covered, Initiating, HostReads, Up
      <4>5. DownloadInv'
        <5>1. Ahead' = Ahead /\ Consumed' = Consumed
          BY <3>1 DEF Ahead, Consumed, HostReads
        <5>2. DataPackets(cmd.id, cmd.n)' = DataPackets(cmd.id, cmd.n)
              /\ Framed(Packet(cmd.id, "all", cmd.n))' = Framed(Packet(cmd.id, "all", cmd.n))
          BY DEF DataPackets, Framed, Packet, HostReads
        <5> QED BY <2>10, <4>1, <5>1, <5>2 DEF DownloadInv, RestOf, HostReads
      <4> QED BY <4>3, <4>4, <4>5
    <3>4. AskedInv => AskedInv'
      <4>1. Asked' => Asked
        BY <2>3, <2>5 DEF Asked, Up
      <4> QED BY <3>1, <4>1, <2>10 DEF AskedInv, HostReads
    <3> QED BY <2>4, <2>8, <2>9, <2>10, <3>2, <3>3, <3>4 DEF LinkInv
  <2> QED BY <2>11, <2>12
<1> QED BY <1>4, <1>5

LEMMA HostLeavesInv ==
    ASSUME LinkInv, HostLeaves \/ HostReset
    PROVE  LinkInv'
<1>1. /\ host' \in Hosts /\ ~host'.met /\ host'.seen = <<>> /\ host'.pend = <<>> /\ ~host'.busy /\ ~Up'
      /\ host'.sent = host.sent /\ host'.op = host.op /\ host'.n = host.n
  <2>1. PICK how \in {"shut", "gone", "none"} : host' = Away(how)
    BY DEF HostLeaves, HostReset
  <2>2. <<>> \in Seq(Packets) /\ <<>> \in Seq(Messages) /\ FALSE \in BOOLEAN /\ host \in Hosts
    BY EmptySeq DEF LinkInv, LinkType
  <2> QED BY <2>1, <2>2 DEF Away, Hosts, Up
<1>2. LinkType'
  BY <1>1 DEF LinkInv, LinkType, HostLeaves, HostReset, channel
<1>3. ChannelInv'
  BY <1>1 DEF LinkInv, ChannelInv, HostLeaves, HostReset, channel, Unconnected, Up
<1>4. HostInv'
  BY <1>1 DEF LinkInv, HostInv, HostLeaves, HostReset, channel, Up
<1>5. (Attentive' <=> Attentive) /\ (Serving' <=> Serving) /\ (Receiving' <=> Receiving)
  BY DEF Attentive, Serving, Receiving, HostLeaves, HostReset, channel, Unconnected
<1>6. ASSUME Quiet PROVE Quiet'
  <2>1. prefetched = None /\ link = "tcp"
    BY DEF LinkInv, ChannelInv, HostLeaves, HostReset
  <2>2. ASSUME NEW p, Command(p, host, Silent) PROVE Command(p, host', Silent')
    BY <1>1, <2>2 DEF Command, Up
  <2>3. Len(host'.pend) = 0
    BY <1>1, EmptySeq
  <2> QED BY <1>1, <1>6, <2>1, <2>2, <2>3 DEF Quiet, HostLeaves, HostReset, channel
<1>7. ASSUME Serving, ServedInv, UploadInv, DownloadInv PROVE ServedInv' /\ UploadInv' /\ DownloadInv'
  <2>1. ServedInv'
    BY <1>1, <1>5, <1>7 DEF ServedInv, HostLeaves, HostReset, channel
  <2>2. UploadInv'
    BY <1>1, <1>7 DEF UploadInv, HostLeaves, HostReset, channel, Initiating
  <2>3. ASSUME NEW d, RestOf(d) PROVE RestOf(d)'
    <3>1. to_dev \in Seq(Packets) /\ host.pend \in Seq(Packets)
      BY DEF LinkInv, LinkType, Hosts
    <3>2. Ahead' = to_dev
      BY <1>1, <3>1, ConcatEmptySeq DEF Ahead, HostLeaves, HostReset, channel
    <3> DEFINE q == host.pend
    <3>3. Ahead = to_dev \o q /\ q \in Seq(Packets)
      BY <3>1 DEF Ahead
    <3> HIDE DEF q
    <3>4. Len(to_dev) \in Nat /\ Len(q) \in Nat /\ Len(to_dev \o q) = Len(to_dev) + Len(q)
          /\ \A i \in 1..(Len(to_dev) + Len(q)) : (to_dev \o q)[i] = IF i =< Len(to_dev) THEN to_dev[i] ELSE q[i - Len(to_dev)]
      BY <3>1, <3>3, ConcatProperties, LenProperties
    <3>5. Consumed' = Consumed
      BY DEF Consumed, HostLeaves, HostReset, channel
    <3>6. ASSUME NEW i \in 1..Len(to_dev) PROVE Consumed + i =< Len(d) /\ to_dev[i] = d[Consumed + i]
      <4>1. i \in 1..(Len(to_dev) + Len(q)) /\ i =< Len(to_dev)
        BY <3>4
      <4>2. Consumed + i =< Len(d) /\ (to_dev \o q)[i] = d[Consumed + i]
        BY <4>1, <2>3, <3>3, <3>4 DEF RestOf
      <4> QED BY <4>1, <4>2, <3>4
    <3> QED BY <3>2, <3>5, <3>6 DEF RestOf
  <2>4. DataPackets(cmd.id, cmd.n)' = DataPackets(cmd.id, cmd.n)
        /\ Framed(Packet(cmd.id, "all", cmd.n))' = Framed(Packet(cmd.id, "all", cmd.n))
    BY DEF DataPackets, Framed, Packet, HostLeaves, HostReset, channel
  <2>5. RestOf(DataPackets(cmd.id, cmd.n)) => RestOf(DataPackets(cmd.id, cmd.n))'
    <3>1. RestOf(DataPackets(cmd.id, cmd.n)) => \A d : d = DataPackets(cmd.id, cmd.n) => RestOf(d)'
      BY <2>3
    <3> QED BY <2>4, <3>1 DEF RestOf
  <2>6. RestOf(Framed(Packet(cmd.id, "all", cmd.n))) => RestOf(Framed(Packet(cmd.id, "all", cmd.n)))'
    <3>1. RestOf(Framed(Packet(cmd.id, "all", cmd.n))) => \A d : d = Framed(Packet(cmd.id, "all", cmd.n)) => RestOf(d)'
      BY <2>3
    <3> QED BY <2>4, <3>1 DEF RestOf
  <2>7. DownloadInv'
    BY <1>5, <1>7, <2>5, <2>6 DEF DownloadInv, HostLeaves, HostReset, channel
  <2> QED BY <2>1, <2>2, <2>7
<1>8. ~Asked'
  BY <1>1 DEF Asked
<1> QED BY <1>2, <1>3, <1>4, <1>5, <1>6, <1>7, <1>8 DEF LinkInv, AskedInv

-----------------------------------------------------------------------------
(* The device answers. *)

(* Where a command is served and nothing is being sent.                     *)
LEMMA ServesFacts ==
    ASSUME LinkInv, Serving, pc \in {"dispatch", "backend", "complete"}
    PROVE  /\ ServedInv /\ UploadInv /\ DownloadInv /\ AskedInv /\ LinkType /\ ChannelInv /\ HostInv
           /\ todo = <<>> /\ prefetched = None /\ to_dev = <<>> /\ host.pend = <<>> /\ ~prefix /\ ~Unconnected
           /\ ~Receiving /\ ~Asked /\ ~resp.err
           /\ Up => host.met /\ host.busy /\ \A x \in Said : x[2] \notin Final
           /\ host.met => Up
           /\ cmd.id \in Nat /\ cmd.n \in Nat /\ cmd.id = host.sent
<1>1. ServedInv /\ UploadInv /\ DownloadInv /\ AskedInv /\ LinkType /\ ChannelInv /\ HostInv /\ ~resp.err
  BY DEF LinkInv, Serving
<1>2. ~Receiving
  BY DEF Receiving
<1>3. ~prefix /\ ~Unconnected /\ todo = <<>>
  BY <1>1 DEF ChannelInv
<1>4. cmd.id \in Nat /\ cmd.n \in Nat
  BY <1>1 DEF LinkType, Packets
<1>5. Up => host.met /\ host.busy /\ \A x \in Said : x[2] \notin Final
  BY <1>1 DEF ServedInv, HostInv, Up
<1> QED BY <1>1, <1>2, <1>3, <1>4, <1>5 DEF ServedInv, AskedInv, HostInv

(* A message is put on the wire.                                            *)
LEMMA SaysFacts ==
    ASSUME LinkInv, Serving, pc \in {"dispatch", "backend", "complete"},
           NEW m \in Messages, m[1] = cmd.id, m[2] # "FB01",
           UNCHANGED <<channel, cmd, host>>, pc' = "send", todo' = FramedMsg(m),
           after' \in Afters \ {"poll", "handshake"}, resp' \in Responders, ~resp'.err, got' \in Seq(Cells),
           m[2] \in Final => after' \in {"done", "rebooted"},
           after' \in {"backend", "initiated", "rebooted"} => cmd.op # "download",
           after' = "receive" => cmd.op = "download",
           Up => MayFollow(Wire, m, host.sent, host.op)
    PROVE  /\ LinkType' /\ ChannelInv' /\ HostInv' /\ ServedInv' /\ ~Attentive' /\ Serving'
           /\ Said \subseteq Said' /\ m \in Said'
           /\ \A x \in Said' : x \in Said \/ x = m \/ x = <<m[1], "len">>
           /\ \A x \in Unread' : x \in Unread \/ x = m \/ x = <<m[1], "len">>
           /\ m \in Range(todo') /\ <<m[1], "len">>[2] = "len"
<1>1. /\ ServedInv /\ LinkType /\ ChannelInv /\ HostInv
      /\ todo = <<>> /\ prefetched = None /\ to_dev = <<>> /\ host.pend = <<>> /\ ~prefix /\ ~Unconnected
      /\ Up => host.met /\ host.busy /\ \A x \in Said : x[2] \notin Final
      /\ host.met => Up
      /\ cmd.id \in Nat
  BY ServesFacts
<1>2. /\ FramedMsg(m) \in Seq(Messages) /\ FramedMsg(m) # <<>> /\ m \in Range(FramedMsg(m))
      /\ \A x \in Range(FramedMsg(m)) : x = m \/ x = <<m[1], "len">>
  BY <1>1, FramedType
<1>3. <<m[1], "len">>[2] = "len"
  BY <1>1, MessageType
<1>4. LinkType'
  BY <1>1, <1>2 DEF LinkType, channel, Stages, Afters
<1>5. /\ Said = Range(host.seen) \cup Range(to_host) /\ Unread = Range(to_host)
      /\ Said' = Said \cup Range(FramedMsg(m)) /\ Unread' = Unread \cup Range(FramedMsg(m))
  BY <1>1, <1>4, WireType, WireTypeNext, HelloType DEF channel
<1>6. Wire' = Wire \o FramedMsg(m) /\ Wire \in Seq(Messages)
  <2> DEFINE a == host.seen \o to_host
  <2>1. a \in Seq(Messages) /\ Wire = a \o <<>> /\ Wire' = a \o FramedMsg(m)
    BY <1>1, WireType DEF Wire, channel
  <2> HIDE DEF a
  <2>2. a \o <<>> = a
    BY <2>1, ConcatEmptySeq
  <2> QED BY <2>1, <2>2
<1>7. ChannelInv'
  BY <1>1 DEF ChannelInv, channel, Unconnected, Up
<1>8. Up => Talk(Wire', host.sent, host.op)
  <2>1. m[1] \in Nat
    BY <1>1
  <2>2. Talk(Wire, host.sent, host.op) \/ ~Up
    BY <1>1 DEF HostInv
  <2>3. ASSUME Up PROVE Talk(Wire \o FramedMsg(m), host.sent, host.op)
    BY <2>1, <2>2, <2>3, <1>6, TalkFramed
  <2> QED BY <2>3, <1>6
<1>9. HostInv'
  <2>1. host' = host /\ to_host' = to_host /\ (Up' <=> Up) /\ pc' = "send" /\ after' # "handshake"
    BY DEF channel, Up
  <2>2. ASSUME host.met PROVE \A x \in Said' : x[2] # "FB01"
    <3>1. \A x \in Said : x[2] # "FB01"
      BY <2>2, <1>1 DEF HostInv
    <3> QED BY <3>1, <1>2, <1>3, <1>5
  <2> QED BY <2>1, <2>2, <1>1, <1>8 DEF HostInv
<1>10. ServedInv'
  <2>1. ASSUME Up PROVE \A x \in Said' : x[2] \in Final => after' \in {"done", "rebooted"}
    <3>1. "len" \notin Final
      BY DEF Final
    <3> QED BY <3>1, <2>1, <1>1, <1>2, <1>3, <1>5
  <2> QED BY <2>1, <1>1 DEF ServedInv, Receiving, channel, Up
<1>11. ~Attentive' /\ Serving'
  BY <1>2 DEF Attentive, Serving
<1> QED BY <1>2, <1>3, <1>4, <1>5, <1>7, <1>9, <1>10, <1>11

(* An INFO, before DATA, or the reply, when no byte is owed.                *)
LEMMA PlainSays ==
    ASSUME LinkInv, Serving, pc \in {"dispatch", "backend", "complete"},
           NEW k \in {"INFO"} \cup Final,
           UNCHANGED <<channel, cmd, host>>, pc' = "send", todo' = FramedMsg(<<cmd.id, k>>),
           after' \in {"done", "backend", "rebooted"}, resp' \in Responders, ~resp'.err, got' \in Seq(Cells),
           resp'.uploading = resp.uploading, resp'.remaining = resp.remaining,
           k \in Final => after' \in {"done", "rebooted"} /\ resp.remaining = 0,
           after' \in {"backend", "rebooted"} => cmd.op # "download",
           k = "INFO" => ~resp.uploading /\ cmd.op # "download"
    PROVE  LinkInv'
<1> DEFINE m == <<cmd.id, k>>
<1>1. /\ ServedInv /\ UploadInv /\ DownloadInv /\ LinkType /\ ~Asked /\ cmd.id \in Nat /\ cmd.n \in Nat
      /\ cmd.id = host.sent /\ ~Receiving
      /\ Up => \A x \in Said : x[2] \notin Final
  BY ServesFacts
<1>2. m \in Messages /\ m[1] = cmd.id /\ m[2] = k /\ k \notin {"FB01", "DATA", "bytes"}
  BY <1>1, MessageType DEF Final
<1>3. Range(Wire) = Said
  BY DEF Said
<1>4. todo' = FramedMsg(m)
  OBVIOUS
<1> HIDE DEF m
<1>5. ASSUME Up PROVE MayFollow(Wire, m, host.sent, host.op)
  <2>1. \A x \in Said : x[2] \notin Final
    BY <1>1, <1>5
  <2>2. ASSUME k = "INFO" PROVE \A x \in Said : x[2] # "DATA"
    BY <2>2, <1>1, <1>5 DEF UploadInv
  <2>3. ASSUME k \in Final, host.op \in Uploads, NEW x \in Said, x[2] = "DATA", NEW b \in 1..x[3]
        PROVE  \E y \in Said : y[2] = "bytes" /\ b \in y[3]..y[4]
    <3>1. cmd.op = host.op /\ cmd.op # "download"
      BY <2>3, <1>1 DEF ServedInv, Uploads, Simple
    <3>2. resp.uploading /\ x[3] = cmd.n
      BY <2>3, <3>1, <1>1, <1>5 DEF UploadInv
    <3>3. resp.remaining = 0 /\ ~Initiating
      BY <2>3 DEF Initiating
    <3>4. Covered(cmd.n - resp.remaining)
      BY <3>2, <3>3, <1>1, <1>5 DEF UploadInv
    <3>5. cmd.n - resp.remaining = cmd.n
      BY <3>3, <1>1
    <3> QED BY <3>2, <3>4, <3>5, <2>3 DEF Covered
  <2> QED BY <2>1, <2>2, <2>3, <1>1, <1>2, <1>3 DEF MayFollow
<1>6. after' \in Afters \ {"poll", "handshake"}
  BY DEF Afters
<1>7. /\ LinkType' /\ ChannelInv' /\ HostInv' /\ ServedInv' /\ ~Attentive' /\ Serving'
      /\ Said \subseteq Said'
      /\ \A x \in Said' : x \in Said \/ x = m \/ x = <<m[1], "len">>
      /\ \A x \in Unread' : x \in Unread \/ x = m \/ x = <<m[1], "len">>
      /\ <<m[1], "len">>[2] = "len"
  <2>1. m[2] # "FB01" /\ (m[2] \in Final => after' \in {"done", "rebooted"})
        /\ (after' \in {"backend", "initiated", "rebooted"} => cmd.op # "download")
        /\ (after' = "receive" => cmd.op = "download")
    BY <1>2
  <2> QED BY <2>1, <1>2, <1>4, <1>5, <1>6, SaysFacts
<1>8. \A x \in Said' : x[2] \in {"DATA", "bytes"} => x \in Said
  BY <1>2, <1>7
<1>9. \A x \in Unread' : x[2] = "DATA" => x \in Unread
  BY <1>2, <1>7
<1>10. UploadInv'
  <2>1. ~Initiating /\ ~Initiating' /\ pc' # "dispatch" /\ (Up' <=> Up) /\ cmd' = cmd
    BY DEF Initiating, Up
  <2>2. \A n : Covered(n) => Covered(n)'
    BY <1>7 DEF Covered
  <2>3. resp'.uploading = resp.uploading /\ resp'.remaining = resp.remaining
    OBVIOUS
  <2> QED BY <2>1, <2>2, <2>3, <1>1, <1>7, <1>8 DEF UploadInv
<1>11. DownloadInv'
  BY DEF DownloadInv, Receiving
<1>12. ~Asked'
  BY <1>1, <1>9 DEF Asked, Up
<1> QED BY <1>7, <1>10, <1>11, <1>12 DEF LinkInv, AskedInv

(* The command ends without an answer.                                      *)
LEMMA Stops ==
    ASSUME LinkInv, pc \in {"dispatch", "backend", "complete"}, Serving \/ resp.err,
           UNCHANGED <<channel, cmd, resp, todo, after, host>>, got' \in Seq(Cells),
           pc' \in {"error", "panic"}, pc' = "panic" => ~resp.err
    PROVE  LinkInv'
<1>1. LinkType /\ ChannelInv /\ HostInv
  BY DEF LinkInv
<1>2. LinkType'
  BY <1>1 DEF LinkType, channel, Stages
<1>3. ChannelInv'
  BY <1>1 DEF ChannelInv, channel, Unconnected, Up
<1>4. Wire' = Wire /\ Said' = Said /\ Unread' = Unread
  BY WireSame DEF channel
<1>5. HostInv'
  BY <1>1, <1>4 DEF HostInv, channel, Up
<1>6. ~Serving'
  BY DEF Serving
<1>7. Attentive' => Serving \/ Attentive
  BY DEF Attentive, channel
<1>8. ASSUME Serving PROVE Quiet' /\ ~Asked'
  <2>1. prefetched = None /\ to_dev = <<>> /\ host.pend = <<>> /\ ~Asked
    BY <1>8, ServesFacts
  <2>2. Len(<<>>) = 0
    BY EmptySeq
  <2> QED BY <2>1, <2>2, <1>4 DEF Quiet, Asked, channel, Up
<1>9. ASSUME Attentive PROVE Quiet' /\ ~Asked'
  <2>1. resp.err
    BY <1>9 DEF Attentive
  <2>2. Quiet /\ ~Asked
    BY <2>1, <1>9 DEF LinkInv, AskedInv
  <2>3. prefetched = None
    BY <2>2 DEF Quiet
  <2> QED BY <2>2, <2>3, <1>4 DEF Quiet, Asked, channel, Up, Silent
<1> QED BY <1>2, <1>3, <1>5, <1>6, <1>7, <1>8, <1>9 DEF LinkInv, AskedInv

(* The backend is called.                                                   *)
LEMMA CallsBackend ==
    ASSUME LinkInv, Serving, pc = "dispatch", cmd.op # "download", CallBackend,
           UNCHANGED <<channel, resp, got, host, faults>>
    PROVE  LinkInv'
<1>1. /\ ServedInv /\ UploadInv /\ DownloadInv /\ LinkType /\ ChannelInv /\ HostInv
      /\ to_dev = <<>> /\ host.pend = <<>> /\ ~Asked /\ ~resp.err /\ ~Receiving /\ ~Unconnected
      /\ Up => host.busy /\ \A x \in Said : x[2] \notin Final
  BY ServesFacts
<1>2. /\ cmd' \in Packets /\ cmd'.id = cmd.id /\ cmd'.n = cmd.n /\ cmd'.op # "download"
      /\ cmd'.op = cmd.op \/ (cmd'.op = "simple" /\ cmd.op \in Simple)
      /\ cmd.op \in Uploads => cmd'.op = cmd.op
  <2>1. cmd \in Packets
    BY <1>1 DEF LinkType
  <2>2. cmd' = [cmd EXCEPT !.op = IF cmd.op \in Simple THEN "simple" ELSE cmd.op]
    BY <2>1 DEF CallBackend, Packets
  <2>3. cmd'.op = IF cmd.op \in Simple THEN "simple" ELSE cmd.op
    BY <2>1, <2>2 DEF Packets
  <2>4. cmd' \in Packets /\ cmd'.id = cmd.id /\ cmd'.n = cmd.n
    BY <2>1, <2>2 DEF Packets, WireOps
  <2>5. cmd.op \in Uploads => cmd.op \notin Simple
    BY DEF Uploads, Simple
  <2> QED BY <2>3, <2>4, <2>5
<1>3. pc' = "backend" /\ todo' = todo /\ after' = after
  BY DEF CallBackend, Goto
<1>4. LinkType'
  BY <1>1, <1>2, <1>3 DEF LinkType, channel, Stages
<1>5. Wire' = Wire /\ Said' = Said /\ Unread' = Unread
  BY <1>3, WireSame DEF channel
<1>6. ChannelInv'
  BY <1>1, <1>3 DEF ChannelInv, channel, Unconnected, Up
<1>7. HostInv'
  BY <1>1, <1>3, <1>5 DEF HostInv, channel, Up
<1>8. ~Attentive' /\ ~Receiving'
  BY <1>1, <1>3 DEF Attentive, Receiving
<1>9. ServedInv'
  <2>1. cmd'.op = host.op \/ (cmd'.op = "simple" /\ host.op \in Simple)
    BY <1>1, <1>2 DEF ServedInv, Simple
  <2> QED BY <1>1, <1>2, <1>3, <1>5, <1>8, <2>1 DEF ServedInv, channel, Up
<1>10. UploadInv'
  <2>1. resp = Responder /\ ~resp.uploading /\ resp.remaining = 0
    BY <1>1 DEF ChannelInv, Responder
  <2>2. Up => Said = {}
    <3>1. Up => Wire = <<>>
      BY <1>1 DEF UploadInv
    <3> QED BY <3>1, HelloType DEF Said
  <2>3. resp' = resp /\ (Up' <=> Up) /\ 0 =< cmd'.n
    BY <1>4 DEF Up, LinkType, Packets
  <2> QED BY <2>1, <2>2, <2>3, <1>3, <1>5 DEF UploadInv, Initiating
<1>11. DownloadInv'
  BY <1>3, <1>8 DEF DownloadInv
<1>12. ~Asked'
  BY <1>1, <1>5 DEF Asked, Up
<1> QED BY <1>4, <1>6, <1>7, <1>8, <1>9, <1>10, <1>11, <1>12 DEF LinkInv, AskedInv

(* reply(): from dispatch, after a download and from the backend.           *)
LEMMA Replies ==
    ASSUME LinkInv, Serving \/ resp.err, pc \in {"dispatch", "backend", "complete"}, NEW r \in Final, reply(r),
           resp.remaining = 0 \/ resp.err,
           UNCHANGED <<channel, cmd, resp, host>>, got' \in Seq(Cells)
    PROVE  LinkInv'
<1>1. CASE resp.err
  <2>1. pc' = "error" /\ UNCHANGED <<todo, after>>
    BY <1>1 DEF reply, send_buffer
  <2> QED BY <1>1, <2>1, Stops
<1>2. CASE ~resp.err /\ pc' = "panic"
  <2>1. UNCHANGED <<todo, after>>
    BY <1>2 DEF reply, send_buffer
  <2> QED BY <1>2, <2>1, Stops
<1>3. CASE ~resp.err /\ pc' # "panic"
  <2>1. pc' = "send" /\ todo' = FramedMsg(<<cmd.id, r>>) /\ after' = "done"
    BY <1>3 DEF reply, send_buffer
  <2>2. resp \in Responders /\ resp' = resp
    BY DEF LinkInv, LinkType
  <2>3. r # "INFO"
    BY DEF Final
  <2> QED BY <1>3, <2>1, <2>2, <2>3, PlainSays
<1> QED BY <1>1, <1>2, <1>3

-----------------------------------------------------------------------------
(* The handlers. *)
LEMMA DispatchFacts ==
    ASSUME LinkInv, pc = "dispatch", cmd.op \notin {"zlp", "len", "FB01", "junk"}
    PROVE  Serving /\ resp.remaining = 0 /\ ~resp.uploading /\ ~resp.err /\ got \in Seq(Cells) /\ resp \in Responders
<1>1. resp = Responder
  BY DEF LinkInv, ChannelInv
<1>2. ~Idle(cmd, link)
  BY DEF Idle
<1> QED BY <1>1, <1>2 DEF Serving, Responder, LinkInv, LinkType

LEMMA ArgumentsInv ==
    ASSUME LinkInv, NEW op \in Ops \ {"download"}, Serve(op), IfArgs(CallBackend)
    PROVE  LinkInv'
<1>1. cmd.op \notin {"zlp", "len", "FB01", "junk", "download"} /\ pc = "dispatch"
      /\ UNCHANGED <<channel, resp, got, host, faults>>
  BY DEF Serve, Ops, Simple, Uploads
<1>2. Serving /\ resp.remaining = 0 /\ got' \in Seq(Cells)
  BY <1>1, DispatchFacts
<1>3. CASE cmd.n = 0
  <2>1. reply("FAIL") /\ UNCHANGED cmd /\ "FAIL" \in Final
    BY <1>3 DEF IfArgs, Final
  <2> QED BY <1>1, <1>2, <2>1, Replies
<1>4. CASE cmd.n # 0
  <2>1. CallBackend
    BY <1>4 DEF IfArgs
  <2> QED BY <1>1, <1>2, <2>1, CallsBackend
<1> QED BY <1>3, <1>4

LEMMA NoArgumentsInv ==
    ASSUME LinkInv, NEW op \in Ops \ {"download"}, Serve(op), CallBackend
    PROVE  LinkInv'
<1>1. cmd.op \notin {"zlp", "len", "FB01", "junk", "download"} /\ pc = "dispatch"
      /\ UNCHANGED <<channel, resp, got, host, faults>>
  BY DEF Serve, Ops, Simple, Uploads
<1>2. Serving
  BY <1>1, DispatchFacts
<1> QED BY <1>1, <1>2, CallsBackend

LEMMA CommandsInv ==
    ASSUME LinkInv,
           flash \/ erase \/ set_active \/ fetch \/ upload \/ oem \/ reboot \/ boot \/ continue \/ NotFound \/ get_var
    PROVE  LinkInv'
<1>1. CASE flash \/ erase \/ set_active \/ fetch \/ (Serve("getvar") /\ IfArgs(CallBackend))
  <2>1. {"flash", "erase", "set_active", "fetch", "getvar"} \subseteq Ops \ {"download"}
    BY DEF Ops, Simple, Uploads
  <2> QED BY <1>1, <2>1, ArgumentsInv DEF flash, erase, set_active, fetch
<1>2. CASE upload \/ oem \/ reboot \/ boot \/ continue
  <2>1. {"upload", "oem", "reboot", "boot", "continue"} \subseteq Ops \ {"download"}
    BY DEF Ops, Simple, Uploads
  <2> QED BY <1>2, <2>1, NoArgumentsInv DEF upload, oem, reboot, boot, continue
<1>3. ASSUME NEW op \in {"unknown", "data", "all", "max_download"}, NEW r \in Final, Serve(op), reply(r), UNCHANGED cmd
      PROVE  LinkInv'
  <2>1. cmd.op \notin {"zlp", "len", "FB01", "junk"} /\ pc = "dispatch" /\ UNCHANGED <<channel, resp, got, host, faults>>
    BY <1>3 DEF Serve
  <2>2. Serving /\ resp.remaining = 0 /\ got' \in Seq(Cells)
    BY <2>1, DispatchFacts
  <2> QED BY <1>3, <2>1, <2>2, Replies
<1>4. CASE NotFound
  BY <1>3, <1>4 DEF NotFound, Final
<1>5. CASE Serve("max_download") /\ reply("OKAY") /\ UNCHANGED cmd
  BY <1>3, <1>5 DEF Final
<1> QED BY <1>1, <1>2, <1>4, <1>5 DEF get_var

(* An INFO before the backend goes on.                                      *)
LEMMA InfoSays ==
    ASSUME LinkInv, Serving, pc \in {"dispatch", "backend"}, ~resp.uploading, cmd.op # "download",
           send_info("backend"), UNCHANGED <<channel, cmd, got, host>>,
           resp' = resp \/ resp' = [resp EXCEPT !.infos = @ + 1]
    PROVE  LinkInv' \/ pc' = "panic"
<1>1. got' \in Seq(Cells) /\ resp \in Responders /\ ~resp.err
  BY DEF LinkInv, LinkType, Serving
<1>2. /\ resp' \in Responders /\ ~resp'.err /\ resp'.uploading = resp.uploading /\ resp'.remaining = resp.remaining
  BY <1>1 DEF Responders
<1>3. CASE pc' # "panic"
  <2>1. pc' = "send" /\ todo' = FramedMsg(<<cmd.id, "INFO">>) /\ after' = "backend"
    BY <1>1, <1>3 DEF send_info, send_buffer
  <2>2. "INFO" \notin Final
    BY DEF Final
  <2> QED BY <1>1, <1>2, <2>1, <2>2, PlainSays
<1> QED BY <1>3

LEMMA get_var_allInv ==
    ASSUME LinkInv, get_var_all
    PROVE  LinkInv'
<1>1. cmd.op = "getvar_all" /\ pc = "dispatch" /\ UNCHANGED <<channel, cmd, resp, got, host, faults>> /\ send_info("backend")
  BY DEF get_var_all, Serve
<1>2. Serving /\ ~resp.uploading /\ ~resp.err /\ got' \in Seq(Cells)
  BY <1>1, DispatchFacts
<1>3. CASE pc' = "panic"
  <2>1. UNCHANGED <<todo, after>>
    BY <1>1, <1>2, <1>3 DEF send_info, send_buffer
  <2> QED BY <1>1, <1>2, <1>3, <2>1, Stops
<1>4. CASE pc' # "panic"
  BY <1>1, <1>2, <1>4, InfoSays
<1> QED BY <1>3, <1>4

LEMMA BackendInfoInv ==
    ASSUME LinkInv, BackendInfo
    PROVE  LinkInv'
<1>1. pc = "backend" /\ ~resp.uploading /\ ~resp.err /\ send_info("backend") /\ resp' = [resp EXCEPT !.infos = @ + 1]
      /\ UNCHANGED <<channel, cmd, got, host, faults>>
  BY DEF BackendInfo
<1>2. Serving /\ cmd.op # "download" /\ got' \in Seq(Cells) /\ resp \in Responders
  <2>1. Serving
    BY <1>1 DEF Serving
  <2> QED BY <1>1, <2>1 DEF LinkInv, ServedInv, LinkType
<1>3. CASE pc' # "panic"
  BY <1>1, <1>2, <1>3, InfoSays
<1>4. CASE pc' = "panic"
  <2>1. UNCHANGED <<todo, after>>
    BY <1>1, <1>4 DEF send_info, send_buffer
  <2>2. resp' \in Responders /\ ~resp'.err
    BY <1>1, <1>2 DEF Responders
  <2>3. /\ ServedInv /\ LinkType /\ ChannelInv /\ HostInv /\ ~Unconnected /\ todo = <<>> /\ ~prefix
    BY <1>1, <1>2, ServesFacts
  <2>4. LinkType'
    BY <1>1, <1>2, <1>4, <2>1, <2>2, <2>3 DEF LinkType, channel, Stages
  <2>5. ChannelInv'
    BY <1>1, <1>4, <2>1, <2>3 DEF ChannelInv, channel, Unconnected, Up
  <2>6. Wire' = Wire /\ Said' = Said
    BY <1>1, <2>1, WireSame DEF channel
  <2>7. HostInv'
    BY <1>1, <1>4, <2>1, <2>3, <2>6 DEF HostInv, channel, Up
  <2>8. ~Attentive' /\ ~Serving'
    BY <1>4, <2>2 DEF Attentive, Serving
  <2> QED BY <2>4, <2>5, <2>7, <2>8 DEF LinkInv
<1> QED BY <1>3, <1>4

LEMMA downloadInv ==
    ASSUME LinkInv, download
    PROVE  LinkInv'
<1>1. pc = "dispatch" /\ cmd.op = "download" /\ got' = <<>> /\ UNCHANGED <<channel, cmd, resp, host, faults>>
  BY DEF download
<1>2. Serving /\ resp.remaining = 0 /\ ~resp.uploading /\ ~resp.err /\ resp \in Responders
  BY <1>1, DispatchFacts
<1>3. got' \in Seq(Cells) /\ Len(got') = 0
  BY <1>1, EmptySeq
<1>4. CASE cmd.n = 0
  <2>1. reply("FAIL") /\ "FAIL" \in Final
    BY <1>4 DEF download, Final
  <2> QED BY <1>1, <1>2, <1>3, <2>1, Replies
<1>5. CASE cmd.n # 0
  <2> DEFINE m == <<cmd.id, "DATA", cmd.n>>
  <2>1. pc' = "send" /\ todo' = FramedMsg(m) /\ after' = "receive"
    BY <1>2, <1>5 DEF download, send_data_message
  <2>2. /\ ServedInv /\ UploadInv /\ LinkType /\ ~Asked /\ cmd.id \in Nat /\ cmd.n \in Nat
        /\ cmd.id = host.sent /\ to_dev = <<>> /\ host.pend = <<>> /\ ~prefix
    BY <1>1, <1>2, ServesFacts
  <2>3. m \in Messages /\ m[1] = cmd.id /\ m[2] = "DATA" /\ m[3] = cmd.n
    BY <2>2, MessageType
  <2> HIDE DEF m
  <2>4. ASSUME Up PROVE Said = {} /\ MayFollow(Wire, m, host.sent, host.op)
    <3>1. Said = {}
      <4>1. Wire = <<>>
        BY <2>2, <2>4, <1>1 DEF UploadInv
      <4> QED BY <4>1, HelloType DEF Said
    <3> QED BY <3>1, <2>2, <2>3 DEF MayFollow, Said, Final
  <2>5. after' \in Afters \ {"poll", "handshake"} /\ m[2] # "FB01" /\ m[2] \notin Final /\ resp' = resp
    BY <1>1, <2>1, <2>3 DEF Afters, Final
  <2>6. /\ LinkType' /\ ChannelInv' /\ HostInv' /\ ServedInv' /\ ~Attentive' /\ Serving'
        /\ \A x \in Said' : x \in Said \/ x = m \/ x = <<m[1], "len">>
        /\ m \in Range(todo') /\ <<m[1], "len">>[2] = "len"
    BY <1>1, <1>2, <1>3, <2>1, <2>3, <2>4, <2>5, SaysFacts
  <2>7. UploadInv'
    <3>1. ~Initiating' /\ (Up' <=> Up) /\ pc' # "dispatch" /\ resp' = resp /\ cmd' = cmd
      BY <1>1, <2>1 DEF Initiating, Up
    <3>2. Up => \A x \in Said' : x = m \/ x = <<m[1], "len">>
      BY <2>4, <2>6
    <3>3. 0 =< cmd.n
      BY <2>2
    <3> QED BY <3>1, <3>2, <3>3, <1>1, <1>2, <2>3, <2>6 DEF UploadInv
  <2>8. Ahead' = <<>>
    BY <1>1, <2>2, EmptySeq, ConcatEmptySeq DEF Ahead, channel
  <2>9. DownloadInv'
    <3>1. Len(Ahead') = 0
      BY <2>8, EmptySeq
    <3>2. \A d : RestOf(d)'
      BY <3>1 DEF RestOf
    <3>3. got' = [i \in 1..Len(got') |-> <<cmd.id, i>>]
      BY <1>1, <1>3
    <3>4. cmd'.n > 0 /\ Len(got') < cmd'.n
      BY <1>1, <1>3, <1>5, <2>2
    <3>5. pc' # "complete" /\ after' = "receive" /\ cmd' = cmd /\ got' = <<>>
      BY <1>1, <2>1
    <3>6. todo'[Len(todo')] = m /\ m[2] = "DATA"
      <4>1. m[1] \in Nat
        BY <2>2, <2>3
      <4> QED BY <4>1, <2>1, <2>3, FramedType
    <3>7. RestOf(DataPackets(cmd.id, cmd.n))'
      BY <3>1 DEF RestOf
    <3> QED BY <3>3, <3>4, <3>5, <3>6, <3>7 DEF DownloadInv
  <2>10. AskedInv'
    BY <1>1, <1>2, <2>1, <2>2 DEF AskedInv, Receiving, channel
  <2> QED BY <2>6, <2>7, <2>9, <2>10 DEF LinkInv
<1> QED BY <1>4, <1>5

LEMMA download_completeInv ==
    ASSUME LinkInv, download_complete
    PROVE  LinkInv'
<1>1. pc = "complete" /\ got' = <<>> /\ UNCHANGED <<channel, cmd, resp, host, faults>>
  BY DEF download_complete
<1>2. ~resp.err /\ Serving
  BY <1>1 DEF LinkInv, ChannelInv, Serving
<1>3. resp.remaining = 0
  <2>1. ServedInv /\ UploadInv
    BY <1>1, <1>2, ServesFacts
  <2>2. cmd.op = "download"
    BY <1>1, <2>1 DEF ServedInv
  <2> QED BY <2>1, <2>2 DEF UploadInv, Uploads
<1>4. got' \in Seq(Cells)
  BY <1>1, EmptySeq
<1>5. PICK r \in Final : reply(r)
  BY DEF download_complete
<1> QED BY <1>1, <1>2, <1>3, <1>4, <1>5, Replies

LEMMA BackendReturnsInv ==
    ASSUME LinkInv, BackendReturns
    PROVE  LinkInv'
<1>1. pc = "backend" /\ UNCHANGED <<channel, cmd, resp, got, host, faults>>
  BY DEF BackendReturns
<1>2. Serving \/ resp.err
  BY <1>1 DEF Serving
<1>3. got' \in Seq(Cells) /\ resp.remaining \in Nat
  BY <1>1 DEF LinkInv, LinkType, Responders
<1>4. CASE resp.remaining > 0
  <2>1. pc' = "error" /\ UNCHANGED <<todo, after>>
    BY <1>4 DEF BackendReturns, Goto
  <2> QED BY <1>1, <1>2, <1>3, <2>1, Stops
<1>5. CASE ~(resp.remaining > 0)
  <2>1. \E r \in Final : reply(r)
    BY <1>5 DEF BackendReturns, Final
  <2>2. PICK r \in Final : reply(r)
    BY <2>1
  <2>3. resp.remaining = 0
    BY <1>3, <1>5
  <2> QED BY <1>1, <1>2, <1>3, <2>2, <2>3, Replies
<1> QED BY <1>4, <1>5

LEMMA BackendRebootsInv ==
    ASSUME LinkInv, BackendReboots
    PROVE  LinkInv'
<1>1. pc = "backend" /\ cmd.op = "reboot" /\ ~resp.err /\ UNCHANGED <<channel, cmd, resp, got, host, faults>>
  BY DEF BackendReboots
<1>2. Serving
  BY <1>1 DEF Serving
<1>3. got' \in Seq(Cells) /\ resp' \in Responders /\ ~resp'.err /\ resp' = resp
  BY <1>1 DEF LinkInv, LinkType
<1>4. ~resp.uploading /\ resp.remaining = 0
  BY <1>1, <1>2 DEF LinkInv, UploadInv, Uploads
<1>5. CASE pc' = "panic"
  <2>1. UNCHANGED <<todo, after>>
    BY <1>1, <1>5 DEF BackendReboots, send_buffer
  <2> QED BY <1>1, <1>2, <1>3, <1>5, <2>1, Stops
<1>6. CASE pc' # "panic"
  <2>1. pc' = "send" /\ todo' = FramedMsg(<<cmd.id, "OKAY">>) /\ after' = "rebooted"
    BY <1>1, <1>6 DEF BackendReboots, send_buffer
  <2>2. "OKAY" \in Final
    BY DEF Final
  <2> QED BY <1>1, <1>2, <1>3, <1>4, <2>1, <2>2, PlainSays
<1> QED BY <1>5, <1>6

LEMMA initiate_uploadInv ==
    ASSUME LinkInv, initiate_upload
    PROVE  LinkInv'
<1>1. /\ pc = "backend" /\ cmd.op \in Uploads /\ ~resp.uploading /\ ~resp.err
      /\ resp' = [resp EXCEPT !.uploading = TRUE] /\ UNCHANGED <<channel, cmd, got, host, faults>>
  BY DEF initiate_upload
<1> DEFINE m == <<cmd.id, "DATA", cmd.n>>
<1>2. pc' = "send" /\ todo' = FramedMsg(m) /\ after' = "initiated"
  BY <1>1 DEF initiate_upload, send_data_message
<1>3. Serving
  BY <1>1 DEF Serving
<1>4. /\ ServedInv /\ UploadInv /\ LinkType /\ ~Asked /\ cmd.id \in Nat /\ cmd.n \in Nat
      /\ cmd.id = host.sent /\ (Up => \A x \in Said : x[2] \notin Final)
  BY <1>1, <1>3, ServesFacts
<1>5. m \in Messages /\ m[1] = cmd.id /\ m[2] = "DATA" /\ m[3] = cmd.n
  BY <1>4, MessageType
<1>6. resp' \in Responders /\ ~resp'.err /\ resp'.uploading /\ resp'.remaining = 0 /\ got' \in Seq(Cells)
  <2>1. resp \in Responders /\ got \in Seq(Cells)
    BY <1>4 DEF LinkType
  <2>2. resp.remaining = 0
    BY <1>1, <1>4 DEF UploadInv
  <2> QED BY <1>1, <2>1, <2>2 DEF Responders
<1>7. cmd.op # "download" /\ cmd.op = host.op
  BY <1>1, <1>4 DEF ServedInv, Uploads
<1> HIDE DEF m
<1>8. ASSUME Up PROVE (\A x \in Said : x[2] \notin {"DATA", "bytes"}) /\ MayFollow(Wire, m, host.sent, host.op)
  <2>1. \A x \in Said : x[2] \notin {"DATA", "bytes"}
    BY <1>1, <1>4, <1>7, <1>8 DEF UploadInv
  <2> QED BY <2>1, <1>4, <1>5, <1>8 DEF MayFollow, Said, Final
<1>9. after' \in Afters \ {"poll", "handshake"} /\ m[2] # "FB01" /\ m[2] \notin Final
  BY <1>2, <1>5 DEF Afters, Final
<1>10. /\ LinkType' /\ ChannelInv' /\ HostInv' /\ ServedInv' /\ ~Attentive' /\ Serving' /\ m \in Said'
       /\ \A x \in Said' : x \in Said \/ x = m \/ x = <<m[1], "len">>
       /\ <<m[1], "len">>[2] = "len"
  BY <1>1, <1>2, <1>3, <1>5, <1>6, <1>7, <1>8, <1>9, SaysFacts
<1>11. UploadInv'
  <2>1. Initiating' /\ (Up' <=> Up) /\ pc' # "dispatch" /\ cmd' = cmd
    BY <1>1, <1>2 DEF Initiating, Up
  <2>2. Up => \A x \in Said' : x[2] # "bytes" /\ (x[2] = "DATA" => x = m)
    BY <1>5, <1>8, <1>10
  <2>3. 0 =< cmd.n
    BY <1>4
  <2> QED BY <2>1, <2>2, <2>3, <1>1, <1>5, <1>6, <1>10 DEF UploadInv
<1>12. DownloadInv'
  BY <1>2 DEF DownloadInv, Receiving
<1>13. ~Asked'
  <2>1. host'.op # "download"
    BY <1>1, <1>7
  <2> QED BY <2>1 DEF Asked
<1> QED BY <1>10, <1>11, <1>12, <1>13 DEF LinkInv, AskedInv

LEMMA upload_dataInv ==
    ASSUME LinkInv, upload_data
    PROVE  LinkInv'
<1>1. pc = "backend" /\ ~resp.err /\ UNCHANGED <<channel, cmd, got, host, faults>>
  BY DEF upload_data
<1>2. PICK k \in 1..resp.remaining :
        /\ resp' = [resp EXCEPT !.remaining = @ - k] /\ pc' = "send" /\ after' = "backend"
        /\ todo' = FramedMsg(<<cmd.id, "bytes", (cmd.n - resp.remaining) + 1, (cmd.n - resp.remaining) + k>>)
  BY DEF upload_data
<1>3. Serving
  BY <1>1 DEF Serving
<1>4. /\ ServedInv /\ UploadInv /\ LinkType /\ ~Asked /\ cmd.id \in Nat /\ cmd.n \in Nat
      /\ cmd.id = host.sent /\ (Up => \A x \in Said : x[2] \notin Final) /\ resp \in Responders /\ got \in Seq(Cells)
  BY <1>1, <1>3, ServesFacts DEF LinkType
<1>5. resp.remaining \in Nat /\ k \in Nat /\ k >= 1 /\ k =< resp.remaining
  BY <1>4 DEF Responders
<1>6. resp.uploading /\ ~Initiating /\ cmd.op \in Uploads /\ cmd.op # "download"
  <2>1. resp.uploading /\ ~Initiating
    BY <1>1, <1>4, <1>5 DEF UploadInv, Initiating
  <2> QED BY <2>1, <1>4 DEF UploadInv, Uploads
<1>7. /\ resp' \in Responders /\ ~resp'.err /\ resp'.uploading = resp.uploading
      /\ resp'.remaining = resp.remaining - k /\ got' \in Seq(Cells)
  <2>1. resp.remaining - k \in Nat
    BY <1>5
  <2> QED BY <2>1, <1>1, <1>2, <1>4 DEF Responders
<1> DEFINE d == cmd.n - resp.remaining
           m == <<cmd.id, "bytes", d + 1, d + k>>
<1>8. d \in Nat /\ d + k =< cmd.n /\ cmd.n - resp'.remaining = d + k /\ resp'.remaining =< cmd.n
  <2>1. resp.remaining =< cmd.n
    BY <1>4 DEF UploadInv
  <2>2. ASSUME NEW n \in Nat, NEW r \in Nat, NEW j \in Nat, r =< n, j >= 1, j =< r
        PROVE  n - r \in Nat /\ (n - r) + j =< n /\ n - (r - j) = (n - r) + j /\ r - j =< n
    BY <2>2
  <2>3. cmd.n \in Nat /\ resp.remaining \in Nat /\ k \in Nat /\ resp'.remaining = resp.remaining - k
    BY <1>4, <1>5, <1>7
  <2>4. /\ cmd.n - resp.remaining \in Nat /\ (cmd.n - resp.remaining) + k =< cmd.n
        /\ cmd.n - (resp.remaining - k) = (cmd.n - resp.remaining) + k /\ resp.remaining - k =< cmd.n
    BY <2>1, <2>2, <2>3, <1>5
  <2> QED BY <2>3, <2>4
<1>9. m \in Messages /\ m[1] = cmd.id /\ m[2] = "bytes" /\ m[3] = d + 1 /\ m[4] = d + k /\ todo' = FramedMsg(m)
  <2>1. d + 1 \in Nat /\ d + k \in Nat
    BY <1>5, <1>8
  <2>2. todo' = FramedMsg(m)
    BY <1>2
  <2> HIDE DEF d
  <2>3. m \in Messages /\ m[1] = cmd.id /\ m[2] = "bytes" /\ m[3] = d + 1 /\ m[4] = d + k
    <3> DEFINE u == d + 1
               v == d + k
    <3>1. u \in Nat /\ v \in Nat /\ m = <<cmd.id, "bytes", u, v>> /\ cmd.id \in Nat
      BY <2>1, <1>4
    <3> HIDE DEF u, v, m
    <3>2. m \in Messages /\ m[1] = cmd.id /\ m[2] = "bytes" /\ m[3] = u /\ m[4] = v
      BY <3>1, MessageType
    <3> QED BY <3>2 DEF u, v
  <2> QED BY <2>2, <2>3
<1>10. ASSUME Up
       PROVE  /\ \A b \in 1..d : \E x \in Said : x[2] = "bytes" /\ b \in x[3]..x[4]
              /\ \A x \in Said : (x[2] = "bytes" => x[4] =< d) /\ (x[2] = "DATA" => x[3] = cmd.n)
              /\ \E x \in Said : x[2] = "DATA"
  BY <1>4, <1>6, <1>10 DEF UploadInv, Covered
<1> HIDE DEF m, d
<1>11. \A x \in Said : x[2] = "bytes" => x[4] \in Nat
  <2>1. \A x \in Said : x \in Messages
    BY <1>4, WireType, RangeOf DEF Said
  <2> QED BY <2>1 DEF Messages, Final
<1>12. ASSUME Up PROVE MayFollow(Wire, m, host.sent, host.op)
  <2>1. \A x \in Said : (x[2] = "DATA" => m[4] =< x[3]) /\ (x[2] = "bytes" => x[4] < m[3])
    BY <1>8, <1>9, <1>10, <1>11, <1>12
  <2> QED BY <2>1, <1>4, <1>9, <1>10, <1>12 DEF MayFollow, Said, Final
<1>13. after' \in Afters \ {"poll", "handshake"} /\ m[2] # "FB01" /\ m[2] \notin Final /\ after' = "backend"
  BY <1>2, <1>9 DEF Afters, Final
<1>14. /\ LinkType' /\ ChannelInv' /\ HostInv' /\ ServedInv' /\ ~Attentive' /\ Serving' /\ m \in Said' /\ Said \subseteq Said'
       /\ \A x \in Said' : x \in Said \/ x = m \/ x = <<m[1], "len">>
       /\ \A x \in Unread' : x \in Unread \/ x = m \/ x = <<m[1], "len">>
       /\ <<m[1], "len">>[2] = "len"
  BY <1>1, <1>2, <1>3, <1>6, <1>7, <1>9, <1>12, <1>13, SaysFacts
<1>15. ASSUME Up, NEW b \in 1..(d + k) PROVE \E x \in Said' : x[2] = "bytes" /\ b \in x[3]..x[4]
  <2>1. CASE b =< d
    <3>1. b \in 1..d
      BY <2>1, <1>8
    <3> QED BY <3>1, <1>10, <1>14, <1>15
  <2>2. CASE ~(b =< d)
    <3>1. b \in (d + 1)..(d + k)
      BY <2>2, <1>5, <1>8
    <3> QED BY <3>1, <1>9, <1>14
  <2> QED BY <2>1, <2>2
<1>16. UploadInv'
  <2>1. ~Initiating' /\ (Up' <=> Up) /\ pc' # "dispatch" /\ cmd' = cmd
    BY <1>1, <1>2 DEF Initiating, Up
  <2>2. ASSUME Up PROVE \A x \in Said' : (x[2] = "bytes" => x[4] =< d + k) /\ (x[2] = "DATA" => x[3] = cmd.n)
    <3>1. \A x \in Said : x[2] = "bytes" => x[4] =< d + k
      BY <1>5, <1>8, <1>10, <1>11, <2>2
    <3>2. d + k =< d + k
      BY <1>5, <1>8
    <3> QED BY <3>1, <3>2, <1>9, <1>10, <1>14, <2>2
  <2>3. Up => \E x \in Said' : x[2] = "DATA"
    BY <1>10, <1>14
  <2>4. cmd'.n - resp'.remaining = d + k
    BY <1>8, <2>1
  <2>5. Up => Covered(cmd.n - resp.remaining)'
    BY <1>15, <2>4 DEF Covered
  <2> QED BY <2>1, <2>2, <2>3, <2>4, <2>5, <1>6, <1>7, <1>8 DEF UploadInv
<1>17. DownloadInv'
  BY <1>2 DEF DownloadInv, Receiving
<1>18. ~Asked'
  BY <1>1, <1>4, <1>9, <1>14 DEF Asked, Up
<1> QED BY <1>14, <1>16, <1>17, <1>18 DEF LinkInv, AskedInv

-----------------------------------------------------------------------------
(* The transport. *)

(* A device that waits, before a host that has at most dialled.             *)
LEMMA GreetingQuiet ==
    ASSUME LinkType', link' = "tcp", prefetched' = None, to_dev' = <<>>,
           host'.pend = <<>> \/ \E good \in BOOLEAN : host'.pend = <<Handshake(good)>>
    PROVE  Quiet'
<1>1. Len(<<>>) = 0
  BY EmptySeq
<1>2. CASE host'.pend = <<>>
  BY <1>1, <1>2 DEF Quiet
<1>3. CASE \E good \in BOOLEAN : host'.pend = <<Handshake(good)>>
  <2>1. PICK good \in BOOLEAN : host'.pend = <<Handshake(good)>>
    BY <1>3
  <2>2. Handshake(good) \in Packets
    BY DEF Handshake, Packet, Packets, WireOps
  <2>3. Len(<<Handshake(good)>>) = 1 /\ <<Handshake(good)>>[1] = Handshake(good)
    BY <2>2, OneOrTwo
  <2>4. Idle(Handshake(good), link')
    BY DEF Idle, Handshake, Packet
  <2>5. \A i \in 1..1 : i = 1
    OBVIOUS
  <2> QED BY <1>1, <2>1, <2>3, <2>4, <2>5 DEF Quiet
<1> QED BY <1>2, <1>3

LEMMA SessionErrorInv ==
    ASSUME LinkInv, SessionError, pc \in {"error", "command", "receive", "handshake"}, pc \in {"error", "command"} \/ link = "tcp",
           UNCHANGED <<link, sock, old, to_dev, to_host, prefetched, host>>
    PROVE  LinkInv'
<1>1. LinkType /\ ChannelInv /\ HostInv
  BY DEF LinkInv
<1>2. pc' = "poll" /\ after' = "poll" /\ cmd' = NoCommand /\ resp' = Responder /\ todo' = <<>> /\ prefix' = FALSE /\ got' = <<>>
  BY DEF SessionError
<1>3. todo = <<>> /\ todo' = todo
  BY <1>1, <1>2 DEF ChannelInv
<1>4. LinkType'
  <2>1. NoCommand \in Packets /\ Responder \in Responders /\ <<>> \in Seq(Messages) /\ <<>> \in Seq(Cells)
    BY EmptySeq DEF NoCommand, Packets, WireOps, Responder, Responders
  <2> QED BY <1>1, <1>2, <2>1 DEF LinkType, Stages, Afters
<1>5. ChannelInv'
  BY <1>1, <1>2 DEF ChannelInv, Unconnected, Up
<1>6. Wire' = Wire /\ Said' = Said /\ Unread' = Unread
  BY <1>3, WireSame
<1>7. HostInv'
  BY <1>1, <1>2, <1>3, <1>6 DEF HostInv, Up
<1>8. ~Serving'
  BY <1>2 DEF Serving
<1>9. ASSUME Attentive' PROVE Quiet' /\ ~Asked'
  <2>1. CASE link = "usb"
    <3>1. pc \in {"error", "command"} /\ Attentive
      BY <2>1 DEF Attentive
    <3>2. Quiet /\ AskedInv
      BY <3>1 DEF LinkInv
    <3>3. ~Asked
      BY <3>1, <3>2 DEF AskedInv, Receiving
    <3> QED BY <1>2, <1>3, <1>6, <3>2, <3>3 DEF Quiet, Silent, Asked, Up
  <2>2. CASE link # "usb"
    <3>1. Unconnected'
      BY <1>2, <1>9, <2>2 DEF Attentive
    <3>2. /\ link' = "tcp" /\ prefetched' = None /\ to_dev' = <<>> /\ to_host' = <<>>
          /\ host'.pend = <<>> \/ \E good \in BOOLEAN : host'.pend = <<Handshake(good)>>
      BY <1>5, <3>1 DEF ChannelInv, Unconnected
    <3>3. Unread' = {}
      BY <1>2, <1>4, <3>2, WireTypeNext, HelloType
    <3> QED BY <1>4, <3>2, <3>3, GreetingQuiet DEF Asked
  <2> QED BY <2>1, <2>2
<1> QED BY <1>4, <1>5, <1>7, <1>8, <1>9 DEF LinkInv, AskedInv

LEMMA ErrorInv ==
    ASSUME LinkInv, Error \/ receive_exact_fails \/ BufferTooSmall
    PROVE  LinkInv'
BY SessionErrorInv DEF Error, receive_exact_fails, BufferTooSmall

(* Interface::poll() does not undo a connection.                            *)
LEMMA PollFacts ==
    ASSUME NEW s \in {"closed", "listen", "syn", "open", "fin"}, NEW t \in Poll(s)
    PROVE  /\ t \in {"closed", "listen", "syn", "open", "fin"}
           /\ s \in {"open", "fin"} => t \in {"open", "fin"}
           /\ s = "closed" <=> t = "closed"
<1> DEFINE step == [listen |-> IF host.conn = "up" THEN {"listen", "syn", "open"} ELSE {"listen"},
                 syn    |-> CASE host.conn = "up"   -> {"syn", "open"}
                              [] host.conn = "shut" -> {"syn", "listen"}
                              [] OTHER              -> {"syn"},
                 open   |-> IF host.conn = "shut" THEN {"open", "fin"} ELSE {"open"},
                 fin    |-> {"fin"}, closed |-> {"closed"}]
<1>1. t \in step[s]
  BY DEF Poll
<1>2. CASE s = "closed"
  BY <1>1, <1>2
<1>3. CASE s = "listen"
  BY <1>1, <1>3
<1>4. CASE s = "syn"
  <2>1. t \in {"syn", "open", "listen"}
    <3>1. CASE host.conn = "up"
      BY <1>1, <1>4, <3>1
    <3>2. CASE host.conn # "up" /\ host.conn = "shut"
      BY <1>1, <1>4, <3>2
    <3>3. CASE host.conn # "up" /\ host.conn # "shut"
      BY <1>1, <1>4, <3>3
    <3> QED BY <3>1, <3>2, <3>3
  <2> QED BY <1>4, <2>1
<1>5. CASE s = "open"
  BY <1>1, <1>5
<1>6. CASE s = "fin"
  BY <1>1, <1>6
<1> QED BY <1>2, <1>3, <1>4, <1>5, <1>6

LEMMA NetPollInv ==
    ASSUME LinkInv, NetPoll
    PROVE  LinkInv'
<1>1. LinkType /\ ChannelInv /\ HostInv
  BY DEF LinkInv
<1>2. UNCHANGED <<link, old, to_dev, to_host, prefetched, prefix, pc, cmd, resp, todo, after, got, host, faults>>
      /\ link = "tcp" /\ pc # "poll" /\ sock' \in Poll(sock)
  BY DEF NetPoll
<1>3. sock' \in {"closed", "listen", "syn", "open", "fin"} /\ (Unconnected' => Unconnected)
  <2>1. sock \in {"closed", "listen", "syn", "open", "fin"}
    BY <1>1 DEF LinkType
  <2> QED BY <1>2, <2>1, PollFacts DEF Unconnected
<1>4. LinkType'
  BY <1>1, <1>2, <1>3 DEF LinkType
<1>5. ChannelInv'
  BY <1>1, <1>2, <1>3 DEF ChannelInv, Up
<1>6. Wire' = Wire /\ Said' = Said /\ Unread' = Unread
  BY <1>2, WireSame
<1>7. HostInv'
  BY <1>1, <1>2, <1>6 DEF HostInv, Up
<1>8. (Attentive' <=> Attentive) /\ (Serving' <=> Serving) /\ (Receiving' <=> Receiving)
  BY <1>2 DEF Attentive, Serving, Receiving
<1>9. Quiet => Quiet'
  BY <1>2 DEF Quiet, Silent
<1>10. ServedInv => ServedInv'
  BY <1>2, <1>6, <1>8 DEF ServedInv, Up
<1>11. UploadInv => UploadInv'
  BY <1>2, <1>6 DEF UploadInv, Covered, Initiating, Up
<1>12. DownloadInv => DownloadInv'
  <2>1. \A d : RestOf(d)' <=> RestOf(d)
    BY <1>2 DEF RestOf, Consumed, Ahead
  <2>2. DataPackets(cmd.id, cmd.n)' = DataPackets(cmd.id, cmd.n) /\ Framed(Packet(cmd.id, "all", cmd.n))' = Framed(Packet(cmd.id, "all", cmd.n))
    BY <1>2 DEF DataPackets, Framed, Packet
  <2> QED BY <1>2, <1>8, <2>1, <2>2 DEF DownloadInv
<1>13. AskedInv => AskedInv'
  BY <1>2, <1>6, <1>8 DEF AskedInv, Asked, Up
<1> QED BY <1>4, <1>5, <1>7, <1>8, <1>9, <1>10, <1>11, <1>12, <1>13 DEF LinkInv

LEMMA accept_newInv ==
    ASSUME LinkInv, accept_new
    PROVE  LinkInv'
<1>1. LinkType /\ ChannelInv /\ HostInv /\ link = "tcp" /\ pc = "poll" /\ UNCHANGED <<link, prefetched, prefix, got, faults>>
  BY DEF LinkInv, accept_new
<1>2. prefetched = None /\ ~prefix /\ todo = <<>> /\ resp = Responder /\ ~resp.err /\ host \in Hosts
      /\ sock \in {"closed", "listen", "syn", "open", "fin"}
  BY <1>1 DEF ChannelInv, LinkType, Responder
<1>3. Unconnected => /\ to_dev = <<>> /\ to_host = <<>> /\ ~host.met
                     /\ host.pend = <<>> \/ \E good \in BOOLEAN : host.pend = <<Handshake(good)>>
  BY <1>1 DEF ChannelInv
<1>4. ASSUME NEW s \in {"closed", "listen", "syn", "open", "fin"}, listen(s), Active(s) \/ Unconnected
      PROVE  LinkInv'
  <2>1. /\ sock' = "listen" /\ old' = FALSE /\ to_dev' = <<>> /\ to_host' = <<>>
        /\ UNCHANGED <<pc, cmd, resp, todo, after>>
    BY <1>4 DEF listen
  <2>2. /\ host' \in Hosts /\ ~host'.met /\ host'.seen = <<>> /\ (host'.busy => host'.conn = "left")
        /\ host'.conn = "left" => host'.pend = <<>>
        /\ host'.pend = <<>> \/ \E good \in BOOLEAN : host'.pend = <<Handshake(good)>>
    <3>1. CASE host.conn = "left" \/ (host.conn = "up" /\ ~Active(s))
      <4>1. host' = host
        BY <1>4, <3>1 DEF listen
      <4>2. ~host.met /\ host.seen = <<>> /\ (host.busy => host.conn = "left") /\ (host.conn = "left" => host.pend = <<>>)
        BY <1>1, <1>3, <1>4, <3>1 DEF HostInv, Up
      <4>3. host.pend = <<>> \/ \E good \in BOOLEAN : host.pend = <<Handshake(good)>>
        BY <1>1, <1>3, <1>4, <3>1 DEF HostInv
      <4> QED BY <1>2, <4>1, <4>2, <4>3
    <3>2. CASE host.conn = "up" /\ Active(s)
      <4>1. host' = [Away("left") EXCEPT !.busy = host.busy]
        BY <1>4, <3>2 DEF listen
      <4>2. <<>> \in Seq(Packets) /\ <<>> \in Seq(Messages)
        BY EmptySeq
      <4> QED BY <1>2, <4>1, <4>2 DEF Away, Hosts
    <3>3. CASE host.conn \notin {"up", "left"}
      <4>1. host' = Away("none")
        BY <1>4, <3>3 DEF listen
      <4>2. <<>> \in Seq(Packets) /\ <<>> \in Seq(Messages)
        BY EmptySeq
      <4> QED BY <1>2, <4>1, <4>2 DEF Away, Hosts
    <3> QED BY <3>1, <3>2, <3>3
  <2>3. LinkType'
    <3>1. <<>> \in Seq(Packets) /\ <<>> \in Seq(Messages)
      BY EmptySeq
    <3> QED BY <1>1, <2>1, <2>2, <3>1 DEF LinkType
  <2>4. ChannelInv'
    BY <1>1, <1>2, <2>1, <2>2 DEF ChannelInv
  <2>5. HostInv'
    BY <1>1, <1>2, <2>1, <2>2 DEF HostInv
  <2>6. Quiet'
    BY <1>1, <1>2, <2>1, <2>2, <2>3, GreetingQuiet
  <2>7. Unread' = {}
    BY <1>2, <2>1, <2>3, WireTypeNext, HelloType
  <2>8. ~Serving' /\ ~Asked'
    BY <1>1, <2>1, <2>7 DEF Serving, Asked
  <2> QED BY <2>3, <2>4, <2>5, <2>6, <2>8 DEF LinkInv, AskedInv
<1>5. ASSUME NEW s \in {"closed", "listen", "syn", "open", "fin"}, Accepted(s), Active(s), Unconnected
      PROVE  LinkInv'
  <2>1. sock' = s /\ pc' = "send" /\ todo' = <<Hello>> /\ after' = "handshake"
        /\ UNCHANGED <<old, to_dev, to_host, host, cmd, resp>>
    BY <1>5 DEF Accepted, Hello
  <2>2. LinkType'
    BY <1>1, <2>1, HelloType DEF LinkType, Stages, Afters
  <2>3. ChannelInv'
    BY <1>1, <1>2, <1>3, <1>5, <2>1 DEF ChannelInv, Unconnected
  <2>4. HostInv'
    BY <1>1, <1>3, <1>5, <2>1 DEF HostInv, Up
  <2>5. Quiet'
    BY <1>1, <1>2, <1>3, <1>5, <2>1, <2>2, GreetingQuiet
  <2>6. ~Asked'
    <3>1. Unread' = {Hello}
      BY <1>3, <1>5, <2>1, <2>2, WireTypeNext, HelloType
    <3> QED BY <3>1, HelloType DEF Asked
  <2>7. ~Serving'
    BY <2>1 DEF Serving
  <2> QED BY <2>2, <2>3, <2>4, <2>5, <2>6, <2>7 DEF LinkInv, AskedInv
<1>6. ASSUME sock' \in {"listen", "syn", "open", "fin"}, ~Active(sock'), Unconnected,
             UNCHANGED <<old, to_dev, to_host, host, pc, cmd, resp, todo, after>>
      PROVE  LinkInv'
  <2>1. LinkType'
    BY <1>1, <1>6 DEF LinkType
  <2>2. ChannelInv'
    BY <1>1, <1>2, <1>3, <1>6 DEF ChannelInv, Unconnected, Up
  <2>3. Wire' = Wire /\ Said' = Said
    BY <1>6, WireSame
  <2>4. HostInv'
    BY <1>1, <1>6, <2>3 DEF HostInv, Up
  <2>5. Quiet'
    BY <1>1, <1>2, <1>3, <1>6, <2>1, GreetingQuiet
  <2>6. Unread' = {}
    BY <1>2, <1>3, <1>6, <2>1, WireTypeNext, HelloType
  <2>7. ~Serving' /\ ~Asked'
    BY <1>1, <1>6, <2>6 DEF Serving, Asked
  <2> QED BY <2>1, <2>2, <2>4, <2>5, <2>7 DEF LinkInv, AskedInv
<1>7. PICK s1 \in Poll(sock) :
        IF ~Listening(s1) THEN listen(s1)
        ELSE \E s2 \in Poll(s1) :
                IF ~Active(s2) /\ old THEN listen(s2)
                ELSE \E s3 \in Poll(s2) :
                        IF Active(s3) THEN Accepted(s3)
                        ELSE /\ sock' = s3
                             /\ UNCHANGED <<old, to_dev, to_host, host, pc, cmd, resp, todo, after>>
  BY DEF accept_new
<1>8. s1 \in {"closed", "listen", "syn", "open", "fin"} /\ (s1 \notin {"open", "fin"} => Unconnected)
  BY <1>1, <1>2, <1>7, PollFacts DEF Unconnected
<1>9. CASE ~Listening(s1)
  <2>1. Active(s1) \/ Unconnected
    BY <1>8 DEF Active
  <2> QED BY <1>4, <1>7, <1>8, <1>9, <2>1
<1>10. CASE Listening(s1)
  <2>1. Unconnected /\ s1 \in {"listen", "syn"}
    BY <1>8, <1>10 DEF Listening
  <2>2. PICK s2 \in Poll(s1) :
                IF ~Active(s2) /\ old THEN listen(s2)
                ELSE \E s3 \in Poll(s2) :
                        IF Active(s3) THEN Accepted(s3)
                        ELSE /\ sock' = s3
                             /\ UNCHANGED <<old, to_dev, to_host, host, pc, cmd, resp, todo, after>>
    BY <1>7, <1>10
  <2>3. s2 \in {"listen", "syn", "open", "fin"}
    BY <2>1, <2>2, PollFacts
  <2>4. CASE ~Active(s2) /\ old
    BY <1>4, <2>1, <2>2, <2>3, <2>4
  <2>5. CASE ~(~Active(s2) /\ old)
    <3>1. PICK s3 \in Poll(s2) : IF Active(s3) THEN Accepted(s3)
                                 ELSE /\ sock' = s3
                                      /\ UNCHANGED <<old, to_dev, to_host, host, pc, cmd, resp, todo, after>>
      BY <2>2, <2>5
    <3>2. s3 \in {"listen", "syn", "open", "fin"}
      BY <2>3, <3>1, PollFacts
    <3>3. CASE Active(s3)
      BY <1>5, <2>1, <3>1, <3>2, <3>3
    <3>4. CASE ~Active(s3)
      BY <1>6, <2>1, <3>1, <3>2, <3>4
    <3> QED BY <3>3, <3>4
  <2> QED BY <2>4, <2>5
<1> QED BY <1>9, <1>10

LEMMA TickInv ==
    ASSUME LinkInv, Tick \/ NoPacket \/ Over \/ UNCHANGED vars
    PROVE  LinkInv'
<1>1. UNCHANGED <<link, sock, to_dev, to_host, prefetched, prefix, pc, cmd, resp, todo, after, got, host>> /\ (old' = old \/ old' = TRUE)
  BY DEF Tick, NoPacket, Over, vars, channel
<1>2. LinkType'
  BY <1>1 DEF LinkInv, LinkType
<1>3. ChannelInv' /\ HostInv'
  <2>1. Wire' = Wire /\ Said' = Said
    BY <1>1, WireSame
  <2> QED BY <1>1, <2>1 DEF LinkInv, ChannelInv, HostInv, Up, Unconnected
<1>4. (Attentive' <=> Attentive) /\ (Serving' <=> Serving) /\ (Receiving' <=> Receiving)
  BY <1>1 DEF Attentive, Serving, Receiving, Unconnected
<1>5. Wire' = Wire /\ Said' = Said /\ Unread' = Unread
  BY <1>1, WireSame
<1>6. Quiet => Quiet'
  BY <1>1 DEF Quiet, Silent
<1>7. ServedInv => ServedInv'
  BY <1>1, <1>4, <1>5 DEF ServedInv, Up
<1>8. UploadInv => UploadInv'
  BY <1>1, <1>5 DEF UploadInv, Covered, Initiating, Up
<1>9. DownloadInv => DownloadInv'
  <2>1. \A d : RestOf(d)' <=> RestOf(d)
    BY <1>1 DEF RestOf, Consumed, Ahead
  <2>2. DataPackets(cmd.id, cmd.n)' = DataPackets(cmd.id, cmd.n) /\ Framed(Packet(cmd.id, "all", cmd.n))' = Framed(Packet(cmd.id, "all", cmd.n))
    BY <1>1 DEF DataPackets, Framed, Packet
  <2> QED BY <1>1, <1>4, <2>1, <2>2 DEF DownloadInv
<1>10. AskedInv => AskedInv'
  BY <1>1, <1>4, <1>5 DEF AskedInv, Asked, Up
<1> QED BY <1>2, <1>3, <1>4, <1>6, <1>7, <1>8, <1>9, <1>10 DEF LinkInv

-----------------------------------------------------------------------------
(* Packets are received. *)

(* The next packet to a device that waits.                                  *)
LEMMA NextPacket ==
    ASSUME LinkType, Quiet, to_dev # <<>>, to_dev' = Tail(to_dev), host' = host, link' = link,
           to_host' = to_host, todo' = todo
    PROVE  /\ prefetched = None /\ Head(to_dev) \in Packets /\ to_dev' \in Seq(Packets)
           /\ \/ Idle(Head(to_dev), link)
              \/ to_dev' = <<>> /\ host.pend = <<>> /\ Command(Head(to_dev), host, Silent)
           /\ prefetched' = None => Quiet'
<1>1. to_dev \in Seq(Packets)
  BY DEF LinkType
<1>2. /\ to_dev' \in Seq(Packets) /\ Head(to_dev) \in Packets /\ Head(to_dev) = to_dev[1] /\ Len(to_dev) \in Nat \ {0}
      /\ Len(to_dev') = Len(to_dev) - 1
      /\ \A i \in 1..Len(to_dev') : i + 1 \in 1..Len(to_dev) /\ to_dev'[i] = to_dev[i + 1]
      /\ 1 \in 1..Len(to_dev) /\ (Len(to_dev) = 1 <=> to_dev' = <<>>)
  BY <1>1, TailFacts
<1>3. prefetched = None
  BY DEF Quiet
<1>4. \A i \in 1..Len(to_dev) : Idle(to_dev[i], link) \/ (i = Len(to_dev) /\ host.pend = <<>> /\ Command(to_dev[i], host, Silent))
  BY DEF Quiet
<1>5. Silent' = Silent
  BY DEF Silent
<1>6. ASSUME NEW i \in 1..Len(to_dev')
      PROVE  Idle(to_dev'[i], link') \/ (i = Len(to_dev') /\ host'.pend = <<>> /\ Command(to_dev'[i], host', Silent'))
  <2>1. i + 1 \in 1..Len(to_dev) /\ to_dev'[i] = to_dev[i + 1]
    BY <1>2
  <2>2. ASSUME NEW a \in Nat, NEW b, b = a - 1, i + 1 = a PROVE i = b
    BY <2>2
  <2>3. i + 1 = Len(to_dev) => i = Len(to_dev')
    <3>1. Len(to_dev) \in Nat /\ Len(to_dev') = Len(to_dev) - 1
      BY <1>2
    <3> QED BY <3>1, <2>2
  <2> QED BY <1>4, <1>5, <2>1, <2>3
<1>7. prefetched' = None => Quiet'
  <2>1. \A i \in 1..Len(host'.pend) : Idle(host'.pend[i], link') \/ (i = Len(host'.pend) /\ Command(host'.pend[i], host', Silent'))
    BY <1>5 DEF Quiet
  <2> QED BY <1>6, <2>1 DEF Quiet
<1> QED BY <1>2, <1>3, <1>4, <1>7

LEMMA FetchesPacket ==
    ASSUME LinkInv, has_packet, prefetched = None
    PROVE  LinkInv'
<1>1. /\ link = "usb" /\ pc = "poll" /\ prefetched = None /\ to_dev # <<>> /\ to_dev' = Tail(to_dev) /\ pc' = "command"
      /\ prefetched' = (IF Head(to_dev).op = "zlp" THEN None ELSE Head(to_dev))
      /\ UNCHANGED <<link, sock, old, to_host, prefix, cmd, resp, todo, after, got, host, faults>>
  BY DEF has_packet
<1>2. LinkType /\ ChannelInv /\ HostInv /\ Attentive /\ Quiet /\ AskedInv
  BY <1>1 DEF LinkInv, Attentive
<1>3. /\ Head(to_dev) \in Packets /\ to_dev' \in Seq(Packets)
      /\ \/ Idle(Head(to_dev), link)
         \/ to_dev' = <<>> /\ host.pend = <<>> /\ Command(Head(to_dev), host, Silent)
      /\ prefetched' = None => Quiet'
  BY <1>1, <1>2, NextPacket
<1>4. LinkType'
  BY <1>1, <1>2, <1>3 DEF LinkType, Stages
<1>5. ChannelInv'
  BY <1>1, <1>2 DEF ChannelInv, Unconnected, Up
<1>6. Wire' = Wire /\ Said' = Said /\ Unread' = Unread
  BY <1>1, WireSame
<1>7. HostInv'
  BY <1>1, <1>2, <1>6 DEF HostInv, Up
<1>8. Quiet'
  <2>1. CASE Idle(Head(to_dev), link)
    BY <1>1, <1>3, <2>1 DEF Idle
  <2>2. CASE to_dev' = <<>> /\ host.pend = <<>> /\ Command(Head(to_dev), host, Silent)
    <3>1. CASE prefetched' = None
      BY <1>3, <3>1
    <3>2. CASE prefetched' # None
      <4>1. prefetched' = Head(to_dev) /\ Len(<<>>) = 0 /\ Silent' = Silent
        BY <1>1, <3>2, EmptySeq DEF Silent
      <4> QED BY <1>1, <2>2, <4>1 DEF Quiet
    <3> QED BY <3>1, <3>2
  <2> QED BY <1>3, <2>1, <2>2
<1>9. ~Serving' /\ ~Asked'
  <2>1. ~Asked
    BY <1>1, <1>2 DEF AskedInv, Receiving
  <2> QED BY <1>1, <1>6, <2>1 DEF Serving, Asked, Up
<1> QED BY <1>4, <1>5, <1>7, <1>8, <1>9 DEF LinkInv, AskedInv

LEMMA has_packetInv ==
    ASSUME LinkInv, has_packet
    PROVE  LinkInv'
<1>1. CASE prefetched = None
  BY <1>1, FetchesPacket
<1>2. CASE prefetched # None
  <2>1. /\ link = "usb" /\ pc = "poll" /\ pc' = "command"
        /\ UNCHANGED <<prefetched, to_dev, link, sock, old, to_host, prefix, cmd, resp, todo, after, got, host, faults>>
    BY <1>2 DEF has_packet
  <2>2. LinkType /\ ChannelInv /\ HostInv /\ Attentive /\ Quiet /\ AskedInv
    BY <2>1 DEF LinkInv, Attentive
  <2>3. LinkType'
    BY <2>1, <2>2 DEF LinkType, Stages
  <2>4. ChannelInv'
    BY <2>1, <2>2 DEF ChannelInv, Unconnected, Up
  <2>5. Wire' = Wire /\ Said' = Said /\ Unread' = Unread
    BY <2>1, WireSame
  <2>6. HostInv'
    BY <2>1, <2>2, <2>5 DEF HostInv, Up
  <2>7. Quiet'
    BY <2>1, <2>2 DEF Quiet, Silent
  <2>8. ~Serving' /\ ~Asked'
    <3>1. ~Asked
      BY <2>1, <2>2 DEF AskedInv, Receiving
    <3> QED BY <2>1, <2>5, <3>1 DEF Serving, Asked, Up
  <2> QED BY <2>3, <2>4, <2>6, <2>7, <2>8 DEF LinkInv, AskedInv
<1> QED BY <1>1, <1>2

LEMMA handshakeInv ==
    ASSUME LinkInv, handshake
    PROVE  LinkInv'
<1>1. /\ pc = "handshake" /\ to_dev # <<>> /\ to_dev' = Tail(to_dev) /\ pc' \in {"command", "error"}
      /\ UNCHANGED <<link, sock, old, to_host, prefetched, prefix, cmd, resp, todo, after, got, host, faults>>
  BY DEF handshake
<1>2. LinkType /\ ChannelInv /\ HostInv /\ Attentive /\ Quiet /\ AskedInv
  BY <1>1 DEF LinkInv, Attentive
<1>3. to_dev' \in Seq(Packets) /\ prefetched = None /\ (prefetched' = None => Quiet')
  BY <1>1, <1>2, NextPacket
<1>4. LinkType'
  BY <1>1, <1>2, <1>3 DEF LinkType, Stages
<1>5. ChannelInv'
  BY <1>1, <1>2 DEF ChannelInv, Unconnected, Up
<1>6. Wire' = Wire /\ Said' = Said /\ Unread' = Unread
  BY <1>1, WireSame
<1>7. HostInv'
  BY <1>1, <1>2, <1>6 DEF HostInv, Up
<1>8. ~Serving' /\ ~Asked'
  <2>1. ~Asked
    BY <1>1, <1>2 DEF AskedInv, Receiving
  <2> QED BY <1>1, <1>6, <2>1 DEF Serving, Asked, Up
<1> QED BY <1>1, <1>3, <1>4, <1>5, <1>7, <1>8 DEF LinkInv, AskedInv

(* A command is taken up.                                                   *)
LEMMA TakesUp ==
    ASSUME LinkInv, pc = "command", NEW p \in Packets, Command(p, host, Silent),
           prefetched' = None, prefix' = FALSE, to_dev' = <<>>, host.pend = <<>>, cmd' = p,
           pc' = IF p.op = "zlp" THEN Loop ELSE "dispatch",
           UNCHANGED <<link, sock, old, to_host, resp, todo, after, got, host, faults>>
    PROVE  LinkInv'
<1>1. LinkType /\ ChannelInv /\ HostInv /\ resp = Responder /\ todo = <<>> /\ ~Unconnected
  BY DEF LinkInv, ChannelInv
<1>2. pc' \in {"poll", "command", "dispatch"} /\ pc' # "send" /\ (pc' = "poll" => link = "usb") /\ p.n \in Nat /\ p.op \in WireOps
  BY DEF Loop, Packets
<1>3. LinkType'
  BY <1>1, <1>2, EmptySeq DEF LinkType, Stages
<1>4. ChannelInv'
  BY <1>1, <1>2 DEF ChannelInv, Unconnected, Up
<1>5. Wire' = Wire /\ Said' = Said /\ Unread' = Unread
  BY WireSame
<1>6. HostInv'
  BY <1>1, <1>2, <1>5 DEF HostInv, Up
<1>7. Quiet'
  <2>1. Len(<<>>) = 0
    BY EmptySeq
  <2> QED BY <2>1 DEF Quiet
<1>8. ASSUME Up PROVE Said = {} /\ Unread = {} /\ Wire = <<>> /\ host.busy
  <2>1. host.seen = <<>> /\ to_host = <<>> /\ todo = <<>> /\ host.busy
    BY <1>8 DEF Command, Silent, Up
  <2>2. Range(<<>>) = {} /\ <<>> \o <<>> = <<>>
    BY HelloType, EmptySeq, ConcatEmptySeq
  <2> QED BY <1>1, <2>1, <2>2, WireType DEF Wire
<1>9. p.id = host.sent /\ p.op = host.op /\ p.n = host.n
  BY DEF Command, Packet
<1>10. ~Receiving' /\ pc' # "complete" /\ pc' # "backend" /\ ~Initiating' /\ (Up' <=> Up)
  BY <1>2 DEF Receiving, Initiating, Up
<1>11. ServedInv'
  BY <1>2, <1>5, <1>8, <1>9, <1>10 DEF ServedInv
<1>12. UploadInv'
  <2>1. ~resp'.uploading /\ resp'.remaining = 0 /\ 0 =< cmd'.n
    BY <1>1, <1>2 DEF Responder
  <2> QED BY <1>5, <1>8, <1>10, <2>1 DEF UploadInv
<1>13. DownloadInv'
  BY <1>2, <1>10 DEF DownloadInv
<1>14. ~Asked'
  BY <1>5, <1>8, <1>10 DEF Asked
<1> QED BY <1>3, <1>4, <1>6, <1>7, <1>11, <1>12, <1>13, <1>14 DEF LinkInv, AskedInv

LEMMA process_next_commandInv ==
    ASSUME LinkInv, process_next_command
    PROVE  LinkInv'
<1>1. /\ pc = "command" /\ packet_ready /\ prefetched' = None /\ prefix' = FALSE /\ cmd' = packet
      /\ to_dev' = (IF prefetched # None THEN to_dev ELSE Tail(to_dev))
      /\ pc' = (IF packet.op = "zlp" THEN Loop ELSE "dispatch")
      /\ UNCHANGED <<link, sock, old, to_host, resp, todo, after, got, host, faults>>
  BY DEF process_next_command, receive_packet
<1>2. LinkType /\ ChannelInv /\ HostInv /\ Attentive /\ Quiet /\ AskedInv
  BY <1>1 DEF LinkInv, Attentive
<1>3. CASE prefetched # None
  <2>1. packet = prefetched /\ prefetched \in Packets /\ Command(prefetched, host, Silent) /\ to_dev = <<>> /\ host.pend = <<>>
    BY <1>2, <1>3 DEF packet, LinkType, Quiet
  <2> QED BY <1>1, <1>3, <2>1, TakesUp
<1>4. CASE prefetched = None
  <2>1. to_dev # <<>> /\ packet = Head(to_dev) /\ to_dev' = Tail(to_dev)
    BY <1>1, <1>4 DEF packet_ready, packet
  <2>2. /\ packet \in Packets /\ to_dev' \in Seq(Packets) /\ Quiet'
        /\ \/ Idle(packet, link)
           \/ to_dev' = <<>> /\ host.pend = <<>> /\ Command(packet, host, Silent)
    BY <1>1, <1>2, <2>1, NextPacket
  <2>3. CASE to_dev' = <<>> /\ host.pend = <<>> /\ Command(packet, host, Silent)
    BY <1>1, <2>2, <2>3, TakesUp
  <2>4. CASE Idle(packet, link)
    <3>1. pc' \in {"poll", "command", "dispatch"} /\ (pc' = "poll" => link = "usb")
      BY <1>1 DEF Loop
    <3>2. LinkType'
      BY <1>1, <1>2, <2>2, <3>1 DEF LinkType, Stages
    <3>3. ChannelInv'
      BY <1>1, <1>2, <3>1 DEF ChannelInv, Unconnected, Up
    <3>4. Wire' = Wire /\ Said' = Said /\ Unread' = Unread
      BY <1>1, WireSame
    <3>5. HostInv'
      BY <1>1, <1>2, <3>1, <3>4 DEF HostInv, Up
    <3>6. ~Serving'
      BY <1>1, <2>4, <3>1 DEF Serving
    <3>7. ~Asked'
      <4>1. ~Asked
        BY <1>1, <1>2 DEF AskedInv, Receiving
      <4> QED BY <1>1, <3>4, <4>1 DEF Asked, Up
    <3> QED BY <2>2, <3>2, <3>3, <3>5, <3>6, <3>7 DEF LinkInv, AskedInv
  <2> QED BY <2>2, <2>3, <2>4
<1> QED BY <1>3, <1>4

(* One packet less is ahead.                                                *)
LEMMA AheadTail ==
    ASSUME LinkType, to_dev # <<>>, to_dev' = Tail(to_dev), host' = host
    PROVE  /\ Len(Ahead) \in Nat \ {0} /\ Ahead[1] = Head(to_dev) /\ to_dev' \in Seq(Packets)
           /\ Len(Ahead') = Len(Ahead) - 1 /\ \A i \in 1..Len(Ahead') : Ahead'[i] = Ahead[i + 1]
           /\ Len(Ahead') = 0 => to_dev' = <<>> /\ host.pend = <<>>
<1> DEFINE q == host.pend
           t == Tail(to_dev)
<1>1. to_dev \in Seq(Packets) /\ q \in Seq(Packets)
  BY DEF LinkType, Hosts
<1>2. /\ t \in Seq(Packets) /\ Head(to_dev) = to_dev[1] /\ Len(to_dev) \in Nat \ {0}
      /\ Len(t) = Len(to_dev) - 1 /\ Len(t) \in Nat /\ \A i \in 1..Len(t) : t[i] = to_dev[i + 1]
  BY <1>1, TailFacts
<1>3. Ahead = to_dev \o q /\ Ahead' = t \o q /\ to_dev' = t
  BY DEF Ahead
<1> HIDE DEF q, t
<1> DEFINE a == to_dev \o q
           b == t \o q
<1>4. Len(a) = Len(to_dev) + Len(q) /\ Len(q) \in Nat
      /\ \A i \in 1..(Len(to_dev) + Len(q)) : a[i] = IF i =< Len(to_dev) THEN to_dev[i] ELSE q[i - Len(to_dev)]
  BY <1>1, ConcatProperties, LenProperties
<1>5. Len(b) = Len(t) + Len(q)
      /\ \A i \in 1..(Len(t) + Len(q)) : b[i] = IF i =< Len(t) THEN t[i] ELSE q[i - Len(t)]
  BY <1>1, <1>2, ConcatProperties
<1> HIDE DEF a, b
<1>6. Len(a) \in Nat \ {0} /\ a[1] = Head(to_dev) /\ Len(b) = Len(a) - 1
  BY <1>2, <1>4, <1>5
<1>7. ASSUME NEW i \in 1..Len(b) PROVE b[i] = a[i + 1]
  <2>1. CASE i =< Len(t)
    BY <1>2, <1>4, <1>5, <2>1
  <2>2. CASE ~(i =< Len(t))
    <3>1. i \in 1..(Len(t) + Len(q)) /\ i + 1 \in 1..(Len(to_dev) + Len(q)) /\ ~(i + 1 =< Len(to_dev))
          /\ (i + 1) - Len(to_dev) = i - Len(t)
      BY <1>2, <1>4, <1>5, <2>2
    <3> QED BY <1>4, <1>5, <2>2, <3>1
  <2> QED BY <2>1, <2>2
<1>8. Len(b) = 0 => t = <<>> /\ q = <<>>
  <2>1. Len(b) = 0 => Len(t) = 0 /\ Len(q) = 0
    BY <1>2, <1>4, <1>5
  <2> QED BY <1>1, <1>2, <2>1, EmptySeq
<1>9. Ahead = a /\ Ahead' = b
  BY <1>3 DEF a, b
<1>10. host.pend = q
  BY DEF q
<1> QED BY <1>2, <1>3, <1>6, <1>7, <1>8, <1>9, <1>10

LEMMA RestNext ==
    ASSUME LinkType, to_dev # <<>>, to_dev' = Tail(to_dev), host' = host, Consumed \in Nat, Consumed' = Consumed + 1,
           NEW d, RestOf(d)
    PROVE  RestOf(d)'
<1>1. /\ Len(Ahead) \in Nat \ {0} /\ Len(Ahead') = Len(Ahead) - 1 /\ \A i \in 1..Len(Ahead') : Ahead'[i] = Ahead[i + 1]
  BY AheadTail
<1>2. ASSUME NEW i \in 1..Len(Ahead') PROVE Consumed' + i =< Len(d) /\ Ahead'[i] = d[Consumed' + i]
  <2>1. i + 1 \in 1..Len(Ahead) /\ Consumed' + i = Consumed + (i + 1)
    BY <1>1
  <2>2. Consumed + (i + 1) =< Len(d) /\ Ahead[i + 1] = d[Consumed + (i + 1)]
    BY <2>1 DEF RestOf
  <2> QED BY <1>1, <2>1, <2>2
<1> QED BY <1>2 DEF RestOf

LEMMA receive_lengthInv ==
    ASSUME LinkInv, receive_length
    PROVE  LinkInv'
<1>1. /\ link = "tcp" /\ pc \in {"command", "receive"} /\ ~prefix /\ to_dev # <<>> /\ prefix' = TRUE /\ to_dev' = Tail(to_dev)
      /\ UNCHANGED <<link, sock, old, to_host, prefetched, pc, cmd, resp, todo, after, got, host, faults>>
  BY DEF receive_length
<1>2. LinkType /\ ChannelInv /\ HostInv /\ prefetched = None /\ to_dev' \in Seq(Packets) /\ prefetched' = None
  BY <1>1, AheadTail DEF LinkInv, ChannelInv
<1>3. LinkType'
  BY <1>1, <1>2 DEF LinkType
<1>4. ChannelInv'
  BY <1>1, <1>2 DEF ChannelInv, Unconnected, Up
<1>5. Wire' = Wire /\ Said' = Said /\ Unread' = Unread
  BY <1>1, WireSame
<1>6. HostInv'
  BY <1>1, <1>2, <1>5 DEF HostInv, Up
<1>7. CASE pc = "command"
  <2>1. Quiet /\ AskedInv
    BY <1>7 DEF LinkInv, Attentive
  <2>2. Quiet'
    BY <1>1, <1>2, <2>1, NextPacket
  <2>3. ~Asked /\ ~Asked'
    BY <1>1, <1>5, <1>7, <2>1 DEF AskedInv, Asked, Receiving, Up
  <2>4. ~Serving'
    BY <1>1, <1>7 DEF Serving
  <2> QED BY <1>3, <1>4, <1>6, <2>2, <2>3, <2>4 DEF LinkInv, AskedInv
<1>8. CASE pc = "receive"
  <2>1. Serving /\ Receiving /\ Receiving' /\ ~resp.err
    BY <1>1, <1>2, <1>8 DEF ChannelInv, Serving, Receiving
  <2>2. ServedInv /\ UploadInv /\ DownloadInv /\ AskedInv
    BY <2>1 DEF LinkInv
  <2>3. ~Attentive'
    BY <1>1, <1>8, <2>1 DEF Attentive
  <2>4. ServedInv'
    BY <1>1, <1>5, <1>8, <2>1, <2>2 DEF ServedInv, Up
  <2>5. UploadInv'
    BY <1>1, <1>5, <2>2 DEF UploadInv, Covered, Initiating, Up
  <2>6. Consumed \in Nat /\ Consumed' = Consumed + 1
    <3>1. Len(got) \in Nat
      BY <1>2, LenProperties DEF LinkType
    <3> QED BY <1>1, <3>1 DEF Consumed
  <2>7. \A d : RestOf(d) => RestOf(d)'
    BY <1>1, <1>2, <2>6, RestNext
  <2>8. DownloadInv'
    <3>1. DataPackets(cmd.id, cmd.n)' = DataPackets(cmd.id, cmd.n) /\ Framed(Packet(cmd.id, "all", cmd.n))' = Framed(Packet(cmd.id, "all", cmd.n))
      BY <1>1 DEF DataPackets, Framed, Packet
    <3>2. RestOf(DataPackets(cmd.id, cmd.n)) => RestOf(DataPackets(cmd.id, cmd.n))'
      <4>1. RestOf(DataPackets(cmd.id, cmd.n)) => \A d : d = DataPackets(cmd.id, cmd.n) => RestOf(d)'
        BY <2>7
      <4> QED BY <3>1, <4>1 DEF RestOf
    <3>3. RestOf(Framed(Packet(cmd.id, "all", cmd.n))) => RestOf(Framed(Packet(cmd.id, "all", cmd.n)))'
      <4>1. RestOf(Framed(Packet(cmd.id, "all", cmd.n))) => \A d : d = Framed(Packet(cmd.id, "all", cmd.n)) => RestOf(d)'
        BY <2>7
      <4> QED BY <3>1, <4>1 DEF RestOf
    <3> QED BY <1>1, <1>8, <2>1, <2>2, <3>2, <3>3 DEF DownloadInv
  <2>9. ~Asked'
    BY <1>1, <1>5, <2>2 DEF AskedInv, Asked, Up
  <2> QED BY <1>3, <1>4, <1>6, <2>3, <2>4, <2>5, <2>8, <2>9 DEF LinkInv, AskedInv
<1> QED BY <1>1, <1>7, <1>8

(* A prefix of a download, and one unit more.                               *)
FirstUnits(s, id, g) == s \in Seq(Cells) /\ Len(s) = g /\ s = [i \in 1..g |-> <<id, i>>]

LEMMA OneUnit ==
    ASSUME NEW id \in Nat, NEW g \in Nat, NEW s, FirstUnits(s, id, g)
    PROVE  FirstUnits(s \o <<<<id, g + 1>>>>, id, g + 1)
<1>0. s \in Seq(Cells) /\ Len(s) = g /\ s = [i \in 1..g |-> <<id, i>>]
  BY DEF FirstUnits
<1> DEFINE u == <<id, g + 1>>
           t == Append(s, u)
           r == [i \in 1..(g + 1) |-> <<id, i>>]
<1>1. u \in Cells /\ u = <<id, g + 1>>
  BY DEF Cells
<1> HIDE DEF u
<1>2. s \o <<u>> = t /\ t \in Seq(Cells) /\ Len(t) = g + 1 /\ t[g + 1] = u /\ \A i \in 1..g : t[i] = s[i]
  BY <1>0, <1>1, AppendTwo, AppendProperties
<1> HIDE DEF t
<1>3. r \in Seq(Cells) /\ Len(r) = g + 1 /\ \A i \in 1..(g + 1) : r[i] = <<id, i>>
  <2>1. \A i \in 1..(g + 1) : <<id, i>> \in Cells
    BY DEF Cells
  <2>2. r \in [1..(g + 1) -> Cells] /\ g + 1 \in Nat
    BY <2>1
  <2> QED BY <2>2, SeqDef, LenProperties
<1>4. \A i \in 1..g : s[i] = <<id, i>>
  BY <1>0
<1> HIDE DEF r
<1>5. ASSUME NEW i \in 1..Len(t) PROVE t[i] = r[i]
  <2>1. i \in 1..g \/ i = g + 1
    BY <1>2
  <2>2. i \in 1..(g + 1)
    BY <1>2
  <2>3. CASE i \in 1..g
    BY <2>2, <2>3, <1>2, <1>3, <1>4
  <2>4. CASE i = g + 1
    BY <2>2, <2>4, <1>1, <1>2, <1>3
  <2> QED BY <2>1, <2>3, <2>4
<1>6. t = r
  BY <1>2, <1>3, <1>5, SeqEqual
<1> QED BY <1>2, <1>6 DEF u, r, FirstUnits

LEMMA AllUnits ==
    ASSUME NEW id \in Nat, NEW n \in Nat
    PROVE  LET t == [i \in 1..n |-> <<id, i>>]
           IN  t \in Seq(Cells) /\ Len(t) = n /\ <<>> \o t = t
<1> DEFINE t == [i \in 1..n |-> <<id, i>>]
<1>1. \A i \in 1..n : <<id, i>> \in Cells
  BY DEF Cells
<1>2. t \in [1..n -> Cells]
  BY <1>1
<1>3. t \in Seq(Cells) /\ Len(t) = n
  BY <1>2, SeqDef
<1> HIDE DEF t
<1>4. <<>> \o t = t
  BY <1>3, ConcatEmptySeq
<1> QED BY <1>3, <1>4 DEF t

(* The packet the device reads next, when the bytes come unit by unit and   *)
(* when they come in one packet.                                            *)
LEMMA NextUnit ==
    ASSUME LinkType, NEW id \in Nat, NEW n \in Nat, Len(got) < n, link = "tcp" => prefix, link = "usb" => ~prefix,
           Len(Ahead) \in Nat \ {0}, NEW d, d = DataPackets(id, n), RestOf(d)
    PROVE  /\ Ahead[1] = Packet(id, "data", Len(got) + 1)
           /\ Len(got) + 1 = n => Consumed + 1 = Len(d)
<1> DEFINE g == Len(got)
<1>1. g \in Nat /\ link \in {"usb", "tcp"}
  BY LenProperties DEF LinkType
<1>2. /\ d \in Seq(Packets)
      /\ link = "usb" => Len(d) = n /\ \A i \in 1..n : d[i] = Packet(id, "data", i)
      /\ link # "usb" => /\ Len(d) = 2 * n
                         /\ \A i \in 1..(2 * n) : d[i] = IF i % 2 = 1 THEN Packet(0, "len", 0) ELSE Packet(id, "data", i \div 2)
  BY StreamType
<1>3. Consumed + 1 =< Len(d) /\ Ahead[1] = d[Consumed + 1]
  <2>1. 1 \in 1..Len(Ahead)
    OBVIOUS
  <2> QED BY <2>1 DEF RestOf
<1>4. CASE link = "usb"
  <2>1. Consumed = g
    BY <1>4 DEF Consumed
  <2>2. g + 1 \in 1..n
    BY <1>1
  <2> HIDE DEF g
  <2> QED BY <1>2, <1>3, <1>4, <2>1, <2>2 DEF g
<1>5. CASE link = "tcp"
  <2>1. Consumed = 2 * g + 1
    BY <1>5 DEF Consumed
  <2>2. Consumed + 1 = 2 * (g + 1) /\ 2 * (g + 1) \in 1..(2 * n) /\ g + 1 \in Nat
    BY <1>1, <2>1
  <2>3. ASSUME NEW k \in Nat PROVE (2 * k) % 2 # 1 /\ (2 * k) \div 2 = k
    OBVIOUS
  <2>4. d[2 * (g + 1)] = Packet(id, "data", g + 1)
    <3> DEFINE k == g + 1
    <3>1. k \in Nat /\ 2 * k \in 1..(2 * n)
      BY <2>2
    <3> HIDE DEF k
    <3>2. d[2 * k] = Packet(id, "data", k)
      BY <1>2, <1>5, <2>3, <3>1
    <3> QED BY <3>2 DEF k
  <2>5. g + 1 = n => Consumed + 1 = Len(d)
    BY <1>2, <1>5, <2>2
  <2> QED BY <1>3, <2>2, <2>4, <2>5
<1> QED BY <1>1, <1>4, <1>5

LEMMA NextAll ==
    ASSUME LinkType, NEW id \in Nat, NEW n \in Nat, got = <<>>, link = "tcp" => prefix, link = "usb" => ~prefix,
           Len(Ahead) \in Nat \ {0}, NEW d, d = Framed(Packet(id, "all", n)), RestOf(d)
    PROVE  Ahead[1] = Packet(id, "all", n) /\ Len(Ahead) = 1
<1>1. /\ link # "tcp" => Len(d) = 1 /\ d[1] = Packet(id, "all", n)
      /\ link = "tcp" => Len(d) = 2 /\ d[2] = Packet(id, "all", n)
  BY StreamType
<1>2. link \in {"usb", "tcp"} /\ Len(got) = 0
  BY EmptySeq DEF LinkType
<1>3. Consumed = IF link = "usb" THEN 0 ELSE 1
  BY <1>2 DEF Consumed
<1>4. \A i \in 1..Len(Ahead) : Consumed + i =< Len(d) /\ Ahead[i] = d[Consumed + i]
  BY DEF RestOf
<1>5. Consumed + Len(Ahead) =< Len(d) /\ Ahead[1] = d[Consumed + 1]
  BY <1>4
<1> DEFINE l == Len(Ahead)
<1>6. l \in Nat \ {0} /\ Consumed + l =< Len(d)
  BY <1>5
<1> HIDE DEF l
<1>7. CASE link = "usb"
  <2>1. Consumed = 0 /\ Len(d) = 1 /\ d[1] = Packet(id, "all", n)
    BY <1>1, <1>3, <1>7
  <2>2. l = 1
    <3>1. 0 + l =< 1
      BY <1>6, <2>1
    <3> QED BY <1>6, <3>1
  <2> QED BY <1>5, <2>1, <2>2 DEF l
<1>8. CASE link = "tcp"
  <2>1. Consumed = 1 /\ Len(d) = 2 /\ d[2] = Packet(id, "all", n)
    BY <1>1, <1>3, <1>8
  <2>2. l = 1 /\ Consumed + 1 = 2
    <3>1. 1 + l =< 2
      BY <1>6, <2>1
    <3>2. l = 1
      BY <1>6, <3>1
    <3> QED BY <2>1, <3>2
  <2> QED BY <1>5, <2>1, <2>2 DEF l
<1> QED BY <1>2, <1>7, <1>8

LEMMA download_dataInv ==
    ASSUME LinkInv, download_data
    PROVE  LinkInv'
<1>1. /\ pc = "receive" /\ packet_ready /\ prefetched' = None /\ prefix' = FALSE /\ Store(packet)
      /\ to_dev' = (IF prefetched # None THEN to_dev ELSE Tail(to_dev))
      /\ UNCHANGED <<link, sock, old, to_host, cmd, resp, todo, after, host, faults>>
  BY DEF download_data, receive_packet
<1>2. LinkType /\ ChannelInv /\ HostInv /\ ~resp.err /\ Serving /\ Receiving /\ ~Unconnected
  BY <1>1 DEF LinkInv, ChannelInv, Serving, Receiving
<1>3. ServedInv /\ UploadInv /\ DownloadInv /\ AskedInv /\ prefetched = None
  BY <1>2 DEF LinkInv, ServedInv
<1>4. to_dev # <<>> /\ packet = Head(to_dev) /\ to_dev' = Tail(to_dev) /\ (link = "tcp" => prefix) /\ (link = "usb" => ~prefix)
  BY <1>1, <1>2, <1>3 DEF packet_ready, packet, ChannelInv
<1>5. /\ Len(Ahead) \in Nat \ {0} /\ Ahead[1] = packet /\ to_dev' \in Seq(Packets)
      /\ Len(Ahead') = Len(Ahead) - 1
      /\ Len(Ahead') = 0 => to_dev' = <<>> /\ host.pend = <<>>
  BY <1>1, <1>2, <1>4, AheadTail
<1> DEFINE id == cmd.id
           n == cmd.n
           g == Len(got)
<1>6. id \in Nat /\ n \in Nat /\ g \in Nat /\ got \in Seq(Cells) /\ link \in {"usb", "tcp"}
  BY <1>2, LenProperties DEF LinkType, Packets
<1>7. /\ n > 0 /\ g < n /\ got = [i \in 1..g |-> <<id, i>>]
      /\ RestOf(DataPackets(id, n)) \/ (got = <<>> /\ RestOf(Framed(Packet(id, "all", n))))
  BY <1>2, <1>3 DEF DownloadInv
<1>8. /\ DataPackets(cmd.id, cmd.n)' = DataPackets(cmd.id, cmd.n)
      /\ cmd' = cmd /\ link' = link
  BY <1>1 DEF DataPackets, Packet
<1> HIDE DEF id, n, g
<1>9. /\ got' \in Seq(Cells) /\ got' = [i \in 1..Len(got') |-> <<id, i>>]
      /\ \/ pc' = "complete" /\ Len(got') = n /\ Len(Ahead') = 0
         \/ pc' = "receive" /\ Len(got') < n /\ RestOf(DataPackets(cmd.id, cmd.n))'
  <2>1. CASE RestOf(DataPackets(id, n))
    <3> DEFINE d == DataPackets(id, n)
    <3>1. packet = Packet(id, "data", g + 1) /\ (g + 1 = n => Consumed + 1 = Len(d))
      <4>1. \A e : e = DataPackets(id, n) /\ RestOf(e) =>
                 Ahead[1] = Packet(id, "data", Len(got) + 1) /\ (Len(got) + 1 = n => Consumed + 1 = Len(e))
        <5>1. Len(got) < n
          BY <1>7 DEF g
        <5> QED BY <5>1, <1>2, <1>4, <1>5, <1>6, NextUnit
      <4> HIDE DEF d
      <4>2. RestOf(d) /\ d = DataPackets(id, n)
        BY <2>1 DEF d
      <4> QED BY <4>1, <4>2, <1>5 DEF g
    <3>2. Units(packet) = <<<<id, g + 1>>>> /\ Len(Units(packet)) = 1
      <4>1. packet.op = "data" /\ packet.id = id /\ packet.n = g + 1
        BY <3>1 DEF Packet
      <4>2. Units(packet) = <<<<packet.id, packet.n>>>>
        BY <4>1 DEF Units
      <4> QED BY <4>1, <4>2
    <3>3. ~(g + 1 > n)
      BY <1>6, <1>7
    <3>4. got' = got \o <<<<id, g + 1>>>> /\ pc' = (IF Len(got') = n THEN "complete" ELSE "receive")
      <4>1. ~(Len(got) + Len(Units(packet)) > cmd.n)
        BY <3>2, <3>3 DEF g, n
      <4>2. got' = got \o Units(packet)
        BY <1>1, <4>1 DEF Store
      <4>3. pc' = IF Len(got') = n THEN "complete" ELSE "receive"
        BY <1>1, <4>1 DEF Store, n
      <4> QED BY <3>2, <4>2, <4>3
    <3>5. got' \in Seq(Cells) /\ Len(got') = g + 1 /\ got' = [i \in 1..(g + 1) |-> <<id, i>>]
      <4>1. Len(got) = g
        BY DEF g
      <4> DEFINE t == got \o <<<<id, g + 1>>>>
      <4>2. FirstUnits(t, id, g + 1)
        <5>1. FirstUnits(got, id, g)
          BY <4>1, <1>6, <1>7 DEF FirstUnits
        <5> QED BY <5>1, <1>6, OneUnit
      <4>3. got' = t
        BY <3>4
      <4> HIDE DEF t
      <4> QED BY <4>2, <4>3, Zenon DEF FirstUnits
    <3>6. Consumed \in Nat /\ Consumed' = Consumed + 1
      <4>1. Consumed = (IF link = "usb" THEN g ELSE 2 * g + 1)
        BY <1>4, <1>6 DEF Consumed, g
      <4>2. Consumed' = (IF link = "usb" THEN g + 1 ELSE 2 * (g + 1) + 0)
        BY <3>5, <1>1 DEF Consumed
      <4> QED BY <4>1, <4>2, <1>6
    <3>7. \A e : RestOf(e) => RestOf(e)'
      BY <1>1, <1>2, <1>4, <3>6, RestNext
    <3>8. RestOf(DataPackets(cmd.id, cmd.n))'
      <4>1. \A e : e = DataPackets(cmd.id, cmd.n) => RestOf(e)'
        BY <2>1, <3>7 DEF id, n
      <4> QED BY <1>8, <4>1 DEF RestOf
    <3>9. g + 1 = n => Len(Ahead') = 0
      <4>1. \A i \in 1..Len(Ahead') : Consumed' + i =< Len(DataPackets(cmd.id, cmd.n))
        BY <1>8, <3>8 DEF RestOf
      <4>2. g + 1 = n => Consumed' = Len(DataPackets(cmd.id, cmd.n))
        BY <3>1, <3>6 DEF id, n
      <4>3. Len(Ahead') \in Nat /\ Consumed' \in Nat
        BY <1>5, <3>6
      <4>4. ASSUME NEW l \in Nat, NEW c \in Nat, \A i \in 1..l : c + i =< c PROVE l = 0
        BY <4>4
      <4> QED BY <4>1, <4>2, <4>3, <4>4
    <3>10. g + 1 # n => g + 1 < n
      BY <1>6, <1>7
    <3> QED BY <3>4, <3>5, <3>8, <3>9, <3>10
  <2>2. CASE got = <<>> /\ RestOf(Framed(Packet(id, "all", n)))
    <3>1. packet = Packet(id, "all", n) /\ Len(Ahead) = 1
      <4>1. \A e : e = Framed(Packet(id, "all", n)) /\ RestOf(e) => Ahead[1] = Packet(id, "all", n) /\ Len(Ahead) = 1
        BY <2>2, <1>2, <1>4, <1>5, <1>6, NextAll
      <4> DEFINE d == Framed(Packet(id, "all", n))
      <4>2. RestOf(d) /\ d = Framed(Packet(id, "all", n))
        BY <2>2
      <4> HIDE DEF d
      <4> QED BY <4>1, <4>2, <1>5
    <3> DEFINE t == [i \in 1..n |-> <<id, i>>]
    <3>2. t \in Seq(Cells) /\ Len(t) = n /\ <<>> \o t = t
      BY <1>6, AllUnits
    <3>3. Units(packet) = t
      <4>1. packet.op = "all" /\ packet.id = id /\ packet.n = n
        BY <3>1 DEF Packet
      <4>2. Units(packet) = [i \in 1..packet.n |-> <<packet.id, i>>]
        BY <4>1 DEF Units
      <4> QED BY <4>1, <4>2
    <3> HIDE DEF t
    <3>4. ~(Len(got) + Len(Units(packet)) > cmd.n)
      <4>1. Len(got) = 0
        BY <2>2, EmptySeq
      <4> QED BY <4>1, <3>2, <3>3, <1>6 DEF n
    <3>5. got' = t
      BY <1>1, <2>2, <3>2, <3>3, <3>4 DEF Store
    <3>6. pc' = "complete"
      BY <1>1, <3>2, <3>4, <3>5 DEF Store, n
    <3>7. Len(Ahead') = 0
      BY <1>5, <3>1
    <3> QED BY <3>2, <3>5, <3>6, <3>7 DEF t
  <2> QED BY <1>7, <2>1, <2>2
<1>10. LinkType'
  BY <1>1, <1>2, <1>5, <1>9 DEF LinkType, Stages
<1>11. ChannelInv'
  BY <1>1, <1>2, <1>9 DEF ChannelInv, Unconnected, Up
<1>12. Wire' = Wire /\ Said' = Said /\ Unread' = Unread
  BY <1>1, WireSame
<1>13. HostInv'
  BY <1>1, <1>2, <1>9, <1>12 DEF HostInv, Up
<1>14. ~Attentive'
  BY <1>1, <1>2, <1>9 DEF Attentive
<1>15. pc' = "complete" => to_dev' = <<>> /\ host'.pend = <<>>
  BY <1>1, <1>5, <1>9
<1>16. ServedInv'
  <2>1. pc' = "receive" <=> Receiving'
    BY <1>9 DEF Receiving
  <2> QED BY <1>1, <1>2, <1>3, <1>9, <1>12, <1>15, <2>1 DEF ServedInv, Up
<1>17. UploadInv'
  BY <1>1, <1>3, <1>9, <1>12 DEF UploadInv, Covered, Initiating, Up
<1>18. DownloadInv'
  <2>1. CASE pc' = "complete"
    BY <1>8, <1>9, <2>1 DEF DownloadInv, Receiving, id, n
  <2>2. CASE pc' = "receive"
    <3>1. /\ cmd'.n > 0 /\ Len(got') < cmd'.n /\ got' = [i \in 1..Len(got') |-> <<cmd'.id, i>>]
          /\ RestOf(DataPackets(cmd.id, cmd.n))'
      BY <1>7, <1>8, <1>9, <2>2 DEF id, n
    <3> QED BY <2>2, <3>1 DEF DownloadInv
  <2> QED BY <1>9, <2>1, <2>2
<1>19. ~Asked'
  BY <1>1, <1>3, <1>4, <1>12 DEF AskedInv, Asked, Up
<1> QED BY <1>10, <1>11, <1>13, <1>14, <1>16, <1>17, <1>18, <1>19 DEF LinkInv, AskedInv

-----------------------------------------------------------------------------
(* The sends. *)
LEMMA send_packetInv ==
    ASSUME LinkInv, send_packet
    PROVE  LinkInv'
<1>1. /\ pc = "send" /\ todo # <<>> /\ to_host' = Append(to_host, Head(todo)) /\ todo' = Tail(todo)
      /\ UNCHANGED <<link, sock, old, to_dev, prefetched, prefix, pc, cmd, resp, after, got, host, faults>>
      /\ ~Unconnected /\ ~Unconnected'
  BY DEF send_packet, Unconnected
<1>2. LinkType /\ ChannelInv /\ HostInv /\ ~resp.err /\ to_host \in Seq(Messages) /\ todo \in Seq(Messages)
  BY <1>1 DEF LinkInv, ChannelInv, LinkType
<1>3. /\ Tail(todo) \in Seq(Messages) /\ Head(todo) \in Messages /\ Range(todo) = {Head(todo)} \cup Range(Tail(todo))
      /\ Append(to_host, Head(todo)) \in Seq(Messages) /\ Range(Append(to_host, Head(todo))) = Range(to_host) \cup {Head(todo)}
  <2>1. /\ Tail(todo) \in Seq(Messages) /\ Head(todo) \in Messages /\ Range(todo) = {Head(todo)} \cup Range(Tail(todo))
    BY <1>1, <1>2, TailFacts
  <2> QED BY <1>2, <2>1, AppendProperties, RangeAppend
<1>4. LinkType'
  BY <1>1, <1>2, <1>3 DEF LinkType
<1>5. Wire' = Wire /\ Said' = Said /\ Unread' = Unread
  <2>1. Append(to_host, Head(todo)) \o Tail(todo) = to_host \o todo
    BY <1>1, <1>2, PassOn
  <2>2. Wire' = Wire
    BY <1>1, <1>2, <1>4, <2>1, WireType, WireTypeNext
  <2> QED BY <1>1, <1>2, <1>3, <1>4, <2>2, WireType, WireTypeNext DEF Said
<1>6. ChannelInv'
  BY <1>1, <1>2 DEF ChannelInv, Up
<1>7. CASE after = "handshake"
  <2>1. todo = <<Hello>> /\ ~host.met /\ to_host = <<>>
    BY <1>1, <1>2, <1>7 DEF HostInv
  <2>2. to_host' = <<Hello>> /\ todo' = <<>>
    <3>1. Head(todo) = Hello /\ Tail(todo) = <<>>
      BY <2>1, HelloType
    <3>2. Append(<<>>, Hello) = <<Hello>>
      OBVIOUS
    <3> QED BY <1>1, <2>1, <3>1, <3>2
  <2>3. HostInv'
    BY <1>1, <1>2, <2>1, <2>2 DEF HostInv, Up
  <2>4. Attentive /\ ~Serving' /\ ~Silent
    BY <1>1, <1>2, <1>7 DEF Attentive, Serving, Silent
  <2>5. Quiet'
    <3>1. Quiet
      BY <2>4 DEF LinkInv
    <3>2. \A p : Command(p, host, Silent) => Command(p, host', Silent')
      BY <1>1, <2>4 DEF Command
    <3> QED BY <1>1, <3>1, <3>2 DEF Quiet
  <2>6. ~Asked'
    <3>1. ~Asked
      BY <1>1, <1>7, <2>4 DEF LinkInv, AskedInv, Receiving
    <3> QED BY <1>1, <1>5, <3>1 DEF Asked, Up
  <2> QED BY <1>4, <1>6, <2>3, <2>4, <2>5, <2>6 DEF LinkInv, AskedInv
<1>8. CASE after # "handshake"
  <2>1. Serving /\ ServedInv /\ UploadInv /\ DownloadInv /\ AskedInv
    BY <1>1, <1>2, <1>8 DEF LinkInv, Serving
  <2>2. Up => host.met /\ host.busy
    BY <1>2, <2>1 DEF ServedInv, HostInv, Up
  <2>3. HostInv'
    BY <1>1, <1>2, <1>5, <1>8, <2>2 DEF HostInv, Up
  <2>4. Receiving' <=> Receiving
    BY <1>1 DEF Receiving
  <2>5. ServedInv'
    BY <1>1, <1>5, <2>1, <2>4 DEF ServedInv, Up
  <2>6. UploadInv'
    BY <1>1, <1>5, <2>1 DEF UploadInv, Covered, Initiating, Up
  <2>7. DownloadInv'
    <3>1. \A d : RestOf(d)' <=> RestOf(d)
      BY <1>1 DEF RestOf, Consumed, Ahead
    <3>2. DataPackets(cmd.id, cmd.n)' = DataPackets(cmd.id, cmd.n) /\ Framed(Packet(cmd.id, "all", cmd.n))' = Framed(Packet(cmd.id, "all", cmd.n))
      BY <1>1 DEF DataPackets, Framed, Packet
    <3>3. Tail(todo) # <<>> => Tail(todo)[Len(Tail(todo))] = todo[Len(todo)]
      <4> DEFINE t == Tail(todo)
      <4>1. t \in Seq(Messages) /\ Len(t) \in Nat /\ Len(t) = Len(todo) - 1 /\ Len(todo) \in Nat
            /\ \A i \in 1..Len(t) : t[i] = todo[i + 1]
        BY <1>1, <1>2, TailFacts
      <4> HIDE DEF t
      <4>2. t # <<>> => Len(t) \in 1..Len(t) /\ Len(t) + 1 = Len(todo)
        BY <4>1, EmptySeq
      <4>3. t # <<>> => t[Len(t)] = todo[Len(todo)]
        BY <4>1, <4>2
      <4> QED BY <4>3 DEF t
    <3>4. todo' # <<>> => todo'[Len(todo')] = todo[Len(todo)]
      BY <1>1, <3>3
    <3> QED BY <1>1, <2>1, <2>4, <3>1, <3>2, <3>4 DEF DownloadInv
  <2>8. AskedInv'
    BY <1>1, <1>5, <2>1, <2>4 DEF AskedInv, Asked, Up
  <2>9. ASSUME Attentive' PROVE Quiet'
    <3>1. after = "done"
      BY <1>1, <1>2, <1>8, <2>9 DEF Attentive
    <3>2. to_dev = <<>> /\ host.pend = <<>> /\ prefetched = None
      BY <1>1, <2>1, <3>1 DEF ServedInv, Receiving
    <3>3. Len(<<>>) = 0
      BY EmptySeq
    <3> QED BY <1>1, <3>2, <3>3 DEF Quiet
  <2> QED BY <1>4, <1>6, <2>3, <2>5, <2>6, <2>7, <2>8, <2>9 DEF LinkInv
<1> QED BY <1>7, <1>8

(* DATA is said once.                                                       *)
LEMMA OneData ==
    ASSUME NEW S, NEW a \in Seq(S), NEW b \in Seq(S), NEW id, NEW op, Talk(a \o b, id, op),
           NEW x \in Range(a), NEW y \in Range(b), x[2] = "DATA", y[2] = "DATA"
    PROVE  FALSE
<1> DEFINE c == a \o b
<1>1. /\ Len(c) = Len(a) + Len(b) /\ Len(a) \in Nat /\ Len(b) \in Nat
      /\ \A i \in 1..(Len(a) + Len(b)) : c[i] = IF i =< Len(a) THEN a[i] ELSE b[i - Len(a)]
  BY ConcatProperties, LenProperties
<1>2. Talk(c, id, op)
  OBVIOUS
<1> HIDE DEF c
<1>3. PICK i \in 1..Len(a) : a[i] = x
  BY RangeOf
<1>4. PICK j \in 1..Len(b) : b[j] = y
  BY RangeOf
<1>5. i \in 1..Len(c) /\ c[i] = x
  BY <1>1, <1>3
<1>6. Len(a) + j \in 1..Len(c) /\ c[Len(a) + j] = y
  <2>1. Len(a) + j \in 1..(Len(a) + Len(b)) /\ ~(Len(a) + j =< Len(a)) /\ (Len(a) + j) - Len(a) = j
    BY <1>1
  <2> QED BY <1>1, <1>4, <2>1
<1>7. Len(a) + j =< i
  BY <1>2, <1>5, <1>6 DEF Talk, Is
<1> QED BY <1>1, <1>7

LEMMA SendFailsInv ==
    ASSUME LinkInv, SendFails, ~LateSends
    PROVE  LinkInv'
<1>1. /\ pc = "send" /\ todo # <<>> /\ todo' = <<>> /\ resp' = [resp EXCEPT !.err = TRUE]
      /\ to_host' = to_host \/ (link = "tcp" /\ sock = "open" /\ to_host' = Append(to_host, Head(todo)))
      /\ UNCHANGED <<link, sock, old, to_dev, prefetched, prefix, pc, cmd, after, got, host>>
  BY DEF SendFails
<1>2. LinkType /\ ChannelInv /\ HostInv /\ ~resp.err /\ to_host \in Seq(Messages) /\ todo \in Seq(Messages)
      /\ resp \in Responders
  BY <1>1 DEF LinkInv, ChannelInv, LinkType
<1>3. resp' \in Responders /\ resp'.err
  BY <1>1, <1>2 DEF Responders
<1>4. Tail(todo) \in Seq(Messages) /\ Head(todo) \in Messages /\ Range(todo) = {Head(todo)} \cup Range(Tail(todo))
  BY <1>1, <1>2, TailFacts
<1>5. to_host' \in Seq(Messages) /\ (to_host' = to_host \/ to_host' = Append(to_host, Head(todo)))
  <2>1. Append(to_host, Head(todo)) \in Seq(Messages)
    BY <1>2, <1>4, AppendProperties
  <2>2. to_host' = to_host \/ to_host' = Append(to_host, Head(todo))
    BY <1>1
  <2> QED BY <1>2, <2>1, <2>2
<1>6. LinkType'
  BY <1>1, <1>2, <1>3, <1>5, EmptySeq DEF LinkType
<1>7. ChannelInv'
  BY <1>1, <1>2, <1>3 DEF ChannelInv, Unconnected, Up
<1>8. PICK r \in Seq(Messages) : to_host \o todo = to_host' \o r
  <2>1. CASE to_host' = to_host
    BY <1>2, <2>1
  <2>2. CASE to_host' = Append(to_host, Head(todo))
    <3>1. Append(to_host, Head(todo)) \o Tail(todo) = to_host \o todo
      BY <1>1, <1>2, PassOn
    <3> QED BY <1>4, <2>2, <3>1
  <2> QED BY <1>5, <2>1, <2>2
<1>9. host.met => Talk(Wire', host.sent, host.op)
  <2> DEFINE a == host.seen
             b == to_host'
  <2>1. a \in Seq(Messages) /\ b \in Seq(Messages) /\ Wire = a \o (to_host \o todo)
    BY <1>2, <1>5, WireType
  <2>2. Wire' = a \o b \o <<>>
    BY <1>1 DEF Wire
  <2>3. Wire = a \o (b \o r)
    BY <1>8, <2>1
  <2> HIDE DEF a, b
  <2>4. a \o (b \o r) = (a \o b) \o r /\ a \o b \in Seq(Messages)
    <3>1. a \in Seq(Messages) /\ b \in Seq(Messages) /\ r \in Seq(Messages)
      BY <1>8, <2>1
    <3>2. Regrouped(Messages, a, b, r)
      BY <3>1, Regroup
    <3> QED BY <3>2, Zenon DEF Regrouped
  <2> DEFINE c == a \o b
  <2>5. c \in Seq(Messages) /\ Wire = c \o r /\ Wire' = c \o <<>>
    BY <2>2, <2>3, <2>4
  <2> HIDE DEF c
  <2>6. c \o <<>> = c
    BY <2>5, ConcatEmptySeq
  <2>7. host.met => Talk(c \o r, host.sent, host.op)
    BY <1>2, <2>5 DEF HostInv
  <2>8. host.met => Talk(c, host.sent, host.op)
    BY <1>8, <2>5, <2>7, TalkPrefix
  <2> QED BY <2>5, <2>6, <2>8
<1>10. /\ Said = Range(host.seen) \cup Range(to_host) \cup Range(todo) /\ Said' \subseteq Said
       /\ Unread' = Range(to_host')
  <2>1. Said' = Range(host.seen) \cup Range(to_host') \cup Range(<<>>) /\ Unread' = Range(to_host') \cup Range(<<>>)
    BY <1>1, <1>6, WireTypeNext
  <2>2. Said = Range(host.seen) \cup Range(to_host) \cup Range(todo)
    BY <1>2, WireType
  <2>3. Range(to_host') \subseteq Range(to_host) \cup Range(todo)
    <3>1. CASE to_host' = to_host
      BY <3>1
    <3>2. CASE to_host' = Append(to_host, Head(todo))
      BY <1>2, <1>4, <3>2, RangeAppend
    <3> QED BY <1>5, <3>1, <3>2
  <2> QED BY <2>1, <2>2, <2>3, HelloType
<1>11. HostInv'
  <2>1. ASSUME ~host.met, Up PROVE to_host' = <<>> \/ to_host' = <<Hello>>
    <3>1. to_host = <<>> /\ todo = <<Hello>>
      BY <1>1, <1>2, <2>1 DEF HostInv
    <3>2. Head(todo) = Hello
      BY <3>1, HelloType
    <3>3. Append(<<>>, Hello) = <<Hello>>
      OBVIOUS
    <3> QED BY <1>5, <3>1, <3>2, <3>3
  <2>2. host.met => host.busy
    BY <1>1, <1>2 DEF HostInv
  <2> QED BY <1>1, <1>2, <1>9, <1>10, <2>1, <2>2 DEF HostInv, Up
<1>12. ~Serving'
  BY <1>3 DEF Serving
<1>13. ASSUME Attentive' PROVE Quiet' /\ ~Asked'
  <2>1. link = "usb"
    BY <1>1, <1>3, <1>13 DEF Attentive
  <2>2. after # "handshake" /\ to_host' = to_host /\ Up /\ host.met
    BY <1>1, <1>2, <2>1 DEF ChannelInv
  <2>3. Serving /\ ServedInv /\ DownloadInv /\ AskedInv
    BY <1>1, <1>2, <2>2 DEF LinkInv, Serving
  <2>4. Unread = Range(to_host) \cup Range(todo)
    BY <1>2, WireType
  <2>5. ASSUME Receiving PROVE host.op = "download" /\ \E y \in Range(todo) : y[2] = "DATA"
    <3>1. cmd.op = "download" /\ todo[Len(todo)][2] = "DATA"
      BY <1>1, <2>3, <2>5 DEF ServedInv, DownloadInv, Receiving
    <3>2. todo[Len(todo)] \in Range(todo)
      <4>1. Len(todo) \in 1..Len(todo)
        BY <1>1, <1>2, EmptySeq, LenProperties
      <4> QED BY <4>1, <1>2, RangeOf
    <3> QED BY <3>1, <3>2, <2>3 DEF ServedInv
  <2>6. to_dev = <<>> /\ host.pend = <<>> /\ prefetched = None
    <3>1. CASE Receiving
      <4>1. Asked
        BY <2>2, <2>4, <2>5, <3>1 DEF Asked
      <4> QED BY <2>3, <4>1 DEF AskedInv, ServedInv
    <3>2. CASE ~Receiving
      BY <2>3, <3>2 DEF ServedInv
    <3> QED BY <3>1, <3>2
  <2>7. Quiet'
    <3>1. Len(<<>>) = 0
      BY EmptySeq
    <3> QED BY <1>1, <2>6, <3>1 DEF Quiet
  <2>8. ~Asked'
    <3> SUFFICES ASSUME Asked' PROVE FALSE
      OBVIOUS
    <3>1. host.op = "download" /\ \E x \in Range(to_host) : x[2] = "DATA"
      BY <1>1, <1>10, <2>2 DEF Asked
    <3>2. Receiving
      BY <2>2, <2>3, <2>4, <3>1 DEF Asked, AskedInv
    <3>3. PICK x \in Range(to_host), y \in Range(todo) : x[2] = "DATA" /\ y[2] = "DATA"
      BY <2>5, <3>1, <3>2
    <3> DEFINE a == host.seen \o to_host
    <3>4. a \in Seq(Messages) /\ x \in Range(a) /\ Wire = a \o todo
      <4>1. host.seen \in Seq(Messages) /\ a \in Seq(Messages)
        BY <1>2, WireType
      <4> DEFINE h == host.seen
      <4>2. Range(h \o to_host) = Range(h) \cup Range(to_host)
        <5>1. h \in Seq(Messages)
          BY <4>1
        <5> HIDE DEF h
        <5> QED BY <1>2, <5>1, RangeConcat
      <4> QED BY <3>3, <4>1, <4>2 DEF Wire
    <3> HIDE DEF a
    <3>5. Talk(a \o todo, host.sent, host.op)
      BY <1>2, <2>2, <3>4 DEF HostInv
    <3> QED BY <1>2, <3>3, <3>4, <3>5, OneData
  <2> QED BY <2>7, <2>8
<1> QED BY <1>6, <1>7, <1>11, <1>12, <1>13 DEF LinkInv, AskedInv

(* The send is over: what goes on is as it was.                             *)
LEMMA SentInv ==
    ASSUME LinkInv, Sent
    PROVE  LinkInv'
<1>1. pc = "send" /\ todo = <<>> /\ after' = "poll" /\ UNCHANGED <<channel, todo, got, host, faults>>
      /\ cmd' = (IF pc' \in {"poll", "command", "ended"} THEN NoCommand ELSE cmd)
  BY DEF Sent
<1>2. LinkType /\ ChannelInv /\ HostInv /\ after # "poll" /\ ~prefix /\ after \in Afters /\ resp \in Responders
      /\ cmd \in Packets
  BY <1>1 DEF LinkInv, ChannelInv, LinkType
<1>3. Wire' = Wire /\ Said' = Said /\ Unread' = Unread
  BY <1>1, WireSame DEF channel
<1>4. ASSUME pc' \in Stages \ {"send"}, resp' \in Responders PROVE LinkType' /\ HostInv'
  <2>1. NoCommand \in Packets
    BY DEF NoCommand, Packets, WireOps
  <2>2. cmd' \in Packets
    BY <1>1, <1>2, <2>1
  <2>3. LinkType'
    BY <1>1, <1>2, <1>4, <2>2 DEF LinkType, channel, Afters
  <2>4. HostInv'
    BY <1>1, <1>2, <1>3, <1>4 DEF HostInv, channel, Up
  <2> QED BY <2>3, <2>4
<1>5. CASE resp.err
  <2>1. resp' = resp /\ pc' \in {"error", "backend"} /\ (pc' = "backend" => after # "handshake")
    <3>1. after \in {"done", "backend", "initiated", "receive", "rebooted", "handshake"}
      BY <1>2 DEF Afters
    <3>2. CASE after = "done"
      BY <1>5, <3>2 DEF Sent
    <3>3. CASE after = "initiated"
      BY <1>5, <3>3 DEF Sent
    <3>4. CASE after \in {"receive", "rebooted", "handshake"}
      <4>1. /\ pc' = (IF after = "rebooted" THEN "backend" ELSE "error") /\ UNCHANGED resp
        BY <1>5, <3>4 DEF Sent
      <4> QED BY <3>4, <4>1
    <3>5. CASE after = "backend"
      BY <1>5, <3>5 DEF Sent
    <3> QED BY <3>1, <3>2, <3>3, <3>4, <3>5
  <2>2. LinkType' /\ HostInv'
    BY <1>2, <1>4, <2>1 DEF Stages
  <2>3. ChannelInv'
    BY <1>1, <1>2, <1>5, <2>1 DEF ChannelInv, channel, Unconnected, Up
  <2>4. ~Serving'
    BY <1>5, <2>1 DEF Serving
  <2>5. ASSUME Attentive' PROVE Quiet' /\ ~Asked'
    <3>1. Attentive
      BY <1>1, <1>5, <2>1, <2>5 DEF Attentive, channel
    <3>2. Quiet /\ ~Asked
      BY <1>5, <3>1 DEF LinkInv, AskedInv
    <3>3. prefetched = None
      BY <1>1, <3>2 DEF Quiet
    <3> QED BY <1>1, <1>3, <3>2, <3>3 DEF Quiet, Silent, Asked, channel, Up
  <2> QED BY <2>2, <2>3, <2>4, <2>5 DEF LinkInv, AskedInv
<1>6. CASE ~resp.err /\ after \in {"done", "handshake"}
  <2>1. /\ after = "done" => pc' \in {"ended", "poll", "command"} /\ (pc' = "poll" => link = "usb") /\ resp' = Responder
        /\ after = "handshake" => pc' = "handshake" /\ resp' = resp
    <3>1. CASE after = "done"
      <4>1. pc' = (IF cmd.op \in {"boot", "continue"} THEN "ended" ELSE Loop) /\ resp' = Responder
        BY <1>6, <3>1 DEF Sent
      <4> QED BY <3>1, <4>1 DEF Loop
    <3>2. CASE after = "handshake"
      BY <1>6, <3>2 DEF Sent
    <3> QED BY <1>6, <3>1, <3>2
  <2>2. resp' = Responder /\ Responder \in Responders /\ pc' \in {"ended", "poll", "command", "handshake"}
        /\ (pc' = "poll" => link = "usb") /\ (pc' # "handshake" => ~Unconnected) /\ (pc' = "handshake" => after = "handshake")
    BY <1>1, <1>2, <1>6, <2>1 DEF ChannelInv, Responder, Responders
  <2>3. LinkType' /\ HostInv'
    BY <1>2, <1>4, <2>2 DEF Stages
  <2>4. ChannelInv'
    BY <1>1, <1>2, <2>2 DEF ChannelInv, channel, Unconnected, Up
  <2>5. ~Serving'
    BY <2>2 DEF Serving
  <2>6. Attentive
    BY <1>1, <1>6 DEF Attentive
  <2>7. Quiet /\ ~Asked
    BY <1>1, <1>6, <2>6 DEF LinkInv, AskedInv, Receiving
  <2>8. prefetched = None
    BY <1>1, <2>7 DEF Quiet
  <2>9. Quiet' /\ ~Asked'
    BY <1>1, <1>3, <2>7, <2>8 DEF Quiet, Silent, Asked, channel, Up
  <2> QED BY <2>3, <2>4, <2>5, <2>9 DEF LinkInv, AskedInv
<1>7. CASE ~resp.err /\ after = "rebooted"
  <2>1. pc' = "rebooted" /\ resp' = resp
    BY <1>7 DEF Sent
  <2>2. LinkType' /\ HostInv'
    BY <1>2, <1>4, <2>1 DEF Stages
  <2>3. ChannelInv'
    BY <1>1, <1>2, <1>7, <2>1 DEF ChannelInv, channel, Unconnected, Up
  <2>4. ~Serving' /\ ~Attentive'
    BY <1>7, <2>1 DEF Serving, Attentive
  <2> QED BY <2>2, <2>3, <2>4 DEF LinkInv
<1>8. CASE ~resp.err /\ after \in {"backend", "receive", "initiated"}
  <2>1. /\ pc' = (IF after = "receive" THEN "receive" ELSE "backend") /\ cmd' = cmd
        /\ after # "initiated" => resp' = resp
        /\ after = "initiated" => resp' = [resp EXCEPT !.remaining = cmd.n]
    <3>1. CASE after = "initiated"
      BY <1>1, <1>8, <3>1 DEF Sent
    <3>2. CASE after \in {"backend", "receive"}
      BY <1>1, <1>8, <3>2 DEF Sent
    <3> QED BY <1>8, <3>1, <3>2
  <2>2. Serving /\ ServedInv /\ UploadInv /\ DownloadInv /\ AskedInv
    BY <1>1, <1>8 DEF LinkInv, Serving
  <2>3. cmd.n \in Nat /\ resp' \in Responders /\ ~resp'.err /\ resp'.uploading = resp.uploading
        /\ (after = "initiated" => resp'.remaining = cmd.n)
    BY <1>2, <1>8, <2>1 DEF Responders, Packets
  <2>4. LinkType' /\ HostInv'
    BY <1>2, <1>4, <1>8, <2>1, <2>3 DEF Stages
  <2>5. ChannelInv'
    BY <1>1, <1>2, <1>8, <2>1, <2>3 DEF ChannelInv, channel, Unconnected, Up
  <2>6. ~Attentive' /\ (Receiving' <=> Receiving)
    BY <1>1, <1>8, <2>1, <2>3 DEF Attentive, Receiving
  <2>7. ServedInv'
    BY <1>1, <1>3, <1>8, <2>1, <2>2, <2>6 DEF ServedInv, channel, Up
  <2>8. UploadInv'
    <3>1. CASE after # "initiated"
      BY <1>1, <1>3, <2>1, <2>2, <3>1 DEF UploadInv, Covered, Initiating, channel, Up
    <3>2. CASE after = "initiated"
      <4>1. Initiating /\ resp.uploading /\ cmd.op \in Uploads /\ ~Initiating' /\ (Up' <=> Up) /\ pc' = "backend"
        BY <1>1, <2>1, <2>2, <3>2 DEF UploadInv, Initiating, Up
      <4>2. Up => (\A m \in Said : m[2] # "bytes" /\ (m[2] = "DATA" => m[3] = cmd.n)) /\ \E m \in Said : m[2] = "DATA"
        BY <2>2, <4>1 DEF UploadInv
      <4>3. cmd'.n - resp'.remaining = 0 /\ resp'.remaining =< cmd'.n
        BY <2>1, <2>3, <3>2
      <4>4. Covered(cmd.n - resp.remaining)'
        BY <4>3 DEF Covered
      <4> QED BY <1>3, <2>1, <2>3, <4>1, <4>2, <4>3, <4>4 DEF UploadInv
    <3> QED BY <3>1, <3>2
  <2>9. DownloadInv'
    <3>1. \A d : RestOf(d)' <=> RestOf(d)
      BY <1>1 DEF RestOf, Consumed, Ahead, channel
    <3>2. DataPackets(cmd.id, cmd.n)' = DataPackets(cmd.id, cmd.n) /\ Framed(Packet(cmd.id, "all", cmd.n))' = Framed(Packet(cmd.id, "all", cmd.n))
      BY <1>1, <2>1 DEF DataPackets, Framed, Packet, channel
    <3> QED BY <1>1, <1>8, <2>1, <2>2, <2>6, <3>1, <3>2 DEF DownloadInv
  <2>10. AskedInv'
    BY <1>1, <1>3, <2>2, <2>3, <2>6 DEF AskedInv, Asked, channel, Up
  <2> QED BY <2>4, <2>5, <2>6, <2>7, <2>8, <2>9, <2>10 DEF LinkInv
<1> QED BY <1>2, <1>5, <1>6, <1>7, <1>8 DEF Afters

-----------------------------------------------------------------------------
(* The results. *)
LEMMA LinkNext ==
    ASSUME ~LateSends, LinkInv, [Next]_vars
    PROVE  LinkInv'
<1>1. CASE Host
  BY <1>1, HostDialsInv, HostCommandInv, HostWritesInv, HostReadsInv, HostLeavesInv DEF Host
<1>2. CASE Transport
  BY <1>2, send_packetInv, SendFailsInv, SentInv, ErrorInv, has_packetInv, receive_lengthInv, accept_newInv, handshakeInv
     DEF Transport
<1>3. CASE Handlers
  BY <1>3, CommandsInv, get_var_allInv, downloadInv, download_dataInv, download_completeInv DEF Handlers
<1>4. CASE Backend
  BY <1>4, BackendInfoInv, initiate_uploadInv, upload_dataInv, BackendReturnsInv, BackendRebootsInv DEF Backend
<1>5. CASE process_next_command
  BY <1>5, process_next_commandInv
<1>6. CASE NetPoll
  BY <1>6, NetPollInv
<1>7. CASE Tick \/ NoPacket \/ Over \/ UNCHANGED vars
  BY <1>7, TickInv
<1> QED BY <1>1, <1>2, <1>3, <1>4, <1>5, <1>6, <1>7 DEF Next, Device

(* What is said is read in the order it is said in.                         *)
LEMMA LinkConverses ==
    ASSUME LinkInv
    PROVE  Conversation
<1>1. LinkType /\ HostInv
  BY DEF LinkInv
<1>2. Talk(host.seen, host.sent, host.op)
  <2>1. CASE host.met
    <3> DEFINE a == host.seen
               u == to_host \o todo
    <3>1. a \in Seq(Messages) /\ u \in Seq(Messages) /\ Wire = a \o u
      BY <1>1, WireType
    <3>2. Talk(Wire, host.sent, host.op)
      BY <1>1, <2>1 DEF HostInv
    <3> HIDE DEF a, u
    <3>3. Talk(a, host.sent, host.op)
      BY <3>1, <3>2, TalkPrefix
    <3> QED BY <3>3 DEF a
  <2>2. CASE ~host.met
    BY <1>1, <2>2, TalkNothing DEF HostInv
  <2> QED BY <2>1, <2>2
<1> QED BY <1>1, <1>2 DEF Conversation, HostInv

LEMMA LinkDownloads ==
    ASSUME LinkInv
    PROVE  DownloadExact
<1> SUFFICES ASSUME pc = "complete" PROVE got = [i \in 1..cmd.n |-> <<cmd.id, i>>]
  BY DEF DownloadExact
<1>1. Serving
  BY DEF LinkInv, ChannelInv, Serving
<1> QED BY <1>1 DEF LinkInv, DownloadInv

(* What a host reads is an answer to the command it has under way and to no *)
(* other, in the order the protocol promises, and of an upload every byte   *)
(* that was announced, before the reply: over USB and TCP, however sends    *)
(* fail, hosts come and go and commands follow each other (libfastboot      *)
(* process_next_command(), GBL's transports).                               *)
THEOREM LinkConversation ==
    ASSUME ~LateSends
    PROVE  Spec => []Conversation
<1>1. Spec => []LinkInv
  BY LinkInit, LinkNext, PTL DEF Spec
<1>2. LinkInv => Conversation
  BY LinkConverses
<1> QED BY <1>1, <1>2, PTL

(* download() hands to download_complete() the bytes of the host that asked *)
(* for this download, all of them and in order, whatever packets they came  *)
(* in and whatever an earlier command or connection left behind.            *)
THEOREM LinkDownloadExact ==
    ASSUME ~LateSends
    PROVE  Spec => []DownloadExact
<1>1. Spec => []LinkInv
  BY LinkInit, LinkNext, PTL DEF Spec
<1>2. LinkInv => DownloadExact
  BY LinkDownloads
<1> QED BY <1>1, <1>2, PTL
=============================================================================
