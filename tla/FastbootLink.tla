---------------------------- MODULE FastbootLink ----------------------------
(***************************************************************************)
(* The fastboot protocol between a host and the device (gbl/libfastboot)   *)
(* over the two transports of the EFI application (gbl/efi/src/fastboot.rs,*)
(* the socket of gbl/efi/src/net.rs).  The command loop of GBL Fastboot    *)
(* polls USB for a packet or TCP for a connection and then serves commands;*)
(* a step is what runs between two awaits.  What a command does is the     *)
(* backend's business (GblFastboot): here a backend sends INFO messages,   *)
(* uploads, and returns with success or an error.                          *)
(*                                                                         *)
(* Bytes are units; a message is a tuple <<command, kind, ...>>, where the *)
(* command's number is a history tag, as are the places of the bytes of a  *)
(* message in their download or upload.  A TCP packet is two elements of   *)
(* the stream, its length and its body.                                    *)
(***************************************************************************)
EXTENDS Naturals, Sequences, SequencesExt

CONSTANTS
    Links,        \* transports a behaviour may use: subset of {"usb", "tcp"}
    MaxCommands,  \* commands the host sends
    MaxData,      \* units of a download or an upload, the size of the buffer
    MaxFaults,    \* failing sends and hosts that go away
    MaxInfos,     \* INFO messages of one command
    LateSends,    \* may a USB send that timed out still be delivered?
    None

ASSUME LinkAssumption ==
    /\ Links \subseteq {"usb", "tcp"} /\ Links # {}
    /\ {MaxCommands, MaxData, MaxFaults, MaxInfos} \subseteq Nat
    /\ LateSends \in BOOLEAN

VARIABLES
    link,        \* the transport in use
    sock,        \* state of the smoltcp socket
    old,         \* has DEFAULT_TIMEOUT passed since the last listen()?
    to_dev,      \* packets, or elements of the stream, the device has not read
    to_host,     \* and those the host has not read
    prefetched,  \* UsbTransport::prefetched
    prefix,      \* TcpTransport: has the length been read, and not yet the body?
    pc,          \* where the device stands
    cmd,         \* the command being served
    resp,        \* Responder: transport_error, remaining_upload; INFOs sent
    todo,        \* what the current send still has to write
    after,       \* where the device goes on after the send
    got,         \* the bytes downloaded so far
    host,        \* the host: connection, handshake, commands sent, the one it has
                 \* under way, elements to write, what it has read since
    faults       \* faults so far

channel == <<link, sock, old, to_dev, to_host, prefetched, prefix>>
vars == <<channel, pc, cmd, resp, todo, after, got, host, faults>>

Simple == {"getvar", "flash", "erase", "set_active", "oem"}
Uploads == {"upload", "fetch"}
Ops == Simple \cup Uploads \cup {"getvar_all", "max_download", "download", "reboot", "boot", "continue"}
Final == {"OKAY", "FAIL"}
Responder == [err |-> FALSE, remaining |-> 0, infos |-> 0, uploading |-> FALSE]
NoCommand == [id |-> 0, op |-> "none", n |-> 0]
Terminal == {"ended", "rebooted", "panic"}
Active(s) == s \in {"syn", "open", "fin"}
Closed(s) == s \in {"closed", "fin"}
Listening(s) == s \in {"listen", "syn"}

Init ==
    /\ link \in Links
    /\ sock = "closed" /\ old = TRUE /\ to_dev = <<>> /\ to_host = <<>>
    /\ prefetched = None /\ prefix = FALSE
    /\ pc = "poll" /\ cmd = NoCommand /\ resp = Responder
    /\ todo = <<>> /\ after = "poll" /\ got = <<>>
    /\ host = [conn |-> IF link = "usb" THEN "up" ELSE "none", met |-> link = "usb",
               sent |-> 0, op |-> "none", n |-> 0, busy |-> FALSE, pend |-> <<>>, seen |-> <<>>]
    /\ faults = 0

-----------------------------------------------------------------------------
(* What a packet is on the wire. *)
Packet(id, op, n) == [id |-> id, op |-> op, n |-> n]
Framed(p) == IF link = "tcp" THEN <<Packet(0, "len", 0), p>> ELSE <<p>>
FramedMsg(m) == IF link = "tcp" THEN <<<<m[1], "len">>, m>> ELSE <<m>>
Handshake(good) == Packet(0, IF good THEN "FB01" ELSE "junk", 0)
HostUp == host.conn = "up" /\ (link = "tcp" => sock = "open")

(* The host: external.  It sends one command at a time, with the arguments  *)
(* the handler accepts (n > 0) or not (n = 0); a "huge" packet is longer    *)
(* than a command may be (MAX_COMMAND_SIZE).                                *)
HostDials ==
    /\ link = "tcp" /\ host.conn = "none" /\ sock = "listen" /\ host.sent < MaxCommands
    /\ \E good \in BOOLEAN :
          /\ good \/ faults < MaxFaults
          /\ host' = [host EXCEPT !.conn = "up", !.pend = <<Handshake(good)>>]
          /\ faults' = IF good THEN faults ELSE faults + 1
    /\ UNCHANGED <<channel, pc, cmd, resp, todo, after, got>>

HostCommand ==
    /\ HostUp /\ ~host.busy /\ host.pend = <<>> /\ host.sent < MaxCommands
    /\ host.met
    /\ \E op \in Ops \cup {"unknown", "zlp", "huge"}, n \in 0..MaxData :
          /\ n =< 1 \/ op \in {"download"} \cup Uploads
          /\ host' = [host EXCEPT !.sent = @ + 1, !.op = op, !.n = n, !.busy = op # "zlp",
                                  !.seen = <<>>, !.pend = Framed(Packet(host.sent + 1, op, n))]
    /\ UNCHANGED <<channel, pc, cmd, resp, todo, after, got, faults>>

HostWrites ==
    /\ HostUp /\ host.pend # <<>>
    /\ to_dev' = Append(to_dev, Head(host.pend))
    /\ host' = [host EXCEPT !.pend = Tail(@)]
    /\ UNCHANGED <<link, sock, old, to_host, prefetched, prefix, pc, cmd, resp, todo, after, got, faults>>

(* It answers DATA to a download with the bytes, in packets of one unit or  *)
(* in one packet, and takes a final reply as the end of its command.        *)
DataPackets(id, n) ==
    IF link = "usb" THEN [i \in 1..n |-> Packet(id, "data", i)]
    ELSE [i \in 1..(2 * n) |-> IF i % 2 = 1 THEN Packet(0, "len", 0) ELSE Packet(id, "data", i \div 2)]

Bytes(m) ==
    IF m[2] = "DATA" /\ host.op = "download"
    THEN {DataPackets(m[1], m[3]), Framed(Packet(m[1], "all", m[3]))} ELSE {host.pend}

HostReads ==
    /\ HostUp /\ to_host # <<>>
    /\ to_host' = Tail(to_host)
    /\ LET m == Head(to_host) IN
       \E b \in Bytes(m) :
          host' = [host EXCEPT !.pend = b, !.busy = @ /\ m[2] \notin Final, !.met = TRUE,
                               !.seen = IF m[2] = "FB01" THEN @ ELSE Append(@, m)]
    /\ UNCHANGED <<link, sock, old, to_dev, prefetched, prefix, pc, cmd, resp, todo, after, got, faults>>

Away(conn) == [host EXCEPT !.conn = conn, !.met = FALSE, !.busy = FALSE, !.pend = <<>>, !.seen = <<>>]

(* A TCP host closes the connection, or vanishes without a word.            *)
HostLeaves ==
    /\ link = "tcp" /\ host.conn = "up" /\ faults < MaxFaults /\ faults' = faults + 1
    /\ \E how \in {"shut", "gone"} :
          host' = Away(how)
    /\ UNCHANGED <<channel, pc, cmd, resp, todo, after, got>>

(* A host whose connection the device gave up learns of it when it sends    *)
(* something, or its user gives up.                                         *)
HostReset ==
    /\ link = "tcp" /\ host.conn = "left" /\ host' = Away("none")
    /\ UNCHANGED <<channel, pc, cmd, resp, todo, after, got, faults>>

Host == HostDials \/ HostCommand \/ HostWrites \/ HostReads \/ HostLeaves \/ HostReset

-----------------------------------------------------------------------------
(* A handler that returns Err ends the command: the USB loop polls for the  *)
(* next packet, a TCP session is over.  Ok goes on with the session.        *)
SessionError == /\ pc' = "poll" /\ after' = "poll" /\ cmd' = NoCommand /\ resp' = Responder
                /\ todo' = <<>> /\ prefix' = FALSE /\ got' = <<>>
Loop == IF link = "usb" THEN "poll" ELSE "command"
Goto(s) == pc' = s /\ UNCHANGED <<todo, after>>

(* send_buffer(): nothing is sent after a transport error.  The assertion   *)
(* on the size fails for a message that fills the buffer.                   *)
send_buffer(m, then) ==
    IF resp.err THEN pc' = (IF then = "done" THEN "error" ELSE then) /\ UNCHANGED <<todo, after>>
    ELSE \/ pc' = "send" /\ todo' = FramedMsg(m) /\ after' = then
         \/ pc' = "panic" /\ UNCHANGED <<todo, after>>

reply(r) == send_buffer(<<cmd.id, r>>, "done")
send_info(then) == send_buffer(<<cmd.id, "INFO">>, then)
send_data_message(n, then) ==
    IF resp.err THEN Goto(then)
    ELSE pc' = "send" /\ todo' = FramedMsg(<<cmd.id, "DATA", n>>) /\ after' = then

(* One packet of a USB send, one write_exact() of a TCP send.               *)
send_packet ==
    /\ pc = "send" /\ todo # <<>> /\ ~(link = "tcp" /\ sock # "open")
    /\ to_host' = Append(to_host, Head(todo)) /\ todo' = Tail(todo)
    /\ UNCHANGED <<link, sock, old, to_dev, prefetched, prefix, pc, cmd, resp, after, got, host, faults>>

(* Timeout, an error of the interface, a socket that is closed.  What was   *)
(* handed to the TCP stack may still arrive before the connection is reset. *)
SendFails ==
    /\ pc = "send" /\ todo # <<>>
    /\ \/ faults < MaxFaults /\ faults' = faults + 1
       \/ link = "tcp" /\ (sock # "open" \/ host.conn # "up") /\ UNCHANGED faults
    /\ \/ UNCHANGED to_host
       \/ /\ IF link = "tcp" THEN sock = "open" ELSE LateSends
          /\ to_host' = Append(to_host, Head(todo))
    /\ todo' = <<>> /\ resp' = [resp EXCEPT !.err = TRUE]
    /\ UNCHANGED <<link, sock, old, to_dev, prefetched, prefix, pc, cmd, after, got, host>>

(* The await of the send ends. `boot` and `continue` end the command loop.  *)
Sent ==
    /\ pc = "send" /\ todo = <<>>
    /\ CASE after = "done" /\ resp.err -> pc' = "error" /\ UNCHANGED resp
         [] after = "done" /\ ~resp.err ->
              pc' = (IF cmd.op \in {"boot", "continue"} THEN "ended" ELSE Loop) /\ resp' = Responder
         [] after = "initiated" /\ ~resp.err ->
              pc' = "backend" /\ resp' = [resp EXCEPT !.remaining = cmd.n]   \* initiate_upload()
         [] after = "initiated" /\ resp.err -> pc' = "backend" /\ UNCHANGED resp
         [] after \in {"receive", "rebooted", "handshake"} /\ resp.err ->
              pc' = (IF after = "rebooted" THEN "backend" ELSE "error") /\ UNCHANGED resp
         [] OTHER -> pc' = after /\ UNCHANGED resp
    /\ cmd' = IF pc' \in {"poll", "command", "ended"} THEN NoCommand ELSE cmd
    /\ after' = "poll"
    /\ UNCHANGED <<channel, todo, got, host, faults>>

Error ==
    /\ pc = "error" /\ SessionError
    /\ UNCHANGED <<link, sock, old, to_dev, to_host, prefetched, host, faults>>

-----------------------------------------------------------------------------
(* UsbTransport::has_packet(), poll_next_packet(): the packet is fetched    *)
(* before the command is served.  A zero-length packet counts as one, and   *)
(* leaves nothing prefetched; a packet that is still there is found again.  *)
has_packet ==
    /\ link = "usb" /\ pc = "poll" /\ pc' = "command"
    /\ \/ prefetched # None /\ UNCHANGED <<prefetched, to_dev>>
       \/ /\ prefetched = None /\ to_dev # <<>>
          /\ prefetched' = IF Head(to_dev).op = "zlp" THEN None ELSE Head(to_dev)
          /\ to_dev' = Tail(to_dev)
    /\ UNCHANGED <<link, sock, old, to_host, prefix, cmd, resp, todo, after, got, host, faults>>

(* fastboot_usb_receive() says NotReady: polled again.                      *)
NoPacket ==
    /\ link = "usb" /\ pc \in {"poll", "command", "receive"} /\ prefetched = None /\ to_dev = <<>>
    /\ UNCHANGED vars

(* Transport::receive_packet(): the prefetched packet first; over TCP the   *)
(* body after its length.                                                   *)
packet_ready == prefetched # None \/ (to_dev # <<>> /\ (link = "tcp" => prefix))
packet == IF prefetched # None THEN prefetched ELSE Head(to_dev)

receive_packet ==
    /\ packet_ready
    /\ to_dev' = IF prefetched # None THEN to_dev ELSE Tail(to_dev)
    /\ prefetched' = None /\ prefix' = FALSE

(* Its error: the packet is larger than the buffer of the command.  A       *)
(* prefetched packet stays prefetched, a TCP session is over.               *)
BufferTooSmall ==
    /\ pc = "command" /\ (link = "tcp" => ~Closed(sock))
    /\ packet_ready /\ packet.op = "huge" /\ SessionError
    /\ UNCHANGED <<link, sock, old, to_dev, to_host, prefetched, host, faults>>

(* The length prefix.                                                       *)
receive_length ==
    /\ link = "tcp" /\ pc \in {"command", "receive"} /\ ~prefix /\ to_dev # <<>>
    /\ prefix' = TRUE /\ to_dev' = Tail(to_dev)
    /\ UNCHANGED <<link, sock, old, to_host, prefetched, pc, cmd, resp, todo, after, got, host, faults>>

(* receive_exact(): Disconnected or Timeout, when nothing is there to read; *)
(* a closed socket is noticed before what it still holds is read.           *)
receive_exact_fails ==
    /\ link = "tcp" /\ pc \in {"command", "receive", "handshake"}
    /\ to_dev = <<>> \/ Closed(sock)
    /\ SessionError
    /\ UNCHANGED <<link, sock, old, to_dev, to_host, prefetched, host, faults>>

(* The stack handles frames inside Interface::poll(): external.             *)
Poll(s) ==
    LET step == [listen |-> IF host.conn = "up" THEN {"listen", "syn", "open"} ELSE {"listen"},
                 syn    |-> CASE host.conn = "up"   -> {"syn", "open"}
                              [] host.conn = "shut" -> {"syn", "listen"}
                              [] OTHER              -> {"syn"},
                 open   |-> IF host.conn = "shut" THEN {"open", "fin"} ELSE {"open"},
                 fin    |-> {"fin"}, closed |-> {"closed"}]
    IN  step[s]

NetPoll ==
    /\ link = "tcp" /\ pc \in {"command", "receive", "handshake", "send"}
    /\ sock' \in Poll(sock) \ {sock}
    /\ UNCHANGED <<link, old, to_dev, to_host, prefetched, prefix, pc, cmd, resp, todo, after, got, host, faults>>

(* EfiTcpSocket::listen() aborts and listens again before the stack is      *)
(* polled: no reset goes out, the peer of a connection is left waiting; one *)
(* that only knocks is not concerned.  What was on its way to that peer is  *)
(* no longer followed: to read it now is to have read it before.            *)
listen(s) ==
    /\ sock' = "listen" /\ old' = FALSE /\ to_dev' = <<>> /\ to_host' = <<>>
    /\ host' = CASE host.conn = "up" /\ Active(s) -> [Away("left") EXCEPT !.busy = host.busy]
                 [] host.conn = "left" \/ (host.conn = "up" /\ ~Active(s)) -> host
                 [] OTHER -> Away("none")
    /\ UNCHANGED <<pc, cmd, resp, todo, after>>

Accepted(s) ==
    /\ sock' = s /\ pc' = "send" /\ todo' = <<<<0, "FB01">>>> /\ after' = "handshake"
    /\ UNCHANGED <<old, to_dev, to_host, host, cmd, resp>>

(* Mutant: an unserved connection is left alone. *)
accept_new_lazy ==
    /\ link = "tcp" /\ pc = "poll"
    /\ \E s1 \in Poll(sock) : \E s2 \in Poll(s1) :
          IF s1 = "closed" \/ (~Active(s2) /\ old) THEN listen(s2)
          ELSE \E s3 \in Poll(s2) :
                  IF Listening(s1) /\ Active(s3) THEN Accepted(s3)
                  ELSE /\ sock' = s3
                       /\ UNCHANGED <<old, to_dev, to_host, host, pc, cmd, resp, todo, after>>
    /\ UNCHANGED <<link, prefetched, prefix, got, faults>>

(* EfiFastbootTcpTransport::accept_new(): three polls, each of which may    *)
(* move the socket.                                                         *)
accept_new ==
    /\ link = "tcp" /\ pc = "poll"
    /\ \E s1 \in Poll(sock) :
          IF ~Listening(s1) THEN listen(s1)
          ELSE \E s2 \in Poll(s1) :
                  IF ~Active(s2) /\ old THEN listen(s2)
                  ELSE \E s3 \in Poll(s2) :
                          IF Active(s3) THEN Accepted(s3)
                          ELSE /\ sock' = s3
                               /\ UNCHANGED <<old, to_dev, to_host, host, pc, cmd, resp, todo, after>>
    /\ UNCHANGED <<link, prefetched, prefix, got, faults>>

(* time_since_last_listen() passes DEFAULT_TIMEOUT.                         *)
Tick ==
    /\ link = "tcp" /\ pc = "poll" /\ sock = "listen" /\ ~old /\ old' = TRUE
    /\ UNCHANGED <<link, sock, to_dev, to_host, prefetched, prefix, pc, cmd, resp, todo, after, got, host, faults>>

(* new_and_handshake(), after its own FB01 is written.                      *)
handshake ==
    /\ pc = "handshake" /\ to_dev # <<>> /\ ~Closed(sock)
    /\ to_dev' = Tail(to_dev)
    /\ pc' = IF Head(to_dev).op = "FB01" THEN "command" ELSE "error"
    /\ UNCHANGED <<link, sock, old, to_host, prefetched, prefix, cmd, resp, todo, after, got, host, faults>>

-----------------------------------------------------------------------------
(* process_next_command(): an empty packet is no command; bytes that are no *)
(* command are answered FAIL.                                               *)
process_next_command ==
    /\ pc = "command" /\ (link = "tcp" => ~Closed(sock))
    /\ receive_packet /\ packet.op # "huge"
    /\ cmd' = packet /\ pc' = IF packet.op = "zlp" THEN Loop ELSE "dispatch"
    /\ UNCHANGED <<link, sock, old, to_host, resp, todo, after, got, host, faults>>

Serve(op) == pc = "dispatch" /\ cmd.op = op /\ UNCHANGED <<channel, resp, got, host, faults>>
(* From here on only the class of the command matters.                      *)
CallBackend == Goto("backend") /\ cmd' = [cmd EXCEPT !.op = IF @ \in Simple THEN "simple" ELSE @]
IfArgs(A) == IF cmd.n = 0 THEN reply("FAIL") /\ UNCHANGED cmd ELSE A

(* The commands with arguments: "Missing partition", "Missing variable",    *)
(* "Missing slot", a number that is not hexadecimal.                        *)
flash      == Serve("flash") /\ IfArgs(CallBackend)
erase      == Serve("erase") /\ IfArgs(CallBackend)
set_active == Serve("set_active") /\ IfArgs(CallBackend)
fetch      == Serve("fetch") /\ IfArgs(CallBackend)
upload     == Serve("upload") /\ CallBackend
oem        == Serve("oem") /\ CallBackend
reboot     == Serve("reboot") /\ CallBackend
boot       == Serve("boot") /\ CallBackend
continue   == Serve("continue") /\ CallBackend
NotFound   == \E op \in {"unknown", "data", "all"} : Serve(op) /\ reply("FAIL") /\ UNCHANGED cmd

(* get_var(): max-download-size is the library's own, and the first line of *)
(* `getvar all`.                                                            *)
get_var ==
    \/ Serve("getvar") /\ IfArgs(CallBackend)
    \/ Serve("max_download") /\ reply("OKAY") /\ UNCHANGED cmd
get_var_all == Serve("getvar_all") /\ send_info("backend") /\ UNCHANGED cmd

(* download(): no size, zero or too large is answered FAIL.                 *)
download ==
    /\ pc = "dispatch" /\ cmd.op = "download" /\ got' = <<>>
    /\ IF cmd.n = 0 THEN reply("FAIL") ELSE send_data_message(cmd.n, "receive")
    /\ UNCHANGED <<channel, cmd, resp, host, faults>>

Units(p) == CASE p.op = "data" -> <<<<p.id, p.n>>>>
              [] p.op = "all"  -> [i \in 1..p.n |-> <<p.id, i>>]
              [] p.op = "zlp"  -> <<>>
              [] OTHER         -> <<<<p.id, p.op>>>>

(* Mutant: one packet is taken for the whole download. *)
Store_one(p) ==
    /\ got' = IF Len(Units(p)) > cmd.n THEN got ELSE got \o Units(p)
    /\ pc' = IF Len(Units(p)) > cmd.n THEN "error" ELSE "complete"

(* A packet goes behind the bytes there are; one that does not fit is an    *)
(* error of the transport.                                                  *)
Store(p) ==
    /\ got' = IF Len(got) + Len(Units(p)) > cmd.n THEN got ELSE got \o Units(p)
    /\ pc' = CASE Len(got) + Len(Units(p)) > cmd.n -> "error"
               [] Len(got') = cmd.n                -> "complete"
               [] OTHER                            -> "receive"

download_data ==
    /\ pc = "receive" /\ (link = "tcp" => ~Closed(sock))
    /\ receive_packet /\ Store(packet)
    /\ UNCHANGED <<link, sock, old, to_host, cmd, resp, todo, after, host, faults>>

download_complete ==
    /\ pc = "complete" /\ \E r \in Final : reply(r)
    /\ got' = <<>>
    /\ UNCHANGED <<channel, cmd, resp, host, faults>>

-----------------------------------------------------------------------------
(* FastbootImplementation, the backend: external to the library.            *)
BackendInfo ==
    /\ pc = "backend" /\ ~resp.uploading /\ resp.infos < MaxInfos /\ ~resp.err
    /\ send_info("backend") /\ resp' = [resp EXCEPT !.infos = @ + 1]
    /\ UNCHANGED <<channel, cmd, got, host, faults>>

initiate_upload ==
    /\ pc = "backend" /\ cmd.op \in Uploads /\ ~resp.uploading /\ ~resp.err
    /\ send_data_message(cmd.n, "initiated") /\ resp' = [resp EXCEPT !.uploading = TRUE]
    /\ UNCHANGED <<channel, cmd, got, host, faults>>

(* upload(): never more than announced; a failed send shows at the next one.*)
upload_data ==
    /\ pc = "backend" /\ ~resp.err
    /\ \E k \in 1..resp.remaining :
          /\ resp' = [resp EXCEPT !.remaining = @ - k]
          /\ pc' = "send" /\ after' = "backend"
          /\ LET done == cmd.n - resp.remaining
             IN  todo' = FramedMsg(<<cmd.id, "bytes", done + 1, done + k>>)
    /\ UNCHANGED <<channel, cmd, got, host, faults>>

(* Mutant: the bytes still owed are forgotten. *)
BackendReturns_unchecked ==
    /\ pc = "backend"
    /\ \E r \in IF cmd.op = "reboot" THEN {"FAIL"} ELSE Final : reply(r)
    /\ UNCHANGED <<channel, cmd, resp, got, host, faults>>

(* The backend's result becomes the reply, except that an upload that owes  *)
(* bytes is an error of the session.                                        *)
BackendReturns ==
    /\ pc = "backend"
    /\ IF resp.remaining > 0 THEN Goto("error")
       ELSE \E r \in IF cmd.op = "reboot" THEN {"FAIL"} ELSE Final : reply(r)
    /\ UNCHANGED <<channel, cmd, resp, got, host, faults>>

BackendReboots ==
    /\ pc = "backend" /\ cmd.op = "reboot" /\ ~resp.err
    /\ send_buffer(<<cmd.id, "OKAY">>, "rebooted")
    /\ UNCHANGED <<channel, cmd, resp, got, host, faults>>

Over == pc \in Terminal /\ UNCHANGED vars

Handlers ==
    \/ flash \/ erase \/ set_active \/ fetch \/ upload \/ oem \/ reboot \/ boot \/ continue
    \/ NotFound \/ get_var \/ get_var_all \/ download \/ download_data \/ download_complete
Backend == BackendInfo \/ initiate_upload \/ upload_data \/ BackendReturns \/ BackendReboots
Transport == send_packet \/ SendFails \/ Sent \/ Error \/ has_packet \/ receive_length \/ BufferTooSmall
             \/ receive_exact_fails \/ accept_new \/ handshake
Device == Transport \/ process_next_command \/ Handlers \/ Backend

Next == Host \/ Device \/ NetPoll \/ Tick \/ NoPacket \/ Over

(* The command loop is polled for ever, the host reads and writes what it   *)
(* has begun to; the timers of the device run.                              *)
Spec == Init /\ [][Next]_vars /\ WF_vars(Device) /\ WF_vars(Tick) /\ WF_vars(HostWrites) /\ WF_vars(HostReads)

-----------------------------------------------------------------------------
(* What the host reads while a command is served is an answer to that       *)
(* command and to no other: INFOs; then DATA, at most once, and for an      *)
(* upload the bytes it announces, in order and none twice; then one OKAY or *)
(* FAIL and nothing after it, and for an upload not before all the bytes.   *)
Is(m, k) == m[2] = k
Talk(s, id, op) ==
    /\ \A i \in 1..Len(s) : s[i][1] = id /\ (s[i][2] \in Final => i = Len(s))
    /\ \A i, j \in 1..Len(s) :
          /\ Is(s[i], "DATA") /\ s[j][2] \in {"INFO", "DATA"} => j =< i
          /\ Is(s[i], "DATA") /\ Is(s[j], "bytes") => i < j /\ s[j][4] =< s[i][3]
          /\ i < j /\ Is(s[i], "bytes") /\ Is(s[j], "bytes") => s[i][4] < s[j][3]
    /\ \A j \in 1..Len(s) : Is(s[j], "bytes") => \E i \in 1..Len(s) : Is(s[i], "DATA")
    /\ \A i, j \in 1..Len(s) :
          Is(s[i], "DATA") /\ s[j][2] \in Final /\ op \in Uploads =>
              \A b \in 1..s[i][3] : \E k \in 1..Len(s) : Is(s[k], "bytes") /\ b \in s[k][3]..s[k][4]

Conversation ==
    /\ Talk(host.seen, host.sent, host.op)
    /\ host.seen # <<>> => (host.busy <=> host.seen[Len(host.seen)][2] \notin Final)

(* The bytes handed to download_complete() are the host's, all of them and  *)
(* in order, whatever packets they came in.                                 *)
DownloadExact == pc = "complete" => got = [i \in 1..cmd.n |-> <<cmd.id, i>>]

(* A TCP host that waits for an answer gets one, or its connection is given *)
(* up so that the socket listens for the next (no reset is sent, and a host *)
(* that only waits is not told), or the device left fastboot after its last *)
(* command or crashed on a name too long for the answer: the device never   *)
(* keeps a connection it does not serve.                                    *)
TcpHostServed ==
    link = "tcp" /\ host.busy ~>
        \/ ~host.busy \/ host.conn = "left"
        \/ pc = "panic" \/ (pc \in {"ended", "rebooted"} /\ to_host = <<>>)

=============================================================================
