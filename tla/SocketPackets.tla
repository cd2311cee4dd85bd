--------------------------- MODULE SocketPackets ---------------------------
(***************************************************************************)
(* How the packets of a script are tied to a live TCP connection: the      *)
(* table of sockets kept by run_system_call.c and run_packet.c, the state  *)
(* of each socket, and the translation of sequence and ACK numbers between *)
(* the script's numbering and the kernel's (socket.h, run_packet.c).       *)
(*                                                                         *)
(* A script names numbers the way tcpdump prints them: absolute in packets *)
(* with SYN, relative to the first SYN in all others.  The kernel picks    *)
(* its own initial sequence number, so nearly every number is rewritten.   *)
(* The environment is the author of the script (what packets it lists) and *)
(* a kernel with one TCP endpoint.                                         *)
(*                                                                         *)
(* Numbers are modulo Modulus (2^32 in the code).  An ACK number and the   *)
(* edges of SACK blocks are the sequence "acks", empty without the ACK     *)
(* flag.  The live remote address is fixed, so a live tuple is the kernel's *)
(* local port, 0 while unknown.                                            *)
(***************************************************************************)
EXTENDS Integers, Sequences, FiniteSets

CONSTANTS
    Modulus,      \* size of the sequence number space
    KernelIsns,   \* initial sequence numbers the kernel may pick
    LocalIsns,    \* initial sequence numbers a script gives the kernel
    RemoteIsns,   \* initial sequence numbers a script gives the peer
    Ports,        \* ephemeral ports the kernel may pick
    BindPort,     \* live_bind_port
    WireModes,    \* values of config->is_wire_server
    Features,     \* what scripts do beyond plain handshakes and data
    MaxRel,       \* bound on relative sequence numbers
    MaxSockets,   \* bound on the number of sockets of a script
    MaxWire       \* bound on the packets that wait to be sniffed

ASSUME NumbersAssumption ==
    /\ Modulus \in Nat \ {0}
    /\ KernelIsns \cup LocalIsns \cup RemoteIsns \subseteq 0 .. (Modulus - 1)
    /\ MaxRel \in 0 .. (Modulus - 1)
    /\ 0 \notin Ports \cup {BindPort}
    /\ Features \subseteq {"stray", "simultaneous", "reconnect"}

VARIABLES
    is_wire_server,  \* config->is_wire_server
    sockets,         \* the sockets of state->fds, oldest first
    under,           \* state->socket_under_test, an index, 0 for NULL
    status,          \* "running", "failed" (the test died) or "closed"
    kernel,          \* the kernel's endpoint
    wire,            \* outbound live packets not yet sniffed
    author,          \* the initial sequence numbers the script uses
    seen,            \* the kernel's SYN has been sniffed
    taken,           \* the kernel took the last injected packet
    agree            \* the last packet means what the script says

script == <<author, seen, taken, agree>>
vars == <<is_wire_server, sockets, under, status, kernel, wire, script>>

Numbers == 0 .. (Modulus - 1)
Add(a, b) == (a + b) % Modulus
Neg(a) == (Modulus - a) % Modulus
AddAll(s, b) == [j \in DOMAIN s |-> Add(s[j], b)]

Ack(p) == p.acks # <<>>
SynAck(p) == p.syn /\ Ack(p)
NoPacket == [syn |-> FALSE, fin |-> 0, seq |-> 0, acks |-> <<>>, len |-> 0]

\* What a saved TCP header keeps: the SACK blocks are options, not header.
Packet(q) == [f \in DOMAIN NoPacket |-> q[f]]
Header(q) ==
    [Packet(q) EXCEPT !.acks = IF Ack(q) THEN <<Head(@)>> ELSE <<>>]

\* calloc leaves every number zero.
socket_new(st) ==
    [state |-> st, script |-> [local_isn |-> 0],
     live |-> [local_port |-> 0, local_isn |-> 0, remote_isn |-> 0],
     last_injected |-> NoPacket, last_outbound |-> NoPacket]

(***************************************************************************)
(* The translation of numbers.                                             *)
(***************************************************************************)
remote_seq_script_to_live_offset(s, is_syn) ==
    IF is_syn THEN 0 ELSE s.live.remote_isn

remote_seq_live_to_script_offset(s, is_syn) ==
    Neg(remote_seq_script_to_live_offset(s, is_syn))

\* Mutant: numbers in SYN packets are not taken as absolute.
local_seq_script_to_live_offset_Relative(s, is_syn) == s.live.local_isn

local_seq_script_to_live_offset(s, is_syn) ==
    IF is_syn THEN Add(s.live.local_isn, Neg(s.script.local_isn))
    ELSE s.live.local_isn

local_seq_live_to_script_offset(s, is_syn) ==
    Neg(local_seq_script_to_live_offset(s, is_syn))

map_inbound_packet(s, p) ==
    [p EXCEPT !.seq = Add(@, remote_seq_script_to_live_offset(s, p.syn)),
              !.acks = AddAll(@, local_seq_script_to_live_offset(s, p.syn))]

tcp_convert_seq_number(s, p) ==
    [p EXCEPT !.seq = Add(@, local_seq_live_to_script_offset(s, p.syn)),
              !.acks = AddAll(@, remote_seq_live_to_script_offset(s, p.syn))]

(***************************************************************************)
(* The socket a script packet belongs to.                                  *)
(***************************************************************************)
UnderIn(st) == under # 0 /\ sockets[under].state = st

\* Nothing here looks at the SYN flag.
Listening ==
    under = 0 \/ (~is_wire_server /\ UnderIn("PASSIVE_LISTENING"))

Connecting ==
    IF is_wire_server THEN under = 0 ELSE UnderIn("ACTIVE_CONNECTING")

handle_listen_for_script_packet(p) ==
    Append(sockets,
        [socket_new("PASSIVE_PACKET_RECEIVED") EXCEPT
            !.live.local_port = BindPort, !.live.remote_isn = p.seq])

handle_connect_for_script_packet(p) ==
    LET all == IF under = 0 THEN Append(sockets, socket_new("NEW"))
               ELSE sockets
        i == IF under = 0 THEN Len(all) ELSE under
    IN  [all EXCEPT ![i].state = "ACTIVE_SYN_SENT",
                    ![i].script.local_isn = p.seq]

find_or_create_socket_for_script_packet(p, inbound) ==
    CASE inbound /\ Listening -> handle_listen_for_script_packet(p)
      [] ~inbound /\ p.syn /\ ~Ack(p) /\ Connecting ->
            handle_connect_for_script_packet(p)
      [] OTHER -> sockets

\* A socket made for a packet becomes the socket under test.
UnderOf(all) == IF Len(all) > Len(sockets) THEN Len(all) ELSE under

(***************************************************************************)
(* Inbound and outbound packets.                                           *)
(***************************************************************************)
do_inbound_script_packet(s, p) ==
    LET t == CASE s.state = "PASSIVE_SYNACK_SENT" /\ Ack(p) ->
                    [s EXCEPT !.state = "PASSIVE_SYNACK_ACKED"]
               [] s.state = "ACTIVE_SYN_SENT" /\ SynAck(p) ->
                    [s EXCEPT !.state = "ACTIVE_SYN_ACKED",
                              !.live.remote_isn = p.seq]
               [] OTHER -> s
    IN  [t EXCEPT !.last_injected = Header(map_inbound_packet(t, p))]

find_socket_for_live_packet(s, q) == q.port = s.live.local_port

find_connect_for_live_packet(s, q) ==
    q.syn /\ ~Ack(q) /\ s.state = "ACTIVE_SYN_SENT"

\* The positions of the packets on the wire that are for socket s.
sniff_outbound_live_packet(s) ==
    {n \in DOMAIN wire : \/ find_socket_for_live_packet(s, wire[n])
                         \/ find_connect_for_live_packet(s, wire[n])}

Learn(s, q) ==
    IF find_socket_for_live_packet(s, q) THEN s
    ELSE [s EXCEPT !.live.local_port = q.port, !.live.local_isn = q.seq]

\* Mutant: the SYN/ACK does not change the state of the socket.
do_outbound_script_packet_Stay(s, p, q) ==
    LET synack(x) == x.state = "PASSIVE_PACKET_RECEIVED" /\ SynAck(p)
        t == IF synack(s) THEN [s EXCEPT !.script.local_isn = p.seq] ELSE s
        u == Learn(t, q)
        v == IF synack(u) THEN [u EXCEPT !.live.local_isn = q.seq] ELSE u
    IN  [v EXCEPT !.last_outbound = [Header(q) EXCEPT !.len = 0]]

do_outbound_script_packet(s, p, q) ==
    LET synack(x) == x.state = "PASSIVE_PACKET_RECEIVED" /\ SynAck(p)
        t == IF synack(s) THEN [s EXCEPT !.script.local_isn = p.seq] ELSE s
        u == Learn(t, q)
        v == IF synack(u) THEN [u EXCEPT !.state = "PASSIVE_SYNACK_SENT",
                                      !.live.local_isn = q.seq] ELSE u
    IN  [v EXCEPT !.last_outbound = [Header(q) EXCEPT !.len = 0]]

\* The flags and the translated numbers are those of the script.
verify_outbound_live_packet(sameFlags, actual, expected) ==
    sameFlags /\ actual = expected

(***************************************************************************)
(* The reset sent for a socket at the end of the test.                     *)
(***************************************************************************)
\* Mutant: SYN and FIN take no sequence number.
reset_connection_NoFlags(s) ==
    LET in == s.last_injected
        out == s.last_outbound
    IN  CASE Ack(in) -> [seq |-> Add(in.seq, in.len), ack |-> in.acks[1]]
          [] ~Ack(in) /\ Ack(out) -> [seq |-> out.acks[1], ack |-> out.seq]
          [] OTHER -> [seq |-> 0, ack |-> Add(out.seq, 1)]

reset_connection(s) ==
    LET in == s.last_injected
        out == s.last_outbound
        syn == IF in.syn THEN 1 ELSE 0
    IN  CASE Ack(in) -> [seq |-> Add(in.seq, syn + in.fin + in.len),
                         ack |-> in.acks[1]]
          [] ~Ack(in) /\ Ack(out) -> [seq |-> out.acks[1], ack |-> out.seq]
          [] OTHER -> [seq |-> 0, ack |-> Add(out.seq, 1)]

(***************************************************************************)
(* The kernel: one endpoint that follows the TCP handshake.  "rcv" counts  *)
(* what it has received and "snd" what it has sent, SYNs included.         *)
(***************************************************************************)
Closed == [state |-> "closed", passive |-> FALSE, port |-> 0,
           iss |-> 0, irs |-> 0, rcv |-> 0, snd |-> 0]

KnowsIrs(k) == k.state \in {"syn_rcvd", "established"}
KnowsIss(k) == KnowsIrs(k) \/ k.state = "syn_sent"

\* A segment of the endpoint: its SYN again, or bytes "at" of the stream.
Segment(k, isSyn, at, len, sacks) ==
    [port |-> k.port, syn |-> isSyn, fin |-> 0, len |-> len,
     seq |-> Add(k.iss, at),
     acks |-> IF KnowsIrs(k)
              THEN <<Add(k.irs, k.rcv)>> \o AddAll(sacks, k.irs) ELSE <<>>]

Syn(k) == Segment(k, TRUE, 0, 0, <<>>)
PureAck(k) == Segment(k, FALSE, k.snd, 0, <<>>)

\* What the endpoint k becomes and answers when it is sent packet p.
Receive(k, p, iss) ==
    LET synced == [k EXCEPT !.irs = p.seq, !.rcv = 1]
        at == Add(p.seq, Neg(k.irs))
        acksSyn == Ack(p) /\ p.acks[1] = Add(k.iss, 1)
        next == [k EXCEPT !.state = "established", !.rcv = @ + p.len + p.fin]
        rcvd == [synced EXCEPT !.state = "syn_rcvd"]
        fresh == [rcvd EXCEPT !.passive = TRUE, !.iss = iss, !.snd = 1]
        est == [synced EXCEPT !.state = "established"]
    IN  CASE k.state = "listen" /\ p.syn /\ ~Ack(p) ->
                [kernel |-> fresh, out |-> <<Syn(fresh)>>, taken |-> TRUE]
          [] k.state = "syn_sent" /\ p.syn /\ acksSyn ->
                [kernel |-> est, out |-> <<PureAck(est)>>, taken |-> TRUE]
          [] k.state = "syn_sent" /\ p.syn /\ ~Ack(p) ->
                [kernel |-> rcvd, out |-> <<Syn(rcvd)>>, taken |-> TRUE]
          [] KnowsIrs(k) /\ ~p.syn /\ Ack(p) /\ at = k.rcv
                /\ (k.state = "syn_rcvd" => acksSyn) ->
                [kernel |-> next, taken |-> TRUE,
                 out |-> IF next.rcv = k.rcv THEN <<>> ELSE <<PureAck(next)>>]
          [] k.state = "established" /\ ~p.syn /\ Ack(p) /\ p.len > 0
                /\ at = k.rcv + 1 ->
                [kernel |-> k, taken |-> FALSE,
                 out |-> <<Segment(k, FALSE, k.snd, 0, <<at, at + p.len>>)>>]
          [] OTHER -> [kernel |-> k, out |-> <<>>, taken |-> FALSE]

(***************************************************************************)
(* What the author of a script means by a packet: positions in the two     *)
(* byte streams, in either direction.                                      *)
(***************************************************************************)
Stated(m, seqIsn, ackIsn) ==
    [m EXCEPT !.seq = IF m.syn THEN Add(seqIsn, @) ELSE @,
              !.acks = IF m.syn THEN AddAll(@, ackIsn) ELSE @]

\* A packet without SYN is old, in order or one ahead of the kernel.
Meanings ==
    LET near == {n \in 0 .. MaxRel : kernel.rcv - n \in -1 .. 1}
    IN  [syn : {TRUE}, fin : {0}, len : {0}, seq : {0}, acks : {<<>>, <<1>>}]
        \cup [syn : {FALSE}, fin : {0, 1}, len : {0}, seq : near,
              acks : {<<1>>}]
        \cup [syn : {FALSE}, fin : {0}, len : {1}, seq : near,
              acks : {<<1, 2>>}]

\* Scripts the passing instances leave out unless Features names them: a
\* packet without SYN for a listening socket, and a simultaneous open.
Plain(m) ==
    /\ kernel.state = "closed" => m.syn /\ sockets = <<>>
    /\ Listening /\ "stray" \notin Features => m.syn
    /\ kernel.state = "syn_sent" /\ "simultaneous" \notin Features =>
            ~(m.syn /\ m.acks = <<>>)

-----------------------------------------------------------------------------
Init ==
    /\ is_wire_server \in WireModes
    /\ sockets = <<>> /\ under = 0 /\ status = "running"
    /\ kernel = Closed /\ wire = <<>>
    /\ author \in [local : LocalIsns, remote : RemoteIsns]
    /\ seen = FALSE /\ taken = TRUE /\ agree = TRUE

\* An error ends the test.  The wire server still frees its state; a local
\* run dies, and its sockets go without a reset.
Fail(all, u) ==
    /\ status' = "failed"
    /\ sockets' = IF is_wire_server THEN all ELSE <<>>
    /\ under' = IF is_wire_server THEN u ELSE 0

\* socket(): the new socket is the socket under test.  One connection at a
\* time is tested, so a script opens it before the kernel has any.
run_syscall_socket ==
    /\ status = "running" /\ kernel = Closed /\ ~is_wire_server
    /\ Len(sockets) < MaxSockets
    /\ sockets' = Append(sockets, socket_new("NEW"))
    /\ under' = Len(sockets')
    /\ UNCHANGED <<is_wire_server, status, kernel, wire, script>>

\* The wire server sees no system call: the client makes it.
NewSocketUnderTest ==
    /\ status = "running" /\ kernel.state = "closed"
    /\ IF is_wire_server THEN under = 0 ELSE UnderIn("NEW")

run_syscall_listen ==
    /\ NewSocketUnderTest /\ kernel = Closed
    /\ kernel' = [Closed EXCEPT !.state = "listen", !.port = BindPort]
    /\ sockets' = IF is_wire_server THEN sockets
                  ELSE [sockets EXCEPT ![under].state = "PASSIVE_LISTENING"]
    /\ UNCHANGED <<is_wire_server, under, status, wire, script>>

\* connect(): the kernel sends its SYN.  An unbound socket that connects
\* again gets another number and another port, here the next one.
run_syscall_connect ==
    /\ NewSocketUnderTest
    /\ \E iss \in KernelIsns \ {kernel.iss}, port \in Ports :
        /\ port > kernel.port /\ \A o \in Ports : o > kernel.port => port <= o
        /\ kernel' = [Closed EXCEPT !.state = "syn_sent", !.port = port,
                                    !.iss = iss, !.snd = 1]
        /\ wire' = Append(wire, Syn(kernel'))
    /\ sockets' = IF is_wire_server THEN sockets
                  ELSE [sockets EXCEPT ![under].state = "ACTIVE_CONNECTING"]
    /\ author' \in [local : LocalIsns, remote : RemoteIsns]
    /\ UNCHANGED <<is_wire_server, under, status, seen, taken, agree>>

\* connect() with AF_UNSPEC, by a script that has listed every packet.
run_syscall_disconnect ==
    /\ "reconnect" \in Features
    /\ status = "running" /\ wire = <<>> /\ ~is_wire_server
    /\ kernel.state \in {"syn_sent", "syn_rcvd", "established"}
    /\ ~kernel.passive
    /\ kernel' = [Closed EXCEPT !.port = kernel.port, !.iss = kernel.iss]
    /\ sockets' = [sockets EXCEPT ![under].state = "NEW"]
    /\ seen' = FALSE /\ taken' = TRUE
    /\ UNCHANGED <<is_wire_server, under, status, wire, author, agree>>

\* The newest socket whose handshake got as far as a SYN/ACK, 0 if none.
AcceptTarget ==
    LET ready == {i \in DOMAIN sockets : sockets[i].state \in
                    {"PASSIVE_SYNACK_SENT", "PASSIVE_SYNACK_ACKED"}}
    IN  IF ready = {} THEN 0
        ELSE CHOOSE i \in ready : \A j \in ready : j <= i

\* accept() returned a connection: its descriptor goes to the target.
run_syscall_accept ==
    /\ status = "running" /\ ~is_wire_server
    /\ kernel.passive /\ kernel.state = "established"
    /\ IF AcceptTarget = 0 THEN Fail(sockets, under)
       ELSE UNCHANGED <<sockets, under, status>>
    /\ UNCHANGED <<is_wire_server, kernel, wire, script>>

\* An inbound packet of the script is translated and injected.
Inbound(m) ==
    LET p == Stated(m, author.remote, author.local)
        all == find_or_create_socket_for_script_packet(p, TRUE)
        u == UnderOf(all)
        s == do_inbound_script_packet(all[u], p)
        live == map_inbound_packet(s, p)
    IN  /\ status = "running" /\ Plain(m)
        /\ kernel.rcv + m.len + m.fin <= MaxRel
        /\ Len(all) <= MaxSockets
        /\ sockets' = [all EXCEPT ![u] = s]
        /\ under' = u
        /\ \E iss \in IF kernel.state = "listen" THEN KernelIsns ELSE {0} :
            LET reached == /\ kernel.state # "closed"
                           /\ s.live.local_port = kernel.port
                r == IF reached THEN Receive(kernel, live, iss)
                     ELSE [kernel |-> kernel, out |-> <<>>, taken |-> FALSE]
                knowsSeq == reached /\ KnowsIrs(r.kernel)
                knowsAcks == reached /\ seen /\ KnowsIss(r.kernel)
            IN  /\ Len(wire \o r.out) <= MaxWire
                /\ kernel' = r.kernel /\ wire' = wire \o r.out
                /\ taken' = r.taken
                /\ agree' = /\ knowsSeq => m.seq = Add(live.seq,
                                                       Neg(r.kernel.irs))
                            /\ knowsAcks => m.acks = AddAll(live.acks,
                                                       Neg(r.kernel.iss))
        /\ UNCHANGED <<is_wire_server, status, author, seen>>

\* What the handlers read of a script's outbound packet with flags f.
Listed(f) == [NoPacket EXCEPT !.syn = f.syn,
                              !.seq = IF f.syn THEN author.local ELSE 0,
                              !.acks = IF f.ack THEN <<0>> ELSE <<>>]

\* The script lists an outbound packet with flags f and the numbers of the
\* packet it expects.  Packets that are not for the socket are skipped; the
\* first one that is is translated and compared with the script.
Outbound(f) ==
    LET p == Listed(f)
        all == find_or_create_socket_for_script_packet(p, FALSE)
        u == UnderOf(all)
        mine == sniff_outbound_live_packet(all[u])
        n == CHOOSE i \in mine : \A j \in mine : i <= j
        q == wire[n]
        s == do_outbound_script_packet(all[u], p, q)
        actual == tcp_convert_seq_number(s, Packet(q))
        meant == [Packet(q) EXCEPT !.seq = Add(@, Neg(kernel.iss)),
                                   !.acks = AddAll(@, Neg(kernel.irs))]
        expected == Stated(meant, author.local, author.remote)
        sameFlags == f.syn = q.syn /\ f.ack = Ack(q)
        verified == verify_outbound_live_packet(sameFlags, actual, expected)
    IN  /\ status = "running" /\ wire # <<>>
        /\ u # 0 /\ mine # {} /\ Len(all) <= MaxSockets
        /\ \/ /\ verified
              /\ sockets' = [all EXCEPT ![u] = s] /\ under' = u
              /\ UNCHANGED status
           \/ ~verified /\ Fail([all EXCEPT ![u] = s], u)
        /\ wire' = SubSeq(wire, n + 1, Len(wire))
        /\ seen' = (seen \/ q.syn)
        /\ agree' = (sameFlags => actual = expected)
        /\ UNCHANGED <<is_wire_server, kernel, author, taken>>

\* There is no socket for the packet and none is made for it.
OutboundUnmatched(f) ==
    /\ status = "running"
    /\ UnderOf(find_or_create_socket_for_script_packet(Listed(f), FALSE)) = 0
    /\ Fail(sockets, under)
    /\ UNCHANGED <<is_wire_server, kernel, wire, script>>

\* The kernel repeats its SYN or SYN/ACK, or sends a byte.
KernelSends ==
    /\ status = "running" /\ Len(wire) < MaxWire /\ KnowsIss(kernel)
    /\ IF kernel.state = "established"
       THEN /\ kernel.snd < MaxRel
            /\ kernel' = [kernel EXCEPT !.snd = @ + 1]
            /\ wire' = Append(wire, Segment(kernel, FALSE, kernel.snd, 1, <<>>))
       ELSE /\ wire' = Append(wire, Syn(kernel))
            /\ UNCHANGED kernel
    /\ UNCHANGED <<is_wire_server, sockets, under, status, script>>

\* The kernel's endpoint is gone after its owner closed it, or after a reset
\* that is for its port and right at the next number it expects.
Resets(k, resets) ==
    k.state \in {"closed", "listen", "syn_sent"}
        \/ \E r \in resets : r.port = k.port /\ r.seq = Add(k.irs, k.rcv)

\* close_all_fds() at the end of the test: every descriptor is closed and a
\* reset goes out for every socket whose ports are known.
socket_close ==
    /\ status = "running" \/ (status = "failed" /\ is_wire_server)
    /\ LET known == {i \in DOMAIN sockets : sockets[i].live.local_port # 0}
           resets == {[port |-> sockets[i].live.local_port,
                       seq |-> reset_connection(sockets[i]).seq] : i \in known}
       IN  kernel' = IF Resets(kernel, resets) THEN Closed ELSE kernel
    /\ status' = "closed" /\ sockets' = <<>> /\ under' = 0
    /\ UNCHANGED <<is_wire_server, wire, script>>

Done == status \in {"failed", "closed"} /\ UNCHANGED vars

\* SYN, SYN/ACK, and a packet with ACK only.
Flags == [syn : BOOLEAN, ack : BOOLEAN] \ {[syn |-> FALSE, ack |-> FALSE]}

Next ==
    \/ run_syscall_socket
    \/ run_syscall_listen
    \/ run_syscall_connect
    \/ run_syscall_disconnect
    \/ run_syscall_accept
    \/ \E m \in Meanings : Inbound(m)
    \/ \E f \in Flags : Outbound(f)
    \/ \E f \in Flags : OutboundUnmatched(f)
    \/ KernelSends
    \/ socket_close
    \/ Done

Spec == Init /\ [][Next]_vars

-----------------------------------------------------------------------------
\* The convention of socket.h: the numbers of a script packet are absolute in
\* SYN packets and otherwise relative to the first SYN.  Every packet
\* injected by do_inbound_script_packet names to the kernel the positions the
\* script's author meant, and every packet the kernel sends is shown by
\* tcp_convert_seq_number as the author would write it.
NumbersMeanTheSame == agree

\* When accept() returns a connection whose SYN/ACK the script listed,
\* run_syscall_accept finds a socket for it, and it is the one whose live
\* port is that of the connection.
AcceptFindsSocket ==
    ~is_wire_server /\ status = "running" /\ seen
        /\ kernel.passive /\ kernel.state = "established"
    => /\ AcceptTarget # 0
       /\ sockets[AcceptTarget].live.local_port = kernel.port

\* "Inject a TCP RST packet to clear the connection state out of the kernel"
\* (reset_connection): when the script listed every packet the kernel sent
\* and the kernel took the last packet it was sent, no connection survives
\* the end of the test.
ResetClearsConnection ==
    status = "closed" /\ wire = <<>> /\ seen /\ taken => ~KnowsIrs(kernel)
=============================================================================
