----------------------------- MODULE PacketCodec -----------------------------
(***************************************************************************)
(* How packets are built from a script (parser.y, *_packet.c, packet.c),   *)
(* given their checksums (checksum.c, packet_checksum.c), and how captured *)
(* ones are parsed (packet_parser.c, tcp_options_iterator.c).              *)
(*                                                                         *)
(* A pointer into a packet is an offset into its buffer, or NULL.  The     *)
(* bytes of a packet are a function "at" from the offset of each header to *)
(* the fields that somebody reads: the header length (hl), the length of   *)
(* header and contents (len), the protocol inside (next), and for IPv4     *)
(* whether it is a fragment; for TCP the options.  What is only compared is *)
(* in tos, ttl, window and body (all else).  Lengths are in bytes.          *)
(***************************************************************************)
EXTENDS Integers, Sequences, SequencesExt, FiniteSets, FiniteSetsExt, TLC

CONSTANTS
    Stacks,     \* sequences of headers that a script may write before a packet
    Specs,      \* the packets a script may write after them
    Captures,   \* what happens to a packet until it is captured
    AnyOptions, \* options of a kernel whose options are not checked
    ByteValues  \* values of a byte, for checksums

ASSUME PacketCodecAssumption ==
    /\ ByteValues \in Nat \ {0, 1}
    /\ \A stack \in Stacks : stack # <<>> => Front(stack) \in Stacks

VARIABLES
    phase,
    prefix,     \* the headers written before the packet
    outer,      \* the packet with the encapsulation headers only
    packet,     \* the packet the script means
    spec,       \* what the script says of it
    capture,    \* what happened on the wire
    result,     \* what parse_packet() makes of it
    bytes       \* some bytes of the packet, for the checksum

vars == <<phase, prefix, outer, packet, spec, capture, result, bytes>>

NULL == -1
IPV4_BYTES == 20
IPV6_BYTES == 40
TCP_BYTES == 20
UDP_BYTES == 8
ICMP_BYTES == 8
ICMP_ECHO_BYTES == 8
GRE_MINLEN == 4
MPLS_BYTES == 4
ETHER_BYTES == 14
MAX_TCP_HEADER_BYTES == 60
MAX_TCP_OPTION_BYTES == MAX_TCP_HEADER_BYTES - TCP_BYTES
TCP_MD5_DIGEST_LEN == 16
MPLS_STACK_MAX_ENTRIES == 6
MAX_DATAGRAM_BYTES == 65536
PACKET_MAX_HEADERS == 6
PACKET_MAX_HEADER_BYTES == 256
PACKET_READ_BYTES == 65536
TTL_CHECK_NONE == 255

u16(n) == n % 65536
is_valid_u16(n) == n \in 0..65535

----------------------------------------------------------------------------
(* Packets (packet.c, packet.h). *)

Fields(hl, len, next) ==
    [hl |-> hl, len |-> len, next |-> next, version |-> 0, frag |-> FALSE,
     options |-> <<>>, tos |-> 0, ttl |-> TTL_CHECK_NONE, window |-> 0, body |-> 0]

packet_new(n) ==
    [buffer_bytes |-> n, l2_header_bytes |-> 0, ip_bytes |-> 0, headers |-> <<>>,
     ipv4 |-> NULL, ipv6 |-> NULL, tcp |-> NULL, udp |-> NULL,
     icmpv4 |-> NULL, icmpv6 |-> NULL, at |-> <<>>]

\* Is there room for another header?  The link layer's bytes do not count.
CanAppend(p, n) ==
    Len(p.headers) < PACKET_MAX_HEADERS /\ p.ip_bytes + n <= p.buffer_bytes

packet_append_header(p, type, n, total) ==
    [p EXCEPT !.ip_bytes = @ + n,
              !.headers = Append(@, [type |-> type, header_bytes |-> n,
                                     total_bytes |-> total,
                                     ptr |-> p.l2_header_bytes + p.ip_bytes])]

\* The fields of the header at an offset are written.
Write(p, off, f) == [p EXCEPT !.at = (off :> f) @@ @]

Pointers == {"ipv4", "ipv6", "tcp", "udp", "icmpv4", "icmpv6"}

packet_start(p) == p.headers[1].ptr

packet_end(p) == packet_start(p) + p.ip_bytes

packet_payload(p) ==
    IF p.tcp # NULL THEN p.tcp + p.at[p.tcp].hl
    ELSE IF p.udp # NULL THEN p.udp + UDP_BYTES
    ELSE IF p.icmpv4 # NULL THEN p.icmpv4 + ICMP_BYTES
    ELSE p.icmpv6 + ICMP_BYTES

packet_payload_len(p) == packet_end(p) - packet_payload(p)

offset_ptr(ptr, headroom) == IF ptr = NULL THEN NULL ELSE ptr + headroom

packet_copy_headers(headers, headroom) ==
    [i \in DOMAIN headers |-> [headers[i] EXCEPT !.ptr = @ + headroom]]

\* The length of the link layer's header is not copied.
packet_duplicate_info(n, old, headroom, extra_payload) ==
    [packet_new(n) EXCEPT
        !.ip_bytes = old.ip_bytes + extra_payload,
        !.headers = packet_copy_headers(old.headers, headroom),
        !.ipv4 = offset_ptr(old.ipv4, headroom),
        !.ipv6 = offset_ptr(old.ipv6, headroom),
        !.tcp = offset_ptr(old.tcp, headroom),
        !.udp = offset_ptr(old.udp, headroom),
        !.icmpv4 = offset_ptr(old.icmpv4, headroom),
        !.icmpv6 = offset_ptr(old.icmpv6, headroom),
        !.at = [o \in {x + headroom : x \in DOMAIN old.at} |-> old.at[o - headroom]]]

packet_copy_with_headroom(old, headroom) ==
    packet_duplicate_info(headroom + packet_end(old), old, headroom, 0)

packet_copy(old) == packet_copy_with_headroom(old, 0)

\* header_types: the codes for what is inside an IP or a GRE header.
ip_proto(type) ==
    CASE type = "ipv4" -> "ipip" [] type = "mpls" -> "none" [] OTHER -> type

eth_proto(type) == IF type \in {"ipv4", "ipv6", "mpls"} THEN type ELSE "none"

----------------------------------------------------------------------------
(* Headers that wait for their contents to be known. *)

ipv4_header_finish(p, i) ==
    LET h == p.headers[i]
        n == IPV4_BYTES + p.headers[i + 1].total_bytes
    IN [p EXCEPT !.headers[i].total_bytes = n,
                 !.at[h.ptr].len = u16(n),
                 !.at[h.ptr].next = ip_proto(p.headers[i + 1].type)]

ipv6_header_finish(p, i) ==
    LET h == p.headers[i]
        n == p.headers[i + 1].total_bytes
    IN [p EXCEPT !.headers[i].total_bytes = IPV6_BYTES + n,
                 !.at[h.ptr].len = IPV6_BYTES + u16(n),
                 !.at[h.ptr].next = ip_proto(p.headers[i + 1].type)]

gre_header_finish(p, i) ==
    LET h == p.headers[i]
    IN [p EXCEPT !.headers[i].total_bytes =
                      p.at[h.ptr].hl + p.headers[i + 1].total_bytes,
                 !.at[h.ptr].next = eth_proto(p.headers[i + 1].type)]

mpls_header_finish(p, i) ==
    [p EXCEPT !.headers[i].total_bytes =
                  p.headers[i].header_bytes + p.headers[i + 1].total_bytes]

Finish(p, i) ==
    CASE p.headers[i].type = "ipv4" -> ipv4_header_finish(p, i)
      [] p.headers[i].type = "ipv6" -> ipv6_header_finish(p, i)
      [] p.headers[i].type = "gre" -> gre_header_finish(p, i)
      [] p.headers[i].type = "mpls" -> mpls_header_finish(p, i)
      [] OTHER -> p

\* From the innermost header to the outermost.
packet_finish_encapsulation_headers(p) ==
    FoldLeft(Finish, p, Reverse([i \in DOMAIN p.headers |-> i]))

\* Mutant: the headers of the inner packet keep their places.
packet_encapsulate_NoRoom(out, in) ==
    packet_finish_encapsulation_headers(
        [packet_copy(in) EXCEPT
            !.headers = out.headers \o @,
            !.at = out.at @@ @,
            !.ip_bytes = out.ip_bytes + in.ip_bytes])

packet_encapsulate(out, in) ==
    packet_finish_encapsulation_headers(
        [packet_copy_with_headroom(in, out.ip_bytes) EXCEPT
            !.headers = out.headers \o @,
            !.at = out.at @@ @,
            !.ip_bytes = out.ip_bytes + in.ip_bytes])

\* The packets of the list have the same headers; sizes are of payloads.
aggregate_packets(last, payload_size) ==
    LET extra == payload_size - packet_payload_len(last)
        p == packet_duplicate_info(packet_end(last) + extra, last, 0, extra)
    IN packet_finish_encapsulation_headers(
           [p EXCEPT !.headers = [i \in DOMAIN @ |->
                [@[i] EXCEPT !.total_bytes = @ + extra]]])

----------------------------------------------------------------------------
(* Building a packet.  A constructor gives a record: is there an error, and *)
(* the packet.                                                              *)

Refused == [ok |-> FALSE]
Built(p) == [ok |-> TRUE, p |-> p]

ip_header_min_len(af) == IF af = "ipv4" THEN IPV4_BYTES ELSE IPV6_BYTES

\* TTL 0 stands for none, which is not compared.
set_ipv4_header(n, tos, ttl, protocol) ==
    [Fields(IPV4_BYTES, u16(n), protocol) EXCEPT
        !.version = 4, !.tos = tos, !.ttl = IF ttl = 0 THEN TTL_CHECK_NONE ELSE ttl]

set_ipv6_header(n, tos, ttl, protocol) ==
    [Fields(IPV6_BYTES, n, protocol) EXCEPT
        !.version = 6, !.tos = tos, !.ttl = IF ttl = 0 THEN TTL_CHECK_NONE ELSE ttl]

set_ip_header(af, n, tos, ttl, protocol) ==
    IF af = "ipv4" THEN set_ipv4_header(n, tos, ttl, protocol)
    ELSE set_ipv6_header(n, tos, ttl, protocol)

\* The length is passed as 16 bits.
set_packet_ip_header(p, s, n, protocol) ==
    LET q == packet_append_header(p, s.af, ip_header_min_len(s.af), u16(n))
    IN Write([q EXCEPT ![s.af] = 0], 0,
             set_ip_header(s.af, u16(n), s.tos, s.ttl, protocol))

\* A script gives the digits of a cookie or digest and the blocks of a SACK.
new_tcp_fast_open_option(digits, base) ==
    digits % 2 = 0 /\ digits \div 2 <= MAX_TCP_OPTION_BYTES - base

new_md5_option(digits) == digits \div 2 <= TCP_MD5_DIGEST_LEN /\ digits % 2 = 0

ValidOption(o) ==
    CASE o.kind = "md5" -> new_md5_option(o.n)
      [] o.kind = "fast_open" -> new_tcp_fast_open_option(o.n, 2)
      [] o.kind = "fast_open_exp" -> new_tcp_fast_open_option(o.n, 4)
      [] OTHER -> TRUE

tcp_option(o) ==
    [kind |-> o.kind,
     length |-> CASE o.kind \in {"nop", "eol"} -> 1 [] o.kind = "mss" -> 4
                  [] o.kind = "wscale" -> 3 [] o.kind = "sackOK" -> 2
                  [] o.kind = "timestamp" -> 10 [] o.kind = "sack" -> 2 + 8 * o.n
                  [] o.kind = "fast_open_exp" -> 4 + o.n \div 2
                  [] OTHER -> 2 + o.n \div 2]

tcp_option_list(options) == [i \in DOMAIN options |-> tcp_option(options[i])]

OptionBytes(options) ==
    FoldLeft(LAMBDA n, o : n + o.length, 0, tcp_option_list(options))

tcp_options_append(options) == OptionBytes(options) <= MAX_TCP_OPTION_BYTES

valid_tcp_flags == {"F", "S", "R", "P", ".", "E", "W", "C", "U"}

\* "<...>" stands for no options, which are not compared.
new_tcp_packet(af, s) ==
    LET options == OptionBytes(s.options)
        hb == ip_header_min_len(af)
        tb == TCP_BYTES + options
        n == hb + tb + s.payload
        p == set_packet_ip_header(packet_new(n), s, n, "tcp")
        q == packet_append_header(p, "tcp", tb, tb + s.payload)
    IN IF \/ options % 4 # 0 \/ tb > MAX_TCP_HEADER_BYTES
          \/ n > MAX_DATAGRAM_BYTES
          \/ ~(s.flags \subseteq valid_tcp_flags)
          \/ s.window = -1 /\ s.direction = "inbound"
         THEN Refused
         ELSE Built([Write(q, hb, [Fields(tb, 0, "none") EXCEPT
                                      !.options = tcp_option_list(s.options),
                                      !.window = IF s.window = -1 THEN 0 ELSE s.window])
                        EXCEPT !.tcp = hb, !.ip_bytes = n])

new_udp_packet(af, s) ==
    LET hb == ip_header_min_len(af)
        n == hb + UDP_BYTES + s.payload
        p == set_packet_ip_header(packet_new(n), s, n, "udp")
        q == packet_append_header(p, "udp", UDP_BYTES, UDP_BYTES + s.payload)
    IN IF n > MAX_DATAGRAM_BYTES THEN Refused
       ELSE Built([Write(q, hb, Fields(UDP_BYTES, u16(UDP_BYTES + s.payload), "none"))
                      EXCEPT !.udp = hb, !.ip_bytes = n])

icmp_protocol(af) == IF af = "ipv4" THEN "icmpv4" ELSE "icmpv6"

\* The bytes for the words a script uses; -1 is "unknown".  "type_" and
\* "code_" take a number.  The tables are cut to what the checks tell apart.
TypeByte(af, s) ==
    CASE s.type = "type_" -> s.number
      [] s.type = "unreachable" -> IF af = "ipv4" THEN 3 ELSE 1
      [] s.type = "echo_request" -> IF af = "ipv4" THEN 8 ELSE 128
      [] s.type = "packet_too_big" /\ af = "ipv6" -> 2
      [] OTHER -> -1

CodeByte(af, s) ==
    CASE s.code = "none" -> 0
      [] s.code = "code_" -> s.number
      [] s.type # "unreachable" -> -1
      [] s.code = "port_unreachable" -> IF af = "ipv4" THEN 3 ELSE 4
      [] s.code = "frag_needed" /\ af = "ipv4" -> 4
      [] OTHER -> -1

parse_icmp_type_and_code(af, s) ==
    TypeByte(af, s) \in 0..255 /\ CodeByte(af, s) \in 0..255

\* An MTU is for one kind of message only.
set_icmpv4_header(type, code, mtu) ==
    mtu >= 0 => type = 3 /\ code = 4 /\ mtu < 65536

set_icmpv6_header(type, code, mtu) == mtu >= 0 => type = 2 /\ code = 0

set_packet_icmp_header(p, af, n, type, code) ==
    LET hb == ip_header_min_len(af)
        q == packet_append_header(p, icmp_protocol(af), ICMP_BYTES, n)
    IN Write([q EXCEPT ![icmp_protocol(af)] = hb], hb,
             [Fields(ICMP_BYTES, 0, "none") EXCEPT !.next = <<type, code>>])

layer4_header_len(protocol) == IF protocol = "tcp" THEN TCP_BYTES ELSE UDP_BYTES

\* An error message echoes an IP header and 8 bytes more.
new_icmp_packet(af, s) ==
    LET hb == ip_header_min_len(af)
        echoed == IF s.echoed = "raw" THEN 0 ELSE hb + ICMP_ECHO_BYTES
        icmp == IF s.echoed = "raw" THEN s.payload ELSE ICMP_BYTES + echoed
        n == hb + icmp
        type == TypeByte(af, s)
        code == CodeByte(af, s)
        p == set_packet_ip_header(packet_new(n), s, n, icmp_protocol(af))
        q == set_packet_icmp_header(p, af, icmp, type, code)
        echo == set_ip_header(af, u16(hb + layer4_header_len(s.echoed) + s.payload),
                              0, 0, s.echoed)
    IN IF \/ s.echo_id \notin 0..65535 \/ icmp < ICMP_BYTES
          \/ ~parse_icmp_type_and_code(af, s)
          \/ af = "ipv4" /\ ~set_icmpv4_header(type, code, s.mtu)
          \/ af = "ipv6" /\ ~set_icmpv6_header(type, code, s.mtu)
         THEN Refused
         ELSE Built([(IF echoed = 0 THEN q ELSE Write(q, hb + ICMP_BYTES, echo))
                        EXCEPT !.ip_bytes = n])

----------------------------------------------------------------------------
(* Parsing.  A parser takes the packet p, the offset of the header, and for *)
(* layer 4 how many bytes IP says there are; end is the end of the capture. *)

PACKET_OK(p) == [res |-> "ok", p |-> p]
PACKET_BAD(p) == [res |-> "bad", p |-> p]
PACKET_UNKNOWN_L4(p) == [res |-> "unknown", p |-> p]

Junk == Fields(0, 0, "none")

\* What is at an offset; bytes that no header starts at are of no use.
Read(p, off) == IF off \in DOMAIN p.at THEN p.at[off] ELSE Junk

\* Mutant: options may reach beyond the datagram.
parse_tcp_Long(p, off, n) ==
    LET hl == Read(p, off).hl
        q == [p EXCEPT !.tcp = off]
    IN IF n < TCP_BYTES \/ hl < TCP_BYTES \/ ~CanAppend(q, hl)
         THEN PACKET_BAD(p)
         ELSE PACKET_OK(packet_append_header(q, "tcp", hl, n))

parse_tcp(p, off, n) ==
    LET hl == Read(p, off).hl
        q == [p EXCEPT !.tcp = off]
    IN IF n < TCP_BYTES \/ hl < TCP_BYTES \/ hl > n \/ ~CanAppend(q, hl)
         THEN PACKET_BAD(p)
         ELSE PACKET_OK(packet_append_header(q, "tcp", hl, n))

parse_udp(p, off, n) ==
    LET q == [p EXCEPT !.udp = off]
    IN IF n < UDP_BYTES \/ Read(p, off).len # n \/ ~CanAppend(q, UDP_BYTES)
         THEN PACKET_BAD(p)
         ELSE PACKET_OK(packet_append_header(q, "udp", UDP_BYTES, n))

parse_icmpv4(p, off, n) ==
    LET q == [p EXCEPT !.icmpv4 = off]
    IN IF n < ICMP_BYTES \/ ~CanAppend(q, ICMP_BYTES) THEN PACKET_BAD(p)
       ELSE PACKET_OK(packet_append_header(q, "icmpv4", ICMP_BYTES, n))

parse_icmpv6(p, off, n) ==
    LET q == [p EXCEPT !.icmpv6 = off]
    IN IF n < ICMP_BYTES \/ ~CanAppend(q, ICMP_BYTES) THEN PACKET_BAD(p)
       ELSE PACKET_OK(packet_append_header(q, "icmpv6", ICMP_BYTES, n))

\* How many bytes of labels there are, up to the bottom of the stack or else
\* the end; NULL when the last label does not fit.  Bytes that are no label
\* have no bottom bit.
LabelBytes(p, off, end) ==
    LET bottoms == {o \in DOMAIN p.at : /\ o >= off /\ (o - off) % MPLS_BYTES = 0
                                        /\ o + MPLS_BYTES <= end
                                        /\ p.at[o].next = "bottom"}
        after == IF bottoms # {} THEN Min(bottoms) + MPLS_BYTES ELSE end
    IN IF after - off >= MPLS_BYTES /\ (after - off) % MPLS_BYTES = 0
         THEN after - off ELSE NULL

RECURSIVE parse_ipv4(_, _, _)
RECURSIVE parse_ipv6(_, _, _)
RECURSIVE parse_layer3_packet(_, _, _)
RECURSIVE parse_layer3_packet_by_proto(_, _, _, _)

\* The packet is what IP inside says, but its length is what IP outside says.
Innermost(p, ptr, off) ==
    IF p.ipv4 = NULL /\ p.ipv6 = NULL THEN [p EXCEPT ![ptr] = off] ELSE p

Outermost(p, is_outer, total) == IF is_outer THEN [p EXCEPT !.ip_bytes = total] ELSE p

parse_gre(p, off, n, end) ==
    LET f == Read(p, off)
    IN IF \/ n < GRE_MINLEN \/ f.version # 0 \/ f.frag     \* "has_routing"
          \/ f.hl < GRE_MINLEN \/ f.hl > n \/ ~CanAppend(p, f.hl)
         THEN PACKET_BAD(p)
         ELSE parse_layer3_packet_by_proto(packet_append_header(p, "gre", f.hl, n),
                                           f.next, off + f.hl, end)

parse_mpls(p, off, end) ==
    LET n == LabelBytes(p, off, end)
    IN IF n = NULL \/ ~CanAppend(p, n) THEN PACKET_BAD(p)
       ELSE parse_layer3_packet(packet_append_header(p, "mpls", n, end - off),
                                off + n, end)

parse_layer4(p, off, protocol, n, end) ==
    CASE protocol = "tcp" -> parse_tcp(p, off, n)
      [] protocol = "udp" -> parse_udp(p, off, n)
      [] protocol = "icmpv4" -> parse_icmpv4(p, off, n)
      [] protocol = "icmpv6" -> parse_icmpv6(p, off, n)
      [] protocol = "gre" -> parse_gre(p, off, n, end)
      [] protocol = "ipip" -> parse_ipv4(p, off, end)
      [] protocol = "ipv6" -> parse_ipv6(p, off, end)
      [] OTHER -> PACKET_UNKNOWN_L4(p)

\* Mutant: the length of the datagram is not compared with the capture.
parse_ipv4_Cut(p, off, end) ==
    LET f == Read(p, off)
        q == packet_append_header(p, "ipv4", f.hl, f.len)
        r == parse_layer4(q, off + f.hl, f.next, f.len - f.hl, end)
    IN IF \/ f.hl < IPV4_BYTES \/ off + f.hl > end
          \/ f.hl > f.len \/ f.frag \/ ~CanAppend(p, f.hl)
         THEN PACKET_BAD(p)
         ELSE [r EXCEPT !.p = Outermost(Innermost(@, "ipv4", off), p.ip_bytes = 0,
                                        f.len)]

parse_ipv4(p, off, end) ==
    LET f == Read(p, off)
        q == packet_append_header(p, "ipv4", f.hl, f.len)
        r == parse_layer4(q, off + f.hl, f.next, f.len - f.hl, end)
    IN IF \/ f.hl < IPV4_BYTES \/ off + f.hl > end \/ off + f.len > end
          \/ f.hl > f.len \/ f.frag \/ ~CanAppend(p, f.hl)
         THEN PACKET_BAD(p)
         ELSE [r EXCEPT !.p = Outermost(Innermost(@, "ipv4", off), p.ip_bytes = 0,
                                        f.len)]

parse_ipv6(p, off, end) ==
    LET f == Read(p, off)
        q == packet_append_header(p, "ipv6", IPV6_BYTES, f.len)
        r == parse_layer4(q, off + IPV6_BYTES, f.next, f.len - IPV6_BYTES, end)
    IN IF \/ off + IPV6_BYTES > end \/ off + f.len > end
          \/ ~CanAppend(p, IPV6_BYTES)
         THEN PACKET_BAD(p)
         ELSE [r EXCEPT !.p = Outermost(Innermost(@, "ipv6", off), p.ip_bytes = 0,
                                        f.len)]

parse_layer3_packet(p, off, end) ==
    IF off + IPV4_BYTES > end THEN PACKET_BAD(p)
    ELSE CASE Read(p, off).version = 4 -> parse_ipv4(p, off, end)
           [] Read(p, off).version = 6 -> parse_ipv6(p, off, end)
           [] OTHER -> PACKET_BAD(p)

parse_layer3_packet_by_proto(p, proto, off, end) ==
    CASE proto = "ipv4" -> IF off + IPV4_BYTES <= end /\ Read(p, off).version = 4
                             THEN parse_ipv4(p, off, end) ELSE PACKET_BAD(p)
      [] proto = "ipv6" -> IF off + IPV6_BYTES <= end /\ Read(p, off).version = 6
                             THEN parse_ipv6(p, off, end) ELSE PACKET_BAD(p)
      [] proto = "mpls" -> parse_mpls(p, off, end)
      [] OTHER -> PACKET_UNKNOWN_L4(p)

parse_layer2_packet(p, proto, end) ==
    IF ETHER_BYTES > end THEN PACKET_BAD(p)
    ELSE parse_layer3_packet_by_proto([p EXCEPT !.l2_header_bytes = ETHER_BYTES],
                                      proto, ETHER_BYTES, end)

----------------------------------------------------------------------------
(* The walk over the options of a TCP header.  The state of the iterator is *)
(* the number of the option and its offset in the options.                  *)

\* 1: no length byte.  0: of variable length, or of an unknown kind.
get_expected_tcp_option_length(kind) ==
    CASE kind \in {"eol", "nop"} -> 1 [] kind = "mss" -> 4 [] kind = "wscale" -> 3
      [] kind = "sackOK" -> 2 [] kind = "timestamp" -> 10 [] OTHER -> 0

\* A length that is not the expected one is accepted; none at all is not.
get_tcp_option_length(o, off, end) == IF off + 1 >= end THEN 0 ELSE o.length

\* Mutant: an option of one byte at the end is not seen.
tcp_options_next_Early(options, it, end) ==
    LET o == options[it.i]
        n == IF get_expected_tcp_option_length(o.kind) = 1 THEN 1
             ELSE get_tcp_option_length(o, it.off, end)
    IN [i |-> it.i + 1, off |-> it.off + n, more |-> n > 0 /\ it.off + n + 1 < end]

tcp_options_next(options, it, end) ==
    LET o == options[it.i]
        n == IF get_expected_tcp_option_length(o.kind) = 1 THEN 1
             ELSE get_tcp_option_length(o, it.off, end)
    IN [i |-> it.i + 1, off |-> it.off + n, more |-> n > 0 /\ it.off + n < end]

\* The kinds of options seen until the iterator says NULL.
RECURSIVE Walk(_, _, _)
Walk(options, it, end) ==
    IF ~it.more THEN <<>>
    ELSE IF it.i > Len(options) THEN <<"eol">>      \* padding
    ELSE <<options[it.i].kind>>
         \o Walk(options, tcp_options_next(options, it, end), end)

tcp_options_begin(options, end) ==
    Walk(options, [i |-> 1, off |-> 0, more |-> 0 < end], end)

----------------------------------------------------------------------------
(* Comparing a captured packet p, header by header, with the packet q of a  *)
(* script s (run_packet.c).                                                 *)

\* The codes of ip_ecn_t: what the script's words stand for.
ECN_NONE == 0
ECN_ECT0 == 1
ECN_ECT1 == 2
ECN_CE == 3
ECN_ECT01 == 4

\* What stands in the packet.
IP_ECN_ECT1 == 1
IP_ECN_ECT0 == 2

verify_outbound_live_tos(tos_chk, actual, script) ==
    /\ tos_chk = "ecn" =>
          IF script = ECN_ECT01 THEN actual % 4 \in {IP_ECN_ECT0, IP_ECN_ECT1}
          ELSE actual % 4 = script
    /\ tos_chk = "tos" => actual = script

verify_outbound_live_ttl_or_hl(actual, script) ==
    script # TTL_CHECK_NONE => actual = script

OptionsNocheck(s) == s.l4 = "tcp" /\ s.nocheck

tcp_options_allowance(p, s) ==
    IF OptionsNocheck(s) THEN p.at[p.tcp].hl - TCP_BYTES ELSE 0

\* Of each header a is what is captured and e what is expected.
verify_ipv4(p, s, a, e) ==
    /\ a.version = e.version /\ a.next = e.next /\ a.hl = e.hl
    /\ a.len = e.len + tcp_options_allowance(p, s)
    /\ verify_outbound_live_tos(s.tos_chk, a.tos, e.tos)
    /\ verify_outbound_live_ttl_or_hl(a.ttl, e.ttl)

verify_ipv6(p, s, a, e) ==
    /\ a.version = e.version /\ a.next = e.next
    /\ a.len = e.len + tcp_options_allowance(p, s)
    /\ verify_outbound_live_tos(s.tos_chk, a.tos, e.tos)
    /\ verify_outbound_live_ttl_or_hl(a.ttl, e.ttl)

\* Mutant: a window that the script leaves out must be zero.
verify_tcp_Window(p, s, a, e) ==
    /\ a.hl = e.hl + tcp_options_allowance(p, s)
    /\ a.body = e.body /\ a.window = e.window

\* The body of a TCP header is its flags and numbers.
verify_tcp(p, s, a, e) ==
    /\ a.hl = e.hl + tcp_options_allowance(p, s)
    /\ a.body = e.body
    /\ s.window # -1 => a.window = e.window

verify_udp(a, e) == a.len = e.len

verify_gre(a, e) == a.hl = e.hl /\ a.next = e.next /\ a.body = e.body

verify_mpls(p, q, h, g) ==
    /\ h.header_bytes = g.header_bytes
    /\ \A k \in 0..(g.header_bytes \div MPLS_BYTES - 1) :
          Read(p, h.ptr + MPLS_BYTES * k) = Read(q, g.ptr + MPLS_BYTES * k)

\* Types and codes are all that is compared of ICMP.
verify_icmpv4(a, e) == a.next = e.next
verify_icmpv6(a, e) == a.next = e.next

verify_header(p, q, s, i) ==
    LET h == p.headers[i]
        g == q.headers[i]
        a == Read(p, h.ptr)
        e == Read(q, g.ptr)
    IN /\ h.type = g.type
       /\ CASE g.type = "ipv4" -> verify_ipv4(p, s, a, e)
            [] g.type = "ipv6" -> verify_ipv6(p, s, a, e)
            [] g.type = "gre" -> verify_gre(a, e)
            [] g.type = "mpls" -> verify_mpls(p, q, h, g)
            [] g.type = "tcp" -> verify_tcp(p, s, a, e)
            [] g.type = "udp" -> verify_udp(a, e)
            [] g.type = "icmpv4" -> verify_icmpv4(a, e)
            [] OTHER -> verify_icmpv6(a, e)

verify_outbound_live_headers(p, q, s) ==
    /\ Len(p.headers) = Len(q.headers)
    /\ \A i \in DOMAIN q.headers : verify_header(p, q, s, i)

----------------------------------------------------------------------------
(* Checksums, on bytes of ByteValues values. *)

B == ByteValues

LittleEndian(bs) == FoldRight(LAMBDA b, n : b + B * n, bs, 0)

\* Mutant: the trailing byte is left out.
ip_checksum_partial_Even(bs, sum) ==
    LET n == Len(bs) \div 4
        rest == SubSeq(bs, 4 * n + 1, 4 * n + 2 * ((Len(bs) % 4) \div 2))
    IN FoldLeft(LAMBDA x, i : x + LittleEndian(SubSeq(bs, 4 * i - 3, 4 * i)),
                sum + LittleEndian(rest), [i \in 1..n |-> i])

\* 32 bits at a time, then 16, then the last byte, which is padded.
ip_checksum_partial(bs, sum) ==
    LET n == Len(bs) \div 4
        pair == IF Len(bs) % 4 >= 2 THEN SubSeq(bs, 4 * n + 1, 4 * n + 2) ELSE <<>>
        last == IF Len(bs) % 2 = 1 THEN <<bs[Len(bs)]>> ELSE <<>>
    IN FoldLeft(LAMBDA x, i : x + LittleEndian(SubSeq(bs, 4 * i - 3, 4 * i)),
                sum + LittleEndian(pair) + LittleEndian(last), [i \in 1..n |-> i])

RECURSIVE Carry(_, _)
Carry(sum, m) == IF sum < m THEN sum ELSE Carry((sum \div m) + (sum % m), m)

ip_checksum_fold(sum) == B^2 - 1 - Carry(Carry(sum, B^4), B^2)

ipv4_checksum(bs) == ip_checksum_fold(ip_checksum_partial(bs, 0))

\* The pseudo header stands for addresses, protocol and length.
tcp_udp_v4_header_checksum_partial(n) == ip_checksum_partial(<<1, n % B, 1, 0>>, 0)
tcp_udp_v6_header_checksum_partial(n) ==
    ip_checksum_partial(<<1, 1, n % B, (n \div B) % B>>, 0)

tcp_udp_v4_checksum(bs) ==
    ip_checksum_fold(ip_checksum_partial(bs, tcp_udp_v4_header_checksum_partial(Len(bs))))

tcp_udp_v6_checksum(bs) ==
    ip_checksum_fold(ip_checksum_partial(bs, tcp_udp_v6_header_checksum_partial(Len(bs))))

\* A segment has its checksum in its third and fourth byte.
WithCheck(bs, check) == [bs EXCEPT ![3] = check % B, ![4] = check \div B]

\* ICMPv4 has no pseudo header.
checksum_ipv4_packet(p, bs) ==
    WithCheck(bs, IF p.icmpv4 # NULL THEN ipv4_checksum(bs) ELSE tcp_udp_v4_checksum(bs))

checksum_ipv6_packet(p, bs) == WithCheck(bs, tcp_udp_v6_checksum(bs))

----------------------------------------------------------------------------
(* A script's packet, from the grammar to the parser. *)

None == [type |-> "none"]

Init ==
    /\ phase = "prefix" /\ prefix = <<>> /\ outer = packet_new(PACKET_MAX_HEADER_BYTES)
    /\ packet = outer /\ spec = None /\ capture = None /\ result = None
    /\ bytes = <<>>

Refuse == phase' = "refused" /\ UNCHANGED <<prefix, outer, packet, spec, capture, result, bytes>>

ipv4_header_append(p) ==
    Write(packet_append_header(p, "ipv4", IPV4_BYTES, 0), p.ip_bytes,
          set_ip_header("ipv4", 0, 0, 0, "none"))

ipv6_header_append(p) ==
    Write(packet_append_header(p, "ipv6", IPV6_BYTES, 0), p.ip_bytes,
          set_ip_header("ipv6", IPV6_BYTES, 0, 0, "none"))

gre_len(e) == GRE_MINLEN + 4 * Cardinality(e.flags)

gre_header_append(p, e) ==
    Write(packet_append_header(p, "gre", gre_len(e), 0), p.ip_bytes,
          Fields(gre_len(e), 0, "none"))

\* Is each label the bottom of the stack?
mpls_header_append(p, e) ==
    LET q == packet_append_header(p, "mpls", MPLS_BYTES * Len(e.labels), 0)
    IN [q EXCEPT !.at = [o \in {p.ip_bytes + MPLS_BYTES * (i - 1) : i \in DOMAIN e.labels}
                           |-> Fields(MPLS_BYTES, 0,
                                      IF e.labels[1 + (o - p.ip_bytes) \div MPLS_BYTES]
                                        THEN "bottom" ELSE "label")] @@ @]

HeaderBytes(e) ==
    CASE e.type = "ipv4" -> IPV4_BYTES [] e.type = "ipv6" -> IPV6_BYTES
      [] e.type = "gre" -> gre_len(e) [] OTHER -> MPLS_BYTES * Len(e.labels)

mpls_stack_append(e) == e.type = "mpls" => Len(e.labels) <= MPLS_STACK_MAX_ENTRIES

packet_prefix(e) ==
    /\ phase = "prefix" /\ Append(prefix, e) \in Stacks
    /\ \/ ~(mpls_stack_append(e) /\ CanAppend(outer, HeaderBytes(e))) /\ Refuse
       \/ /\ mpls_stack_append(e) /\ CanAppend(outer, HeaderBytes(e))
          /\ outer' = CASE e.type = "ipv4" -> ipv4_header_append(outer)
                        [] e.type = "ipv6" -> ipv6_header_append(outer)
                        [] e.type = "gre" -> gre_header_append(outer, e)
                        [] OTHER -> mpls_header_append(outer, e)
          /\ prefix' = Append(prefix, e)
          /\ UNCHANGED <<phase, packet, spec, capture, result, bytes>>

ect01(s) == s.tos_chk = "ecn" /\ s.tos = ECN_ECT01

\* The checks of the grammar come first.
tcp_packet_spec(s) ==
    IF \/ ect01(s) /\ s.direction = "inbound"
       \/ s.nocheck /\ s.direction = "inbound"
       \/ \E i \in DOMAIN s.options : ~ValidOption(s.options[i])
       \/ ~tcp_options_append(s.options) \/ ~is_valid_u16(s.payload)
      THEN Refused ELSE new_tcp_packet(s.af, s)

\* Any check of ECN is for TCP only.
udp_packet_spec(s) ==
    IF s.tos_chk = "ecn" \/ ~is_valid_u16(s.payload) THEN Refused ELSE new_udp_packet(s.af, s)

icmp_packet_spec(s) ==
    IF ect01(s) /\ s.direction = "inbound" THEN Refused ELSE new_icmp_packet(s.af, s)

\* Asserts: packet_encapsulate(), that all the headers fit; set_ipv6_header(),
\* that the length, cut to 16 bits, holds the header.
packet_spec(s) ==
    /\ phase = "prefix"
    /\ LET b == CASE s.l4 = "tcp" -> tcp_packet_spec(s) [] s.l4 = "udp" -> udp_packet_spec(s)
                  [] OTHER -> icmp_packet_spec(s)
       IN \/ ~b.ok /\ Refuse
          \/ /\ b.ok
             /\ phase' = IF \/ Len(outer.headers) + Len(b.p.headers) > PACKET_MAX_HEADERS
                            \/ s.af = "ipv6" /\ u16(b.p.ip_bytes) < IPV6_BYTES
                           THEN "aborted" ELSE "built"
             /\ packet' = IF phase' = "built" THEN packet_encapsulate(outer, b.p) ELSE packet
             /\ outer' = packet_new(0) /\ prefix' = <<>> /\ spec' = s
             /\ UNCHANGED <<capture, result, bytes>>

\* Live packets are made from copies.
Copy ==
    /\ phase = "built"
    /\ phase' = "copied" /\ packet' = packet_copy(packet)
    /\ UNCHANGED <<prefix, outer, spec, capture, result, bytes>>

\* Two segments of the same size are seen as one, when a packet of the script
\* has the size of both.
Aggregate ==
    /\ phase = "built" /\ spec.l4 = "tcp" /\ spec.payload > 0
    /\ new_tcp_packet(spec.af, [spec EXCEPT !.payload = 2 * @]).ok
    /\ phase' = "copied"
    /\ packet' = aggregate_packets(packet, 2 * spec.payload)
    /\ spec' = [spec EXCEPT !.payload = 2 * @]
    /\ UNCHANGED <<prefix, outer, capture, result, bytes>>

checksum_packet ==
    /\ phase = "built" /\ spec.payload <= 3 /\ Len(packet.headers) = 2
    /\ phase' = "summed"
    /\ \E d \in [1..(2 + spec.payload) -> 0..(B - 1)] :
          LET bs == <<d[1], d[2], 0, 0>> \o SubSeq(d, 3, 2 + spec.payload)
          IN bytes' = IF packet.ipv4 # NULL THEN checksum_ipv4_packet(packet, bs)
                      ELSE checksum_ipv6_packet(packet, bs)
    /\ UNCHANGED <<prefix, outer, packet, spec, capture, result>>

\* What may differ, on the wire, in one header, and in which types of header.
Differs(type, change) ==
    CASE change \in {"longer", "shorter"} -> type \in {"ipv4", "ipv6", "udp"}
      [] change \in {"tos", "ttl"} -> type \in {"ipv4", "ipv6"}
      [] change = "fragment" -> type = "ipv4"
      [] change = "body" -> type \in {"tcp", "gre", "mpls"}
      [] change = "options" -> type = "tcp" /\ OptionsNocheck(spec)
      [] change = "none" -> TRUE
      [] OTHER -> type = "tcp"

Changed(f, change) ==
    CASE change = "longer" -> [f EXCEPT !.len = @ + 1]
      [] change = "shorter" -> [f EXCEPT !.len = IF @ = 0 THEN 0 ELSE @ - 1]
      [] change = "fragment" -> [f EXCEPT !.frag = TRUE]
      [] change = "header16" -> [f EXCEPT !.hl = 16]
      [] change = "header60" -> [f EXCEPT !.hl = 60]
      [] change = "tos" -> [f EXCEPT !.tos = IP_ECN_ECT0]
      [] change = "ttl" -> [f EXCEPT !.ttl = 64]
      [] change = "window" -> [f EXCEPT !.window = @ + 1]
      [] change = "body" -> [f EXCEPT !.body = 1]
      [] change = "options" ->
           [f EXCEPT !.hl = @ + 12, !.options = tcp_option_list(AnyOptions)]
      [] OTHER -> f

Target(c) == IF c.where = "first" THEN packet.headers[1] ELSE Last(packet.headers)

\* The packet the kernel sent: with options of its own, it is longer.
Live(c) ==
    IF c.change = "options" THEN aggregate_packets(packet, packet_payload_len(packet) + 12)
    ELSE packet

Image(c) ==
    LET l2 == IF c.layer = 2 THEN ETHER_BYTES ELSE 0
        at == [Live(c).at EXCEPT ![Target(c).ptr] = Changed(@, c.change)]
    IN [packet_new(PACKET_READ_BYTES) EXCEPT
           !.at = [o \in {x + l2 : x \in DOMAIN at} |-> at[o - l2]]]

InBytes(c) ==
    (IF c.layer = 2 THEN ETHER_BYTES ELSE 0) + Live(c).ip_bytes + c.extra

parse_packet(c) ==
    /\ phase \in {"built", "copied"} /\ Differs(Target(c).type, c.change)
    /\ InBytes(c) >= 0
    /\ phase' = "parsed" /\ capture' = c
    /\ result' = IF c.layer = 2
                   THEN parse_layer2_packet(Image(c), eth_proto(packet.headers[1].type),
                                            InBytes(c))
                   ELSE parse_layer3_packet(Image(c), 0, InBytes(c))
    /\ UNCHANGED <<prefix, outer, packet, spec, bytes>>

Ended == phase \in {"refused", "aborted", "summed", "parsed"} /\ UNCHANGED vars

Next ==
    \/ \E stack \in Stacks \ {<<>>} : packet_prefix(Last(stack))
    \/ \E s \in Specs : packet_spec(s)
    \/ Copy \/ Aggregate \/ checksum_packet
    \/ \E c \in Captures : parse_packet(c)
    \/ Ended

Spec == Init /\ [][Next]_vars

----------------------------------------------------------------------------
\* The length fields of IP have 16 bits.
Fits(p) == p.ip_bytes < 2^16

\* packet_encapsulate() and the constructors agree on every length: each
\* header starts where the one outside it ends, contains exactly the one
\* inside it, and the payload has the size that the script says; also after
\* packets were copied and aggregated.  A script may write packets of 64 KB
\* and more, whose lengths wrap.
LayersNest ==
    phase \in {"built", "copied"} /\ Fits(packet) =>
        LET h == packet.headers
        IN /\ packet.ip_bytes = h[1].total_bytes
           /\ \A i \in 1..(Len(h) - 1) :
                 /\ h[i + 1].ptr = h[i].ptr + h[i].header_bytes
                 /\ h[i].total_bytes = h[i].header_bytes + h[i + 1].total_bytes
           /\ spec.l4 # "icmp" => packet_payload_len(packet) = spec.payload

IpTypes == {"ipv4", "ipv6"}

\* Can the sequence of headers stand on a wire?
Legal(h) ==
    /\ h[1].type \in IpTypes
    /\ \A i \in 1..(Len(h) - 1) :
          CASE h[i].type \in IpTypes -> h[i + 1].type # "mpls"
            [] OTHER -> h[i + 1].type \in IpTypes \cup (IF h[i].type = "gre" THEN {"mpls"}
                                                        ELSE {})

\* Do the labels end where the stack says?
Bottoms(p) ==
    \A i \in DOMAIN p.headers :
        LET h == p.headers[i]
        IN h.type = "mpls" =>
             /\ h.header_bytes > 0
             /\ \A o \in h.ptr..(h.ptr + h.header_bytes - 1) \cap DOMAIN p.at :
                   (p.at[o].next = "bottom") = (o = h.ptr + h.header_bytes - MPLS_BYTES)

Intact == capture.change = "none" /\ capture.extra >= 0


\* parse_packet() finds in a captured packet what the script's author wrote
\* in it: the same headers at the same places with the same lengths, the
\* innermost IP and transport headers, and the same payload, behind an
\* Ethernet header or not.  Padding after the packet only counts as part of
\* what MPLS contains.
FindsWhatWasBuilt ==
    Legal(packet.headers) /\ Bottoms(packet) /\ Intact =>
        LET p == result.p
            h == p.headers
            l2 == p.l2_header_bytes
        IN /\ result.res = "ok"
           /\ DOMAIN h = DOMAIN packet.headers
           /\ \A i \in DOMAIN h :
                 LET g == packet.headers[i]
                     pad == IF h[i].type = "mpls" THEN capture.extra ELSE 0
                 IN h[i] = [g EXCEPT !.ptr = @ + l2, !.total_bytes = @ + pad]
           /\ \A ptr \in Pointers : p[ptr] = offset_ptr(packet[ptr], l2)
           /\ p.ip_bytes = packet.ip_bytes
           /\ packet_payload_len(p) = packet_payload_len(packet)

\* What was built is what parse_packet() finds; and a capture that lost bytes
\* at its end is never taken for a packet, because the length in the outermost
\* IP header is compared with what was received.
RoundTrip ==
    phase = "parsed" /\ Fits(packet) =>
        /\ FindsWhatWasBuilt
        /\ capture.extra < 0 /\ capture.change = "none" => result.res # "ok"

\* Whatever lengths the headers of a packet with one IP header claim, the
\* payload that packet_payload_len() reports is the part of the IP datagram
\* behind the transport header, and lies inside the capture.
PayloadIsInside ==
    phase = "parsed" /\ result.res = "ok"
        /\ Cardinality({i \in DOMAIN result.p.headers :
                           result.p.headers[i].type \in IpTypes}) = 1
        /\ result.p.headers[1].type \in IpTypes =>
        LET last == Last(result.p.headers)
        IN /\ packet_payload_len(result.p) = last.total_bytes - last.header_bytes
           /\ packet_payload_len(result.p) >= 0
           /\ packet_end(result.p) <= InBytes(capture)

\* tcp_options_begin() and tcp_options_next() give the options of a header
\* in the order in which the script lists them, and none else.
OptionsInOrder ==
    phase = "parsed" /\ result.res = "ok" /\ capture.change = "none" /\ spec.l4 = "tcp" =>
        LET f == result.p.at[result.p.tcp]
        IN tcp_options_begin(f.options, f.hl - TCP_BYTES)
             = [i \in DOMAIN spec.options |-> spec.options[i].kind]

Comparable ==
    /\ phase = "parsed" /\ result.res = "ok" /\ spec.direction = "outbound"
    /\ Legal(packet.headers) /\ Bottoms(packet) /\ Fits(packet)

\* What the script leaves open; of the TTL, that of the outer headers.
Tolerated ==
    {"none"} \cup (IF spec.tos_chk = "none" THEN {"tos"} ELSE {})
    \cup (IF spec.ttl = 0 \/ Len(packet.headers) > 2 THEN {"ttl"} ELSE {})
    \cup (IF OptionsNocheck(spec) THEN {"options"} ELSE {})
    \cup (IF spec.l4 = "tcp" /\ spec.window = -1 THEN {"window"} ELSE {})

\* verify_outbound_live_headers() accepts a packet that is what the script
\* says and no other: it notices a difference in any header of the stack,
\* and only those that the script does not leave open ("ect01" has no packet
\* of its own).
NoticesDifferences ==
    Comparable /\ ~ect01(spec) =>
        verify_outbound_live_headers(result.p, packet, spec)
            = (capture.change \in Tolerated)

\* A receiver accepts the checksum: the sum of the segment and its pseudo
\* header, taken in 16-bit words, is zero in one's complement, for segments
\* of any length, although the code adds 32 bits at a time.
ChecksumVerifies ==
    phase = "summed" =>
        LET n == Len(bytes)
            pseudo == CASE packet.icmpv4 # NULL -> <<>>
                        [] packet.ipv4 # NULL -> <<1, n % B, 1, 0>>
                        [] OTHER -> <<1, 1, n % B, (n \div B) % B>>
            all == pseudo \o bytes \o (IF n % 2 = 1 THEN <<0>> ELSE <<>>)
            words == [i \in 1..(Len(all) \div 2) |-> all[2 * i - 1] + B * all[2 * i]]
        IN FoldLeft(LAMBDA x, w : x + w, 0, words) % (B^2 - 1) = 0
=============================================================================
