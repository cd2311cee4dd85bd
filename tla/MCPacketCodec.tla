---------------------------- MODULE MCPacketCodec ----------------------------
(* Packets of a small instance: every constructor, good and bad. *)
EXTENDS PacketCodec

Option(kind, n) == [kind |-> kind, n |-> n]
Nop == Option("nop", 0)
Timestamps == <<Nop, Nop, Option("timestamp", 0)>>
SynOptions == <<Option("mss", 0), Option("sackOK", 0), Option("timestamp", 0),
                Nop, Option("wscale", 0)>>
OptionLists ==
    {<<>>, Timestamps, SynOptions, <<Option("sack", 1), Nop, Nop>>,
     <<Option("fast_open_exp", 12), Nop, Option("eol", 0)>>, <<Option("fast_open", 3)>>,
     <<Option("md5", 34), Nop>>, <<Option("md5", 32), Option("fast_open", 40), Nop>>}

Plain(l4, af, payload) ==
    [l4 |-> l4, af |-> af, direction |-> "outbound", payload |-> payload,
     tos_chk |-> "none", tos |-> 0, ttl |-> 0]
Tcp(af, payload, options) ==
    [nocheck |-> FALSE, options |-> options, flags |-> {"P", "."}, window |-> 5]
        @@ Plain("tcp", af, payload)
Udp(af, payload) == Plain("udp", af, payload)
Icmp(af, type, code, echoed, payload) ==
    [direction |-> "inbound", type |-> type, code |-> code, number |-> 300,
     echoed |-> echoed, mtu |-> -1, echo_id |-> 0] @@ Plain("icmp", af, payload)

Inbound(s) == [s EXCEPT !.direction = "inbound"]
Tos(s, chk, tos) == [s EXCEPT !.tos_chk = chk, !.tos = tos]
Mtu(s) == [s EXCEPT !.mtu = 1400]
Segment == Tcp("ipv4", 1, <<>>)

MCSpecs ==
    {Tcp("ipv4", 0, o) : o \in OptionLists} \cup {Tcp("ipv6", 3, Timestamps)}
    \cup {Tcp("ipv4", n, <<>>) : n \in {2, 3, 65495, 65496, 65497}}
    \cup {Tcp("ipv6", n, <<>>) : n \in {65475, 65476}}
    \cup {[Segment EXCEPT !.nocheck = TRUE, !.ttl = 9], [Segment EXCEPT !.window = -1],
          Tos(Segment, "ecn", ECN_ECT0), Tos(Segment, "ecn", ECN_ECT01),
          Tos(Tcp("ipv6", 1, <<>>), "tos", 5), [Segment EXCEPT !.flags = {"X"}],
          Inbound([Segment EXCEPT !.window = -1]), Inbound([Segment EXCEPT !.nocheck = TRUE]),
          Inbound(Tos(Segment, "ecn", ECN_ECT01))}
    \cup {Udp(af, n) : af \in {"ipv4", "ipv6"}, n \in {0, 2}}
    \cup {Tos(Udp("ipv4", 0), "ecn", ECN_CE), Udp("ipv4", 65535)}
    \cup {Icmp("ipv4", "unreachable", "port_unreachable", "udp", 0),
          Mtu(Icmp("ipv4", "unreachable", "frag_needed", "tcp", 3)),
          Mtu(Icmp("ipv4", "unreachable", "none", "tcp", 3)),
          Mtu(Icmp("ipv6", "packet_too_big", "none", "tcp", 3)),
          Icmp("ipv4", "echo_request", "none", "raw", 8),
          Icmp("ipv4", "echo_request", "none", "raw", 7),
          Icmp("ipv4", "type_", "none", "raw", 8),
          Icmp("ipv6", "unreachable", "frag_needed", "tcp", 3)}

Gre == [type |-> "gre", flags |-> {}]
Headers ==
    {[type |-> "ipv4"], [type |-> "ipv6"], Gre, [type |-> "gre", flags |-> {"key"}],
     [type |-> "mpls", labels |-> <<FALSE, TRUE>>], [type |-> "mpls", labels |-> <<FALSE>>]}
Deep == <<[type |-> "ipv4"], Gre, [type |-> "ipv6"], Gre, [type |-> "ipv4"], Gre, Gre>>

MCStacks ==
    UNION {[1..n -> Headers] : n \in 0..3} \cup {SubSeq(Deep, 1, n) : n \in 4..7}
    \cup {<<[type |-> "mpls", labels |-> [i \in 1..n |-> i = n]]>> : n \in {0, 6, 7}}

Capture(layer, extra, where, change) ==
    [layer |-> layer, extra |-> extra, where |-> where, change |-> change]

MCCaptures ==
    {Capture(layer, n, "first", "none") : layer \in 2..3, n \in {0, 2, -1, -21}}
    \cup {Capture(3, n, where, change) : n \in {0, 2}, where \in {"first", "last"},
             change \in {"longer", "shorter", "fragment", "header16", "header60",
                        "tos", "ttl", "window", "body", "options"}}
=============================================================================
