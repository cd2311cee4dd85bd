------------------------- MODULE MCOutboundPackets -------------------------
(* Small worlds for OutboundPackets, each about one thing that can vary.    *)
EXTENDS OutboundPackets, TLC

MCHash(key) == 5 * key + 3

\* Packets of scripts.
Packet(kind, type, time) ==
    [kind |-> kind, time_type |-> type, time |-> time, time_end |-> time,
     seq |-> 1, data |-> <<>>, syn |-> FALSE, ack |-> TRUE, fin |-> FALSE,
     psh |-> FALSE, cwr |-> FALSE, body |-> 0, options |-> <<>>,
     nocheck |-> FALSE, label |-> 0]
Out == Packet("outbound", "ANY", 0)
In == Packet("inbound", "RELATIVE", 0)
Bytes(p, n) == [p EXCEPT !.data = [i \in 1..n |-> 0]]
Stamp(val, ecr) == [kind |-> "timestamp", val |-> val, ecr |-> ecr]
Stamped(p, val, ecr) == [p EXCEPT !.options = <<Stamp(val, ecr)>>]

\* Segments of the kernel.
Segment(len) ==
    [port |-> 1, syn |-> FALSE, ack |-> TRUE, fin |-> FALSE, psh |-> FALSE,
     cwr |-> FALSE, body |-> 0, label |-> 0, options |-> <<>>,
     len |-> len, gap |-> 0, skew |-> 0]

Options(checker, strict, server, non_fatal) ==
    [checker |-> checker, strict_segments |-> strict, is_wire_server |-> server,
     non_fatal_packet |-> non_fatal]
Normal == Options(TRUE, FALSE, FALSE, FALSE)

World(options, events, segments, max_events, max_sent, max_time) ==
    [max_events |-> max_events, max_sent |-> max_sent, max_time |-> max_time,
     config |-> options, state |-> "ACTIVE_SYN_ACKED", port |-> 1,
     events |-> events, segments |-> segments]

\* A packet in several segments, some of them not as they should be.
Long == [Bytes(Out, 4) EXCEPT !.psh = TRUE, !.cwr = TRUE]
Segmentation ==
    {World(o, {Long, [Bytes(Out, 1) EXCEPT !.seq = 5, !.fin = TRUE]},
           {[Segment(2) EXCEPT !.psh = TRUE], [Segment(2) EXCEPT !.cwr = TRUE],
            [Segment(1) EXCEPT !.cwr = TRUE], [Segment(1) EXCEPT !.psh = TRUE],
            Segment(1), Segment(0), [Segment(1) EXCEPT !.fin = TRUE],
            [Segment(2) EXCEPT !.psh = TRUE, !.gap = 1],
            [Segment(2) EXCEPT !.psh = TRUE, !.gap = -1],
            [Segment(2) EXCEPT !.psh = TRUE, !.skew = 1],
            [Segment(2) EXCEPT !.psh = TRUE, !.body = 1],
            [Segment(4) EXCEPT !.psh = TRUE, !.cwr = TRUE],
            [Segment(2) EXCEPT !.psh = TRUE, !.port = 2]},
           2, IF o = Normal THEN 4 ELSE 3, 0) :
        o \in {Normal, Options(TRUE, TRUE, FALSE, FALSE), Options(TRUE, TRUE, TRUE, FALSE),
               Options(FALSE, FALSE, FALSE, FALSE), Options(TRUE, FALSE, FALSE, TRUE)}}

\* SYNs from two ports, with data.
Syn(p) == [p EXCEPT !.syn = TRUE, !.ack = FALSE]
Opening ==
    {[World(Normal,
            {Syn(Out), [Syn(Bytes(Out, 2)) EXCEPT !.seq = 0], Syn(Bytes(Out, 2)),
             [In EXCEPT !.syn = TRUE], Bytes(Out, 1)},
            {Syn(Segment(0)), Syn(Segment(1)), Syn(Segment(2)), Segment(1),
             [Syn(Segment(0)) EXCEPT !.port = 2], [Syn(Segment(2)) EXCEPT !.port = 2]},
            3, 4, 0)
      EXCEPT !.state = "ACTIVE_CONNECTING", !.port = 0]}

\* Timestamps that wrap, and their echoes.
Timestamps ==
    {World(o, {Stamped(Out, v, 0) : v \in {1, 2, 3}} \cup {Stamped(In, 5, v) : v \in {1, 4}}
              \cup {[Stamped(In, 5, 1) EXCEPT !.seq = 3]},
           {[Segment(0) EXCEPT !.options = <<Stamp(0, 0)>>]}, 4, 3, 3) :
        o \in {Normal, Options(TRUE, FALSE, FALSE, TRUE)}}

\* Other options and flow labels.
Labelled(p, n) == [p EXCEPT !.label = n]
Labels ==
    {World(Normal, {Labelled(Out, n) : n \in 0..2}, {Labelled(Segment(0), n) : n \in 0..3},
           4, 4, 0)}
Mss(n) == [kind |-> "mss", val |-> n, ecr |-> 0]
Nop == [kind |-> "nop", val |-> 0, ecr |-> 0]
OtherOptions ==
    {World(Normal, {[Out EXCEPT !.options = <<Nop, Mss(1)>>], [Out EXCEPT !.nocheck = TRUE]},
           {[Segment(0) EXCEPT !.options = s] : s \in {<<>>, <<Nop, Mss(1)>>, <<Nop, Mss(2)>>,
                                                       <<Mss(1), Nop>>}},
           2, 2, 0)}

\* Events of all times.
Times ==
    {World(Normal,
           {Packet("inbound", "RELATIVE", t) : t \in {0, 1, 2}}
           \cup {Packet("inbound", "ABSOLUTE", t) : t \in {0, 3}}
           \cup {Packet("call", "RELATIVE", 1), Packet("outbound", "RELATIVE", 0),
                 Packet("outbound", "RELATIVE", 1), Packet("outbound", "ABSOLUTE", 2), Out}
           \cup {[Packet("outbound", type, 1) EXCEPT !.time_end = 3] :
                     type \in {"ABSOLUTE_RANGE", "RELATIVE_RANGE"}},
           {Segment(0)}, 3, 2, 5)}

MCWorlds ==
    Segmentation \cup Opening \cup Timestamps \cup Labels \cup OtherOptions \cup Times

=============================================================================
