-------------------------- MODULE OutboundPackets --------------------------
(***************************************************************************)
(* The packet events of a script on one TCP connection: when they run      *)
(* (run.c), how the segments that the kernel sends are gathered until they *)
(* make up the packet of the script, how that is compared with it, and     *)
(* what is learned of the kernel's timestamps and flow labels on the way   *)
(* (run_packet.c, hash_map.c).                                             *)
(*                                                                         *)
(* The environment is the author of the script (which event comes next), a *)
(* kernel that sends the segments it likes, and the clock.  Time counts    *)
(* from live_start_time_usecs.  Sequence numbers are in the script's       *)
(* numbering, that of a SYN relative to the initial one: SocketPackets has *)
(* their translation and PacketCodec the headers.  Of a header we keep the *)
(* fields that aggregation treats in different ways; "body" is all else.   *)
(***************************************************************************)
EXTENDS Integers, Sequences, SequencesExt

CONSTANTS
    Worlds,       \* what authors list and kernels send, see Init
    Tolerance,    \* config->tolerance_usecs
    TickUsecs,    \* config->tcp_ts_tick_usecs
    TsModulus,    \* timestamps are modulo this number (2^32 in the code)
    TsStart,      \* timestamp of the kernel at time 0
    ByteValues,   \* payload bytes are modulo this number (10 in the code)
    hash_key(_)   \* MurmurHash3

ASSUME NumbersAssumption ==
    /\ {Tolerance, TickUsecs} \subseteq Nat
    /\ {TsModulus, ByteValues} \subseteq Nat \ {0} /\ TsStart \in 0 .. (TsModulus - 1)
    /\ \A w \in Worlds : \A e \in w.events : \A i \in DOMAIN e.options :
          hash_key(e.options[i].val) \in Nat /\ e.options[i].val < TsModulus

\* What the parser makes of an event: its times are not negative.
ASSUME EventsAssumption ==
    \A w \in Worlds : \A e \in w.events :
        /\ {"kind", "time", "time_type", "time_end"} \subseteq DOMAIN e
        /\ e.kind \in {"inbound", "outbound", "call"} /\ e.time \in Nat

VARIABLES
    world,       \* the options, the events and the segments of this behaviour
    now,         \* now_usecs()
    pc,          \* "next", "wait", "sniff"; "died" or "aborted"
    event,       \* state->event, its times adjusted
    last_event,  \* state->last_event
    num_events,  \* state->num_events
    socket,      \* state->socket_under_test
    sniffed,     \* segments gathered for the event
    wire,        \* segments sent and not yet received
    sent,        \* how many segments the kernel has sent
    next_seq,    \* the kernel's next sequence number
    history      \* what the properties are about, see NoHistory

kernel == <<wire, sent, next_seq>>
vars == <<world, now, pc, event, last_event, num_events, socket, sniffed, kernel, history>>

config == world.config
NULL == [kind |-> "null"]

----------------------------------------------------------------------------
(* The hash map from a timestamp of the script to a live one.               *)

hash_bucket_num(map, key) == (hash_key(key) % Len(map.buckets)) + 1

hash_map_new == [num_keys |-> 0, buckets |-> << <<>> >>]

hash_map_link(map, node) ==
    [map EXCEPT !.buckets[hash_bucket_num(map, node.key)] = <<node>> \o @]

\* Mutant: the nodes stay in the buckets they are in.
hash_map_grow_Stay(map) ==
    [map EXCEPT !.buckets = [b \in 1..(2 * Len(@)) |-> IF b <= Len(@) THEN @[b] ELSE <<>>]]

hash_map_grow(map) ==
    LET empty == [map EXCEPT !.buckets = [b \in 1..(2 * Len(@)) |-> <<>>]]
    IN FoldLeft(hash_map_link, empty, FlattenSeq(map.buckets))

hash_map_insert(map, key, value) ==
    LET big == IF map.num_keys >= Len(map.buckets) THEN hash_map_grow(map) ELSE map
    IN hash_map_link([big EXCEPT !.num_keys = @ + 1], [key |-> key, value |-> value])

\* The first node with the key, 0 if there is none.
Node(bucket, key) == SelectInSeq(bucket, LAMBDA n : n.key = key)

hash_map_set(map, key, value) ==
    LET b == hash_bucket_num(map, key)
        i == Node(map.buckets[b], key)
    IN IF i # 0 THEN [map EXCEPT !.buckets[b][i].value = value]
       ELSE hash_map_insert(map, key, value)

\* What *value holds after hash_map_get(): it is left alone without the key.
hash_map_get(map, key, value) ==
    LET bucket == map.buckets[hash_bucket_num(map, key)]
        i == Node(bucket, key)
    IN IF i # 0 THEN bucket[i].value ELSE value

----------------------------------------------------------------------------
(* Timestamps.                                                              *)

Wrap(n) == n % TsModulus

\* abs((s32)n)
AbsSigned(n) == IF 2 * Wrap(n) >= TsModulus THEN TsModulus - Wrap(n) ELSE Wrap(n)

\* The last timestamp option, 0 if there is none.
find_tcp_timestamp(p) == SelectLastInSeq(p.options, LAMBDA o : o.kind = "timestamp")

packet_tcp_ts_val(p) == p.options[find_tcp_timestamp(p)].val
packet_tcp_ts_ecr(p) == p.options[find_tcp_timestamp(p)].ecr

set_outbound_ts_val_mapping(s, script, live) ==
    [s EXCEPT !.ts_val_map = hash_map_set(@, script, live)]

\* 0 is what live_ts_ecr holds before the call, which never fails.
get_outbound_ts_val_mapping(s, script) == hash_map_get(s.ts_val_map, script, 0)

\* The echo is only looked for in SYNs and near the start of the peer's stream
\* (the live number is below 3; its initial one is 0 here).
map_inbound_packet(s, p) ==
    LET ts == find_tcp_timestamp(p)
    IN IF (p.syn \/ p.seq < 3) /\ ts # 0 /\ p.ack
       THEN [p EXCEPT !.options[ts].ecr = get_outbound_ts_val_mapping(s, @)]
       ELSE p

Learned(s, script, live) ==
    LET t == set_outbound_ts_val_mapping(s, script, live)
    IN IF s.found_first_tcp_ts THEN t
       ELSE [t EXCEPT !.found_first_tcp_ts = TRUE,
                      !.first_script_ts_val = script, !.first_actual_ts_val = live]

\* Mutant: each packet is the baseline of the next.
map_outbound_live_packet_Drift(s, q, p) ==
    LET i == find_tcp_timestamp(q)
        t == Learned(s, packet_tcp_ts_val(p), q.options[i].val)
    IN IF find_tcp_timestamp(p) = 0 \/ i = 0 THEN [socket |-> s, actual |-> q]
       ELSE [socket |-> [t EXCEPT !.first_script_ts_val = packet_tcp_ts_val(p),
                                  !.first_actual_ts_val = q.options[i].val],
             actual |-> [q EXCEPT !.options[i].val =
                 Wrap(t.first_script_ts_val + @ - t.first_actual_ts_val)]]

map_outbound_live_packet(s, q, p) ==
    LET i == find_tcp_timestamp(q)
        t == Learned(s, packet_tcp_ts_val(p), q.options[i].val)
    IN IF find_tcp_timestamp(p) = 0 \/ i = 0 THEN [socket |-> s, actual |-> q]
       ELSE [socket |-> t,
             actual |-> [q EXCEPT !.options[i].val =
                 Wrap(t.first_script_ts_val + @ - t.first_actual_ts_val)]]

----------------------------------------------------------------------------
(* Comparing a segment q with the packet p of the script or, when not       *)
(* strict, with the segment before it.                                      *)

\* Mutant: PSH is compared between segments too.
verify_tcp_Psh(q, p, strict) ==
    /\ Len(q.options) = Len(p.options) \/ p.nocheck
    /\ q.syn = p.syn /\ q.ack = p.ack /\ q.body = p.body
    /\ q.psh = p.psh
    /\ strict => q.fin = p.fin /\ q.cwr = p.cwr
    /\ q.seq = IF strict THEN p.seq ELSE p.seq + Len(p.data)

verify_tcp(q, p, strict) ==
    /\ Len(q.options) = Len(p.options) \/ p.nocheck
    /\ q.syn = p.syn /\ q.ack = p.ack /\ q.body = p.body
    /\ strict => q.fin = p.fin /\ q.psh = p.psh /\ q.cwr = p.cwr
    /\ q.seq = IF strict THEN p.seq ELSE p.seq + Len(p.data)

\* The IP header gives the length, with allowance for options.
verify_outbound_live_headers(q, p, strict) ==
    /\ strict => Len(q.data) = Len(p.data)
    /\ verify_tcp(q, p, strict)

verify_packet_fragments(q, previous, got, expected) ==
    /\ verify_outbound_live_headers(q, previous, FALSE)
    /\ Len(q.data) < expected - got => Len(q.data) = Len(previous.data)

verify_outbound_live_ipv6_flowlabel(s, q, p) ==
    LET m == s.flowlabel_map
        learn == [s EXCEPT !.flowlabel_map = [script |-> p.label, live |-> q.label]]
    IN CASE p.label = 0 -> [ok |-> TRUE, socket |-> s]
         [] p.label # 0 /\ q.label # 0 /\ m.script = 0 -> [ok |-> TRUE, socket |-> learn]
         [] p.label # 0 /\ q.label # 0 /\ m.script # 0 ->
              [ok |-> (p.label = m.script) = (q.label = m.live),
               socket |-> IF p.label # m.script /\ q.label # m.live THEN learn ELSE s]
         [] OTHER -> [ok |-> FALSE, socket |-> s]

\* The echo of an outbound timestamp is not compared.
verify_outbound_tcp_option(a, s) ==
    CASE a.kind = "nop" -> TRUE
      [] a.kind = "timestamp" -> AbsSigned(a.val - s.val) * TickUsecs <= Tolerance
      [] OTHER -> a.val = s.val

verify_outbound_live_tcp_options(q, p) ==
    p.nocheck \/ /\ Len(q.options) = Len(p.options)
                 /\ \A i \in DOMAIN p.options :
                       /\ q.options[i].kind = p.options[i].kind
                       /\ verify_outbound_tcp_option(q.options[i], p.options[i])

\* The byte at each position of the stream is known; a wrong one aborts.
verify_outbound_live_payload(q) ==
    \A i \in DOMAIN q.data : q.data[i] = (q.seq + i - 2) % ByteValues

\* The headers are those of the last segment, but for two fields.
aggregate_packets(segments) ==
    [Last(segments) EXCEPT
        !.seq = segments[1].seq, !.cwr = segments[1].cwr,
        !.data = FlattenSeq([i \in DOMAIN segments |-> segments[i].data])]

----------------------------------------------------------------------------
(* Time.                                                                    *)

verify_time(e, live) ==
    /\ e.time_type \in {"ABSOLUTE", "RELATIVE"} =>
          live \in (e.time - Tolerance)..(e.time + Tolerance)
    /\ e.time_type \in {"ABSOLUTE_RANGE", "RELATIVE_RANGE"} =>
          live \in (e.time - Tolerance)..(e.time_end + Tolerance)

is_event_start_time_anchored(e) == e.kind = "inbound"

is_event_time_absolute(e) ==
    e.kind # "null" /\ e.time_type \in {"ABSOLUTE", "ABSOLUTE_RANGE"}

\* The parser takes other times for outbound packets only.
ValidTime(e) ==
    /\ e.kind # "outbound" => e.time_type \in {"ABSOLUTE", "RELATIVE"}
    /\ e.time_end >= e.time

\* Mutant: every relative time counts from now.
adjust_relative_event_times_Now(e) ==
    IF is_event_time_absolute(e) THEN e
    ELSE [e EXCEPT !.time = @ + now,
                   !.time_end = IF e.time_type = "RELATIVE_RANGE" THEN @ + now ELSE @]

adjust_relative_event_times(e) ==
    LET offset == IF is_event_start_time_anchored(last_event) /\ is_event_start_time_anchored(e)
                  THEN last_event.time ELSE now
    IN IF is_event_time_absolute(e) THEN e
       ELSE [e EXCEPT !.time = @ + offset,
                      !.time_end = IF e.time_type = "RELATIVE_RANGE" THEN @ + offset ELSE @]

----------------------------------------------------------------------------
(* The states.  A world has the options of config, the state and the port   *)
(* of the socket, the events an author may list, the segments the kernel    *)
(* may send, and bounds on their numbers and on the time.                   *)

NoHistory ==
    [verdict |-> "none", group |-> <<>>,   \* of the last outbound packet
     pairs |-> <<>>,                       \* timestamps compared so far
     labels |-> <<>>,                      \* the last labels accepted
     due |-> 0, late |-> 0,                \* of inbound packets
     echo |-> <<>>]                        \* the last timestamp echoed

Init ==
    /\ world \in Worlds
    /\ socket = [state |-> world.state, port |-> world.port, script_isn |-> 0,
                 ts_val_map |-> hash_map_new, found_first_tcp_ts |-> FALSE,
                 first_script_ts_val |-> 0, first_actual_ts_val |-> 0,
                 flowlabel_map |-> [script |-> 0, live |-> 0]]
    /\ now = 0 /\ pc = "next" /\ event = NULL /\ last_event = NULL
    /\ num_events = 0 /\ sniffed = <<>> /\ history = NoHistory
    /\ wire = <<>> /\ sent = 0 /\ next_seq = 1

\* A packet that starts a connection gives the initial sequence number.
handle_connect_for_script_packet(s, e) ==
    IF e.kind = "outbound" /\ e.syn /\ ~e.ack /\ s.state = "ACTIVE_CONNECTING"
    THEN [s EXCEPT !.state = "ACTIVE_SYN_SENT", !.script_isn = e.seq]
    ELSE s

\* When an inbound packet is due if nothing ever took time.
Due(e, adjusted) ==
    IF last_event.kind = "inbound" /\ e.kind = "inbound" /\ e.time_type = "RELATIVE"
    THEN history.due + e.time ELSE adjusted.time

get_next_event(e) ==
    LET adjusted == adjust_relative_event_times(e)
        wrong == \/ last_event = NULL /\ e.time # 0
                 \/ /\ is_event_time_absolute(last_event) /\ is_event_time_absolute(e)
                    /\ e.time < last_event.time
    IN /\ pc = "next" /\ num_events < world.max_events /\ ValidTime(e)
       /\ event' = adjusted
       /\ pc' = CASE wrong -> "died" [] ~wrong /\ e.kind = "outbound" -> "sniff"
                  [] OTHER -> "wait"
       /\ socket' = handle_connect_for_script_packet(socket, e)
       /\ history' = [history EXCEPT !.verdict = "none", !.group = <<>>, !.echo = <<>>,
                                     !.due = Due(e, adjusted)]
       /\ UNCHANGED <<world, now, last_event, num_events, sniffed, kernel>>

\* The event is over.
Advance ==
    /\ pc' = "next" /\ num_events' = num_events + 1
    /\ last_event' = event /\ event' = NULL

\* wait_for_event() is over and the event happens, or is late.
Late == num_events > 0 /\ ~verify_time(event, now)

do_inbound_script_packet(s, p) ==
    IF s.state = "ACTIVE_SYN_SENT" /\ p.syn /\ p.ack
    THEN [s EXCEPT !.state = "ACTIVE_SYN_ACKED"] ELSE s

Echo(p) ==
    LET ts == find_tcp_timestamp(p)
    IN IF (p.syn \/ p.seq < 3) /\ ts # 0 /\ p.ack
       THEN <<packet_tcp_ts_ecr(p), packet_tcp_ts_ecr(map_inbound_packet(socket, p))>>
       ELSE <<>>

Inbound ==
    /\ pc = "wait" /\ event.kind = "inbound" /\ now >= event.time /\ ~Late
    /\ socket' = do_inbound_script_packet(socket, event)
    /\ history' = [history EXCEPT !.late = IF num_events > 0 THEN now - history.due ELSE 0,
                                  !.echo = Echo(event)]
    /\ Advance
    /\ UNCHANGED <<world, now, sniffed, kernel>>

\* A system call or command: of it only the time matters here.
Call ==
    /\ pc = "wait" /\ event.kind = "call" /\ now >= event.time /\ ~Late
    /\ Advance
    /\ UNCHANGED <<world, now, socket, sniffed, kernel, history>>

check_event_time ==
    /\ pc = "wait" /\ now >= event.time /\ Late
    /\ pc' = "died"
    /\ UNCHANGED <<world, now, event, last_event, num_events, socket, sniffed, kernel, history>>

----------------------------------------------------------------------------
(* Outbound packets.                                                        *)

find_socket_for_live_packet(s, q) == q.port = s.port

find_connect_for_live_packet(s, q) == q.syn /\ ~q.ack /\ s.state = "ACTIVE_SYN_SENT"

\* The positions of the segments that sniff_outbound_live_packet() may return.
Mine == {n \in DOMAIN wire : \/ find_socket_for_live_packet(socket, wire[n])
                             \/ find_connect_for_live_packet(socket, wire[n])}

\* A SYN may come from another port than the one before.
Learn(s, q) == IF find_socket_for_live_packet(s, q) THEN s ELSE [s EXCEPT !.port = q.port]

tcp_convert_seq_number(s, q) ==
    IF q.syn THEN [q EXCEPT !.seq = s.script_isn + @] ELSE q

Payload(segments) == Len(FlattenSeq([i \in DOMAIN segments |-> segments[i].data]))

\* The result, and the socket with what is learned.
verify_outbound_live_packet(s, q, p) ==
    LET m == map_outbound_live_packet(s, q, p)
        f == verify_outbound_live_ipv6_flowlabel(m.socket, m.actual, p)
        R(res, t) == [res |-> res, socket |-> t]
    IN CASE ~config.checker -> R("ok", s)
         [] config.checker /\ q.port # s.port -> R("aborted", s)
         [] OTHER ->
              IF ~verify_outbound_live_headers(m.actual, p, TRUE) THEN R("bad", m.socket)
              ELSE IF ~f.ok \/ ~verify_outbound_live_tcp_options(m.actual, p) THEN R("bad", f.socket)
              ELSE IF ~verify_outbound_live_payload(m.actual) THEN R("aborted", f.socket)
              ELSE R(IF verify_time(p, q.time) THEN "ok" ELSE "bad", f.socket)

\* What is remembered of a comparison.
Compared(h, res, group, q, p) ==
    LET ts == find_tcp_timestamp(p) # 0 /\ find_tcp_timestamp(q) # 0
    IN [h EXCEPT
           !.verdict = res, !.group = group,
           !.pairs = IF ts /\ config.checker
                     THEN Append(@, [script |-> packet_tcp_ts_val(p),
                                     live |-> packet_tcp_ts_val(q), ok |-> res = "ok"])
                     ELSE @,
           !.labels = IF res = "ok" /\ p.label # 0
                      THEN Append(IF @ = <<>> THEN @ ELSE <<Last(@)>>,
                                  [script |-> p.label, live |-> q.label])
                      ELSE @]

\* The end of an outbound event.
Finish(v, group, q) ==
    /\ socket' = v.socket /\ sniffed' = <<>>
    /\ history' = Compared(history, v.res, group, q, event)
    /\ \/ v.res = "ok" /\ Advance
       \/ v.res = "bad" /\ config.non_fatal_packet /\ Advance
       \/ /\ v.res # "ok" /\ (v.res = "bad" => ~config.non_fatal_packet)
          /\ pc' = IF v.res = "aborted" THEN "aborted" ELSE "died"
          /\ UNCHANGED <<event, last_event, num_events>>

\* The test ends while the segments are gathered.
Broken(s, group) ==
    /\ socket' = s /\ sniffed' = <<>> /\ pc' = "died"
    /\ history' = [history EXCEPT !.verdict = "bad", !.group = group]
    /\ UNCHANGED <<event, last_event, num_events>>

\* Mutant: segments of another connection are not told apart.
SameTuple_Any(q, previous) == TRUE

SameTuple(q, previous) == q.port = previous.port

SniffMore(got, expected) ==
    got < expected /\ (~config.strict_segments \/ config.is_wire_server)

do_outbound_script_packet ==
    LET n == CHOOSE i \in Mine : \A j \in Mine : i <= j
        s == Learn(socket, wire[n])
        q == tcp_convert_seq_number(s, wire[n])
        anew == IF sniffed = <<>> THEN TRUE ELSE ~SameTuple(q, Last(sniffed))
        expected == Len(event.data)
        broken == IF anew THEN FALSE
                  ELSE ~verify_packet_fragments(q, Last(sniffed), Payload(sniffed), expected)
        all == IF anew THEN <<q>> ELSE Append(sniffed, q)
        got == Payload(all)
        live == IF Len(all) = 1 THEN q ELSE aggregate_packets(all)
    IN /\ pc = "sniff" /\ Mine # {}
       /\ wire' = SubSeq(wire, n + 1, Len(wire))
       /\ \/ /\ broken
             /\ Broken(s, all)
          \/ /\ ~broken /\ SniffMore(got, expected)
             /\ sniffed' = all /\ socket' = s
             /\ UNCHANGED <<pc, event, last_event, num_events, history>>
          \/ /\ ~broken /\ ~SniffMore(got, expected) /\ config.checker /\ got # expected
             /\ Broken(s, all)
          \/ /\ ~broken /\ ~SniffMore(got, expected) /\ (config.checker => got = expected)
             /\ Finish(verify_outbound_live_packet(s, live, event), all, live)
       /\ UNCHANGED <<world, now, sent, next_seq>>

----------------------------------------------------------------------------
(* The kernel sends one of its segments, at a distance from the number that *)
(* comes next, with the bytes of the stream or others; time passes.         *)

Running ==
    pc \in {"wait", "sniff"} \/ (pc = "next" /\ num_events < world.max_events)

Sends(k) ==
    LET seq == IF k.syn THEN 0 ELSE next_seq + k.gap
        first == IF k.syn THEN 0 ELSE seq - 1
        stamped == [i \in DOMAIN k.options |->
                       IF k.options[i].kind = "timestamp"
                       THEN [k.options[i] EXCEPT !.val = Wrap(TsStart + now)]
                       ELSE k.options[i]]
    IN /\ Running /\ sent < world.max_sent /\ seq >= 0
       /\ wire' = Append(wire, [port |-> k.port, syn |-> k.syn, ack |-> k.ack,
              fin |-> k.fin, psh |-> k.psh, cwr |-> k.cwr, body |-> k.body,
              label |-> k.label, nocheck |-> FALSE, seq |-> seq, time |-> now,
              options |-> stamped,
              data |-> [i \in 1..k.len |-> (first + k.skew + i - 1) % ByteValues]])
       /\ sent' = sent + 1
       /\ next_seq' = IF k.port = world.port \/ k.syn
                      THEN seq + k.len + (IF k.syn THEN 1 ELSE 0) ELSE next_seq
       /\ UNCHANGED <<world, now, pc, event, last_event, num_events, socket, sniffed, history>>

Tick ==
    /\ Running /\ now < world.max_time
    /\ now' = now + 1
    /\ UNCHANGED <<world, pc, event, last_event, num_events, socket, sniffed, kernel, history>>

\* The script is over, or waits for a packet that the kernel does not send.
Stop ==
    /\ Running => now = world.max_time
    /\ UNCHANGED vars

Next ==
    \/ \E e \in world.events : get_next_event(e)
    \/ Inbound \/ Call \/ check_event_time
    \/ do_outbound_script_packet
    \/ \E k \in world.segments : Sends(k)
    \/ Tick \/ Stop

Spec == Init /\ [][Next]_vars

----------------------------------------------------------------------------
(* Properties.                                                              *)

\* The packet of the script that the last verdict is about.
Judged == IF pc = "next" THEN last_event ELSE event

\* Segments g of one connection make up packet p: no byte is missing, twice
\* or wrong, and all segments but the last are of the same size.
MakesUp(g, p) ==
    /\ g # <<>> /\ g[1].seq = p.seq /\ Payload(g) = Len(p.data)
    /\ \A i \in 2..Len(g) : /\ g[i].seq = g[i - 1].seq + Len(g[i - 1].data)
                            /\ g[i].port = g[1].port
                            /\ i < Len(g) => Len(g[i].data) = Len(g[1].data)
    /\ \A i \in DOMAIN g : /\ g[i].syn = p.syn /\ g[i].ack = p.ack /\ g[i].body = p.body
                           /\ verify_outbound_live_payload(g[i])
    /\ Last(g).fin = p.fin /\ Last(g).psh = p.psh /\ g[1].cwr = p.cwr
    /\ verify_time(p, Last(g).time)

\* Of two labelled packets in a row that pass, the labels are the same if and
\* only if they are in the script.
LabelsFollow ==
    \A x, y \in {history.labels[i] : i \in DOMAIN history.labels} :
        x.script = y.script <=> x.live = y.live

\* An outbound packet that passes was sent: what do_outbound_script_packet()
\* gathered, segment by segment, from whatever is on the wire, makes it up,
\* and its flow label changes when the script's does.
AcceptedIsSent ==
    /\ history.verdict = "ok" /\ config.checker => MakesUp(history.group, Judged)
    /\ LabelsFollow

Advanced(a, b) == AbsSigned((a.live - b.live) - (a.script - b.script)) * TickUsecs

\* The options are as the script says.
OptionsAgree(g, p) ==
    \/ p.nocheck
    \/ /\ \A s \in {g[i] : i \in DOMAIN g} :
             /\ Len(s.options) = Len(p.options)
             /\ \A i \in DOMAIN p.options :
                   /\ s.options[i].kind = p.options[i].kind
                   /\ p.options[i].kind = "mss" => s.options[i].val = p.options[i].val
       /\ history.pairs # <<>> => Advanced(Last(history.pairs), history.pairs[1]) <= Tolerance

\* A packet that the kernel sends as the script says passes, even when it is
\* split into segments ("scripts that expect TSO or GSO segmentation"); a SYN
\* with data and flow labels are left out.
NoFalseAlarm ==
    /\ history.verdict \in {"bad", "aborted"} /\ Judged.label = 0
    /\ Judged.syn => Judged.data = <<>>
    /\ Len(history.group) = 1 \/ ~config.strict_segments
    => ~(MakesUp(history.group, Judged) /\ OptionsAgree(history.group, Judged))

\* The timestamps that pass advance as those of the script do, counted from
\* the first packet: errors within the tolerance do not add up.
TimestampsDoNotDrift ==
    \A i \in DOMAIN history.pairs :
        history.pairs[i].ok => Advanced(history.pairs[i], history.pairs[1]) <= Tolerance

\* The live timestamp that was last compared with that of the script, or 0.
Latest(script) ==
    LET i == SelectLastInSeq(history.pairs, LAMBDA x : x.script = script)
    IN IF i = 0 THEN 0 ELSE history.pairs[i].live

\* The timestamp that map_inbound_packet() echoes to the kernel is one the
\* kernel sent: of the packets compared with the script's timestamp, that of
\* the latest; 0 if there is none.  The hash map keeps them all, however
\* often hash_map_set() replaces one and hash_map_grow() moves them.
EchoIsLatest ==
    /\ history.echo # <<>> => history.echo[2] = Latest(history.echo[1])
    /\ \A i \in DOMAIN history.pairs :
          get_outbound_ts_val_mapping(socket, history.pairs[i].script)
              = Latest(history.pairs[i].script)

\* "Consecutive relative inbound packets should be anchored relative to the
\* packet start times, to avoid accumulating errors": each is injected within
\* the tolerance of when it is due if nothing before it had taken time.
NoAccumulatedDelay == history.late \in 0..Tolerance

=============================================================================
