---------------------------- MODULE WireProtocol ----------------------------
(***************************************************************************)
(* Remote mode (wire_client.c, wire_server.c, wire_conn.c).  The client    *)
(* runs the system calls, commands and code of a script; a thread of the   *)
(* server daemon, on another machine, runs its packets.  Both walk the     *)
(* same script and meet at the borders of each run of packet events:       *)
(* WIRE_PACKETS_START from the client, WIRE_PACKETS_DONE from the server.  *)
(*                                                                         *)
(* The TCP connection is two FIFO channels; either side may close.  Then   *)
(* the other side reads what is left and gets an error, and its writes     *)
(* vanish or fail.                                                         *)
(***************************************************************************)
EXTENDS Naturals, Sequences

CONSTANTS
    Scripts,    \* the scripts: non-empty sequences of event kinds
    NonFatal    \* config->non_fatal_packet: a bad packet may be a warning

\* "local" is a system call, command or code event; "backward" an event whose
\* time is before its predecessor's.
EventKinds == {"packet", "local", "backward"}

ASSUME WireScriptsAssumption ==
    /\ \A s \in Scripts : s \in Seq(EventKinds) /\ Len(s) >= 1
    /\ NonFatal \in BOOLEAN

VARIABLES
    script,
    c2s, s2c,           \* messages in flight
    cpc,                \* what the client does next
    cevent,             \* its state->event: an index
    clast, cnum,        \* wire_client->last_event_type, ->num_events
    spc, sevent, slast, snum,   \* the same of the server thread
    cend,               \* how the client ended: "running" while it runs
    send,               \* how the server thread ended: "running" while it runs
    daemon              \* the server process: "up", "killed" or "stopped"

cvars == <<cpc, cevent, clast, cnum, cend>>
svars == <<spc, sevent, slast, snum, send, daemon>>
vars == <<script, c2s, s2c, cvars, svars>>

Msg(op, n, result) == [op |-> op, n |-> n, result |-> result]
Bare(op) == Msg(op, 0, "OK")

SetupOps == <<"ARGS", "PATH", "SCRIPT", "HW">>

Ops == {"ARGS", "PATH", "SCRIPT", "HW", "READY", "STARTING", "START", "WARN",
        "DONE"}

ClientPCs == {"connect", "ready", "starting", "next", "done_wait", "run",
              "finish", "closed"}
ServerPCs == {"ARGS", "PATH", "SCRIPT", "HW", "parse", "STARTING", "next",
              "START", "run", "closed"}

ClientOpen == cpc # "closed"
ServerOpen == spc # "closed"

Init ==
    /\ script \in Scripts
    /\ c2s = <<>> /\ s2c = <<>>
    /\ cpc = "connect" /\ cevent = 0 /\ clast = "none" /\ cnum = 0
    /\ spc = "ARGS" /\ sevent = 0 /\ slast = "none" /\ snum = 0
    /\ cend = "running" /\ send = "running"
    /\ daemon = "up"

----------------------------------------------------------------------------
(* wire_conn *)

\* wire_conn_write() by the client.  Writing to a closed server may succeed,
\* and the message is lost, or fail.
ClientWrites(messages) ==
    c2s' = IF ServerOpen THEN c2s \o messages ELSE c2s

ServerWrites(message) ==
    s2c' = IF ClientOpen THEN Append(s2c, message) ELSE s2c

\* wire_client_die(), die(): the process ends and the connection closes.
ClientDies(why) ==
    /\ cpc' = "closed"
    /\ cend' = why
    /\ UNCHANGED <<cevent, clast, cnum>>

\* error_done in wire_server_thread(): free everything, close.
ServerCloses(why) ==
    /\ spc' = "closed"
    /\ send' = why
    /\ UNCHANGED <<sevent, slast, snum, daemon>>

----------------------------------------------------------------------------
(* Client *)

wire_client_init ==
    /\ cpc = "connect"
    /\ ClientWrites([i \in 1..Len(SetupOps) |-> Bare(SetupOps[i])])
    /\ cpc' = "ready"
    /\ UNCHANGED <<script, s2c, cevent, clast, cnum, cend, svars>>

wire_client_receive_server_ready ==
    /\ cpc = "ready"
    /\ s2c # <<>>
    /\ s2c' = Tail(s2c)
    /\ IF Head(s2c).op = "READY"
         THEN cpc' = "starting" /\ UNCHANGED <<cevent, clast, cnum, cend>>
         ELSE ClientDies("protocol")
    /\ UNCHANGED <<script, c2s, svars>>

\* The init command and the choice of a start time come before this.
wire_client_send_client_starting ==
    /\ cpc = "starting"
    /\ ClientWrites(<<Bare("STARTING")>>)
    /\ cpc' = "next"
    /\ UNCHANGED <<script, s2c, cevent, clast, cnum, cend, svars>>

\* Mutant: the type of the last event is not kept.
ClientCounts_NoType(i) ==
    /\ cnum' = cnum + 1
    /\ UNCHANGED clast

\* The end of wire_client_next_event() for an event at index i.
ClientCounts(i) ==
    /\ clast' = script[i]
    /\ cnum' = cnum + 1

\* get_next_event() and wire_client_next_event() up to a message it awaits.
ClientNextEvent ==
    LET i == cevent + 1
        end == i > Len(script) IN
    /\ cpc = "next"
    /\ cevent' = i
    /\ IF end \/ script[i] = "local"
         THEN IF clast = "packet"
                THEN cpc' = "done_wait" /\ UNCHANGED <<clast, cnum, c2s, cend>>
                ELSE IF end
                       THEN cpc' = "finish" /\ UNCHANGED <<clast, cnum, c2s, cend>>
                       ELSE /\ ClientCounts(i)
                            /\ cpc' = "run"
                            /\ UNCHANGED <<c2s, cend>>
         ELSE IF script[i] = "backward"
                THEN /\ cpc' = "closed" /\ cend' = "script"
                     /\ UNCHANGED <<clast, cnum, c2s>>
                ELSE /\ IF clast # "packet"
                          THEN ClientWrites(<<Msg("START", cnum, "OK")>>)
                          ELSE UNCHANGED c2s
                     /\ ClientCounts(i)
                     /\ UNCHANGED <<cpc, cend>>
    /\ UNCHANGED <<script, s2c, svars>>

\* wire_client_receive_packets_done(): warnings are printed, the verdict of
\* the server ends the wait; then the rest of wire_client_next_event().
wire_client_receive_packets_done ==
    /\ cpc = "done_wait"
    /\ s2c # <<>>
    /\ s2c' = Tail(s2c)
    /\ LET m == Head(s2c) IN
       CASE m.op = "WARN" -> UNCHANGED cvars
         [] m.op = "DONE" /\ m.result = "ERR" -> ClientDies("server_error")
         [] m.op = "DONE" /\ m.result = "OK" /\ m.n = cnum ->
              IF cevent > Len(script)
                THEN cpc' = "finish" /\ UNCHANGED <<cevent, clast, cnum, cend>>
                ELSE /\ ClientCounts(cevent)
                     /\ cpc' = "run"
                     /\ UNCHANGED <<cevent, cend>>
         [] OTHER -> ClientDies("protocol")
    /\ UNCHANGED <<script, c2s, svars>>

\* The event itself, on the client; any failure of it is fatal.
ClientRunsEvent ==
    /\ cpc = "run"
    /\ \/ cpc' = "next" /\ UNCHANGED <<cevent, clast, cnum, cend>>
       \/ ClientDies("event")
    /\ UNCHANGED <<script, c2s, s2c, svars>>

\* state_free() closes the connection.
ClientFinishes ==
    /\ cpc = "finish"
    /\ ClientDies("ok")
    /\ UNCHANGED <<script, c2s, s2c, svars>>

\* The peer has closed: a read with nothing left to read fails.
ClientReadFails ==
    /\ cpc \in {"ready", "done_wait"}
    /\ s2c = <<>>
    /\ ~ServerOpen
    /\ ClientDies("connection")
    /\ UNCHANGED <<script, c2s, s2c, svars>>

\* A write to a closed connection fails.
ClientWriteFails ==
    /\ \/ cpc \in {"connect", "starting"}
       \/ /\ cpc = "next" /\ clast # "packet"
          /\ cevent < Len(script) /\ script[cevent + 1] = "packet"
    /\ ~ServerOpen
    /\ ClientDies("connection")
    /\ UNCHANGED <<script, c2s, s2c, svars>>

----------------------------------------------------------------------------
(* Server *)

\* What the server awaits after each message of the client's setup.
After(op) ==
    CASE op = "ARGS"     -> "PATH"
      [] op = "PATH"     -> "SCRIPT"
      [] op = "SCRIPT"   -> "HW"
      [] op = "HW"       -> "parse"
      [] op = "STARTING" -> "next"

\* wire_server_receive_args(), _script_path(), _script(), _hw_address() and
\* _client_starting(): any other message ends the thread.
ServerReceivesSetup ==
    /\ spc \in {"ARGS", "PATH", "SCRIPT", "HW", "STARTING"}
    /\ c2s # <<>>
    /\ c2s' = Tail(c2s)
    /\ IF Head(c2s).op = spc
         THEN spc' = After(spc) /\ UNCHANGED <<sevent, slast, snum, send, daemon>>
         ELSE ServerCloses("protocol")
    /\ UNCHANGED <<script, s2c, cvars>>

\* Parse the script, open the device, state_new(), send WIRE_SERVER_READY.
ServerPrepares ==
    /\ spc = "parse"
    /\ \/ /\ ServerWrites(Bare("READY"))
          /\ spc' = "STARTING"
          /\ UNCHANGED <<sevent, slast, snum, send, daemon>>
       \/ ServerCloses("setup") /\ UNCHANGED s2c
    /\ UNCHANGED <<script, c2s, cvars>>

\* Mutant: the server counts its own events only.
ServerCounts_PacketsOnly(i) ==
    /\ slast' = script[i]
    /\ snum' = IF script[i] = "packet" THEN snum + 1 ELSE snum

ServerCounts(i) ==
    /\ slast' = script[i]
    /\ snum' = snum + 1

\* get_next_event() and wire_server_next_event() up to a message it awaits.
\* Local events need nothing more from the server.
ServerNextEvent ==
    LET i == sevent + 1
        end == i > Len(script) IN
    /\ spc = "next"
    /\ sevent' = i
    /\ IF end \/ script[i] = "local"
         THEN /\ IF slast = "packet"
                   THEN ServerWrites(Msg("DONE", snum, "OK"))
                   ELSE UNCHANGED s2c
              /\ IF end
                   THEN spc' = "closed" /\ send' = "ok" /\ UNCHANGED <<slast, snum>>
                   ELSE ServerCounts(i) /\ UNCHANGED <<spc, send>>
         ELSE /\ IF script[i] = "backward"
                   THEN spc' = "closed" /\ send' = "script" /\ UNCHANGED <<slast, snum>>
                   ELSE IF slast = "packet"
                          THEN /\ ServerCounts(i)
                               /\ spc' = "run"
                               /\ UNCHANGED send
                          ELSE /\ spc' = "START"
                               /\ UNCHANGED <<slast, snum, send>>
              /\ UNCHANGED s2c
    /\ UNCHANGED <<script, c2s, cvars, daemon>>

\* Mutant: do not wait for the client.
wire_server_receive_packets_start_NoWait ==
    /\ spc = "START"
    /\ ServerCounts(sevent)
    /\ spc' = "run"
    /\ UNCHANGED <<script, c2s, s2c, cvars, sevent, send, daemon>>

\* wire_server_receive_packets_start(), then the rest of
\* wire_server_next_event().
wire_server_receive_packets_start ==
    /\ spc = "START"
    /\ c2s # <<>>
    /\ c2s' = Tail(c2s)
    /\ IF Head(c2s).op = "START" /\ Head(c2s).n = snum
         THEN /\ ServerCounts(sevent)
              /\ spc' = "run"
              /\ UNCHANGED <<sevent, send, daemon>>
         ELSE ServerCloses("protocol")
    /\ UNCHANGED <<script, s2c, cvars>>

\* Mutant: the thread ends at an error and tells nobody.
wire_server_run_packet_event_Silent ==
    /\ spc = "run"
    /\ \/ /\ spc' = "next"
          /\ UNCHANGED <<s2c, sevent, slast, snum, send, daemon>>
       \/ ServerCloses("packet_error") /\ UNCHANGED s2c
    /\ UNCHANGED <<script, c2s, cvars>>

\* wire_server_run_packet_event(): a warning is sent and the script goes on,
\* an error is sent and the thread ends.
wire_server_run_packet_event ==
    /\ spc = "run"
    /\ \/ /\ spc' = "next"
          /\ UNCHANGED <<s2c, sevent, slast, snum, send, daemon>>
       \/ /\ NonFatal
          /\ ServerWrites(Msg("WARN", 0, "WARN"))
          /\ spc' = "next"
          /\ UNCHANGED <<sevent, slast, snum, send, daemon>>
       \/ /\ ServerWrites(Msg("DONE", snum, "ERR"))
          /\ ServerCloses("packet_error")
    /\ UNCHANGED <<script, c2s, cvars>>

\* Mutant: the end of the stream is taken for a short read and retried.
ServerReadFails_Retries ==
    /\ spc \in {"ARGS", "PATH", "SCRIPT", "HW", "STARTING", "START"}
    /\ c2s = <<>> \/ s2c # <<>>
    /\ ~ClientOpen
    /\ UNCHANGED vars

\* A client that closes with unread data resets the connection, and what it
\* had sent may be lost.
ServerReadFails ==
    /\ spc \in {"ARGS", "PATH", "SCRIPT", "HW", "STARTING", "START"}
    /\ c2s = <<>> \/ s2c # <<>>
    /\ ~ClientOpen
    /\ ServerCloses("connection")
    /\ UNCHANGED <<script, c2s, s2c, cvars>>

\* The process dies: verify_outbound_live_payload() aborts on a packet with
\* unexpected data, and SIGPIPE, which the daemon does not ignore, kills it
\* when it writes to a connection the client has reset.
DaemonDies ==
    /\ \/ spc = "run"
       \/ spc = "parse" /\ ~ClientOpen
       \/ /\ spc = "next" /\ ~ClientOpen /\ slast = "packet"
          /\ sevent < Len(script) => script[sevent + 1] = "local"
    /\ daemon' = "killed"
    /\ spc' = "closed"
    /\ send' = "killed"
    /\ UNCHANGED <<script, c2s, s2c, cvars, sevent, slast, snum>>

\* The daemon is stopped from outside this connection: by its user, or by the
\* thread of another connection.
DaemonStopped ==
    /\ ServerOpen
    /\ daemon' = "stopped"
    /\ spc' = "closed"
    /\ send' = "killed"
    /\ UNCHANGED <<script, c2s, s2c, cvars, sevent, slast, snum>>

----------------------------------------------------------------------------
ClientStep ==
    \/ wire_client_init \/ wire_client_receive_server_ready
    \/ wire_client_send_client_starting \/ ClientNextEvent
    \/ wire_client_receive_packets_done \/ ClientRunsEvent \/ ClientFinishes
    \/ ClientReadFails \/ ClientWriteFails

ServerStep ==
    \/ ServerReceivesSetup \/ ServerPrepares \/ ServerNextEvent
    \/ wire_server_receive_packets_start \/ wire_server_run_packet_event
    \/ ServerReadFails

\* Both sides have closed.
Ended ==
    /\ ~ClientOpen /\ ~ServerOpen
    /\ UNCHANGED vars

Next == ClientStep \/ ServerStep \/ DaemonDies \/ DaemonStopped \/ Ended

Spec == Init /\ [][Next]_vars

\* Both processes are scheduled and TCP delivers; a local event or a packet
\* the kernel under test never sends may keep either side waiting for ever.
Fairness ==
    /\ WF_vars(wire_client_init \/ wire_client_send_client_starting
                \/ ClientNextEvent \/ ClientFinishes)
    /\ WF_vars(wire_client_receive_server_ready
                \/ wire_client_receive_packets_done \/ ClientReadFails)
    /\ WF_vars(ServerReceivesSetup \/ wire_server_receive_packets_start
                \/ ServerReadFails)
    /\ WF_vars(ServerPrepares \/ ServerNextEvent)

FairSpec == Spec /\ Fairness

----------------------------------------------------------------------------
(* Properties *)

Messages == [op : Ops, n : Nat, result : {"OK", "WARN", "ERR"}]

TypeOK ==
    /\ script \in Scripts
    /\ c2s \in Seq(Messages) /\ s2c \in Seq(Messages)
    /\ cpc \in ClientPCs /\ spc \in ServerPCs
    /\ cevent \in 0..(Len(script) + 1) /\ sevent \in 0..(Len(script) + 1)
    /\ clast \in EventKinds \cup {"none"} /\ slast \in EventKinds \cup {"none"}
    /\ cnum \in 0..Len(script) /\ snum \in 0..Len(script)
    /\ cend \in {"running", "ok", "script", "event", "protocol", "connection",
                "server_error"}
    /\ send \in {"running", "ok", "script", "setup", "protocol", "connection",
                "packet_error", "killed"}
    /\ daemon \in {"up", "killed", "stopped"}

\* No "bad wire client" or "bad wire server" error: each side finds the
\* message it expects at the head of its channel, with the event count it
\* expects, although the two walk the script separately.
NoProtocolError == cend # "protocol" /\ send # "protocol"

\* Events run in script order across the two machines: a local event runs
\* when the server has run every packet before it, and a packet when the
\* client has run every local event before it.
RunsInScriptOrder ==
    /\ cpc = "run" => \A i \in 1..(cevent - 1) :
         script[i] = "packet" => i < sevent
    /\ spc = "run" => \A i \in 1..(sevent - 1) :
         script[i] = "local" => i < cevent

\* When the server closes a connection whose client is still there, it has
\* read everything the client sent: TCP closes in order instead of
\* resetting, so the verdict sent just before is not lost.
CleanClose ==
    send \in {"ok", "packet_error"} /\ ClientOpen => c2s = <<>>

\* The error the server found in a packet is the error the client dies with,
\* unless the client stops first at an error of the script.
ErrorReachesClient ==
    (send = "packet_error" /\ ClientOpen) ~> (cend \in {"server_error", "script"})

\* Neither side is left waiting for the other, whoever dies and when: both
\* end, unless one is stuck in an event of its own.
BothEnd ==
    \/ <>[](~ClientOpen /\ ~ServerOpen)
    \/ <>[](cpc = "run")
    \/ <>[](spc = "run")
=============================================================================
