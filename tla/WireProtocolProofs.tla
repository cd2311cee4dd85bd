------------------------- MODULE WireProtocolProofs -------------------------
(***************************************************************************)
(* Proofs about WireProtocol, for every set of scripts: the two sides      *)
(* agree on the protocol, run events in script order and close cleanly.    *)
(*                                                                         *)
(* The invariant says what is in flight in each phase of the test.  It is  *)
(* stated with the event counts, which are kept when a side closes, so it  *)
(* speaks of a client or a server that has gone as well.                   *)
(***************************************************************************)
EXTENDS WireProtocol, SequenceTheorems, TLAPS

AllAre(from, to, kind) == \A i \in from..to : script[i] = kind

\* What each side knows of its place in the script.
ClientPlace ==
    /\ clast = IF cnum = 0 THEN "none" ELSE script[cnum]
    /\ clast # "backward" /\ cnum <= cevent
    /\ cpc \in {"connect", "ready", "starting"} => cevent = 0
    /\ cpc \in {"next", "run"} => cevent = cnum
    /\ cpc = "run" => clast = "local"
    /\ cpc = "finish" => cevent > Len(script)
    /\ cpc = "done_wait" =>
         /\ cevent = cnum + 1 /\ clast = "packet"
         /\ cevent <= Len(script) => script[cevent] = "local"

ServerPlace ==
    /\ slast = IF snum = 0 THEN "none" ELSE script[snum]
    /\ slast # "backward" /\ snum <= sevent
    /\ spc # "closed" => send = "running"
    /\ spc \in {"ARGS", "PATH", "SCRIPT", "HW", "parse", "STARTING"} => sevent = 0
    /\ spc \in {"next", "run"} => sevent = snum
    /\ spc = "run" => slast = "packet"
    /\ spc = "START" =>
         /\ sevent = snum + 1 /\ sevent <= Len(script)
         /\ slast # "packet" /\ script[sevent] = "packet"

\* The server has read k of the four messages of the client's setup.
HasRead(k) ==
    /\ Len(c2s) = 4 - k
    /\ \A i \in 1..(4 - k) : c2s[i].op = SetupOps[i + k]

\* Before the client starts.
SetupPhase ==
    /\ cnum = 0 /\ snum = 0
    /\ cpc \in {"connect", "ready", "starting", "closed"}
    /\ spc \in {"ARGS", "PATH", "SCRIPT", "HW", "parse", "STARTING", "closed"}
    /\ spc = "ARGS" => HasRead(0) \/ (Len(c2s) = 0 /\ cpc \in {"connect", "closed"})
    /\ spc = "PATH" => HasRead(1)
    /\ spc = "SCRIPT" => HasRead(2)
    /\ spc = "HW" => HasRead(3)
    /\ spc \in {"parse", "STARTING"} => Len(c2s) = 0
    /\ cpc = "connect" => spc = "closed" \/ (spc = "ARGS" /\ Len(c2s) = 0)
    /\ cpc = "ready" /\ Len(s2c) > 0 =>
         /\ spc \in {"STARTING", "closed"}
         /\ Len(s2c) = 1 /\ s2c[1].op = "READY"
    /\ cpc = "starting" => spc \in {"STARTING", "closed"}
    /\ cpc \in {"connect", "starting"} => Len(s2c) = 0

\* The server has still to read WIRE_CLIENT_STARTING or nothing.
NoneUnread ==
    /\ spc \in {"STARTING", "next", "START", "run", "closed"}
    /\ spc = "STARTING" => Len(c2s) = 1 /\ c2s[1].op = "STARTING"
    /\ spc \in {"next", "START", "run"} => Len(c2s) = 0

\* It has still to read the start of the run after event b.
StartUnread(b) ==
    /\ spc \in {"STARTING", "next", "START", "closed"}
    /\ spc = "STARTING" =>
         Len(c2s) = 2 /\ c2s[1].op = "STARTING" /\ c2s[2] = Msg("START", b, "OK")
    /\ spc \in {"next", "START"} => Len(c2s) = 1 /\ c2s[1] = Msg("START", b, "OK")

\* The client's current run of packets begins after event b.
Begins(b) ==
    /\ b \in 0..(cnum - 1) /\ AllAre(b + 1, cnum, "packet")
    /\ b = 0 \/ script[b] = "local"

Started == cpc \in {"next", "done_wait", "run", "finish", "closed"}

\* Neither side is in a run of packets: only local events lie between them.
LocalPhase ==
    /\ Started /\ clast # "packet" /\ slast # "packet"
    /\ AllAre(cnum + 1, snum, "local") /\ AllAre(snum + 1, cnum, "local")
    /\ NoneUnread
    /\ ClientOpen => Len(s2c) = 0

\* The client is in a run that the server has not begun.
AheadPhase(b) ==
    /\ Started /\ Begins(b) /\ slast # "packet"
    /\ snum <= b /\ AllAre(snum + 1, b, "local")
    /\ StartUnread(b)
    /\ ClientOpen => Len(s2c) = 0

Final(m) ==
    /\ m.op = "DONE" /\ spc = "closed"
    /\ \/ m.result = "ERR"
       \/ m.result = "OK" /\ m.n = Len(script) /\ snum = Len(script)

\* Both are in the run; the server has sent nothing but warnings, unless it
\* has gone.
RunPhase(b) ==
    /\ Started /\ Begins(b)
    /\ b < snum /\ AllAre(b + 1, snum, "packet")
    /\ NoneUnread
    /\ ClientOpen =>
         \A i \in 1..Len(s2c) : s2c[i].op = "WARN" \/ (i = Len(s2c) /\ Final(s2c[i]))

\* The server is past the run, which ends with event e, and says so in its
\* last message.
DonePhase(b, e) ==
    /\ Started /\ Begins(b)
    /\ cnum <= e /\ e < snum
    /\ AllAre(b + 1, e, "packet") /\ AllAre(e + 1, snum, "local")
    /\ NoneUnread
    /\ ClientOpen =>
         /\ Len(s2c) > 0 /\ s2c[Len(s2c)] = Msg("DONE", e, "OK")
         /\ \A i \in 1..(Len(s2c) - 1) : s2c[i].op = "WARN"

Phases ==
    \/ SetupPhase \/ LocalPhase
    \/ \E b \in 0..Len(script) : AheadPhase(b) \/ RunPhase(b)
    \/ \E b, e \in 0..Len(script) : DonePhase(b, e)

Inv == TypeOK /\ NoProtocolError /\ CleanClose /\ ClientPlace /\ ServerPlace /\ Phases

----------------------------------------------------------------------------
(* Facts about the channels and the script.                                *)

\* Adding a message at the end.
LEMMA Written ==
    ASSUME NEW S, NEW q \in Seq(S), NEW m \in S
    PROVE  /\ q \o <<m>> \in Seq(S) /\ Append(q, m) = q \o <<m>>
           /\ Len(q \o <<m>>) = Len(q) + 1
           /\ (q \o <<m>>)[Len(q) + 1] = m
           /\ \A i \in 1..Len(q) : (q \o <<m>>)[i] = q[i]
  BY AppendIsConcat, AppendProperties

\* Taking the first message.
LEMMA Read ==
    ASSUME NEW S, NEW q \in Seq(S), q # <<>>
    PROVE  /\ Len(q) > 0 /\ Head(q) = q[1] /\ Head(q) \in S
           /\ Tail(q) \in Seq(S) /\ Len(Tail(q)) = Len(q) - 1
           /\ \A i \in 1..(Len(q) - 1) : Tail(q)[i] = q[i + 1]
  BY HeadTailProperties, EmptySeq

\* The script is one of the scripts the constant allows.
LEMMA Script ==
    ASSUME TypeOK
    PROVE  /\ script \in Seq(EventKinds) /\ Len(script) \in Nat
           /\ \A i \in 1..Len(script) : script[i] \in EventKinds
<1>1. script \in Scripts
  BY DEF TypeOK
<1>2. script \in Seq(EventKinds)
  BY <1>1, WireScriptsAssumption
<1> QED BY <1>2

\* last_event_type of the client in a run of packets.
LEMMA ClientInRun ==
    ASSUME Inv, NEW b, Begins(b)
    PROVE  clast = "packet"
<1>1. cnum \in Nat /\ clast = IF cnum = 0 THEN "none" ELSE script[cnum]
  BY Script DEF Inv, TypeOK, ClientPlace
<1> QED BY <1>1 DEF Begins, AllAre

\* last_event_type of the server in a run of packets.
LEMMA ServerInRun ==
    ASSUME Inv, slast = "packet"
    PROVE  \E b \in 0..Len(script) : RunPhase(b)
<1>1. snum \in Nat /\ slast = IF snum = 0 THEN "none" ELSE script[snum]
  BY Script DEF Inv, TypeOK, ServerPlace
<1>2. ~SetupPhase /\ ~LocalPhase /\ \A b \in 0..Len(script) : ~AheadPhase(b)
  BY <1>1 DEF SetupPhase, LocalPhase, AheadPhase
<1>3. \A b, e \in 0..Len(script) : ~DonePhase(b, e)
  BY <1>1 DEF DonePhase, AllAre
<1> QED BY <1>2, <1>3 DEF Inv, Phases

\* A client that has not just counted a packet shares the local phase.
LEMMA ClientOutside ==
    ASSUME Inv, ~SetupPhase, clast # "packet"
    PROVE  LocalPhase
<1>1. \A b \in 0..Len(script) : ~AheadPhase(b) /\ ~RunPhase(b)
  BY ClientInRun DEF AheadPhase, RunPhase
<1>2. \A b, e \in 0..Len(script) : ~DonePhase(b, e)
  BY ClientInRun DEF DonePhase
<1> QED BY <1>1, <1>2 DEF Inv, Phases

\* The messages of wire_client_init().
LEMMA SetupMessages ==
    LET q == [i \in 1..Len(SetupOps) |-> Bare(SetupOps[i])]
    IN /\ q \in Seq(Messages) /\ Len(q) = 4
       /\ \A i \in 1..4 : q[i].op = SetupOps[i]
<1>1. Len(SetupOps) = 4 /\ SetupOps[1] = "ARGS" /\ SetupOps[2] = "PATH"
        /\ SetupOps[3] = "SCRIPT" /\ SetupOps[4] = "HW"
  BY DEF SetupOps
<1>2. \A i \in 1..4 : Bare(SetupOps[i]) \in Messages /\ Bare(SetupOps[i]).op = SetupOps[i]
  BY <1>1 DEF Bare, Msg, Messages, Ops
<1> QED BY <1>1, <1>2

\* A test begins in its setup phase.
LEMMA InitInv == Init => Inv
<1> SUFFICES ASSUME Init PROVE Inv
  OBVIOUS
<1>1. Len(script) \in Nat
  <2>1. script \in Scripts
    BY DEF Init
  <2> QED BY <2>1, WireScriptsAssumption
<1>2. TypeOK
  <2>1. c2s \in Seq(Messages) /\ s2c \in Seq(Messages)
    BY DEF Init
  <2> QED BY <1>1, <2>1 DEF Init, TypeOK, ClientPCs, ServerPCs
<1>3. NoProtocolError /\ CleanClose
  BY DEF Init, NoProtocolError, CleanClose
<1>5. ClientPlace
  BY DEF Init, ClientPlace
<1>6. ServerPlace
  BY DEF Init, ServerPlace
<1>4. SetupPhase
  BY DEF Init, SetupPhase
<1> QED BY <1>2, <1>3, <1>4, <1>5, <1>6 DEF Inv, Phases

----------------------------------------------------------------------------
(* A side that goes leaves the phase as it is.                              *)

\* wire_client_die(), die(), state_free() of the client.
LEMMA ClientGone ==
    ASSUME Inv, cpc' = "closed",
           UNCHANGED <<script, c2s, cnum, clast, spc, snum, slast>>
    PROVE  Phases'
<1>1. CASE SetupPhase
  BY <1>1 DEF SetupPhase, HasRead, Phases
<1>2. CASE LocalPhase
  BY <1>2 DEF LocalPhase, AllAre, NoneUnread, Started, ClientOpen, Phases
<1>3. ASSUME NEW b \in 0..Len(script), AheadPhase(b) PROVE AheadPhase(b)'
  BY <1>3 DEF AheadPhase, Begins, AllAre, StartUnread, Started, ClientOpen
<1>4. ASSUME NEW b \in 0..Len(script), RunPhase(b) PROVE RunPhase(b)'
  BY <1>4 DEF RunPhase, Begins, AllAre, NoneUnread, Started, ClientOpen
<1>5. ASSUME NEW b \in 0..Len(script), NEW e \in 0..Len(script), DonePhase(b, e)
      PROVE  DonePhase(b, e)'
  BY <1>5 DEF DonePhase, Begins, AllAre, NoneUnread, Started, ClientOpen
<1> QED BY <1>1, <1>2, <1>3, <1>4, <1>5 DEF Inv, Phases

\* The end of wire_server_thread(), or of the daemon.
LEMMA ServerGone ==
    ASSUME Inv, ServerOpen, spc' = "closed",
           UNCHANGED <<script, s2c, cpc, cnum, clast, snum, slast>>
    PROVE  Phases'
<1>1. CASE SetupPhase
  BY <1>1 DEF SetupPhase, Phases
<1>2. CASE LocalPhase
  BY <1>2 DEF LocalPhase, AllAre, NoneUnread, Started, ClientOpen, Phases
<1>3. ASSUME NEW b \in 0..Len(script), AheadPhase(b) PROVE AheadPhase(b)'
  BY <1>3 DEF AheadPhase, Begins, AllAre, StartUnread, Started, ClientOpen
<1>4. ASSUME NEW b \in 0..Len(script), RunPhase(b) PROVE RunPhase(b)'
  BY <1>4 DEF RunPhase, Begins, AllAre, NoneUnread, Started, ClientOpen, ServerOpen, Final
<1>5. ASSUME NEW b \in 0..Len(script), NEW e \in 0..Len(script), DonePhase(b, e)
      PROVE  DonePhase(b, e)'
  BY <1>5 DEF DonePhase, Begins, AllAre, NoneUnread, Started, ClientOpen
<1> QED BY <1>1, <1>2, <1>3, <1>4, <1>5 DEF Inv, Phases

----------------------------------------------------------------------------
(* Steps of the client.                                                     *)

\* The client ends, well or because the connection has failed.
LEMMA ClientEnds ==
    ASSUME Inv, ClientFinishes \/ ClientReadFails \/ ClientWriteFails
    PROVE  Inv'
<1>1. /\ cpc' = "closed" /\ cend' \in {"ok", "connection"}
      /\ UNCHANGED <<script, c2s, s2c, cevent, clast, cnum, svars>>
  BY DEF ClientFinishes, ClientReadFails, ClientWriteFails, ClientDies
<1>2. TypeOK'
  BY <1>1 DEF Inv, TypeOK, ClientPCs, svars
<1>3. NoProtocolError' /\ CleanClose'
  BY <1>1 DEF Inv, NoProtocolError, CleanClose, ClientOpen, svars
<1>4. ClientPlace' /\ ServerPlace'
  BY <1>1 DEF Inv, ClientPlace, ServerPlace, svars
<1>5. Phases'
  BY <1>1, ClientGone DEF svars
<1> QED BY <1>2, <1>3, <1>4, <1>5 DEF Inv

\* A system call, command or code event runs on the client.
LEMMA ClientRuns ==
    ASSUME Inv, ClientRunsEvent
    PROVE  Inv'
<1>1. cpc = "run" /\ UNCHANGED <<script, c2s, s2c, cevent, clast, cnum, svars>>
  BY DEF ClientRunsEvent, ClientDies
<1>2. \/ cpc' = "next" /\ cend' = cend
      \/ cpc' = "closed" /\ cend' = "event"
  BY DEF ClientRunsEvent, ClientDies
<1>3. TypeOK'
  BY <1>1, <1>2 DEF Inv, TypeOK, ClientPCs, svars
<1>4. NoProtocolError' /\ CleanClose'
  BY <1>1, <1>2 DEF Inv, NoProtocolError, CleanClose, ClientOpen, svars
<1>5. ClientPlace' /\ ServerPlace'
  BY <1>1, <1>2 DEF Inv, ClientPlace, ServerPlace, svars
<1>6. Phases'
  <2>1. CASE cpc' = "closed"
    BY <1>1, <2>1, ClientGone DEF svars
  <2>2. CASE cpc' = "next"
    <3>1. LocalPhase
      BY <1>1, ClientOutside DEF Inv, ClientPlace, SetupPhase
    <3> QED BY <1>1, <2>2, <3>1
            DEF LocalPhase, AllAre, NoneUnread, Started, ClientOpen, Phases, svars
  <2> QED BY <1>2, <2>1, <2>2
<1> QED BY <1>3, <1>4, <1>5, <1>6 DEF Inv

\* wire_client_init() sends the four messages of the setup.
LEMMA ClientInit ==
    ASSUME Inv, wire_client_init
    PROVE  Inv'
<1> DEFINE setup == [i \in 1..Len(SetupOps) |-> Bare(SetupOps[i])]
<1>1. /\ cpc = "connect" /\ cpc' = "ready"
      /\ UNCHANGED <<script, s2c, cevent, clast, cnum, cend, svars>>
  BY DEF wire_client_init
<1>2. SetupPhase
  BY <1>1 DEF Inv, Phases, LocalPhase, AheadPhase, RunPhase, DonePhase, Started
<1>3. setup \in Seq(Messages) /\ Len(setup) = 4 /\ \A i \in 1..4 : setup[i].op = SetupOps[i]
  BY SetupMessages
<1>4. c2s' = IF ServerOpen THEN setup ELSE c2s
  <2>1. c2s' = IF ServerOpen THEN c2s \o setup ELSE c2s
    BY DEF wire_client_init, ClientWrites
  <2>2. CASE ServerOpen
    <3>1. c2s = <<>>
      BY <1>1, <1>2, <2>2, EmptySeq DEF SetupPhase, ServerOpen, Inv, TypeOK
    <3> HIDE DEF setup
    <3> QED BY <1>3, <2>1, <2>2, <3>1, ConcatEmptySeq
  <2> QED BY <2>1, <2>2
<1> HIDE DEF setup
<1>5. TypeOK'
  BY <1>1, <1>3, <1>4 DEF Inv, TypeOK, ClientPCs, svars
<1>6. NoProtocolError' /\ CleanClose'
  BY <1>1, <1>4 DEF Inv, NoProtocolError, CleanClose, ServerPlace, ClientOpen, ServerOpen, svars
<1>7. ClientPlace' /\ ServerPlace'
  BY <1>1 DEF Inv, ClientPlace, ServerPlace, svars
<1>8. SetupPhase'
  BY <1>1, <1>2, <1>3, <1>4 DEF SetupPhase, HasRead, ServerOpen, svars
<1> QED BY <1>5, <1>6, <1>7, <1>8 DEF Inv, Phases

\* wire_client_receive_server_ready() finds WIRE_SERVER_READY.
LEMMA ClientReady ==
    ASSUME Inv, wire_client_receive_server_ready
    PROVE  Inv'
<1>1. /\ cpc = "ready" /\ s2c # <<>> /\ s2c' = Tail(s2c)
      /\ UNCHANGED <<script, c2s, cevent, clast, cnum, svars>>
  BY DEF wire_client_receive_server_ready, ClientDies
<1>2. SetupPhase
  BY <1>1 DEF Inv, Phases, LocalPhase, AheadPhase, RunPhase, DonePhase, Started
<1>3. /\ Len(s2c) > 0 /\ Head(s2c) = s2c[1]
      /\ s2c' \in Seq(Messages) /\ Len(s2c') = Len(s2c) - 1
  BY <1>1, Read DEF Inv, TypeOK
<1>4. Len(s2c) = 1 /\ s2c[1].op = "READY" /\ spc \in {"STARTING", "closed"}
  BY <1>1, <1>2, <1>3 DEF SetupPhase
<1>5. cpc' = "starting" /\ cend' = cend
  BY <1>1, <1>3, <1>4 DEF wire_client_receive_server_ready
<1>6. TypeOK'
  BY <1>1, <1>3, <1>5 DEF Inv, TypeOK, ClientPCs, svars
<1>7. NoProtocolError' /\ CleanClose'
  BY <1>1, <1>5 DEF Inv, NoProtocolError, CleanClose, ClientOpen, svars
<1>8. ClientPlace' /\ ServerPlace'
  BY <1>1, <1>5 DEF Inv, ClientPlace, ServerPlace, svars
<1>9. SetupPhase'
  BY <1>1, <1>2, <1>3, <1>4, <1>5 DEF SetupPhase, svars
<1> QED BY <1>6, <1>7, <1>8, <1>9 DEF Inv, Phases

\* wire_client_send_client_starting() ends the setup.
LEMMA ClientStarting ==
    ASSUME Inv, wire_client_send_client_starting
    PROVE  Inv'
<1>1. /\ cpc = "starting" /\ cpc' = "next"
      /\ UNCHANGED <<script, s2c, cevent, clast, cnum, cend, svars>>
      /\ c2s' = IF ServerOpen THEN c2s \o <<Bare("STARTING")>> ELSE c2s
  BY DEF wire_client_send_client_starting, ClientWrites
<1>2. SetupPhase
  BY <1>1 DEF Inv, Phases, LocalPhase, AheadPhase, RunPhase, DonePhase, Started
<1>3. Bare("STARTING") \in Messages /\ Bare("STARTING").op = "STARTING"
  BY DEF Bare, Msg, Messages, Ops
<1>4. c2s' \in Seq(Messages)
  BY <1>1, <1>3, Written DEF Inv, TypeOK
<1>5. ServerOpen => Len(c2s') = 1 /\ c2s'[1].op = "STARTING"
  <2>1. ServerOpen => Len(c2s) = 0
    BY <1>1, <1>2 DEF SetupPhase, ServerOpen
  <2>2. /\ Len(c2s \o <<Bare("STARTING")>>) = Len(c2s) + 1
        /\ (c2s \o <<Bare("STARTING")>>)[Len(c2s) + 1] = Bare("STARTING")
    BY <1>3, Written DEF Inv, TypeOK
  <2> QED BY <1>1, <1>3, <2>1, <2>2
<1>6. TypeOK'
  BY <1>1, <1>4 DEF Inv, TypeOK, ClientPCs, svars
<1>7. NoProtocolError' /\ CleanClose'
  BY <1>1 DEF Inv, NoProtocolError, CleanClose, ServerPlace, ClientOpen, ServerOpen, svars
<1>8. ClientPlace' /\ ServerPlace'
  BY <1>1, <1>2 DEF SetupPhase, Inv, ClientPlace, ServerPlace, svars
<1>9. LocalPhase'
  BY <1>1, <1>2, <1>5, <1>8
     DEF SetupPhase, LocalPhase, ClientPlace, ServerPlace, AllAre, NoneUnread,
         Started, ClientOpen, ServerOpen, svars
<1> QED BY <1>6, <1>7, <1>8, <1>9 DEF Inv, Phases

\* The phase does not depend on what a client that has started does next.
LEMMA ClientMoves ==
    ASSUME Inv, cpc \in {"next", "done_wait", "run", "finish"}, Started',
           UNCHANGED <<script, c2s, s2c, cnum, clast, spc, snum, slast>>
    PROVE  Phases'
<1>1. ClientOpen /\ ~SetupPhase
  BY DEF ClientOpen, SetupPhase
<1>2. CASE LocalPhase
  BY <1>1, <1>2 DEF LocalPhase, AllAre, NoneUnread, Phases
<1>3. ASSUME NEW b \in 0..Len(script), AheadPhase(b) PROVE AheadPhase(b)'
  BY <1>1, <1>3 DEF AheadPhase, Begins, AllAre, StartUnread
<1>4. ASSUME NEW b \in 0..Len(script), RunPhase(b) PROVE RunPhase(b)'
  BY <1>1, <1>4 DEF RunPhase, Begins, AllAre, NoneUnread, Final
<1>5. ASSUME NEW b \in 0..Len(script), NEW e \in 0..Len(script), DonePhase(b, e)
      PROVE  DonePhase(b, e)'
  BY <1>1, <1>5 DEF DonePhase, Begins, AllAre, NoneUnread
<1> QED BY <1>1, <1>2, <1>3, <1>4, <1>5 DEF Inv, Phases

\* wire_client_next_event() goes on to the next event.
LEMMA ClientNext ==
    ASSUME Inv, ClientNextEvent
    PROVE  Inv'
<1> DEFINE i == cnum + 1
           start == Msg("START", cnum, "OK")
<1>1. /\ cpc = "next" /\ cevent = cnum /\ cevent' = i
      /\ UNCHANGED <<script, s2c, svars>>
  BY DEF ClientNextEvent, Inv, ClientPlace
<1>2. /\ Len(script) \in Nat /\ cnum \in 0..Len(script) /\ snum \in 0..Len(script)
      /\ cevent' \in 0..(Len(script) + 1)
      /\ \A j \in 1..Len(script) : script[j] \in {"packet", "local", "backward"}
  BY <1>1, Script DEF Inv, TypeOK, EventKinds
<1>3. ~SetupPhase /\ ClientOpen
  BY <1>1 DEF SetupPhase, ClientOpen
<1>4. CASE (i > Len(script) \/ script[i] = "local") /\ (clast = "packet" \/ i > Len(script))
  <2>1. /\ cpc' = IF clast = "packet" THEN "done_wait" ELSE "finish"
        /\ UNCHANGED <<clast, cnum, c2s, cend>>
    BY <1>1, <1>4 DEF ClientNextEvent
  <2>2. TypeOK'
    BY <1>1, <1>2, <2>1 DEF Inv, TypeOK, ClientPCs, svars
  <2>3. NoProtocolError' /\ CleanClose'
    BY <1>1, <1>3, <2>1 DEF Inv, NoProtocolError, CleanClose, svars
  <2>4. ClientPlace' /\ ServerPlace'
    <3>1. ClientPlace'
      BY <1>1, <1>2, <1>4, <2>1 DEF Inv, ClientPlace
    <3>2. ServerPlace'
      BY <1>1 DEF Inv, ServerPlace, svars
    <3> QED BY <3>1, <3>2
  <2>5. Phases'
    BY <1>1, <2>1, ClientMoves DEF Started, svars
  <2> QED BY <2>2, <2>3, <2>4, <2>5 DEF Inv
<1>5. CASE i <= Len(script) /\ script[i] = "local" /\ clast # "packet"
  <2>1. /\ cpc' = "run" /\ clast' = "local" /\ cnum' = i
        /\ UNCHANGED <<c2s, cend>>
    BY <1>1, <1>2, <1>5 DEF ClientNextEvent, ClientCounts
  <2>2. TypeOK'
    BY <1>1, <1>2, <1>5, <2>1 DEF Inv, TypeOK, ClientPCs, EventKinds, svars
  <2>3. NoProtocolError' /\ CleanClose'
    BY <1>1, <1>3, <2>1 DEF Inv, NoProtocolError, CleanClose, svars
  <2>4. ClientPlace' /\ ServerPlace'
    <3>1. ClientPlace'
      BY <1>1, <1>2, <1>5, <2>1 DEF Inv, ClientPlace
    <3>2. ServerPlace'
      BY <1>1 DEF Inv, ServerPlace, svars
    <3> QED BY <3>1, <3>2
  <2>5. LocalPhase
    BY <1>3, <1>5, ClientOutside
  <2>6. LocalPhase'
    BY <1>1, <1>2, <1>3, <1>5, <2>1, <2>5
       DEF LocalPhase, AllAre, NoneUnread, Started, svars
  <2> QED BY <2>2, <2>3, <2>4, <2>6 DEF Inv, Phases
<1>6. CASE i <= Len(script) /\ script[i] = "backward"
  <2>1. /\ cpc' = "closed" /\ cend' = "script"
        /\ UNCHANGED <<clast, cnum, c2s>>
    BY <1>1, <1>2, <1>6 DEF ClientNextEvent
  <2>2. TypeOK'
    BY <1>1, <1>2, <2>1 DEF Inv, TypeOK, ClientPCs, svars
  <2>3. NoProtocolError' /\ CleanClose'
    BY <1>1, <1>3, <2>1 DEF Inv, NoProtocolError, CleanClose, svars
  <2>4. ClientPlace' /\ ServerPlace'
    BY <1>1, <1>2, <1>6, <2>1 DEF Inv, ClientPlace, ServerPlace, svars
  <2>5. Phases'
    BY <1>1, <2>1, ClientGone DEF svars
  <2> QED BY <2>2, <2>3, <2>4, <2>5 DEF Inv
<1>7. CASE i <= Len(script) /\ script[i] = "packet" /\ clast # "packet"
  <2>1. /\ clast' = "packet" /\ cnum' = i
        /\ c2s' = IF ServerOpen THEN c2s \o <<start>> ELSE c2s
        /\ UNCHANGED <<cpc, cend>>
    BY <1>1, <1>2, <1>7 DEF ClientNextEvent, ClientCounts, ClientWrites
  <2>2. start \in Messages
    BY <1>2 DEF Msg, Messages, Ops
  <2>3. c2s' \in Seq(Messages)
    BY <2>1, <2>2, Written DEF Inv, TypeOK
  <2>4. TypeOK'
    BY <1>1, <1>2, <1>7, <2>1, <2>3 DEF Inv, TypeOK, ClientPCs, EventKinds, svars
  <2>5. NoProtocolError' /\ CleanClose'
    BY <1>1, <1>3, <2>1 DEF Inv, NoProtocolError, CleanClose, ServerPlace, ServerOpen, svars
  <2>6. ClientPlace' /\ ServerPlace'
    BY <1>1, <1>2, <1>7, <2>1 DEF Inv, ClientPlace, ServerPlace, svars
  <2>7. LocalPhase
    BY <1>2, <1>3, <1>7 DEF Inv, ClientPlace, Phases, AheadPhase, RunPhase, DonePhase,
                            Begins, AllAre
  <2>8. snum <= cnum
    BY <1>2, <1>7, <2>7 DEF LocalPhase, AllAre
  <2> PICK n \in 0..Len(script) : n = cnum
    BY <1>2
  <2>9. Begins(n)'
    <3>1. cnum = 0 \/ script[cnum] = "local"
      BY <1>2, <1>7 DEF Inv, ClientPlace
    <3> QED BY <1>1, <1>2, <1>7, <2>1, <3>1 DEF Begins, AllAre
  <2>10. StartUnread(n)'
    <3>1. /\ Len(c2s \o <<start>>) = Len(c2s) + 1
          /\ (c2s \o <<start>>)[Len(c2s) + 1] = start
          /\ \A j \in 1..Len(c2s) : (c2s \o <<start>>)[j] = c2s[j]
      BY <2>2, Written DEF Inv, TypeOK
    <3>3. start = Msg("START", n, "OK")
      OBVIOUS
    <3> HIDE DEF start
    <3>2. spc # "run"
      BY <2>7 DEF LocalPhase, Inv, ServerPlace
    <3> QED BY <1>1, <2>1, <2>7, <3>1, <3>2, <3>3
            DEF LocalPhase, NoneUnread, StartUnread, ServerOpen, svars
  <2>11. AheadPhase(n)'
    BY <1>1, <1>2, <1>3, <2>1, <2>7, <2>8, <2>9, <2>10
       DEF LocalPhase, AheadPhase, AllAre, Started, svars
  <2>12. Phases'
    BY <1>1, <2>11 DEF Phases
  <2> QED BY <2>4, <2>5, <2>6, <2>12 DEF Inv
<1>8. CASE i <= Len(script) /\ script[i] = "packet" /\ clast = "packet"
  <2>1. /\ clast' = "packet" /\ cnum' = i
        /\ UNCHANGED <<cpc, c2s, cend>>
    BY <1>1, <1>2, <1>8 DEF ClientNextEvent, ClientCounts
  <2>2. TypeOK'
    BY <1>1, <1>2, <1>8, <2>1 DEF Inv, TypeOK, ClientPCs, EventKinds, svars
  <2>3. NoProtocolError' /\ CleanClose'
    BY <1>1, <1>3, <2>1 DEF Inv, NoProtocolError, CleanClose, svars
  <2>4. ClientPlace' /\ ServerPlace'
    BY <1>1, <1>2, <1>8, <2>1 DEF Inv, ClientPlace, ServerPlace, svars
  <2>5. ASSUME NEW b \in 0..Len(script), Begins(b) PROVE Begins(b)'
    BY <1>1, <1>2, <1>8, <2>1, <2>5 DEF Begins, AllAre
  <2>6. ASSUME NEW b \in 0..Len(script), AheadPhase(b) PROVE AheadPhase(b)'
    BY <1>1, <1>3, <2>1, <2>5, <2>6 DEF AheadPhase, AllAre, StartUnread, Started, svars
  <2>7. ASSUME NEW b \in 0..Len(script), RunPhase(b) PROVE RunPhase(b)'
    BY <1>1, <1>3, <2>1, <2>5, <2>7 DEF RunPhase, AllAre, NoneUnread, Started, Final, svars
  <2>8. ASSUME NEW b \in 0..Len(script), NEW e \in 0..Len(script), DonePhase(b, e)
        PROVE  DonePhase(b, e)'
    <3>1. i <= e
      BY <1>2, <1>8, <2>8 DEF DonePhase, AllAre
    <3> QED BY <1>1, <1>3, <2>1, <2>5, <2>8, <3>1
            DEF DonePhase, AllAre, NoneUnread, Started, svars
  <2>9. ~LocalPhase
    BY <1>8 DEF LocalPhase
  <2>10. Phases'
    BY <1>1, <1>3, <2>6, <2>7, <2>8, <2>9 DEF Inv, Phases
  <2> QED BY <2>2, <2>3, <2>4, <2>10 DEF Inv
<1> QED BY <1>2, <1>4, <1>5, <1>6, <1>7, <1>8

\* wire_client_receive_packets_done() takes a warning or the verdict.
LEMMA ClientDone ==
    ASSUME Inv, wire_client_receive_packets_done
    PROVE  Inv'
<1> DEFINE m == Head(s2c)
<1>1. /\ cpc = "done_wait" /\ s2c # <<>> /\ s2c' = Tail(s2c)
      /\ UNCHANGED <<script, c2s, cevent, svars>>
  BY DEF wire_client_receive_packets_done, ClientDies, cvars
<1>2. /\ Len(script) \in Nat /\ cnum \in 0..Len(script) /\ snum \in 0..Len(script)
      /\ cevent = cnum + 1 /\ clast = "packet"
      /\ cevent <= Len(script) => script[cevent] = "local"
  BY <1>1, Script DEF Inv, TypeOK, ClientPlace
<1>3. /\ Len(s2c) \in Nat /\ Len(s2c) > 0 /\ m = s2c[1]
      /\ s2c' \in Seq(Messages) /\ Len(s2c') = Len(s2c) - 1
      /\ \A i \in 1..(Len(s2c) - 1) : s2c'[i] = s2c[i + 1]
  BY <1>1, Read DEF Inv, TypeOK
<1>4. ~SetupPhase /\ ~LocalPhase /\ ClientOpen /\ (\A b \in 0..Len(script) : ~AheadPhase(b))
  BY <1>1, <1>2, <1>3 DEF SetupPhase, LocalPhase, AheadPhase, ClientOpen
<1>5. ServerPlace'
  BY <1>1 DEF Inv, ServerPlace, svars
<1>6. CASE m.op = "WARN"
  <2>1. UNCHANGED cvars
    BY <1>1, <1>6 DEF wire_client_receive_packets_done
  <2>2. TypeOK'
    BY <1>1, <1>3, <2>1 DEF Inv, TypeOK, svars, cvars
  <2>3. NoProtocolError' /\ CleanClose'
    BY <1>1, <2>1 DEF Inv, NoProtocolError, CleanClose, ClientOpen, svars, cvars
  <2>4. ClientPlace'
    BY <1>1, <2>1 DEF Inv, ClientPlace, cvars
  <2>5. ASSUME NEW b \in 0..Len(script), RunPhase(b) PROVE RunPhase(b)'
    <3>1. \A i \in 1..Len(s2c') :
            s2c'[i].op = "WARN" \/ (i = Len(s2c') /\ Final(s2c'[i]))
      BY <1>3, <1>4, <2>5 DEF RunPhase
    <3>2. \A i \in 1..Len(s2c') : Final(s2c'[i]) => Final(s2c[i])'
      BY <1>1 DEF Final, svars
    <3>3. (Started /\ Begins(b) /\ b < snum /\ AllAre(b + 1, snum, "packet") /\ NoneUnread)'
      BY <1>1, <2>1, <2>5 DEF RunPhase, Begins, AllAre, NoneUnread, Started, svars, cvars
    <3> QED BY <3>1, <3>2, <3>3 DEF RunPhase
  <2>6. ASSUME NEW b \in 0..Len(script), NEW e \in 0..Len(script), DonePhase(b, e)
        PROVE  DonePhase(b, e)'
    <3>1. Len(s2c) > 1
      BY <1>3, <1>4, <1>6, <2>6 DEF DonePhase, Msg
    <3> QED BY <1>1, <1>3, <1>4, <2>1, <2>6, <3>1
            DEF DonePhase, Begins, AllAre, NoneUnread, Started, svars, cvars
  <2>7. Phases'
    BY <1>1, <1>4, <2>5, <2>6 DEF Inv, Phases
  <2> QED BY <1>5, <2>2, <2>3, <2>4, <2>7 DEF Inv
<1>7. CASE m.op # "WARN" /\ \E b \in 0..Len(script) : RunPhase(b)
  <2> PICK b \in 0..Len(script) : RunPhase(b)
    BY <1>7
  <2>1. Len(s2c) = 1 /\ Final(m)
    BY <1>3, <1>4, <1>7 DEF RunPhase
  <2>2. CASE m.result = "ERR"
    <3>1. cpc' = "closed" /\ cend' = "server_error" /\ UNCHANGED <<cevent, clast, cnum>>
      BY <2>1, <2>2 DEF Final, wire_client_receive_packets_done, ClientDies
    <3>2. TypeOK'
      BY <1>1, <1>3, <3>1 DEF Inv, TypeOK, ClientPCs, svars
    <3>3. NoProtocolError' /\ CleanClose'
      BY <1>1, <3>1 DEF Inv, NoProtocolError, CleanClose, ClientOpen, svars
    <3>4. ClientPlace'
      BY <1>1, <3>1 DEF Inv, ClientPlace
    <3>5. Phases'
      BY <1>1, <3>1, ClientGone DEF svars
    <3> QED BY <1>5, <3>2, <3>3, <3>4, <3>5 DEF Inv
  <2>3. CASE m.result = "OK"
    <3>1. m.n = Len(script) /\ snum = Len(script)
      BY <2>1, <2>3 DEF Final
    <3>2. cnum = Len(script)
      BY <1>2, <3>1 DEF RunPhase, Begins, AllAre
    <3>3. cpc' = "finish" /\ UNCHANGED <<cevent, clast, cnum, cend>>
      BY <1>2, <2>1, <2>3, <3>1, <3>2 DEF Final, wire_client_receive_packets_done
    <3>4. TypeOK'
      BY <1>1, <1>3, <3>3 DEF Inv, TypeOK, ClientPCs, svars
    <3>5. NoProtocolError' /\ CleanClose'
      BY <1>1, <1>4, <3>3 DEF Inv, NoProtocolError, CleanClose, svars
    <3>6. ClientPlace'
      BY <1>1, <1>2, <3>2, <3>3 DEF Inv, ClientPlace
    <3>7. RunPhase(b)'
      BY <1>1, <1>3, <2>1, <3>3
         DEF RunPhase, Begins, AllAre, NoneUnread, Started, svars
    <3>8. Phases'
      BY <1>1, <3>7 DEF Phases
    <3> QED BY <1>5, <3>4, <3>5, <3>6, <3>8 DEF Inv
  <2> QED BY <2>1, <2>2, <2>3 DEF Final
<1>8. CASE m.op # "WARN" /\ \E b, e \in 0..Len(script) : DonePhase(b, e)
  <2> PICK b \in 0..Len(script), e \in 0..Len(script) : DonePhase(b, e)
    BY <1>8
  <2>1. Len(s2c) = 1 /\ m = Msg("DONE", e, "OK")
    BY <1>3, <1>4, <1>8, SMTT(30) DEF DonePhase
  <2>2. m.op = "DONE" /\ m.result = "OK" /\ m.n = e
    BY <2>1 DEF Msg
  <2>3. e = cnum /\ cevent <= Len(script) /\ script[cevent] = "local"
    BY <1>2 DEF DonePhase, Begins, AllAre
  <2>4. /\ cpc' = "run" /\ clast' = "local" /\ cnum' = cnum + 1
        /\ UNCHANGED <<cevent, cend>>
    BY <1>2, <2>2, <2>3 DEF wire_client_receive_packets_done, ClientCounts
  <2>5. TypeOK'
    BY <1>1, <1>2, <1>3, <2>3, <2>4 DEF Inv, TypeOK, ClientPCs, EventKinds, svars
  <2>6. NoProtocolError' /\ CleanClose'
    BY <1>1, <1>4, <2>4 DEF Inv, NoProtocolError, CleanClose, svars
  <2>7. ClientPlace'
    BY <1>1, <1>2, <2>3, <2>4 DEF Inv, ClientPlace
  <2>8. slast = "local"
    BY <1>2 DEF DonePhase, AllAre, Inv, ServerPlace
  <2>9. LocalPhase'
    BY <1>1, <1>2, <1>3, <2>1, <2>3, <2>4, <2>8
       DEF DonePhase, LocalPhase, AllAre, NoneUnread, Started, svars
  <2> QED BY <1>5, <2>5, <2>6, <2>7, <2>9 DEF Inv, Phases
<1> QED BY <1>4, <1>6, <1>7, <1>8 DEF Inv, Phases

\* The client's part of the induction.
LEMMA ClientKeeps ==
    ASSUME Inv, ClientStep
    PROVE  Inv'
  BY ClientEnds, ClientRuns, ClientInit, ClientReady, ClientStarting, ClientNext,
     ClientDone DEF ClientStep

----------------------------------------------------------------------------
(* Steps of the server.                                                     *)

\* The thread ends without a verdict.
LEMMA ServerEnds ==
    ASSUME Inv, ServerReadFails \/ DaemonDies \/ DaemonStopped
    PROVE  Inv'
<1>1. /\ ServerOpen /\ spc' = "closed" /\ send' \in {"connection", "killed"}
      /\ daemon' \in {"up", "killed", "stopped"}
      /\ UNCHANGED <<script, c2s, s2c, cvars, sevent, slast, snum>>
  BY DEF ServerReadFails, DaemonDies, DaemonStopped, ServerCloses, ServerOpen, Inv, TypeOK
<1>2. TypeOK'
  BY <1>1 DEF Inv, TypeOK, ServerPCs, cvars
<1>3. NoProtocolError' /\ CleanClose'
  BY <1>1 DEF Inv, NoProtocolError, CleanClose, cvars
<1>4. ClientPlace' /\ ServerPlace'
  BY <1>1 DEF Inv, ClientPlace, ServerPlace, cvars
<1>5. Phases'
  BY <1>1, ServerGone DEF cvars
<1> QED BY <1>2, <1>3, <1>4, <1>5 DEF Inv

\* wire_server_receive_args() to wire_server_receive_client_starting().
LEMMA ServerSetup ==
    ASSUME Inv, ServerReceivesSetup
    PROVE  Inv'
<1>1. /\ spc \in {"ARGS", "PATH", "SCRIPT", "HW", "STARTING"}
      /\ c2s # <<>> /\ c2s' = Tail(c2s)
      /\ UNCHANGED <<script, s2c, cvars, sevent, slast, snum, daemon>>
  BY DEF ServerReceivesSetup, ServerCloses
<1>2. /\ Len(c2s) \in Nat /\ Len(c2s) > 0 /\ Head(c2s) = c2s[1]
      /\ c2s' \in Seq(Messages) /\ Len(c2s') = Len(c2s) - 1
      /\ \A i \in 1..(Len(c2s) - 1) : c2s'[i] = c2s[i + 1]
  BY <1>1, Read DEF Inv, TypeOK
<1>3. sevent = 0 /\ snum = 0 /\ send = "running"
  BY <1>1 DEF Inv, ServerPlace, TypeOK
<1>4. SUFFICES /\ Head(c2s).op = spc
               /\ ClientPlace' /\ Phases'
  <2>1. spc' = After(spc) /\ send' = send
    BY <1>4 DEF ServerReceivesSetup
  <2>2. spc' \in {"PATH", "SCRIPT", "HW", "parse", "next"}
    BY <1>1, <2>1 DEF After
  <2>3. TypeOK'
    BY <1>1, <1>2, <2>1, <2>2 DEF Inv, TypeOK, ServerPCs, cvars
  <2>4. NoProtocolError' /\ CleanClose'
    BY <1>1, <1>3, <2>1 DEF Inv, NoProtocolError, CleanClose, cvars
  <2>5. ServerPlace'
    BY <1>1, <1>3, <2>1, <2>2 DEF Inv, ServerPlace
  <2> QED BY <1>4, <2>3, <2>4, <2>5 DEF Inv
<1>5. ClientPlace'
  BY <1>1 DEF Inv, ClientPlace, cvars
<1>6. CASE spc # "STARTING"
  <2>1. SetupPhase
    BY <1>1, <1>6 DEF Inv, Phases, LocalPhase, AheadPhase, RunPhase, DonePhase, NoneUnread, StartUnread
  <2>2. cpc # "connect"
    BY <1>1, <1>2, <2>1 DEF SetupPhase
  <2>3. Len(SetupOps) = 4 /\ SetupOps[1] = "ARGS" /\ SetupOps[2] = "PATH"
          /\ SetupOps[3] = "SCRIPT" /\ SetupOps[4] = "HW"
    BY DEF SetupOps
  <2>4. CASE spc = "ARGS"
    <3>1. HasRead(0)
      BY <1>2, <2>1, <2>4 DEF SetupPhase
    <3>2. Head(c2s).op = spc
      BY <1>2, <2>3, <2>4, <3>1 DEF HasRead
    <3>3. spc' = "PATH"
      BY <2>4, <3>2 DEF ServerReceivesSetup, After
    <3>4. HasRead(1)'
      BY <1>2, <3>1 DEF HasRead
    <3>5. SetupPhase'
      BY <1>1, <2>1, <2>2, <2>4, <3>3, <3>4 DEF SetupPhase, cvars
    <3> QED BY <1>5, <3>2, <3>5 DEF Phases
  <2>5. CASE spc = "PATH"
    <3>1. HasRead(1)
      BY <1>2, <2>1, <2>5 DEF SetupPhase
    <3>2. Head(c2s).op = spc
      BY <1>2, <2>3, <2>5, <3>1 DEF HasRead
    <3>3. spc' = "SCRIPT"
      BY <2>5, <3>2 DEF ServerReceivesSetup, After
    <3>4. HasRead(2)'
      BY <1>2, <3>1 DEF HasRead
    <3>5. SetupPhase'
      BY <1>1, <2>1, <2>2, <2>5, <3>3, <3>4 DEF SetupPhase, cvars
    <3> QED BY <1>5, <3>2, <3>5 DEF Phases
  <2>6. CASE spc = "SCRIPT"
    <3>1. HasRead(2)
      BY <1>2, <2>1, <2>6 DEF SetupPhase
    <3>2. Head(c2s).op = spc
      BY <1>2, <2>3, <2>6, <3>1 DEF HasRead
    <3>3. spc' = "HW"
      BY <2>6, <3>2 DEF ServerReceivesSetup, After
    <3>4. HasRead(3)'
      BY <1>2, <3>1 DEF HasRead
    <3>5. SetupPhase'
      BY <1>1, <2>1, <2>2, <2>6, <3>3, <3>4 DEF SetupPhase, cvars
    <3> QED BY <1>5, <3>2, <3>5 DEF Phases
  <2>7. CASE spc = "HW"
    <3>1. HasRead(3)
      BY <1>2, <2>1, <2>7 DEF SetupPhase
    <3>2. Head(c2s).op = spc
      BY <1>2, <2>3, <2>7, <3>1 DEF HasRead
    <3>3. spc' = "parse"
      BY <2>7, <3>2 DEF ServerReceivesSetup, After
    <3>4. Len(c2s') = 0
      BY <1>2, <3>1 DEF HasRead
    <3>5. SetupPhase'
      BY <1>1, <2>1, <2>2, <2>7, <3>3, <3>4 DEF SetupPhase, cvars
    <3> QED BY <1>5, <3>2, <3>5 DEF Phases
  <2> QED BY <1>1, <1>6, <2>4, <2>5, <2>6, <2>7
<1>7. CASE spc = "STARTING"
  <2>1. \/ LocalPhase
        \/ \E b \in 0..Len(script) : AheadPhase(b)
    BY <1>2, <1>3, <1>7, Script DEF Inv, TypeOK, Phases, SetupPhase, RunPhase, DonePhase, Begins
  <2>2. CASE LocalPhase
    <3>1. Len(c2s) = 1 /\ c2s[1].op = "STARTING"
      BY <1>7, <2>2 DEF LocalPhase, NoneUnread
    <3>2. Head(c2s).op = spc /\ spc' = "next"
      BY <1>2, <1>7, <3>1 DEF ServerReceivesSetup, After
    <3>3. LocalPhase'
      BY <1>1, <1>2, <2>2, <3>1, <3>2
         DEF LocalPhase, AllAre, NoneUnread, Started, ClientOpen, cvars
    <3> QED BY <1>5, <3>2, <3>3 DEF Phases
  <2>3. CASE \E b \in 0..Len(script) : AheadPhase(b)
    <3> PICK b \in 0..Len(script) : AheadPhase(b)
      BY <2>3
    <3>1. Len(c2s) = 2 /\ c2s[1].op = "STARTING" /\ c2s[2] = Msg("START", b, "OK")
      BY <1>7 DEF AheadPhase, StartUnread
    <3>2. Head(c2s).op = spc /\ spc' = "next"
      BY <1>2, <1>7, <3>1 DEF ServerReceivesSetup, After
    <3>3. StartUnread(b)'
      BY <1>2, <3>1, <3>2 DEF StartUnread
    <3>4. AheadPhase(b)'
      BY <1>1, <3>3 DEF AheadPhase, Begins, AllAre, Started, ClientOpen, cvars
    <3> QED BY <1>1, <1>5, <3>2, <3>4 DEF Phases
  <2> QED BY <2>1, <2>2, <2>3
<1> QED BY <1>6, <1>7

\* wire_conn_write() by the server.
LEMMA ServerSends ==
    ASSUME s2c \in Seq(Messages), NEW m \in Messages, ServerWrites(m)
    PROVE  /\ s2c' \in Seq(Messages)
           /\ ClientOpen =>
                /\ Len(s2c') = Len(s2c) + 1 /\ s2c'[Len(s2c) + 1] = m
                /\ \A i \in 1..Len(s2c) : s2c'[i] = s2c[i]
<1>1. s2c' = IF ClientOpen THEN Append(s2c, m) ELSE s2c
  BY DEF ServerWrites
<1> QED BY <1>1, AppendProperties

\* What wire_server_thread() does before it sends WIRE_SERVER_READY.
LEMMA ServerPrep ==
    ASSUME Inv, ServerPrepares
    PROVE  Inv'
<1>1. spc = "parse" /\ UNCHANGED <<script, c2s, cvars, sevent, slast, snum, daemon>>
  BY DEF ServerPrepares, ServerCloses
<1>2. SetupPhase
  BY <1>1 DEF Inv, Phases, LocalPhase, AheadPhase, RunPhase, DonePhase, NoneUnread, StartUnread
<1>3. CASE spc' = "closed" /\ send' = "setup" /\ s2c' = s2c
  <2>1. TypeOK'
    BY <1>1, <1>3 DEF Inv, TypeOK, ServerPCs, cvars
  <2>2. NoProtocolError' /\ CleanClose' /\ ClientPlace' /\ ServerPlace'
    BY <1>1, <1>3 DEF Inv, NoProtocolError, CleanClose, ClientPlace, ServerPlace, cvars
  <2>3. Phases'
    BY <1>1, <1>3, ServerGone DEF cvars, ServerOpen
  <2> QED BY <2>1, <2>2, <2>3 DEF Inv
<1>4. CASE spc' = "STARTING" /\ send' = send /\ ServerWrites(Bare("READY"))
  <2> DEFINE ready == Bare("READY")
  <2>1. ready \in Messages /\ ready.op = "READY"
    BY DEF Bare, Msg, Messages, Ops
  <2>3. /\ s2c' \in Seq(Messages)
        /\ ClientOpen => Len(s2c') = Len(s2c) + 1 /\ s2c'[Len(s2c) + 1] = ready
    <3> HIDE DEF ready
    <3> QED BY <1>4, <2>1, ServerSends DEF Inv, TypeOK, ready
  <2>4. cpc \in {"ready", "closed"} /\ (cpc = "ready" => Len(s2c) = 0)
    <3>1. Len(s2c) \in Nat
      BY DEF Inv, TypeOK
    <3> QED BY <1>1, <1>2, <3>1 DEF SetupPhase
  <2>5. TypeOK'
    BY <1>1, <1>4, <2>3 DEF Inv, TypeOK, ServerPCs, cvars
  <2>6. NoProtocolError' /\ CleanClose' /\ ClientPlace' /\ ServerPlace'
    BY <1>1, <1>4 DEF Inv, NoProtocolError, CleanClose, ClientPlace, ServerPlace, cvars
  <2>7. SetupPhase'
    <3>1. cpc = "ready" => Len(s2c') = 1 /\ s2c'[1].op = "READY"
      <4> HIDE DEF ready
      <4> QED BY <2>1, <2>3, <2>4 DEF ClientOpen
    <3> QED BY <1>1, <1>2, <1>4, <2>4, <3>1 DEF SetupPhase, cvars
  <2> QED BY <2>5, <2>6, <2>7 DEF Inv, Phases
<1> QED BY <1>3, <1>4 DEF ServerPrepares, ServerCloses

\* wire_server_next_event() goes on to the next event.
LEMMA ServerNext ==
    ASSUME Inv, ServerNextEvent
    PROVE  Inv'
<1> DEFINE i == snum + 1
<1>1. /\ spc = "next" /\ sevent = snum /\ sevent' = i /\ send = "running"
      /\ UNCHANGED <<script, c2s, cvars, daemon>>
  BY DEF ServerNextEvent, Inv, ServerPlace
<1>2. /\ Len(script) \in Nat /\ cnum \in 0..Len(script) /\ snum \in 0..Len(script)
      /\ sevent' \in 0..(Len(script) + 1)
      /\ s2c \in Seq(Messages) /\ Len(s2c) \in Nat
      /\ \A j \in 1..Len(script) : script[j] \in {"packet", "local", "backward"}
  BY <1>1, Script DEF Inv, TypeOK, EventKinds
<1>3. ClientPlace'
  BY <1>1 DEF Inv, ClientPlace, cvars
<1>4. \/ LocalPhase
      \/ \E b \in 0..Len(script) : AheadPhase(b) \/ RunPhase(b)
      \/ \E b, e \in 0..Len(script) : DonePhase(b, e)
  BY <1>1 DEF Inv, Phases, SetupPhase
<1>5. slast = "packet" <=> \E b \in 0..Len(script) : RunPhase(b)
  <2>1. ASSUME NEW b \in 0..Len(script), RunPhase(b) PROVE slast = "packet"
    BY <1>2, <2>1 DEF Inv, ServerPlace, RunPhase, AllAre
  <2> QED BY <2>1, ServerInRun
<1>6. (\A b \in 0..Len(script) : ~AheadPhase(b)) => c2s = <<>>
  <2>1. (\A b \in 0..Len(script) : ~AheadPhase(b)) => Len(c2s) = 0
    BY <1>1, <1>4 DEF LocalPhase, RunPhase, DonePhase, NoneUnread
  <2> QED BY <2>1, EmptySeq DEF Inv, TypeOK
<1>7. CASE i > Len(script)
  <2>1. spc' = "closed" /\ send' = "ok" /\ UNCHANGED <<slast, snum>>
    BY <1>1, <1>7 DEF ServerNextEvent
  <2>2. snum = Len(script) /\ c2s = <<>>
    BY <1>2, <1>6, <1>7 DEF AheadPhase, Begins
  <2>3. NoProtocolError' /\ CleanClose' /\ ServerPlace'
    BY <1>1, <1>2, <2>1, <2>2 DEF Inv, NoProtocolError, CleanClose, ServerPlace, cvars
  <2>4. CASE slast # "packet"
    <3>1. s2c' = s2c
      BY <1>1, <1>7, <2>4 DEF ServerNextEvent
    <3>2. TypeOK'
      BY <1>1, <1>2, <2>1, <3>1 DEF Inv, TypeOK, ServerPCs, cvars
    <3>3. Phases'
      BY <1>1, <2>1, <3>1, ServerGone DEF cvars, ServerOpen
    <3> QED BY <1>3, <2>3, <3>2, <3>3 DEF Inv
  <2>5. CASE slast = "packet"
    <3> DEFINE done == Msg("DONE", snum, "OK")
    <3>1. ServerWrites(done)
      BY <1>1, <1>7, <2>5 DEF ServerNextEvent
    <3>2. /\ done \in Messages
          /\ done.op = "DONE" /\ done.result = "OK" /\ done.n = snum
      BY <1>2 DEF Msg, Messages, Ops
    <3> HIDE DEF done
    <3>3. /\ s2c' \in Seq(Messages)
          /\ ClientOpen =>
               /\ Len(s2c') = Len(s2c) + 1 /\ s2c'[Len(s2c) + 1] = done
               /\ \A j \in 1..Len(s2c) : s2c'[j] = s2c[j]
      BY <1>2, <3>1, <3>2, ServerSends
    <3>4. TypeOK'
      BY <1>1, <1>2, <2>1, <3>3 DEF Inv, TypeOK, ServerPCs, cvars
    <3> PICK b \in 0..Len(script) : RunPhase(b)
      BY <1>5, <2>5
    <3>5. ClientOpen => \A j \in 1..Len(s2c) : s2c[j].op = "WARN"
      BY <1>1, Zenon DEF RunPhase, Final
    <3>6. ClientOpen' => \A j \in 1..Len(s2c') :
                           s2c'[j].op = "WARN" \/ (j = Len(s2c') /\ s2c'[j] = done)
      BY <1>1, <1>2, <3>3, <3>5 DEF ClientOpen, cvars
    <3>7. \A m : m = done => Final(m)'
      BY <1>1, <2>1, <2>2, <3>2 DEF Final
    <3>8. (Started /\ Begins(b) /\ b < snum /\ AllAre(b + 1, snum, "packet") /\ NoneUnread)'
      BY <1>1, <2>1 DEF RunPhase, Started, Begins, AllAre, NoneUnread, cvars
    <3>9. RunPhase(b)'
      BY <3>6, <3>7, <3>8 DEF RunPhase, Final
    <3> QED BY <1>1, <1>3, <2>3, <3>4, <3>9 DEF Inv, Phases
  <2> QED BY <2>4, <2>5
<1>8. CASE i <= Len(script) /\ script[i] = "local"
  <2>1. /\ slast' = "local" /\ snum' = i /\ UNCHANGED <<spc, send>>
    BY <1>1, <1>8 DEF ServerNextEvent, ServerCounts
  <2>2. ServerPlace'
    BY <1>1, <1>2, <1>8, <2>1 DEF Inv, ServerPlace
  <2>3. NoProtocolError' /\ CleanClose'
    BY <1>1, <2>1 DEF Inv, NoProtocolError, CleanClose, cvars
  <2>4. CASE slast # "packet"
    <3>1. s2c' = s2c
      BY <1>1, <1>8, <2>4 DEF ServerNextEvent
    <3>2. TypeOK'
      BY <1>1, <1>2, <1>8, <2>1, <3>1 DEF Inv, TypeOK, EventKinds, cvars
    <3>3. CASE LocalPhase
      <4>1. LocalPhase'
        BY <1>1, <1>2, <1>8, <2>1, <3>1, <3>3
           DEF LocalPhase, AllAre, NoneUnread, Started, ClientOpen, cvars
      <4> QED BY <1>3, <2>2, <2>3, <3>2, <4>1 DEF Inv, Phases
    <3>4. CASE \E b \in 0..Len(script) : AheadPhase(b)
      <4> PICK b \in 0..Len(script) : AheadPhase(b)
        BY <3>4
      <4>1. snum < b
        BY <1>2, <1>8 DEF AheadPhase, Begins, AllAre
      <4>2. AheadPhase(b)'
        BY <1>1, <1>2, <1>8, <2>1, <3>1, <4>1
           DEF AheadPhase, Begins, AllAre, StartUnread, Started, ClientOpen, cvars
      <4> QED BY <1>1, <1>3, <2>2, <2>3, <3>2, <4>2 DEF Inv, Phases
    <3>5. CASE \E b, e \in 0..Len(script) : DonePhase(b, e)
      <4> PICK b \in 0..Len(script), e \in 0..Len(script) : DonePhase(b, e)
        BY <3>5
      <4>1. DonePhase(b, e)'
        BY <1>1, <1>2, <1>8, <2>1, <3>1
           DEF DonePhase, Begins, AllAre, NoneUnread, Started, ClientOpen, cvars
      <4> QED BY <1>1, <1>3, <2>2, <2>3, <3>2, <4>1 DEF Inv, Phases
    <3> QED BY <1>4, <1>5, <2>4, <3>3, <3>4, <3>5
  <2>5. CASE slast = "packet"
    <3> DEFINE done == Msg("DONE", snum, "OK")
    <3>1. ServerWrites(done)
      BY <1>1, <1>8, <2>5 DEF ServerNextEvent
    <3>2. done \in Messages
      BY <1>2 DEF Msg, Messages, Ops
    <3> PICK e \in 0..Len(script) : e = snum
      BY <1>2
    <3>3. done = Msg("DONE", e, "OK")
      OBVIOUS
    <3> HIDE DEF done
    <3>4. /\ s2c' \in Seq(Messages)
          /\ ClientOpen =>
               /\ Len(s2c') = Len(s2c) + 1 /\ s2c'[Len(s2c) + 1] = done
               /\ \A j \in 1..Len(s2c) : s2c'[j] = s2c[j]
      BY <1>2, <3>1, <3>2, ServerSends
    <3>5. TypeOK'
      BY <1>1, <1>2, <1>8, <2>1, <3>4 DEF Inv, TypeOK, EventKinds, cvars
    <3> PICK b \in 0..Len(script) : RunPhase(b)
      BY <1>5, <2>5
    <3>6. ClientOpen => \A j \in 1..Len(s2c) : s2c[j].op = "WARN"
      BY <1>1, Zenon DEF RunPhase, Final
    <3>7. cnum <= e
      BY <1>2, <1>8 DEF RunPhase, Begins, AllAre
    <3>8. (Started /\ Begins(b) /\ NoneUnread)'
      BY <1>1, <2>1 DEF RunPhase, Started, Begins, AllAre, NoneUnread, cvars
    <3>9. cnum' <= e /\ e < snum' /\ AllAre(b + 1, e, "packet")' /\ AllAre(e + 1, snum, "local")'
      BY <1>1, <1>2, <1>8, <2>1, <3>7 DEF RunPhase, AllAre, cvars
    <3>10. ClientOpen' =>
             /\ Len(s2c') > 0 /\ s2c'[Len(s2c')] = Msg("DONE", e, "OK")
             /\ \A j \in 1..(Len(s2c') - 1) : s2c'[j].op = "WARN"
      BY <1>1, <1>2, <3>3, <3>4, <3>6, SMTT(30) DEF ClientOpen, cvars
    <3>11. DonePhase(b, e)'
      BY <3>8, <3>9, <3>10 DEF DonePhase
    <3> QED BY <1>1, <1>3, <2>2, <2>3, <3>5, <3>11 DEF Inv, Phases
  <2> QED BY <2>4, <2>5
<1>9. CASE i <= Len(script) /\ script[i] = "backward"
  <2>1. spc' = "closed" /\ send' = "script" /\ UNCHANGED <<slast, snum, s2c>>
    BY <1>1, <1>9 DEF ServerNextEvent
  <2>2. TypeOK'
    BY <1>1, <1>2, <2>1 DEF Inv, TypeOK, ServerPCs, cvars
  <2>3. NoProtocolError' /\ CleanClose' /\ ServerPlace'
    BY <1>1, <1>2, <2>1 DEF Inv, NoProtocolError, CleanClose, ServerPlace, cvars
  <2>4. Phases'
    BY <1>1, <2>1, ServerGone DEF cvars, ServerOpen
  <2> QED BY <1>3, <2>2, <2>3, <2>4 DEF Inv
<1>10. CASE i <= Len(script) /\ script[i] = "packet" /\ slast = "packet"
  <2>1. slast' = "packet" /\ snum' = i /\ spc' = "run" /\ UNCHANGED <<send, s2c>>
    BY <1>1, <1>10 DEF ServerNextEvent, ServerCounts
  <2>2. TypeOK'
    BY <1>1, <1>2, <1>10, <2>1 DEF Inv, TypeOK, ServerPCs, EventKinds, cvars
  <2>3. NoProtocolError' /\ CleanClose' /\ ServerPlace'
    BY <1>1, <1>2, <1>10, <2>1 DEF Inv, NoProtocolError, CleanClose, ServerPlace, cvars
  <2> PICK b \in 0..Len(script) : RunPhase(b)
    BY <1>5, <1>10
  <2>4. ClientOpen => \A j \in 1..Len(s2c) : s2c[j].op = "WARN"
    BY <1>1 DEF RunPhase, Final
  <2>5. RunPhase(b)'
    BY <1>1, <1>2, <1>10, <2>1, <2>4
       DEF RunPhase, Begins, AllAre, NoneUnread, Started, ClientOpen, cvars
  <2> QED BY <1>1, <1>3, <2>2, <2>3, <2>5 DEF Inv, Phases
<1>11. CASE i <= Len(script) /\ script[i] = "packet" /\ slast # "packet"
  <2>1. spc' = "START" /\ UNCHANGED <<slast, snum, send, s2c>>
    BY <1>1, <1>11 DEF ServerNextEvent
  <2>2. TypeOK'
    BY <1>1, <1>2, <2>1 DEF Inv, TypeOK, ServerPCs, cvars
  <2>3. NoProtocolError' /\ CleanClose' /\ ServerPlace'
    BY <1>1, <1>2, <1>11, <2>1 DEF Inv, NoProtocolError, CleanClose, ServerPlace, cvars
  <2>4. LocalPhase => LocalPhase'
    BY <1>1, <2>1 DEF LocalPhase, AllAre, NoneUnread, Started, ClientOpen, cvars
  <2>5. ASSUME NEW b \in 0..Len(script), AheadPhase(b) PROVE AheadPhase(b)'
    BY <1>1, <2>1, <2>5 DEF AheadPhase, Begins, AllAre, StartUnread, Started, ClientOpen, cvars
  <2>6. ASSUME NEW b \in 0..Len(script), NEW e \in 0..Len(script), DonePhase(b, e)
        PROVE  DonePhase(b, e)'
    BY <1>1, <2>1, <2>6 DEF DonePhase, Begins, AllAre, NoneUnread, Started, ClientOpen, cvars
  <2>7. Phases'
    BY <1>1, <1>4, <1>5, <1>11, <2>4, <2>5, <2>6 DEF Phases
  <2> QED BY <1>3, <2>2, <2>3, <2>7 DEF Inv
<1> QED BY <1>2, <1>7, <1>8, <1>9, <1>10, <1>11

\* wire_server_receive_packets_start() finds the start of the run it expects.
LEMMA ServerStarts ==
    ASSUME Inv, wire_server_receive_packets_start
    PROVE  Inv'
<1>1. /\ spc = "START" /\ send = "running" /\ c2s # <<>> /\ c2s' = Tail(c2s)
      /\ sevent = snum + 1 /\ sevent <= Len(script)
      /\ slast # "packet" /\ script[sevent] = "packet"
      /\ UNCHANGED <<script, s2c, cvars, sevent, daemon>>
  BY DEF wire_server_receive_packets_start, ServerCloses, Inv, ServerPlace
<1>2. /\ Len(script) \in Nat /\ cnum \in 0..Len(script) /\ snum \in 0..Len(script)
      /\ Len(s2c) \in Nat
  BY Script DEF Inv, TypeOK
<1>3. /\ Len(c2s) \in Nat /\ Len(c2s) > 0 /\ Head(c2s) = c2s[1]
      /\ c2s' \in Seq(Messages) /\ Len(c2s') = Len(c2s) - 1
  BY <1>1, Read DEF Inv, TypeOK
<1> PICK b \in 0..Len(script) : AheadPhase(b)
  BY <1>1, <1>3 DEF Inv, Phases, SetupPhase, LocalPhase, RunPhase, DonePhase, NoneUnread
<1>4. b = snum /\ Len(c2s) = 1 /\ c2s[1] = Msg("START", b, "OK")
  BY <1>1, <1>2 DEF AheadPhase, AllAre, StartUnread
<1>5. Head(c2s).op = "START" /\ Head(c2s).n = snum
  BY <1>3, <1>4 DEF Msg
<1>6. /\ slast' = "packet" /\ snum' = snum + 1 /\ spc' = "run" /\ UNCHANGED send
  BY <1>1, <1>5 DEF wire_server_receive_packets_start, ServerCounts
<1>7. TypeOK'
  BY <1>1, <1>2, <1>3, <1>6 DEF Inv, TypeOK, ServerPCs, EventKinds, cvars
<1>8. NoProtocolError' /\ CleanClose'
  BY <1>1, <1>6 DEF Inv, NoProtocolError, CleanClose, cvars
<1>9. ClientPlace' /\ ServerPlace'
  BY <1>1, <1>2, <1>6 DEF Inv, ClientPlace, ServerPlace, cvars
<1>10. RunPhase(b)'
  BY <1>1, <1>2, <1>3, <1>4, <1>6
     DEF AheadPhase, RunPhase, Begins, AllAre, NoneUnread, Started, ClientOpen, cvars
<1> QED BY <1>1, <1>7, <1>8, <1>9, <1>10 DEF Inv, Phases

\* wire_server_run_packet_event() passes, warns or ends the thread.
LEMMA ServerRuns ==
    ASSUME Inv, wire_server_run_packet_event
    PROVE  Inv'
<1>1. /\ spc = "run" /\ sevent = snum /\ slast = "packet" /\ send = "running"
      /\ UNCHANGED <<script, c2s, cvars, sevent, slast, snum, daemon>>
  BY DEF wire_server_run_packet_event, ServerCloses, Inv, ServerPlace
<1>2. /\ Len(script) \in Nat /\ cnum \in 0..Len(script) /\ snum \in 0..Len(script)
      /\ Len(s2c) \in Nat /\ s2c \in Seq(Messages)
  BY Script DEF Inv, TypeOK
<1> PICK b \in 0..Len(script) : RunPhase(b)
  BY <1>1, ServerInRun
<1>3. c2s = <<>>
  <2>1. Len(c2s) = 0
    BY <1>1 DEF RunPhase, NoneUnread
  <2> QED BY <2>1, EmptySeq DEF Inv, TypeOK
<1>4. ClientOpen => \A j \in 1..Len(s2c) : s2c[j].op = "WARN"
  BY <1>1 DEF RunPhase, Final
<1>5. ClientPlace'
  BY <1>1 DEF Inv, ClientPlace, cvars
<1>6. spc' \in {"next", "closed"} =>
        (Started /\ Begins(b) /\ b < snum /\ AllAre(b + 1, snum, "packet") /\ NoneUnread)'
  BY <1>1 DEF RunPhase, Started, Begins, AllAre, NoneUnread, cvars
<1>7. CASE spc' = "next" /\ UNCHANGED <<s2c, send>>
  <2>1. TypeOK'
    BY <1>1, <1>7 DEF Inv, TypeOK, ServerPCs, cvars
  <2>2. NoProtocolError' /\ CleanClose' /\ ServerPlace'
    BY <1>1, <1>7 DEF Inv, NoProtocolError, CleanClose, ServerPlace, cvars
  <2>3. RunPhase(b)'
    BY <1>1, <1>4, <1>6, <1>7 DEF RunPhase, ClientOpen, cvars
  <2> QED BY <1>1, <1>5, <2>1, <2>2, <2>3 DEF Inv, Phases
<1>8. CASE spc' = "next" /\ send' = send /\ ServerWrites(Msg("WARN", 0, "WARN"))
  <2> DEFINE warn == Msg("WARN", 0, "WARN")
  <2>1. warn \in Messages /\ warn.op = "WARN"
    BY DEF Msg, Messages, Ops
  <2>2. ServerWrites(warn)
    BY <1>8
  <2> HIDE DEF warn
  <2>3. /\ s2c' \in Seq(Messages)
        /\ ClientOpen =>
             /\ Len(s2c') = Len(s2c) + 1 /\ s2c'[Len(s2c) + 1] = warn
             /\ \A j \in 1..Len(s2c) : s2c'[j] = s2c[j]
    BY <1>2, <2>1, <2>2, ServerSends
  <2>4. TypeOK'
    BY <1>1, <1>8, <2>3 DEF Inv, TypeOK, ServerPCs, cvars
  <2>5. NoProtocolError' /\ CleanClose' /\ ServerPlace'
    BY <1>1, <1>8 DEF Inv, NoProtocolError, CleanClose, ServerPlace, cvars
  <2>6. ClientOpen' => \A j \in 1..Len(s2c') : s2c'[j].op = "WARN"
    BY <1>1, <1>2, <1>4, <2>1, <2>3, SMTT(30) DEF ClientOpen, cvars
  <2>7. RunPhase(b)'
    BY <1>6, <1>8, <2>6 DEF RunPhase
  <2> QED BY <1>1, <1>5, <2>4, <2>5, <2>7 DEF Inv, Phases
<1>9. CASE /\ spc' = "closed" /\ send' = "packet_error"
           /\ ServerWrites(Msg("DONE", snum, "ERR"))
  <2> DEFINE done == Msg("DONE", snum, "ERR")
  <2>1. done \in Messages /\ done.op = "DONE" /\ done.result = "ERR"
    BY <1>2 DEF Msg, Messages, Ops
  <2>2. ServerWrites(done)
    BY <1>9
  <2> HIDE DEF done
  <2>3. /\ s2c' \in Seq(Messages)
        /\ ClientOpen =>
             /\ Len(s2c') = Len(s2c) + 1 /\ s2c'[Len(s2c) + 1] = done
             /\ \A j \in 1..Len(s2c) : s2c'[j] = s2c[j]
    BY <1>2, <2>1, <2>2, ServerSends
  <2>4. TypeOK'
    BY <1>1, <1>9, <2>3 DEF Inv, TypeOK, ServerPCs, cvars
  <2>5. NoProtocolError' /\ CleanClose' /\ ServerPlace'
    BY <1>1, <1>3, <1>9 DEF Inv, NoProtocolError, CleanClose, ServerPlace, cvars
  <2>6. ClientOpen' => \A j \in 1..Len(s2c') :
                         s2c'[j].op = "WARN" \/ (j = Len(s2c') /\ s2c'[j] = done)
    BY <1>1, <1>2, <1>4, <2>3, SMTT(30) DEF ClientOpen, cvars
  <2>7. \A m : m = done => Final(m)'
    BY <1>9, <2>1 DEF Final
  <2>8. RunPhase(b)'
    BY <1>6, <1>9, <2>6, <2>7 DEF RunPhase, Final
  <2> QED BY <1>1, <1>5, <2>4, <2>5, <2>8 DEF Inv, Phases
<1> QED BY <1>7, <1>8, <1>9 DEF wire_server_run_packet_event, ServerCloses

\* The server's part of the induction.
LEMMA ServerKeeps ==
    ASSUME Inv, ServerStep \/ DaemonDies \/ DaemonStopped
    PROVE  Inv'
  BY ServerEnds, ServerSetup, ServerPrep, ServerNext, ServerStarts, ServerRuns
     DEF ServerStep

----------------------------------------------------------------------------
(* The theorems.                                                            *)

\* The state stays in one of the phases, whatever the client, the server and
\* the daemon do.
THEOREM Invariance == Spec => []Inv
<1>1. Inv /\ [Next]_vars => Inv'
  <2> SUFFICES ASSUME Inv, [Next]_vars PROVE Inv'
    OBVIOUS
  <2>1. CASE UNCHANGED vars
    <3>1. TypeOK' /\ NoProtocolError' /\ CleanClose'
      BY <2>1 DEF Inv, TypeOK, NoProtocolError, CleanClose, ClientOpen, vars, cvars, svars
    <3>2. ClientPlace' /\ ServerPlace'
      BY <2>1 DEF Inv, ClientPlace, ServerPlace, vars, cvars, svars
    <3>3. Phases'
      <4>1. UNCHANGED <<script, c2s, s2c, cpc, clast, cnum, spc, slast, snum>>
        BY <2>1 DEF vars, cvars, svars
      <4>2. SetupPhase => SetupPhase'
        BY <4>1 DEF SetupPhase, HasRead
      <4>3. LocalPhase => LocalPhase'
        BY <4>1 DEF LocalPhase, AllAre, NoneUnread, Started, ClientOpen
      <4>4. ASSUME NEW b \in 0..Len(script), AheadPhase(b) PROVE AheadPhase(b)'
        BY <4>1, <4>4 DEF AheadPhase, Begins, AllAre, StartUnread, Started, ClientOpen
      <4>5. ASSUME NEW b \in 0..Len(script), RunPhase(b) PROVE RunPhase(b)'
        BY <4>1, <4>5 DEF RunPhase, Begins, AllAre, NoneUnread, Started, ClientOpen, Final
      <4>6. ASSUME NEW b \in 0..Len(script), NEW e \in 0..Len(script), DonePhase(b, e)
            PROVE  DonePhase(b, e)'
        BY <4>1, <4>6 DEF DonePhase, Begins, AllAre, NoneUnread, Started, ClientOpen
      <4> QED BY <4>1, <4>2, <4>3, <4>4, <4>5, <4>6 DEF Inv, Phases
    <3> QED BY <3>1, <3>2, <3>3 DEF Inv
  <2> QED BY <2>1, ClientKeeps, ServerKeeps DEF Next, Ended
<1> QED BY <1>1, InitInv, PTL DEF Spec

\* The state of both sides and of the connection keeps its type.
THEOREM Types == Spec => []TypeOK
<1>1. Inv => TypeOK
  BY DEF Inv
<1> QED BY <1>1, Invariance, PTL

\* For every script, neither wire_client.c nor wire_server.c ever meets a
\* message it does not expect, or one with a wrong event count.
THEOREM NeverAProtocolError == Spec => []NoProtocolError
<1>1. Inv => NoProtocolError
  BY DEF Inv
<1> QED BY <1>1, Invariance, PTL

\* For every script, a server that ends with a verdict has read all that its
\* client has sent.
THEOREM ClosesCleanly == Spec => []CleanClose
<1>1. Inv => CleanClose
  BY DEF Inv
<1> QED BY <1>1, Invariance, PTL

\* For every script, the events of the two machines run in script order.
THEOREM ScriptOrder == Spec => []RunsInScriptOrder
<1>1. Inv => RunsInScriptOrder
  <2> SUFFICES ASSUME Inv PROVE RunsInScriptOrder
    OBVIOUS
  <2>1. /\ Len(script) \in Nat /\ cnum \in 0..Len(script) /\ snum \in 0..Len(script)
        /\ cevent \in Nat /\ sevent \in Nat /\ cnum <= cevent /\ snum <= sevent
    BY Script DEF Inv, TypeOK, ClientPlace, ServerPlace
  <2>2. ASSUME cpc = "run", NEW i \in 1..(cevent - 1), script[i] = "packet"
        PROVE  i < sevent
    <3>1. clast = "local" /\ cevent = cnum /\ cnum > 0 /\ script[cnum] = "local"
      BY <2>1, <2>2 DEF Inv, ClientPlace
    <3>2. LocalPhase
      BY <2>2, <3>1, ClientOutside DEF SetupPhase
    <3>3. snum > 0 => script[snum] # "packet"
      BY <2>1, <3>2 DEF Inv, ServerPlace, LocalPhase
    <3> QED BY <2>1, <2>2, <3>1, <3>2, <3>3 DEF LocalPhase, AllAre
  <2>3. ASSUME spc = "run", NEW i \in 1..(sevent - 1), script[i] = "local"
        PROVE  i < cevent
    <3>1. slast = "packet" /\ sevent = snum /\ snum > 0 /\ script[snum] = "packet"
      BY <2>1, <2>3 DEF Inv, ServerPlace
    <3>2. PICK b \in 0..Len(script) : RunPhase(b)
      BY <3>1, ServerInRun
    <3>3. b < cnum /\ AllAre(b + 1, snum, "packet")
      BY <2>1, <3>2 DEF RunPhase, Begins
    <3>4. i <= b
      BY <2>1, <2>3, <3>1, <3>3 DEF AllAre
    <3> QED BY <2>1, <3>3, <3>4
  <2> QED BY <2>2, <2>3 DEF RunsInScriptOrder
<1> QED BY <1>1, Invariance, PTL

=============================================================================
