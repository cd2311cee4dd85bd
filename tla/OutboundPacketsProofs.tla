----------------------- MODULE OutboundPacketsProofs -----------------------
(***************************************************************************)
(* Proofs about OutboundPackets: however many packets a script injects and *)
(* however late each one is, the delays do not add up.                     *)
(***************************************************************************)
EXTENDS OutboundPackets, TLAPS

\* What the proof needs of the types.
Typed ==
    /\ world \in Worlds /\ now \in Nat /\ num_events \in Nat
    /\ {"verdict", "group", "pairs", "labels", "due", "late", "echo"} \subseteq DOMAIN history
    /\ pc \in {"wait", "sniff"} => event.kind \in {"inbound", "outbound", "call"}
    /\ pc = "sniff" => event.kind = "outbound"

\* The due time that is reckoned packet by packet is the time the event was
\* given by adjust_relative_event_times().
DueIsTime ==
    /\ pc = "wait" /\ event.kind = "inbound" =>
         /\ event.time \in Int /\ history.due = event.time
         /\ event.time_type \in {"ABSOLUTE", "RELATIVE"}
    /\ pc = "next" /\ last_event.kind = "inbound" =>
         last_event.time \in Int /\ history.due = last_event.time

Inv == Typed /\ DueIsTime /\ NoAccumulatedDelay

\* No event has run yet.
LEMMA InitInv == Init => Inv
<1> SUFFICES ASSUME Init PROVE Inv
  OBVIOUS
<1>1. Tolerance \in Nat
  BY NumbersAssumption
<1>2. NoAccumulatedDelay
  BY <1>1 DEF Init, NoHistory, NoAccumulatedDelay
<1>3. Typed
  BY DEF Init, Typed, NoHistory
<1>4. DueIsTime
  BY DEF Init, DueIsTime, NULL
<1> QED BY <1>2, <1>3, <1>4 DEF Inv

\* get_next_event() gives the next event its time.
LEMMA NextEvent ==
    ASSUME Inv, NEW e \in world.events, get_next_event(e)
    PROVE  Inv'
<1> DEFINE adjusted == adjust_relative_event_times(e)
<1>1. /\ pc = "next" /\ event' = adjusted /\ pc' \in {"died", "sniff", "wait"}
      /\ e.kind = "outbound" => pc' # "wait"
      /\ e.kind # "outbound" => pc' # "sniff" /\ e.time_type \in {"ABSOLUTE", "RELATIVE"}
      /\ UNCHANGED <<world, now, last_event, num_events>>
  BY DEF get_next_event, ValidTime
<1>2. history' = [history EXCEPT !.verdict = "none", !.group = <<>>, !.echo = <<>>,
                                 !.due = Due(e, adjusted)]
  BY DEF get_next_event
<1>3. /\ {"kind", "time", "time_type", "time_end"} \subseteq DOMAIN e
      /\ e.kind \in {"inbound", "outbound", "call"} /\ e.time \in Nat
  BY EventsAssumption DEF Inv, Typed
<1>4. adjusted.kind = e.kind /\ adjusted.time_type = e.time_type
  BY <1>3 DEF adjust_relative_event_times
<1>5. history'.late = history.late /\ history'.due = Due(e, adjusted)
      /\ DOMAIN history' = DOMAIN history
  BY <1>2 DEF Inv, Typed
<1>6. Typed'
  BY <1>1, <1>3, <1>4, <1>5 DEF Inv, Typed
<1>7. NoAccumulatedDelay'
  BY <1>5 DEF Inv, NoAccumulatedDelay
<1>8. CASE e.kind = "inbound"
  <2>1. e.time_type \in {"ABSOLUTE", "RELATIVE"} /\ now \in Nat
    BY <1>1, <1>8 DEF Inv, Typed
  <2>2. CASE last_event.kind = "inbound" /\ e.time_type = "RELATIVE"
    <3>1. last_event.time \in Int /\ history.due = last_event.time
      BY <1>1, <2>2 DEF Inv, DueIsTime
    <3>2. adjusted.time = e.time + last_event.time
      BY <1>3, <1>8, <2>2 DEF adjust_relative_event_times, is_event_time_absolute,
                              is_event_start_time_anchored
    <3>3. Due(e, adjusted) = adjusted.time /\ adjusted.time \in Int
      BY <1>3, <1>8, <2>2, <3>1, <3>2 DEF Due
    <3> QED BY <1>1, <1>4, <1>5, <1>6, <1>7, <2>1, <3>3 DEF Inv, DueIsTime
  <2>3. CASE ~(last_event.kind = "inbound" /\ e.time_type = "RELATIVE")
    <3>1. Due(e, adjusted) = adjusted.time
      BY <1>8, <2>3 DEF Due
    <3>2. adjusted.time \in {e.time, e.time + now}
      BY <1>3, <1>8, <2>1, <2>3 DEF adjust_relative_event_times, is_event_time_absolute,
                                    is_event_start_time_anchored
    <3>3. adjusted.time \in Int
      BY <1>3, <2>1, <3>2
    <3> QED BY <1>1, <1>4, <1>5, <1>6, <1>7, <2>1, <3>1, <3>3 DEF Inv, DueIsTime
  <2> QED BY <2>2, <2>3
<1>9. CASE e.kind # "inbound"
  BY <1>1, <1>4, <1>6, <1>7, <1>9 DEF Inv, DueIsTime
<1> QED BY <1>8, <1>9

\* An inbound packet is injected; verify_time() has bounded how late it is.
LEMMA Injected ==
    ASSUME Inv, Inbound
    PROVE  Inv'
<1> DEFINE lateness == IF num_events > 0 THEN now - history.due ELSE 0
<1>1. /\ pc = "wait" /\ event.kind = "inbound" /\ now >= event.time /\ ~Late
      /\ pc' = "next" /\ num_events' = num_events + 1 /\ last_event' = event
      /\ UNCHANGED <<world, now>>
  BY DEF Inbound, Advance
<1>2. history' = [history EXCEPT !.late = lateness, !.echo = Echo(event)]
  BY DEF Inbound
<1>3. /\ now \in Nat /\ num_events \in Nat /\ Tolerance \in Nat
      /\ event.time \in Int /\ history.due = event.time
      /\ event.time_type \in {"ABSOLUTE", "RELATIVE"}
  BY <1>1, NumbersAssumption DEF Inv, Typed, DueIsTime
<1>4. num_events > 0 => now <= event.time + Tolerance
  BY <1>1, <1>3 DEF Late, verify_time
<1>5. lateness \in 0..Tolerance
  BY <1>1, <1>3, <1>4
<1> HIDE DEF lateness
<1>6. history'.late = lateness /\ history'.due = history.due
      /\ DOMAIN history' = DOMAIN history
  BY <1>2 DEF Inv, Typed
<1>7. Typed'
  BY <1>1, <1>3, <1>6 DEF Inv, Typed
<1>8. NoAccumulatedDelay'
  BY <1>1, <1>5, <1>6 DEF NoAccumulatedDelay
<1>9. DueIsTime'
  BY <1>1, <1>3, <1>6 DEF DueIsTime
<1> QED BY <1>7, <1>8, <1>9 DEF Inv

\* do_outbound_script_packet() leaves the reckoning of inbound packets alone.
LEMMA Sniffs ==
    ASSUME Inv, do_outbound_script_packet
    PROVE  Inv'
<1>1. pc = "sniff" /\ UNCHANGED <<world, now>>
  BY Zenon DEF do_outbound_script_packet
<1>2. event.kind = "outbound"
  BY <1>1 DEF Inv, Typed
<1>3. \/ UNCHANGED <<pc, event, last_event, num_events, history>>
      \/ \E s, group : Broken(s, group)
      \/ \E v, group, q : Finish(v, group, q)
  BY ZenonT(30) DEF do_outbound_script_packet
<1>4. \/ pc' = "sniff" /\ UNCHANGED <<event, last_event, num_events>>
      \/ pc' = "next" /\ last_event' = event /\ num_events' = num_events + 1
      \/ pc' \in {"died", "aborted"} /\ UNCHANGED <<event, last_event, num_events>>
  BY <1>1, <1>3, Zenon DEF Broken, Finish, Advance
<1>5. /\ history'.due = history.due /\ history'.late = history.late
      /\ DOMAIN history' = DOMAIN history
  <2>1. ASSUME NEW s, NEW group, Broken(s, group)
        PROVE  /\ history'.due = history.due /\ history'.late = history.late
               /\ DOMAIN history' = DOMAIN history
    BY <2>1 DEF Broken, Inv, Typed
  <2>2. ASSUME NEW v, NEW group, NEW q, Finish(v, group, q)
        PROVE  /\ history'.due = history.due /\ history'.late = history.late
               /\ DOMAIN history' = DOMAIN history
    <3>1. history' = Compared(history, v.res, group, q, event)
      BY <2>2 DEF Finish
    <3> QED BY <3>1 DEF Compared, Inv, Typed
  <2> QED BY <1>3, <2>1, <2>2
<1>6. Typed'
  BY <1>1, <1>4, <1>5, <1>2 DEF Inv, Typed
<1>7. DueIsTime' /\ NoAccumulatedDelay'
  BY <1>1, <1>4, <1>5, <1>2 DEF Inv, DueIsTime, NoAccumulatedDelay
<1> QED BY <1>6, <1>7 DEF Inv

\* The other steps.
LEMMA OtherSteps ==
    ASSUME Inv, \/ Call \/ check_event_time \/ Tick \/ UNCHANGED vars
                \/ \E k \in world.segments : Sends(k)
    PROVE  Inv'
<1>1. UNCHANGED <<world, history>>
  BY Zenon DEF Call, check_event_time, Tick, Sends, vars
<1>2. now' \in Nat /\ num_events' \in Nat
  <2>1. /\ now' = now \/ now' = now + 1
        /\ num_events' = num_events \/ num_events' = num_events + 1
    BY Zenon DEF Call, Advance, check_event_time, Tick, Sends, vars
  <2> QED BY <2>1 DEF Inv, Typed
<1>3. \/ UNCHANGED <<pc, event, last_event>>
      \/ pc' = "died"
      \/ pc = "wait" /\ event.kind = "call" /\ pc' = "next" /\ last_event' = event
  BY Zenon DEF Call, Advance, check_event_time, Tick, Sends, vars
<1>4. Typed'
  BY <1>1, <1>2, <1>3 DEF Inv, Typed
<1>5. DueIsTime' /\ NoAccumulatedDelay'
  BY <1>1, <1>3 DEF Inv, DueIsTime, NoAccumulatedDelay
<1> QED BY <1>4, <1>5 DEF Inv

\* For every script, kernel and tolerance, an inbound packet whose time is
\* relative to the inbound packet before it is injected within the tolerance
\* of when it is due if nothing had taken time since the first of them:
\* adjust_relative_event_times() does not accumulate delays.
THEOREM DelaysDoNotAddUp == Spec => []NoAccumulatedDelay
<1>1. Inv /\ [Next]_vars => Inv'
  BY NextEvent, Injected, Sniffs, OtherSteps DEF Next, Stop
<1>2. Inv => NoAccumulatedDelay
  BY DEF Inv
<1> QED BY <1>1, <1>2, InitInv, PTL DEF Spec

=============================================================================
