---------------------- MODULE OutboundValidatorProofs ----------------------
(***************************************************************************)
(* Proofs about OutboundValidator, for either kind of first run and any    *)
(* number of rounds of the main thread's own loop.                         *)
(***************************************************************************)
EXTENDS OutboundValidator, TLAPS

\* Where the main thread is in each run.  In the first run the thread of the
\* second does not exist yet; state and run go together.
Positions ==
    /\ run = 1 => pc[2] = "none" /\ mpc # "compare"
    /\ run = 2 => background /\ mpc # "next"
    /\ mpc \in {"template", "fuzz", "collect", "free"} => state = run
    /\ mpc = "collect" => run = 1 /\ ~background /\ maxTimes = Times
    /\ mpc = "template" => pc[run] = "none"

\* The thread of the first run: there is none without background, and past
\* StopCollecting it has been cancelled.  This is what makes OneCollector
\* inductive.
FirstThread ==
    /\ run = 1 /\ ~background => pc[1] = "none"
    /\ run = 1 /\ mpc \in {"free", "next"} => cancel[1] \/ pc[1] = "none"
    /\ run = 2 => cancel[1] \/ pc[1] = "none"

\* Only a round that is counted can be the last one of a thread.
Rounds == \A i \in Runs : times[i] = Times + 1 => pc[i] = "ended"

Inv == TypeOK /\ Positions /\ FirstThread /\ Rounds

\* Before the first events_begin there is no collector.
LEMMA InitInv == Init => Inv
<1> SUFFICES ASSUME Init PROVE Inv
  OBVIOUS
<1>1. background \in BOOLEAN
  BY ValidatorAssumption DEF Init
<1>2. TypeOK
  <2>1. running \in BOOLEAN /\ cancel \in [Runs -> BOOLEAN]
    BY Zenon DEF Init
  <2> QED BY <1>1, <2>1, ValidatorAssumption DEF Init, TypeOK, Runs, MainPCs
<1>3. Positions /\ FirstThread
  BY DEF Init, Positions, FirstThread, Runs
<1>4. Rounds
  BY ValidatorAssumption DEF Init, Rounds, Runs
<1> QED BY <1>2, <1>3, <1>4 DEF Inv

\* The steps of the main thread.
LEMMA MainKeeps == Inv /\ MainStep => Inv'
<1> USE ValidatorAssumption DEF Inv, TypeOK, Runs, MainPCs, threads
<1> SUFFICES ASSUME Inv, MainStep PROVE Inv'
  OBVIOUS
<1>1. CASE Template
  <2>1. running' \in BOOLEAN
    BY <1>1, Zenon DEF Template, start_validate_outbound_thread
  <2>2. IF background THEN pc' = [pc EXCEPT ![run] = "loop"] ELSE pc' = pc
    BY <1>1 DEF Template, start_validate_outbound_thread
  <2>3. Rounds'
    BY <1>1, <2>2 DEF Template, Positions, Rounds
  <2>4. Positions' /\ FirstThread'
    BY <1>1, <2>2 DEF Template, Positions, FirstThread
  <2> QED BY <1>1, <2>1, <2>2, <2>3, <2>4 DEF Template
<1>2. CASE StopCollecting
  <2>1. CASE background
    <3>1. running' \in BOOLEAN /\ cancel' \in [Runs -> BOOLEAN]
      BY <1>2, <2>1, Zenon DEF StopCollecting, stop_validate_outbound_thread
    <3>2. cancel' = [cancel EXCEPT ![run] = TRUE]
      BY <1>2, <2>1 DEF StopCollecting, stop_validate_outbound_thread
    <3>3. FirstThread'
      BY <1>2, <2>1, <3>2 DEF StopCollecting, FirstThread
    <3>4. Positions' /\ Rounds'
      BY <1>2, <2>1 DEF StopCollecting, Positions, Rounds
    <3> QED BY <1>2, <2>1, <3>1, <3>3, <3>4 DEF StopCollecting
  <2>2. CASE ~background
    BY <1>2, <2>2 DEF StopCollecting, set_max_times_and_set_running,
                      Positions, FirstThread, Rounds
  <2> QED BY <2>1, <2>2
<1>3. CASE Collect
  <2>1. CASE GoesOn(count)
    <3>1. count' \in 0..Times /\ mpc' = mpc
      BY <1>3, <2>1 DEF Collect, GoesOn, Positions
    <3>2. ack' \in 0..2
      BY <1>3, <2>1 DEF Collect
    <3> QED BY <1>3, <3>1, <3>2 DEF Collect, Positions, FirstThread, Rounds
  <2>2. CASE ~GoesOn(count)
    BY <1>3, <2>2 DEF Collect, Positions, FirstThread, Rounds
  <2> QED BY <2>1, <2>2
<1>4. CASE FreeState
  BY <1>4 DEF FreeState, Positions, FirstThread, Rounds
<1>5. CASE SecondRun
  BY <1>5 DEF SecondRun, Positions, FirstThread, Rounds
<1>6. CASE Compare
  BY <1>6 DEF Compare, Positions, FirstThread, Rounds
<1> QED BY <1>1, <1>2, <1>3, <1>4, <1>5, <1>6 DEF MainStep

\* The steps of a collector thread, and the crash it may cause.
LEMMA ThreadKeeps ==
    ASSUME NEW i \in Runs, Inv, mpc \notin {"done", "crashed"},
           CheckFlag(i) \/ Sniffed(i) \/ SniffCrashes(i) \/ Record(i)
             \/ Cancelled(i)
    PROVE  Inv'
<1> USE ValidatorAssumption DEF Inv, TypeOK, Runs, MainPCs, main, threads
<1>1. CASE CheckFlag(i)
  <2>1. times' \in [Runs -> 0..(Times + 1)]
    BY <1>1 DEF CheckFlag, Rounds
  <2>2. Rounds'
    BY <1>1 DEF CheckFlag, GoesOn, Rounds
  <2>3. pc' \in [Runs -> {"none", "loop", "sniff", "record", "ended"}]
    BY <1>1 DEF CheckFlag
  <2>4. Positions' /\ FirstThread'
    BY <1>1 DEF CheckFlag, Positions, FirstThread
  <2> QED BY <1>1, <2>1, <2>2, <2>3, <2>4 DEF CheckFlag
<1>2. CASE Sniffed(i)
  BY <1>2 DEF Sniffed, Positions, FirstThread, Rounds
<1>3. CASE SniffCrashes(i)
  BY <1>3 DEF SniffCrashes, Positions, FirstThread, Rounds
<1>4. CASE Record(i)
  BY <1>4 DEF Record, Positions, FirstThread, Rounds
<1>5. CASE Cancelled(i)
  BY <1>5 DEF Cancelled, Positions, FirstThread, Rounds
<1> QED BY <1>1, <1>2, <1>3, <1>4, <1>5

\* The inductive invariant holds of every behaviour.
THEOREM Invariance == Spec => []Inv
<1>1. Inv /\ [Next]_vars => Inv'
  <2> SUFFICES ASSUME Inv, [Next]_vars PROVE Inv'
    OBVIOUS
  <2>1. CASE MainStep
    BY <2>1, MainKeeps
  <2>2. CASE mpc \notin {"done", "crashed"} /\ \E i \in Runs :
               \/ CheckFlag(i) \/ Sniffed(i) \/ SniffCrashes(i) \/ Record(i)
               \/ Cancelled(i)
    BY <2>2, ThreadKeeps
  <2>3. CASE Exit \/ UNCHANGED vars
    BY <2>3 DEF Exit, vars, main, threads, Inv, TypeOK, Positions,
                FirstThread, Rounds
  <2> QED BY <2>1, <2>2, <2>3 DEF Next
<1> QED BY <1>1, InitInv, PTL DEF Spec

\* The types are right: in particular no loop of validate_outbound_packet()
\* counts beyond its limit, whatever the limit is.
THEOREM Types == Spec => []TypeOK
  BY Invariance, PTL DEF Inv

\* Two collectors never both work on: when start_validate_outbound_thread()
\* of the second run has started one, that of the first has been cancelled
\* or is not there.
THEOREM AtMostOneCollector == Spec => []OneCollector
<1>1. Inv => OneCollector
  BY DEF Inv, TypeOK, Positions, FirstThread, OneCollector, Runs
<1> QED BY <1>1, Invariance, PTL
=============================================================================
