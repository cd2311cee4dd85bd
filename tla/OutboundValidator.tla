------------------------- MODULE OutboundValidator -------------------------
(***************************************************************************)
(* The thread that collects outbound packets while the fuzzer runs         *)
(* (fuzz_test_packet.c), over the two runs of main().  It reads the global *)
(* state, which each run allocates and frees, takes no lock, and is        *)
(* stopped by clearing a flag and cancelling it; nobody joins it, so it    *)
(* may still run for a while after pthread_cancel() returns.               *)
(*                                                                         *)
(* With --no_fuzz_receive_packets_in_background the first run has no such  *)
(* thread: the main thread runs the same loop at its end, a fixed number   *)
(* of times.  The second run always has one.                               *)
(***************************************************************************)
EXTENDS Integers

CONSTANTS
    Backgrounds,    \* the choices: is the first run's collector a thread?
    Times           \* how often the main thread's loop runs: 25 or 3

ASSUME ValidatorAssumption ==
    Backgrounds \subseteq BOOLEAN /\ Times \in Nat \ {0}

Runs == 1..2

VARIABLES
    run,
    mpc,            \* the main thread, in my_run_script() and main()
    state,          \* the global pointer: the run it was made for, 0: freed
    background,     \* ~config.is_no_fuzz_receive_packets_in_background
    running,        \* is_validate_outbound_running
    maxTimes,       \* max_times
    pc, times,      \* of the thread started in each run
    packet,         \* the live packet it holds: the run it comes from, or 0
    cancel,         \* has it been cancelled?
    count,          \* times, of the main thread's own loop
    ack, step1      \* whose packet set last_received_packet_ack_seq; its copy

main == <<run, mpc, state, background, running, maxTimes, count, step1>>
threads == <<pc, times, packet, cancel>>
vars == <<main, threads, ack>>

MainPCs == {"template", "fuzz", "collect", "free", "next", "compare", "done",
            "crashed"}

Init ==
    /\ run = 1 /\ mpc = "template" /\ state = 1
    /\ background \in Backgrounds
    /\ running = FALSE /\ maxTimes = -1 /\ count = 0
    /\ pc = [i \in Runs |-> "none"]
    /\ times = [i \in Runs |-> 0]
    /\ packet = [i \in Runs |-> 0]
    /\ cancel = [i \in Runs |-> FALSE]
    /\ ack = 0 /\ step1 = 0

----------------------------------------------------------------------------
(* Main thread *)

start_validate_outbound_thread ==
    /\ running' = TRUE
    /\ pc' = [pc EXCEPT ![run] = "loop"]

\* The outbound event of the template.
Template ==
    /\ mpc = "template"
    /\ IF background THEN start_validate_outbound_thread
                     ELSE UNCHANGED <<running, pc>>
    /\ mpc' = "fuzz"
    /\ UNCHANGED <<run, state, background, maxTimes, count, step1, times,
                   packet, cancel, ack>>

\* Mutant: the thread is asked to stop, not cancelled.
stop_validate_outbound_thread_NoCancel ==
    /\ running' = FALSE
    /\ UNCHANGED cancel

stop_validate_outbound_thread ==
    /\ running' = FALSE
    /\ cancel' = [cancel EXCEPT ![run] = TRUE]

\* Mutant: the number of times is forgotten.
set_max_times_and_set_running_NoMax ==
    /\ running' = TRUE
    /\ UNCHANGED maxTimes

set_max_times_and_set_running ==
    /\ running' = TRUE
    /\ maxTimes' = Times

\* The end of my_run_script(), after all fuzzing and its last usleep().
StopCollecting ==
    /\ mpc = "fuzz"
    /\ IF background
         THEN /\ stop_validate_outbound_thread
              /\ mpc' = "free"
              /\ UNCHANGED maxTimes
         ELSE /\ set_max_times_and_set_running
              /\ mpc' = "collect"
              /\ UNCHANGED cancel
    /\ UNCHANGED <<run, state, background, count, step1, pc, times, packet,
                   ack>>

\* Mutant: one round too many.
GoesOn_OnceMore(t) == running /\ (maxTimes < 0 \/ t <= maxTimes)

\* The loop's condition, for a loop that has made t rounds.
GoesOn(t) == running /\ (maxTimes < 0 \/ t < maxTimes)

\* validate_outbound_packet() on the main thread.  The shared object has a
\* packet or says at once that it has none.
Collect ==
    /\ mpc = "collect"
    /\ IF GoesOn(count)
         THEN /\ count' = IF maxTimes < 0 THEN count ELSE count + 1
              /\ ack' \in {ack, state}
              /\ UNCHANGED mpc
         ELSE mpc' = "free" /\ UNCHANGED <<count, ack>>
    /\ UNCHANGED <<run, state, background, running, maxTimes, step1, threads>>

\* state_free() at the end of my_run_script().
FreeState ==
    /\ mpc = "free"
    /\ state' = 0
    /\ mpc' = IF run = 1 THEN "next" ELSE "compare"
    /\ UNCHANGED <<run, background, running, maxTimes, count, step1, threads,
                   ack>>

\* main() keeps what the first run received, turns the thread on, makes the
\* new state; my_run_script() resets what it received.
SecondRun ==
    /\ mpc = "next"
    /\ step1' = ack
    /\ background' = TRUE
    /\ state' = 2 /\ run' = 2
    /\ ack' = 0
    /\ mpc' = "template"
    /\ UNCHANGED <<running, maxTimes, count, threads>>

Compare ==
    /\ mpc = "compare"
    /\ mpc' = "done"
    /\ UNCHANGED <<run, state, background, running, maxTimes, count, step1,
                   threads, ack>>

----------------------------------------------------------------------------
(* validate_outbound_packet() on the thread of run i *)

CheckFlag(i) ==
    /\ pc[i] = "loop"
    /\ pc' = [pc EXCEPT ![i] = IF GoesOn(times[i]) THEN "sniff" ELSE "ended"]
    /\ times' = [times EXCEPT ![i] = IF running /\ maxTimes >= 0 THEN @ + 1
                                                            ELSE @]
    /\ UNCHANGED <<main, packet, cancel, ack>>

\* find_or_create_socket_for_script_packet() and sniff_outbound_live_packet()
\* use the state.  The shared object may have no packet, the kernel's device
\* blocks until there is one.
Sniffed(i) ==
    /\ pc[i] = "sniff"
    /\ \/ /\ state # 0
          /\ packet' = [packet EXCEPT ![i] = state]
          /\ pc' = [pc EXCEPT ![i] = "record"]
       \/ /\ state # 2
          /\ pc' = [pc EXCEPT ![i] = "loop"]
          /\ UNCHANGED packet
    /\ UNCHANGED <<main, times, cancel, ack>>

\* A freed state was overwritten with zeros by state_free(), or by its next
\* owner: reading it finds no socket, or crashes.
SniffCrashes(i) ==
    /\ pc[i] = "sniff"
    /\ state = 0
    /\ mpc' = "crashed"
    /\ UNCHANGED <<run, state, background, running, maxTimes, count, step1,
                   threads, ack>>

Record(i) ==
    /\ pc[i] = "record"
    /\ ack' = packet[i]
    /\ packet' = [packet EXCEPT ![i] = 0]
    /\ pc' = [pc EXCEPT ![i] = "loop"]
    /\ UNCHANGED <<main, times, cancel>>

\* Asynchronous cancellation takes effect wherever the thread is.
Cancelled(i) ==
    /\ cancel[i]
    /\ pc[i] \notin {"none", "ended"}
    /\ pc' = [pc EXCEPT ![i] = "ended"]
    /\ UNCHANGED <<main, times, packet, cancel, ack>>

\* main() returns and takes the threads that are left with it.
Exit ==
    /\ mpc \in {"done", "crashed"}
    /\ UNCHANGED vars

MainStep ==
    \/ Template \/ StopCollecting \/ Collect \/ FreeState \/ SecondRun
    \/ Compare

Next ==
    \/ MainStep
    \/ mpc \notin {"done", "crashed"} /\ \E i \in Runs :
         \/ CheckFlag(i) \/ Sniffed(i) \/ SniffCrashes(i) \/ Record(i)
         \/ Cancelled(i)
    \/ Exit

Spec == Init /\ [][Next]_vars

\* The main thread is scheduled.  The collector may starve and a packet to
\* sniff may never come.
FairSpec == Spec /\ WF_vars(MainStep)

----------------------------------------------------------------------------
(* Properties *)

TypeOK ==
    /\ run \in Runs /\ mpc \in MainPCs /\ state \in 0..2
    /\ background \in BOOLEAN /\ running \in BOOLEAN
    /\ maxTimes \in {-1, Times} /\ count \in 0..Times
    /\ pc \in [Runs -> {"none", "loop", "sniff", "record", "ended"}]
    /\ times \in [Runs -> 0..(Times + 1)]
    /\ packet \in [Runs -> 0..2] /\ cancel \in [Runs -> BOOLEAN]
    /\ ack \in 0..2 /\ step1 \in 0..2

\* A thread that is left from the first run is on its way out before the
\* second run starts its own: clearing the flag alone would not do, because
\* start_validate_outbound_thread() sets it again.
OneCollector ==
    pc[2] # "none" => (cancel[1] \/ pc[1] \in {"none", "ended"})

\* "a single global mutex, state->mutex, which protects all global data":
\* no thread is using the state when state_free() has freed it.
StateAlive == \A i \in Runs : pc[i] = "sniff" => state # 0

\* The fuzzer ends, whatever arrives: when the main thread collects the
\* packets itself nobody clears the flag for it, and the loop in
\* validate_outbound_packet() ends all the same.
MainEnds == <>(mpc \in {"done", "crashed"})
=============================================================================
