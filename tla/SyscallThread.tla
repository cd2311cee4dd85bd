--------------------------- MODULE SyscallThread ---------------------------
(***************************************************************************)
(* The two threads of the script interpreter (run.c, run_system_call.c).   *)
(* The main thread walks the script; the system call thread makes the      *)
(* calls the script expects to block.  One mutex, state->mutex, protects   *)
(* everything; three condition variables (enqueued, dequeued, idle) hand a *)
(* call over and report its end.                                           *)
(*                                                                         *)
(* mpc and spc are the program counters of the two threads.  Between two   *)
(* labels a thread either holds the mutex or touches no shared data, so    *)
(* one action is one section of code between two lock operations.          *)
(* Condition variables wake spuriously, the timed wait may expire at any   *)
(* moment, a blocking call may never return, and die() may end the process *)
(* wherever the code calls it.  The global checker flag is on, so a call   *)
(* with an unexpected result is an error.                                  *)
(***************************************************************************)
EXTENDS Integers, Sequences

CONSTANT Scripts    \* the scripts to run: non-empty sequences of event kinds

Main == "main"
Sys  == "sys"
None == "none"      \* nobody holds the mutex

\* "timed" stands for inbound packets, commands and code: wait, then act.
\* "outbound" packets are sniffed at once, with the mutex held.
EventKinds == {"blocking", "splice", "nonblocking", "timed", "outbound"}

\* is_blocking_syscall(): these go to the system call thread.
BlockingKinds == {"blocking", "splice"}

ASSUME ScriptsAssumption ==
    \A s \in Scripts : s \in Seq(EventKinds) /\ Len(s) >= 1

VARIABLES
    script,     \* the script being run
    event,      \* state->event: its index; 0 before the first, Len + 1 after
    mutex,      \* holder of state->mutex
    syscalls,   \* life of struct syscalls and its condition variables
    sstate,     \* syscalls->state
    sevent,     \* syscalls->event: an index, 0 for NULL
    liveEnd,    \* syscalls->live_end_usecs: -1, or 0 for any time
    mpc, spc,   \* program counters
    fate        \* "alive", or how the process ended before its script did

vars == <<script, event, mutex, syscalls, sstate, sevent, liveEnd, mpc, spc,
          fate>>

SyscallStates == {"IDLE", "ENQUEUED", "RUNNING", "DONE", "EXITING"}

\* num_events is incremented after each event, so it lags event by one.
NumEvents == event - 1

MainPCs == {"create", "cond_init", "next", "await", "idle_wait", "idle_woken",
            "timedout", "enqueue", "dequeue_check", "dequeue_wait",
            "dequeue_woken", "probe", "probe_yes", "probe_no", "wait", "sleep",
            "act", "sniff", "exiting", "join", "closing", "done"}

SysPCs == {"none", "start", "switch", "enqueued_wait", "enqueued_woken",
           "invoke", "sleep", "handler", "signal", "calling", "in_call",
           "blocked", "returned", "result", "finish", "exited"}

Fates == {"alive", "assert", "error", "overlap", "exit_busy", "null_event"}

Kind(i) == script[i]

AtEnd == event = Len(script) + 1

Alive == fate = "alive"

\* pthread_cond_signal: a thread at the waiting label moves to the woken one.
Signal(pc, waiting, woken) == IF pc = waiting THEN woken ELSE pc

\* state_new() takes the mutex before anything else exists.
Init ==
    /\ script \in Scripts
    /\ event = 0
    /\ mutex = Main
    /\ syscalls = "none"
    /\ sstate = "IDLE"
    /\ sevent = 0
    /\ liveEnd = -1
    /\ mpc = "create"
    /\ spc = "none"
    /\ fate = "alive"

----------------------------------------------------------------------------
(* die(): the cleanup command runs and the process exits. *)
Die(why) ==
    /\ fate' = why
    /\ UNCHANGED <<script, event, mutex, syscalls, sstate, sevent, liveEnd,
                   mpc, spc>>

(* Main thread *)

\* syscalls_new(): the thread exists before the condition variables do.
CreateThread ==
    /\ mpc = "create"
    /\ syscalls' = "created"
    /\ spc' = "start"
    /\ mpc' = "cond_init"
    /\ UNCHANGED <<script, event, mutex, sstate, sevent, liveEnd, fate>>

InitConds ==
    /\ mpc = "cond_init"
    /\ syscalls' = "ready"
    /\ mpc' = "next"
    /\ UNCHANGED <<script, event, mutex, sstate, sevent, liveEnd, spc, fate>>

\* Mutant: at the end of the script the interpreter looks for one more event.
Dispatch_NoEnd(i) ==
    CASE i > Len(script) -> "next"
      [] i <= Len(script) /\ script[i] = "timed" -> "wait"
      [] i <= Len(script) /\ script[i] = "outbound" -> "sniff"
      [] OTHER -> "await"

\* Where run_script() goes for the event at index i.
Dispatch(i) ==
    CASE i > Len(script) -> "await"
      [] i <= Len(script) /\ script[i] \in BlockingKinds \cup {"nonblocking"}
           -> "await"
      [] i <= Len(script) /\ script[i] = "timed" -> "wait"
      [] i <= Len(script) /\ script[i] = "outbound" -> "sniff"

get_next_event ==
    /\ mpc = "next"
    /\ \/ /\ event' = event + 1
          /\ mpc' = Dispatch(event + 1)
          /\ UNCHANGED <<script, mutex, syscalls, sstate, sevent, liveEnd,
                         spc, fate>>
       \/ Die("error")      \* bad script time, cleanup or code failure

\* Who called await_idle_thread(), and where that caller continues.
AfterAwait ==
    IF AtEnd THEN "exiting"
    ELSE IF Kind(event) \in BlockingKinds THEN "enqueue" ELSE "wait"

await_idle_thread ==
    /\ mpc = "await"
    /\ IF sstate = "IDLE"
         THEN mpc' = AfterAwait /\ UNCHANGED mutex
         ELSE mpc' = "idle_wait" /\ mutex' = None
    /\ UNCHANGED <<script, event, syscalls, sstate, sevent, liveEnd, spc,
                   fate>>

IdleSpurious ==
    /\ mpc = "idle_wait"
    /\ mpc' = "idle_woken"
    /\ UNCHANGED <<script, event, mutex, syscalls, sstate, sevent, liveEnd,
                   spc, fate>>

IdleTimeout ==
    /\ mpc = "idle_wait"
    /\ mpc' = "timedout"
    /\ UNCHANGED <<script, event, mutex, syscalls, sstate, sevent, liveEnd,
                   spc, fate>>

IdleRelock ==
    /\ mpc = "idle_woken"
    /\ mutex = None
    /\ mutex' = Main
    /\ mpc' = "await"
    /\ UNCHANGED <<script, event, syscalls, sstate, sevent, liveEnd, spc,
                   fate>>

\* ETIMEDOUT: the caller fails at once, without looking at the state again.
\* A non-blocking call ignores the failure; the error message of
\* syscalls_free() reads the line number of syscalls->event.
AwaitTimedOut ==
    /\ mpc = "timedout"
    /\ mutex = None
    /\ mutex' = Main
    /\ mpc' = AfterAwait
    /\ fate' = CASE AfterAwait = "wait"    -> "alive"
                 [] AfterAwait = "enqueue" -> "overlap"
                 [] AfterAwait = "exiting" ->
                      IF sevent = 0 THEN "null_event" ELSE "exit_busy"
    /\ UNCHANGED <<script, event, syscalls, sstate, sevent, liveEnd, spc>>

\* Mutant: the state changes but nobody is told.
Enqueue_NoSignal ==
    /\ mpc = "enqueue"
    /\ sstate' = "ENQUEUED"
    /\ mpc' = "dequeue_check"
    /\ UNCHANGED <<script, event, mutex, syscalls, sevent, liveEnd, spc, fate>>

\* enqueue_system_call(), up to its first wait.
Enqueue ==
    /\ mpc = "enqueue"
    /\ sstate' = "ENQUEUED"
    /\ spc' = Signal(spc, "enqueued_wait", "enqueued_woken")
    /\ mpc' = "dequeue_check"
    /\ UNCHANGED <<script, event, mutex, syscalls, sevent, liveEnd, fate>>

\* Mutant: do not wait for the call to be dequeued.
AwaitDequeued_NoWait ==
    /\ mpc = "dequeue_check"
    /\ mpc' = "probe"
    /\ mutex' = None
    /\ UNCHANGED <<script, event, syscalls, sstate, sevent, liveEnd, spc,
                   fate>>

AwaitDequeued ==
    /\ mpc = "dequeue_check"
    /\ mpc' = IF sstate = "ENQUEUED" THEN "dequeue_wait" ELSE "probe"
    /\ mutex' = None
    /\ UNCHANGED <<script, event, syscalls, sstate, sevent, liveEnd, spc,
                   fate>>

DequeuedSpurious ==
    /\ mpc = "dequeue_wait"
    /\ mpc' = "dequeue_woken"
    /\ UNCHANGED <<script, event, mutex, syscalls, sstate, sevent, liveEnd,
                   spc, fate>>

DequeuedRelock ==
    /\ mpc = "dequeue_woken"
    /\ mutex = None
    /\ mutex' = Main
    /\ mpc' = "dequeue_check"
    /\ UNCHANGED <<script, event, syscalls, sstate, sevent, liveEnd, spc,
                   fate>>

\* is_thread_sleeping(): the kernel reports the thread asleep in its call, in
\* usleep(), on the mutex or on the condition variable.
MaySleep ==
    spc \in {"start", "sleep", "blocked", "returned", "enqueued_wait",
             "enqueued_woken"}

MayRun == spc \notin {"blocked", "enqueued_wait"}

\* Mutant: take the thread for asleep without asking the kernel.
is_thread_sleeping_Assumed ==
    /\ mpc = "probe"
    /\ mpc' = "probe_yes"
    /\ UNCHANGED <<script, event, mutex, syscalls, sstate, sevent, liveEnd,
                   spc, fate>>

is_thread_sleeping ==
    /\ mpc = "probe"
    /\ \/ MaySleep /\ mpc' = "probe_yes"
       \/ MayRun /\ mpc' = "probe_no"
    /\ UNCHANGED <<script, event, mutex, syscalls, sstate, sevent, liveEnd,
                   spc, fate>>

\* Lock, read the state; the loop unlocks again unless it is done.
ProbeRelock ==
    /\ mpc \in {"probe_yes", "probe_no"}
    /\ mutex = None
    /\ IF mpc = "probe_yes" \/ sstate = "IDLE"
         THEN mpc' = "next" /\ mutex' = Main
         ELSE mpc' = "probe" /\ UNCHANGED mutex
    /\ UNCHANGED <<script, event, syscalls, sstate, sevent, liveEnd, spc,
                   fate>>

\* wait_for_event() on the main thread; the first event never sleeps and its
\* time is never checked.
MainWait ==
    /\ mpc = "wait"
    /\ \/ /\ mpc' = "act"
          /\ UNCHANGED <<script, event, mutex, syscalls, sstate, sevent,
                         liveEnd, spc, fate>>
       \/ NumEvents > 0 /\ Die("error")

MainSleeps ==
    /\ mpc = "wait"
    /\ NumEvents > 0
    /\ mpc' = "sleep"
    /\ mutex' = None
    /\ UNCHANGED <<script, event, syscalls, sstate, sevent, liveEnd, spc,
                   fate>>

MainWakes ==
    /\ mpc = "sleep"
    /\ mutex = None
    /\ mutex' = Main
    /\ mpc' = "wait"
    /\ UNCHANGED <<script, event, syscalls, sstate, sevent, liveEnd, spc,
                   fate>>

\* The event itself: a non-blocking call, an inbound packet, a command or
\* code, run with the mutex held.
Act ==
    /\ mpc = "act"
    /\ \/ /\ mpc' = "next"
          /\ UNCHANGED <<script, event, mutex, syscalls, sstate, sevent,
                         liveEnd, spc, fate>>
       \/ Die("error")

\* do_outbound_script_packet(): sniff and verify, with the mutex held.
Sniff ==
    /\ mpc = "sniff"
    /\ \/ /\ mpc' = "next"
          /\ UNCHANGED <<script, event, mutex, syscalls, sstate, sevent,
                         liveEnd, spc, fate>>
       \/ Die("error")

\* Mutant: the request to exit wakes nobody.
RequestExit_NoSignal ==
    /\ mpc = "exiting"
    /\ sstate' = "EXITING"
    /\ mutex' = None
    /\ mpc' = "join"
    /\ UNCHANGED <<script, event, syscalls, sevent, liveEnd, spc, fate>>

\* syscalls_free(): ask the thread to exit, unlock, join, lock, destroy.
RequestExit ==
    /\ mpc = "exiting"
    /\ sstate' = "EXITING"
    /\ spc' = Signal(spc, "enqueued_wait", "enqueued_woken")
    /\ mutex' = None
    /\ mpc' = "join"
    /\ UNCHANGED <<script, event, syscalls, sevent, liveEnd, fate>>

\* Mutant: destroy the conditions without waiting for the thread.
Join_NoWait ==
    /\ mpc = "join"
    /\ mutex = None
    /\ mutex' = Main
    /\ syscalls' = "freed"
    /\ mpc' = "closing"
    /\ UNCHANGED <<script, event, sstate, sevent, liveEnd, spc, fate>>

Join ==
    /\ mpc = "join"
    /\ spc = "exited"
    /\ mutex = None
    /\ mutex' = Main
    /\ syscalls' = "freed"
    /\ mpc' = "closing"
    /\ UNCHANGED <<script, event, sstate, sevent, liveEnd, spc, fate>>

\* The rest of state_free(): sockets, netdev, mutex.
state_free ==
    /\ mpc = "closing"
    /\ mutex' = None
    /\ mpc' = "done"
    /\ UNCHANGED <<script, event, syscalls, sstate, sevent, liveEnd, spc,
                   fate>>

----------------------------------------------------------------------------
(* System call thread *)

ThreadStarts ==
    /\ spc \in {"start", "enqueued_woken"}
    /\ mutex = None
    /\ mutex' = Sys
    /\ spc' = "switch"
    /\ UNCHANGED <<script, event, syscalls, sstate, sevent, liveEnd, mpc,
                   fate>>

EnqueuedSpurious ==
    /\ spc = "enqueued_wait"
    /\ spc' = "enqueued_woken"
    /\ UNCHANGED <<script, event, mutex, syscalls, sstate, sevent, liveEnd,
                   mpc, fate>>

\* The switch of system_call_thread(), up to invoke_system_call().  The event
\* is read from state->event now, not when the call was enqueued.
system_call_thread ==
    /\ spc = "switch"
    /\ spc' = CASE sstate = "IDLE"     -> "enqueued_wait"
                [] sstate = "ENQUEUED" -> "invoke"
                [] sstate = "EXITING"  -> "exited"
                [] OTHER               -> "switch"
    /\ mutex' = IF sstate \in {"IDLE", "EXITING"} THEN None ELSE mutex
    /\ sevent' = IF sstate = "ENQUEUED" THEN event ELSE sevent
    /\ liveEnd' = IF sstate = "ENQUEUED" THEN -1 ELSE liveEnd
    /\ fate' = IF \/ sstate \in {"RUNNING", "DONE"}
                  \/ sstate = "ENQUEUED" /\ (AtEnd \/ Kind(event) \notin
                         BlockingKinds \cup {"nonblocking"})
                 THEN "assert" ELSE fate
    /\ UNCHANGED <<script, event, syscalls, sstate, mpc>>

\* wait_for_event() on this thread; it reads state->event throughout.
SysWait ==
    /\ spc = "invoke"
    /\ \/ /\ spc' = "handler"
          /\ UNCHANGED <<script, event, mutex, syscalls, sstate, sevent,
                         liveEnd, mpc, fate>>
       \/ NumEvents > 0 /\ Die("error")

SysSleeps ==
    /\ spc = "invoke"
    /\ NumEvents > 0
    /\ spc' = "sleep"
    /\ mutex' = None
    /\ UNCHANGED <<script, event, syscalls, sstate, sevent, liveEnd, mpc,
                   fate>>

SysWakes ==
    /\ spc = "sleep"
    /\ mutex = None
    /\ mutex' = Sys
    /\ spc' = "invoke"
    /\ UNCHANGED <<script, event, syscalls, sstate, sevent, liveEnd, mpc,
                   fate>>

\* Mutant: the state stays ENQUEUED.
begin_syscall_NoState ==
    /\ fate' = IF sstate = "ENQUEUED" THEN fate ELSE "assert"
    /\ mutex' = None
    /\ spc' = "signal"
    /\ UNCHANGED <<script, event, syscalls, sstate, sevent, liveEnd, mpc>>

\* Mutant: the call is made under the mutex.
begin_syscall_NoUnlock ==
    /\ fate' = IF sstate = "ENQUEUED" THEN fate ELSE "assert"
    /\ sstate' = "RUNNING"
    /\ spc' = "signal"
    /\ UNCHANGED <<script, event, mutex, syscalls, sevent, liveEnd, mpc>>

\* begin_syscall(), its first half: the signal comes after the unlock.
begin_syscall ==
    /\ fate' = IF sstate = "ENQUEUED" THEN fate ELSE "assert"
    /\ sstate' = "RUNNING"
    /\ mutex' = None
    /\ spc' = "signal"
    /\ UNCHANGED <<script, event, syscalls, sevent, liveEnd, mpc>>

\* A handler.  splice() never calls begin_syscall(), every other handler does.
\* A bad expression or an early handler error is fatal.
Handler ==
    /\ spc = "handler"
    /\ \/ IF Kind(sevent) = "splice"
            THEN /\ spc' = "calling"
                 /\ UNCHANGED <<script, event, mutex, syscalls, sstate,
                                sevent, liveEnd, mpc, fate>>
            ELSE begin_syscall
       \/ Die("error")

SignalDequeued ==
    /\ spc = "signal"
    /\ mpc' = Signal(mpc, "dequeue_wait", "dequeue_woken")
    /\ spc' = "calling"
    /\ UNCHANGED <<script, event, mutex, syscalls, sstate, sevent, liveEnd,
                   fate>>

\* The kernel: the call is entered, may sleep, may return, may never return.
EnterCall ==
    /\ spc = "calling"
    /\ spc' = "in_call"
    /\ UNCHANGED <<script, event, mutex, syscalls, sstate, sevent, liveEnd,
                   mpc, fate>>

RunCall ==
    /\ spc = "in_call"
    /\ spc' \in {"blocked", "returned"}
    /\ UNCHANGED <<script, event, mutex, syscalls, sstate, sevent, liveEnd,
                   mpc, fate>>

Unblock ==
    /\ spc = "blocked"
    /\ spc' = "returned"
    /\ UNCHANGED <<script, event, mutex, syscalls, sstate, sevent, liveEnd,
                   mpc, fate>>

\* end_syscall() locks unconditionally: a thread that already holds the mutex
\* waits for itself.
end_syscall ==
    /\ spc = "returned"
    /\ mutex = None
    /\ mutex' = Sys
    /\ liveEnd' = 0
    /\ fate' = IF sstate = "RUNNING" THEN fate ELSE "assert"
    /\ sstate' = "DONE"
    /\ spc' = "result"
    /\ UNCHANGED <<script, event, syscalls, sevent, mpc>>

\* The handler's verdict on the result, and its work on the outputs.
CheckResult ==
    /\ spc = "result"
    /\ \/ /\ spc' = "finish"
          /\ UNCHANGED <<script, event, mutex, syscalls, sstate, sevent,
                         liveEnd, mpc, fate>>
       \/ Die("error")

\* Back in system_call_thread(): check the end time, go idle, signal.
FinishCall ==
    /\ spc = "finish"
    /\ \/ /\ fate' = IF liveEnd >= 0 /\ sstate = "DONE" THEN fate ELSE "assert"
          /\ sstate' = "IDLE"
          /\ sevent' = 0
          /\ liveEnd' = -1
          /\ mpc' = Signal(mpc, "idle_wait", "idle_woken")
          /\ spc' = "switch"
          /\ UNCHANGED <<script, event, mutex, syscalls>>
       \/ Die("error")

----------------------------------------------------------------------------
MainStep ==
    \/ CreateThread \/ InitConds \/ get_next_event
    \/ await_idle_thread \/ IdleRelock \/ AwaitTimedOut
    \/ Enqueue \/ AwaitDequeued \/ DequeuedRelock
    \/ is_thread_sleeping \/ ProbeRelock
    \/ MainWait \/ MainWakes \/ Act
    \/ RequestExit \/ Join \/ state_free

SysStep ==
    \/ ThreadStarts \/ system_call_thread \/ SysWait \/ SysWakes \/ Handler
    \/ SignalDequeued \/ EnterCall \/ RunCall \/ end_syscall \/ CheckResult
    \/ FinishCall

Environment ==
    \/ IdleSpurious \/ IdleTimeout \/ DequeuedSpurious \/ EnqueuedSpurious
    \/ Unblock \/ Sniff \/ MainSleeps \/ SysSleeps

\* The process has ended: nothing happens any more.
Ended ==
    /\ ~Alive \/ mpc = "done"
    /\ UNCHANGED vars

Next ==
    \/ Alive /\ (MainStep \/ SysStep \/ Environment)
    \/ Ended

Spec == Init /\ [][Next]_vars

\* Fairness.  Each thread that can run is scheduled; a thread that keeps
\* finding the mutex free gets it (the main thread yields between probes);
\* time passes, so wait_for_event() reaches its event, and the timed wait its
\* deadline, which is fixed before the first wait.  A blocked call and a
\* missing packet may last for ever.
Fairness ==
    /\ WF_vars(Alive /\ MainStep)
    /\ WF_vars(Alive /\ SysStep)
    /\ SF_vars(Alive /\ (\/ IdleRelock \/ AwaitTimedOut \/ DequeuedRelock
                         \/ ProbeRelock \/ MainWakes \/ Join))
    /\ SF_vars(Alive /\ (ThreadStarts \/ end_syscall \/ SysWakes))
    /\ SF_vars(Alive /\ MainWait)
    /\ SF_vars(Alive /\ SysWait)
    /\ SF_vars(Alive /\ IdleTimeout)

FairSpec == Spec /\ Fairness

----------------------------------------------------------------------------
(* Properties *)

TypeOK ==
    /\ script \in Scripts
    /\ event \in 0..(Len(script) + 1)
    /\ mutex \in {Main, Sys, None}
    /\ syscalls \in {"none", "created", "ready", "freed"}
    /\ sstate \in SyscallStates
    /\ sevent \in 0..Len(script)
    /\ liveEnd \in {-1, 0}
    /\ mpc \in MainPCs
    /\ spc \in SysPCs
    /\ fate \in Fates

\* No assertion of the hand-over fails: the thread finds a call ENQUEUED when
\* it begins it, RUNNING when it returns, DONE with an end time when it
\* retires it, and is never in its switch in state RUNNING or DONE
\* (run_system_call.c 1096, 1128, 3480, 3491, 3504, 3520).
AssertsHold == fate # "assert"

\* wait_for_event() on the system call thread reads state->event before and
\* after it sleeps without the mutex.  The main thread does not move on to
\* another event meanwhile: both threads mean the same event.
WaitsForItsOwnEvent ==
    spc \in {"invoke", "sleep", "handler"} => event = sevent

\* The thread uses struct syscalls, its condition variables included, only
\* between their initialization, which follows pthread_create(), and their
\* destruction, which follows pthread_join().
SyscallsAlive ==
    /\ spc \notin {"none", "start", "exited"} => syscalls = "ready"
    /\ mpc \in {"idle_wait", "dequeue_wait"} => syscalls = "ready"

\* "release the global lock immediately before a system call that the script
\* expects to block": no thread is in a blocking call with the mutex.
CallReleasesLock ==
    spc \in {"calling", "in_call", "blocked", "returned"} => mutex # Sys

\* The refinement: phase "entered" begins when the kernel is entered.
AbsCall == IF sstate = "ENQUEUED" THEN event ELSE sevent

AbsPhase ==
    CASE fate # "alive" -> "failed"
      [] Alive /\ sstate = "IDLE" -> "idle"
      [] Alive /\ sstate = "EXITING" -> "closed"
      [] Alive /\ sstate \in {"ENQUEUED", "RUNNING", "DONE"} ->
           IF sstate # "ENQUEUED" /\ spc \notin {"signal", "calling"}
             THEN "entered" ELSE "submitted"

Abs == INSTANCE BlockingCalls WITH position <- event, call <- AbsCall,
                                   phase <- AbsPhase

\* The two threads implement BlockingCalls: one call at a time, in script
\* order, entered before the interpreter moves on, none left at shutdown.
Refines == Abs!Spec

\* An enqueued call is begun, unless the process ends first: no signal on
\* enqueued or dequeued is lost.
CallIsBegun == (sstate = "ENQUEUED") ~> (sstate # "ENQUEUED" \/ ~Alive)

\* The interpreter never hangs on the system call thread, even when a call
\* never returns: it finishes, reports an error, or waits for the kernel to
\* send the packet the script expects.
NeverHangs == <>(~Alive \/ mpc = "done") \/ <>[](mpc = "sniff")
=============================================================================
