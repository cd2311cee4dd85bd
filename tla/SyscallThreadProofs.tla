------------------------ MODULE SyscallThreadProofs ------------------------
(***************************************************************************)
(* Proofs about SyscallThread, for every set of scripts and both values of *)
(* the checker flag: the inductive invariant, the safety properties it     *)
(* implies, and the refinement of BlockingCalls.                           *)
(***************************************************************************)
EXTENDS SyscallThread, TLAPS

\* The labels at which each thread holds the mutex.
MainHolds == {"create", "cond_init", "next", "await", "enqueue",
              "dequeue_check", "wait", "act", "sniff", "exiting", "closing"}

SysHolds == {"switch", "invoke", "handler", "result", "finish"}

\* The labels of the call proper, from begin_syscall() to end_syscall().
InCall == {"calling", "in_call", "blocked", "returned"}

\* The labels between reading state->event and going idle again.
Busy == {"invoke", "sleep", "handler", "signal", "result", "finish"}
            \cup InCall

Splicing == spc \in InCall /\ script[sevent] = "splice"

\* The mutex is held exactly where the labels say; a splice() keeps it.
Locks ==
    /\ mutex = Main <=> mpc \in MainHolds
    /\ mutex = Sys <=> (spc \in SysHolds \/ Splicing)

\* Where the main thread can be in each part of the script.
Positions ==
    /\ mpc \in {"create", "cond_init"} => event = 0
    /\ mpc = "next" => event <= Len(script)
    /\ mpc \notin {"create", "cond_init", "next"} => event >= 1
    /\ mpc \in {"wait", "sleep", "act", "sniff"} => event <= Len(script)
    /\ mpc \in {"enqueue", "dequeue_check", "dequeue_wait", "dequeue_woken",
                "probe", "probe_yes", "probe_no"} =>
         event <= Len(script) /\ script[event] \in BlockingKinds
    /\ mpc \in {"exiting", "join", "closing", "done"} => AtEnd

\* What syscalls->state says about both threads.  The second conjunct is
\* the absence of a lost wake-up, the last one what the probe establishes.
Handover ==
    /\ sstate = "ENQUEUED" =>
         mpc \in {"dequeue_check", "dequeue_wait", "dequeue_woken"}
    /\ spc = "enqueued_wait" => sstate = "IDLE"
    /\ spc \in {"none", "start", "switch", "enqueued_woken"} =>
         sstate \in {"IDLE", "ENQUEUED", "EXITING"}
    /\ spc \in {"invoke", "sleep", "handler"} =>
         sstate = "ENQUEUED" /\ sevent = event
    /\ spc = "signal" => sstate = "RUNNING" /\ script[sevent] # "splice"
    /\ spc \in InCall => sstate = IF Splicing THEN "ENQUEUED" ELSE "RUNNING"
    /\ spc \in {"result", "finish"} <=> sstate = "DONE"
    /\ liveEnd = 0 <=> spc \in {"result", "finish"}
    /\ sstate = "EXITING" <=> mpc \in {"join", "closing", "done"}
    /\ Alive /\ mpc \in {"enqueue", "exiting"} => sstate = "IDLE"
    /\ spc \in {"signal", "calling"} =>
         mpc \in {"dequeue_check", "dequeue_wait", "dequeue_woken", "probe",
                 "probe_no"}

\* What the thread works on.
Work ==
    /\ spc \notin Busy => sevent = 0
    /\ spc \in Busy => /\ sevent \in 1..Len(script)
                       /\ script[sevent] \in BlockingKinds

\* The life of struct syscalls against the two threads.
Lifetimes ==
    /\ mpc = "create" <=> spc = "none"
    /\ mpc = "create" <=> syscalls = "none"
    /\ mpc = "cond_init" <=> syscalls = "created"
    /\ mpc \in {"closing", "done"} <=> syscalls = "freed"
    /\ mpc = "cond_init" => spc = "start"
    /\ mpc \in {"closing", "done"} => spc = "exited"
    /\ spc = "exited" => sstate = "EXITING"

\* The inductive invariant.
IInv ==
    /\ TypeOK
    /\ Locks
    /\ Positions
    /\ Handover
    /\ Work
    /\ Lifetimes
    /\ AssertsHold

----------------------------------------------------------------------------
\* state_new() establishes the invariant.
LEMMA InitInv == Init => IInv
  BY ScriptsAssumption DEF Init, IInv, TypeOK, Locks, Positions, Handover,
     Work, Lifetimes, AssertsHold, MainHolds, SysHolds, InCall, Busy, Splicing,
     Main, Sys, None, SyscallStates, MainPCs, SysPCs, Fates, Alive, AtEnd

\* Every step of the main thread preserves the invariant.
LEMMA MainStepInv == IInv /\ Alive /\ MainStep => IInv'
  <1> SUFFICES ASSUME IInv, Alive, MainStep PROVE IInv'
    OBVIOUS
  <1> USE ScriptsAssumption
      DEF IInv, TypeOK, Locks, Positions, Handover, Work, Lifetimes,
          AssertsHold, MainHolds, SysHolds, InCall, Busy, Splicing, Main, Sys,
          None, SyscallStates, MainPCs, SysPCs, Fates, Alive, AtEnd, Kind,
          BlockingKinds, EventKinds, NumEvents, Signal, Die
  <1>1. CASE CreateThread
    BY <1>1 DEF CreateThread
  <1>2. CASE InitConds
    BY <1>2 DEF InitConds
  <1>3. CASE get_next_event
    BY <1>3 DEF get_next_event, Dispatch
  <1>4. CASE await_idle_thread
    BY <1>4 DEF await_idle_thread, AfterAwait
  <1>5. CASE IdleRelock
    BY <1>5 DEF IdleRelock
  <1>6. CASE AwaitTimedOut
    BY <1>6 DEF AwaitTimedOut, AfterAwait
  <1>7. CASE Enqueue
    BY <1>7 DEF Enqueue
  <1>8. CASE AwaitDequeued
    BY <1>8 DEF AwaitDequeued
  <1>9. CASE DequeuedRelock
    BY <1>9 DEF DequeuedRelock
  <1>10. CASE is_thread_sleeping
    BY <1>10 DEF is_thread_sleeping, MaySleep, MayRun
  <1>11. CASE ProbeRelock
    BY <1>11 DEF ProbeRelock
  <1>12. CASE MainWait
    BY <1>12 DEF MainWait
  <1>13. CASE MainWakes
    BY <1>13 DEF MainWakes
  <1>14. CASE Act
    BY <1>14 DEF Act
  <1>15. CASE RequestExit
    BY <1>15 DEF RequestExit
  <1>16. CASE Join
    BY <1>16 DEF Join
  <1>17. CASE state_free
    BY <1>17 DEF state_free
  <1> QED
    BY <1>1, <1>2, <1>3, <1>4, <1>5, <1>6, <1>7, <1>8, <1>9, <1>10, <1>11, <1>12, <1>13, <1>14, <1>15, <1>16, <1>17 DEF MainStep

\* Every step of the system call thread preserves the invariant.
LEMMA SysStepInv == IInv /\ Alive /\ SysStep => IInv'
  <1> SUFFICES ASSUME IInv, Alive, SysStep PROVE IInv'
    OBVIOUS
  <1> USE ScriptsAssumption
      DEF IInv, TypeOK, Locks, Positions, Handover, Work, Lifetimes,
          AssertsHold, MainHolds, SysHolds, InCall, Busy, Splicing, Main, Sys,
          None, SyscallStates, MainPCs, SysPCs, Fates, Alive, AtEnd, Kind,
          BlockingKinds, EventKinds, NumEvents, Signal, Die
  <1>1. CASE ThreadStarts
    BY <1>1 DEF ThreadStarts
  <1>2. CASE system_call_thread
    BY <1>2 DEF system_call_thread
  <1>3. CASE SysWait
    BY <1>3 DEF SysWait
  <1>4. CASE SysWakes
    BY <1>4 DEF SysWakes
  <1>5. CASE Handler
    BY <1>5 DEF Handler, begin_syscall
  <1>6. CASE SignalDequeued
    BY <1>6 DEF SignalDequeued
  <1>7. CASE EnterCall
    BY <1>7 DEF EnterCall
  <1>8. CASE RunCall
    BY <1>8 DEF RunCall
  <1>9. CASE end_syscall
    BY <1>9 DEF end_syscall
  <1>10. CASE CheckResult
    BY <1>10 DEF CheckResult
  <1>11. CASE FinishCall
    BY <1>11 DEF FinishCall
  <1> QED
    BY <1>1, <1>2, <1>3, <1>4, <1>5, <1>6, <1>7, <1>8, <1>9, <1>10, <1>11 DEF SysStep

\* So does every step the kernel and the clock decide.
LEMMA EnvironmentInv == IInv /\ Alive /\ Environment => IInv'
  <1> SUFFICES ASSUME IInv, Alive, Environment PROVE IInv'
    OBVIOUS
  <1> USE ScriptsAssumption
      DEF IInv, TypeOK, Locks, Positions, Handover, Work, Lifetimes,
          AssertsHold, MainHolds, SysHolds, InCall, Busy, Splicing, Main, Sys,
          None, SyscallStates, MainPCs, SysPCs, Fates, Alive, AtEnd, Kind,
          BlockingKinds, EventKinds, NumEvents, Signal, Die
  <1>1. CASE IdleSpurious
    BY <1>1 DEF IdleSpurious
  <1>2. CASE IdleTimeout
    BY <1>2 DEF IdleTimeout
  <1>3. CASE DequeuedSpurious
    BY <1>3 DEF DequeuedSpurious
  <1>4. CASE EnqueuedSpurious
    BY <1>4 DEF EnqueuedSpurious
  <1>5. CASE Unblock
    BY <1>5 DEF Unblock
  <1>6. CASE Sniff
    BY <1>6 DEF Sniff
  <1>7. CASE MainSleeps
    BY <1>7 DEF MainSleeps
  <1>8. CASE SysSleeps
    BY <1>8 DEF SysSleeps
  <1> QED
    BY <1>1, <1>2, <1>3, <1>4, <1>5, <1>6, <1>7, <1>8 DEF Environment

\* The invariant holds in every reachable state.
THEOREM Invariance == Spec => []IInv
  <1>1. IInv /\ [Next]_vars => IInv'
    <2> SUFFICES ASSUME IInv, [Next]_vars PROVE IInv'
      OBVIOUS
    <2>1. CASE Alive /\ (MainStep \/ SysStep \/ Environment)
      BY <2>1, MainStepInv, SysStepInv, EnvironmentInv
    <2>2. CASE UNCHANGED vars
      BY <2>2 DEF vars, IInv, TypeOK, Locks, Positions, Handover, Work,
         Lifetimes, AssertsHold, Splicing, Alive, AtEnd
    <2> QED
      BY <2>1, <2>2 DEF Next, Ended
  <1> QED
    BY InitInv, <1>1, PTL DEF Spec
----------------------------------------------------------------------------
\* Type correctness of the interpreter's shared state.
THEOREM TypeCorrect == Spec => []TypeOK
  BY Invariance, PTL DEF IInv

\* No assertion of the hand-over between the threads can fail, whatever the
\* script and whatever the scheduler does (AssertsHold).
THEOREM AssertsNeverFail == Spec => []AssertsHold
  BY Invariance, PTL DEF IInv

\* The system call thread waits for the event it was given, although it reads
\* state->event across an unlocked sleep (WaitsForItsOwnEvent).
THEOREM EventIsStable == Spec => []WaitsForItsOwnEvent
  <1>1. IInv => WaitsForItsOwnEvent
    BY DEF IInv, Handover, WaitsForItsOwnEvent
  <1> QED
    BY <1>1, Invariance, PTL

\* The condition variables are initialized before the first wait, although
\* the thread is created first, and destroyed after the last (SyscallsAlive).
THEOREM SyscallsOutliveThread == Spec => []SyscallsAlive
  <1>1. IInv => SyscallsAlive
    BY DEF IInv, TypeOK, Lifetimes, Handover, SyscallsAlive, SysPCs, MainPCs
  <1> QED
    BY <1>1, Invariance, PTL

\* No thread makes a blocking call with the mutex, provided no script makes a
\* blocking splice() (CallReleasesLock).
THEOREM CallsReleaseLock ==
    ASSUME \A s \in Scripts : \A i \in 1..Len(s) : s[i] # "splice"
    PROVE  Spec => []CallReleasesLock
  <1>1. IInv => CallReleasesLock
    BY DEF IInv, TypeOK, Locks, Work, Splicing, CallReleasesLock, SysHolds,
       InCall, Busy
  <1> QED
    BY <1>1, Invariance, PTL

----------------------------------------------------------------------------
\* A step of the main thread is a step of BlockingCalls, or changes nothing
\* there.
LEMMA MainStepRefines ==
    IInv /\ IInv' /\ Alive /\ MainStep => [Abs!Next]_(Abs!avars)
  <1> SUFFICES ASSUME IInv, IInv', Alive, MainStep
               PROVE  [Abs!Next]_(Abs!avars)
    OBVIOUS
  <1> USE ScriptsAssumption
      DEF IInv, TypeOK, Locks, Positions, Handover, Work, Lifetimes,
          AssertsHold, InCall, Busy, Splicing, Alive, AtEnd, Kind, Signal, Die,
          SyscallStates, AbsCall, AbsPhase, Abs!avars, Abs!Next
  <1>1. CASE CreateThread
    BY <1>1 DEF CreateThread
  <1>2. CASE InitConds
    BY <1>2 DEF InitConds
  <1>3. CASE get_next_event
    BY <1>3 DEF get_next_event, Dispatch, Abs!Advance, Abs!Fail
  <1>4. CASE await_idle_thread
    BY <1>4 DEF await_idle_thread, AfterAwait
  <1>5. CASE IdleRelock
    BY <1>5 DEF IdleRelock
  <1>6. CASE AwaitTimedOut
    BY <1>6 DEF AwaitTimedOut, AfterAwait, Abs!Fail
  <1>7. CASE Enqueue
    BY <1>7 DEF Enqueue, Abs!Submit
  <1>8. CASE AwaitDequeued
    BY <1>8 DEF AwaitDequeued
  <1>9. CASE DequeuedRelock
    BY <1>9 DEF DequeuedRelock
  <1>10. CASE is_thread_sleeping
    BY <1>10 DEF is_thread_sleeping, MaySleep, MayRun
  <1>11. CASE ProbeRelock
    BY <1>11 DEF ProbeRelock
  <1>12. CASE MainWait
    BY <1>12 DEF MainWait, Abs!Fail
  <1>13. CASE MainWakes
    BY <1>13 DEF MainWakes
  <1>14. CASE Act
    BY <1>14 DEF Act, Abs!Fail
  <1>15. CASE RequestExit
    BY <1>15 DEF RequestExit, Abs!Close
  <1>16. CASE Join
    BY <1>16 DEF Join
  <1>17. CASE state_free
    BY <1>17 DEF state_free
  <1> QED
    BY <1>1, <1>2, <1>3, <1>4, <1>5, <1>6, <1>7, <1>8, <1>9, <1>10, <1>11, <1>12, <1>13, <1>14, <1>15, <1>16, <1>17 DEF MainStep

\* So is a step of the system call thread.
LEMMA SysStepRefines ==
    IInv /\ IInv' /\ Alive /\ SysStep => [Abs!Next]_(Abs!avars)
  <1> SUFFICES ASSUME IInv, IInv', Alive, SysStep
               PROVE  [Abs!Next]_(Abs!avars)
    OBVIOUS
  <1> USE ScriptsAssumption
      DEF IInv, TypeOK, Locks, Positions, Handover, Work, Lifetimes,
          AssertsHold, InCall, Busy, Splicing, Alive, AtEnd, Kind, Signal, Die,
          SyscallStates, AbsCall, AbsPhase, Abs!avars, Abs!Next
  <1>1. CASE ThreadStarts
    BY <1>1 DEF ThreadStarts
  <1>2. CASE system_call_thread
    BY <1>2 DEF system_call_thread
  <1>3. CASE SysWait
    BY <1>3 DEF SysWait, Abs!Fail
  <1>4. CASE SysWakes
    BY <1>4 DEF SysWakes
  <1>5. CASE Handler
    BY <1>5 DEF Handler, begin_syscall, Abs!Fail
  <1>6. CASE SignalDequeued
    BY <1>6 DEF SignalDequeued
  <1>7. CASE EnterCall
    BY <1>7 DEF EnterCall, Abs!Enter
  <1>8. CASE RunCall
    BY <1>8 DEF RunCall
  <1>9. CASE end_syscall
    BY <1>9 DEF end_syscall
  <1>10. CASE CheckResult
    BY <1>10 DEF CheckResult, Abs!Fail
  <1>11. CASE FinishCall
    BY <1>11 DEF FinishCall, Abs!Finish, Abs!Fail
  <1> QED
    BY <1>1, <1>2, <1>3, <1>4, <1>5, <1>6, <1>7, <1>8, <1>9, <1>10, <1>11 DEF SysStep

\* And a step of the environment.
LEMMA EnvironmentRefines ==
    IInv /\ IInv' /\ Alive /\ Environment => [Abs!Next]_(Abs!avars)
  <1> SUFFICES ASSUME IInv, IInv', Alive, Environment
               PROVE  [Abs!Next]_(Abs!avars)
    OBVIOUS
  <1> USE ScriptsAssumption
      DEF IInv, TypeOK, Locks, Positions, Handover, Work, Lifetimes,
          AssertsHold, InCall, Busy, Splicing, Alive, AtEnd, Kind, Signal, Die,
          SyscallStates, AbsCall, AbsPhase, Abs!avars, Abs!Next
  <1>1. CASE IdleSpurious
    BY <1>1 DEF IdleSpurious
  <1>2. CASE IdleTimeout
    BY <1>2 DEF IdleTimeout
  <1>3. CASE DequeuedSpurious
    BY <1>3 DEF DequeuedSpurious
  <1>4. CASE EnqueuedSpurious
    BY <1>4 DEF EnqueuedSpurious
  <1>5. CASE Unblock
    BY <1>5 DEF Unblock
  <1>6. CASE Sniff
    BY <1>6 DEF Sniff, Abs!Fail
  <1>7. CASE MainSleeps
    BY <1>7 DEF MainSleeps
  <1>8. CASE SysSleeps
    BY <1>8 DEF SysSleeps
  <1> QED
    BY <1>1, <1>2, <1>3, <1>4, <1>5, <1>6, <1>7, <1>8 DEF Environment

\* The two threads implement BlockingCalls: calls are made one at a time and
\* in script order, each is entered before the interpreter moves on, and none
\* is in progress when the interpreter shuts the thread down (Refines).
THEOREM Refinement == Spec => Refines
  <1>1. Init => Abs!Init
    BY DEF Init, Abs!Init, AbsCall, AbsPhase, Alive
  <1>2. IInv /\ IInv' /\ [Next]_vars => [Abs!Next]_(Abs!avars)
    <2> SUFFICES ASSUME IInv, IInv', [Next]_vars
                 PROVE  [Abs!Next]_(Abs!avars)
      OBVIOUS
    <2>1. CASE Alive /\ (MainStep \/ SysStep \/ Environment)
      BY <2>1, MainStepRefines, SysStepRefines, EnvironmentRefines
    <2>2. CASE UNCHANGED vars
      BY <2>2 DEF vars, Abs!avars, AbsCall, AbsPhase, Alive
    <2> QED
      BY <2>1, <2>2 DEF Next, Ended
  <1> QED
    BY <1>1, <1>2, Invariance, PTL DEF Spec, Refines, Abs!Spec
=============================================================================
