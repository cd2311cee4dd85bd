---------------------------- MODULE BlockingCalls ----------------------------
(***************************************************************************)
(* What run_system_call_event() promises the interpreter: blocking calls   *)
(* are made one at a time and in script order, the interpreter does not    *)
(* move past a blocking call before the kernel has been entered for it,    *)
(* and it shuts down only when no call is in progress.  The process may    *)
(* give up at any moment.                                                  *)
(***************************************************************************)
EXTENDS Naturals, Sequences

CONSTANTS
    Scripts,        \* the scripts
    BlockingKinds   \* the kinds of event that are blocking calls

VARIABLES
    script,     \* the script being run
    position,   \* the event the interpreter is at
    call,       \* the blocking call in hand, 0 for none
    phase       \* "idle", "submitted", "entered", "closed" or "failed"

avars == <<script, position, call, phase>>

Init ==
    /\ script \in Scripts
    /\ position = 0
    /\ call = 0
    /\ phase = "idle"

\* A blocking call holds the interpreter until the kernel has been entered.
Advance ==
    /\ phase \in {"idle", "entered"}
    /\ position <= Len(script)
    /\ position' = position + 1
    /\ UNCHANGED <<script, call, phase>>

Submit ==
    /\ phase = "idle"
    /\ position \in 1..Len(script)
    /\ script[position] \in BlockingKinds
    /\ call' = position
    /\ phase' = "submitted"
    /\ UNCHANGED <<script, position>>

Enter ==
    /\ phase = "submitted"
    /\ phase' = "entered"
    /\ UNCHANGED <<script, position, call>>

Finish ==
    /\ phase = "entered"
    /\ phase' = "idle"
    /\ call' = 0
    /\ UNCHANGED <<script, position>>

Close ==
    /\ phase = "idle"
    /\ position = Len(script) + 1
    /\ phase' = "closed"
    /\ UNCHANGED <<script, position, call>>

Fail ==
    /\ phase # "closed"
    /\ phase' = "failed"
    /\ UNCHANGED <<script, position, call>>

Next == Advance \/ Submit \/ Enter \/ Finish \/ Close \/ Fail

Spec == Init /\ [][Next]_avars
=============================================================================
