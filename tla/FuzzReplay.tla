----------------------------- MODULE FuzzReplay -----------------------------
(***************************************************************************)
(* The differential fuzzer (fuzz_test.c and its helpers).  main() plays    *)
(* the same fuzz file twice, first against the TCP stack in the shared     *)
(* object, then against the kernel, and compares what the system calls     *)
(* returned.  The file decides everything else: which packets are sent,    *)
(* with which errors, which system calls are made.                         *)
(*                                                                         *)
(* A fuzz file is a sequence of bytes.  One byte stands for each decision  *)
(* of the code, and one for each group of bytes that only becomes content: *)
(* a packet's header, options and data length, an injected error, the size *)
(* of a read or write.  An operation is a packet or a call that the stack  *)
(* under test sees; what a call returns is the stack's choice.             *)
(***************************************************************************)
EXTENDS Integers, Sequences, FiniteSets

CONSTANTS
    Inputs,         \* fuzz files: sequences of bytes
    Configs,        \* command lines: records of the flags below
    Handshake,      \* number of inbound packets in the template script
    Table,          \* predefined_syscall_events: a sequence of call kinds
    FuzzLoops,      \* iterations of do_some_fuzz() before close(): 10
    Checks,         \* iterations of the check after it: 3
    AfterLoops,     \* iterations of do_some_fuzz() after close(): 3
    Returns         \* what a system call may return

Flags == {"packet", "syscall", "once", "free"}

\* read() and write() take a size from the file, "noop" is the disabled
\* fcntl(F_SETFL) that would make the socket blocking, "plain" the others.
CallKinds == {"sized", "plain", "noop"}

ASSUME FuzzAssumption ==
    /\ \A in \in Inputs : in \in Seq(0..255)
    /\ Configs \subseteq SUBSET Flags
    /\ Handshake \in Nat /\ FuzzLoops \in Nat \ {0}
    /\ Checks \in Nat \ {0} /\ AfterLoops \in Nat \ {0}
    /\ Table \in Seq(CallKinds) /\ Len(Table) > 0

VARIABLES
    input, config,
    run,            \* 1 against the shared object, 2 against the kernel
    pc, n, j,       \* where my_run_script() is, and its two loop counters
    after,          \* has the socket been closed?
    index,          \* fuzz_file_index
    fuzzed,         \* has_fuzzed_once
    seq, len,       \* packet_seq, last_packet_data_length
    line,           \* fuzz_script: text not yet stored
    scripts, loop,  \* fuzz_scripts, fuzz_loop_index
    result,         \* fuzz_result: results not yet stored
    results,        \* fuzz_results
    step1,          \* step1_results
    verdict,        \* fuzz_test_result_compare()
    sent            \* history: the operations of each run, in order

book == <<line, scripts, loop, result, results>>
vars == <<input, config, run, pc, n, j, after, index, fuzzed, seq, len, book,
          step1, verdict, sent>>

Comment == [op |-> "comment", seq |-> 0, len |-> 0, err |-> 0]

NoSlots == <<>>     \* all NULL: a slot is in the domain once it is set

----------------------------------------------------------------------------
(* Reading the file.  A draw carries what the generators read and change. *)

Draw == [file |-> input, flags |-> config, k |-> index, fuzzed |-> fuzzed,
         seq |-> seq, len |-> len, ops |-> <<>>]

\* read_byte(): 0 once the file is used up.
Peek(d) == IF d.k < Len(d.file) THEN d.file[d.k + 1] ELSE 0

read_byte(d) == IF d.k < Len(d.file) THEN [d EXCEPT !.k = @ + 1] ELSE d

\* should_fuzz(): with --fuzz_once, at most once in the life of the process.
ShouldFuzz(d) ==
    "once" \notin d.flags \/ (~d.fuzzed /\ Peek(d) % 255 < 127)

should_fuzz(d) ==
    IF "once" \notin d.flags \/ d.fuzzed THEN d
    ELSE [read_byte(d) EXCEPT !.fuzzed = ShouldFuzz(d)]

\* fuzz_to_packet(): its length is kept in last_packet_data_length.
fuzz_to_packet(d, data) ==
    LET size == IF data THEN Peek(d) ELSE 0
        p == [op  |-> "packet", len |-> size, err |-> 0,
              seq |-> IF "free" \in d.flags THEN Peek(d) ELSE d.seq]
    IN [read_byte(d) EXCEPT !.len = size, !.ops = Append(@, p)]

inject_error_to_packet(d) ==
    [read_byte(d) EXCEPT !.ops[Len(d.ops)].err = 1 + Peek(d)]

inject_fuzz_normal_packet(d) ==
    IF ~ShouldFuzz(d) THEN should_fuzz(d)
    ELSE LET p == fuzz_to_packet(should_fuzz(d), TRUE)
         IN IF Peek(p) < 50 THEN inject_error_to_packet(read_byte(p))
                            ELSE read_byte(p)

inject_fuzz_error_packet(d) ==
    IF ~ShouldFuzz(d) THEN should_fuzz(d)
    ELSE inject_error_to_packet(fuzz_to_packet(should_fuzz(d), TRUE))

----------------------------------------------------------------------------
(* The two records: scripts and results, by loop index. *)

Put(slots, i, what) == [k \in DOMAIN slots \cup {i} |->
                            IF k = i THEN what ELSE slots[k]]

\* Mutant: the text stays in the buffer after it is stored.
update_fuzz_scripts_NoReset(text) ==
    LET all == line \o text IN
    IF all = <<>>
      THEN UNCHANGED <<line, scripts, loop>>
      ELSE /\ scripts' = Put(scripts, loop, all)
           /\ line' = all
           /\ loop' = loop + 1

\* Mutant: an empty script takes a slot too.
update_fuzz_scripts_Always(text) ==
    /\ scripts' = Put(scripts, loop, line \o text)
    /\ line' = <<>>
    /\ loop' = loop + 1

\* update_fuzz_scripts() after adding text to the current script.
update_fuzz_scripts(text) ==
    LET all == line \o text IN
    IF all = <<>>
      THEN UNCHANGED <<line, scripts, loop>>
      ELSE /\ scripts' = Put(scripts, loop, all)
           /\ line' = <<>>
           /\ loop' = loop + 1

\* Mutant: the result is stored before its script.
update_fuzz_results_First(text) ==
    LET all == result \o text IN
    IF all = <<>>
      THEN UNCHANGED <<result, results>>
      ELSE /\ results' = Put(results, loop, all)
           /\ result' = <<>>

\* update_fuzz_results(), which follows update_fuzz_scripts(): the result of
\* a call is stored one slot after its script.
update_fuzz_results(text) ==
    LET all == result \o text IN
    IF all = <<>>
      THEN UNCHANGED <<result, results>>
      ELSE /\ results' = Put(results, loop', all)
           /\ result' = <<>>

----------------------------------------------------------------------------
\* Mutant: the file goes on where the first run left it.
Reinit_KeepsIndex(i) ==
    /\ run' = i
    /\ pc' = "handshake" /\ n' = 0 /\ j' = 0 /\ after' = FALSE
    /\ seq' = 1 /\ loop' = 0
    /\ line' = <<>> /\ result' = <<>>
    /\ scripts' = NoSlots /\ results' = NoSlots
    /\ UNCHANGED index

\* reinit_fuzzing_variable(), reinit_fuzzing_results(),
\* reinit_fuzzing_scripts(): what my_run_script() starts from.
Reinit(i) ==
    /\ run' = i
    /\ pc' = "handshake" /\ n' = 0 /\ j' = 0 /\ after' = FALSE
    /\ index' = 0 /\ seq' = 1 /\ loop' = 0
    /\ line' = <<>> /\ result' = <<>>
    /\ scripts' = NoSlots /\ results' = NoSlots

Init ==
    /\ input \in Inputs /\ config \in Configs
    /\ run = 1 /\ pc = "handshake" /\ n = 0 /\ j = 0 /\ after = FALSE
    /\ index = 0 /\ fuzzed = FALSE /\ seq = 1 /\ len = 0
    /\ line = <<>> /\ scripts = NoSlots /\ loop = 0
    /\ result = <<>> /\ results = NoSlots
    /\ step1 = NoSlots /\ verdict = -2
    /\ sent = [i \in 1..2 |-> <<>>]

\* The generators' effects: file position, flag, length, operations sent.
Send(d) ==
    /\ index' = d.k
    /\ fuzzed' = d.fuzzed
    /\ len' = d.len
    /\ sent' = [sent EXCEPT ![run] = @ \o d.ops]

\* The template script up to its last event.  Its inbound packets are
\* replaced by fuzzed ones; one with an unsupported timestamp ends the
\* process when it is built for TLDK.
FuzzedHandshake(flags) ==
    "packet" \in flags /\ flags \cap {"once", "free"} = {}

HandshakePacket(d) ==
    IF FuzzedHandshake(d.flags)
    THEN fuzz_to_packet(read_byte(d), Peek(d) % 100 >= 50)
    ELSE [d EXCEPT !.ops = <<[Comment EXCEPT !.op = "template"]>>]

fuzz_three_way_handshake_packets ==
    /\ pc = "handshake" /\ n < Handshake
    /\ Send(HandshakePacket(Draw))
    /\ line' = line \o HandshakePacket(Draw).ops
    /\ n' = n + 1
    /\ pc' \in {"handshake"} \cup
               IF FuzzedHandshake(config) /\ run = 1 THEN {"exited"} ELSE {}
    /\ UNCHANGED <<input, config, run, j, after, seq, scripts, loop, result,
                   results, step1, verdict>>

\* The first iteration of do_some_fuzz(), and every later one.
LoopTop == IF "packet" \in config THEN "normal" ELSE "syscall"

HandshakeDone ==
    /\ pc = "handshake" /\ n = Handshake
    /\ n' = 1 /\ j' = 1
    /\ pc' = LoopTop
    /\ UNCHANGED <<input, config, run, after, index, fuzzed, seq, len, book,
                   step1, verdict, sent>>

\* Where do_some_fuzz() and its callers go after one iteration.
NextLoop ==
    /\ j' = 1
    /\ IF n < (IF after THEN AfterLoops ELSE FuzzLoops)
         THEN n' = n + 1 /\ pc' = LoopTop
         ELSE n' = 1 /\ pc' = IF after THEN "finish" ELSE "check"

FuzzNormal ==
    /\ pc = "normal"
    /\ LET d == inject_fuzz_normal_packet(Draw) IN
       /\ Send(d)
       /\ seq' = seq + d.len
       /\ update_fuzz_scripts(d.ops)
    /\ pc' = "second"
    /\ UNCHANGED <<input, config, run, n, j, after, result, results, step1,
                   verdict>>

\* Nothing more, a packet with errors, or four packets in a row.
SecondPackets(d) ==
    LET e == read_byte(d) IN
    CASE Peek(d) < 50 -> e
      [] Peek(d) \in 50..149 -> inject_fuzz_error_packet(e)
      [] Peek(d) >= 150 ->
           inject_fuzz_normal_packet(inject_fuzz_normal_packet(
             inject_fuzz_normal_packet(inject_fuzz_normal_packet(e))))

FuzzSecond ==
    /\ pc = "second"
    /\ Send(SecondPackets(Draw))
    /\ update_fuzz_scripts(IF Peek(Draw) < 50 THEN <<>>
                           ELSE <<Comment>> \o SecondPackets(Draw).ops)
    /\ pc' = "syscall"
    /\ UNCHANGED <<input, config, run, n, j, after, seq, result, results,
                   step1, verdict>>

\* One entry of predefined_syscall_events.
Call(d, i) ==
    LET kind == Table[i]
        size == IF kind = "sized" THEN Peek(d) ELSE 0
        call == [op |-> kind, seq |-> i, len |-> size, err |-> 0]
    IN CASE kind = "sized" -> [read_byte(d) EXCEPT !.ops = <<call>>]
         [] kind = "plain" -> [d EXCEPT !.ops = <<call>>]
         [] kind = "noop"  -> d

FuzzSyscall ==
    /\ pc = "syscall" /\ "syscall" \in config
    /\ ShouldFuzz(Draw)
    /\ LET f == should_fuzz(Draw) IN
       IF Peek(f) % 100 < 50
         THEN LET d == Call(read_byte(f), j) IN
              /\ Send(d)
              /\ update_fuzz_scripts(d.ops)
              /\ \E r \in Returns :
                   update_fuzz_results(IF d.ops = <<>> THEN <<>>
                                       ELSE <<[call |-> d.ops[1], value |-> r]>>)
         ELSE Send(read_byte(f)) /\ UNCHANGED book
    /\ IF j < Len(Table) THEN j' = j + 1 /\ UNCHANGED <<n, pc>> ELSE NextLoop
    /\ UNCHANGED <<input, config, run, after, seq, step1, verdict>>

\* The loop over the table ends early when should_fuzz() says no.
NoSyscall ==
    /\ pc = "syscall"
    /\ IF "syscall" \notin config THEN Send(Draw)
       ELSE ~ShouldFuzz(Draw) /\ Send(should_fuzz(Draw))
    /\ NextLoop
    /\ UNCHANGED <<input, config, run, after, seq, book, step1, verdict>>

\* The check: a packet without options, then read(4, ..., 20); the calls of
\* this part and close() are not recorded as results.
CheckPacket ==
    /\ pc = "check"
    /\ IF "packet" \in config /\ ShouldFuzz(Draw)
         THEN LET d == fuzz_to_packet(should_fuzz(Draw), TRUE) IN
              Send(d) /\ update_fuzz_scripts(d.ops)
         ELSE /\ Send(IF "packet" \in config THEN should_fuzz(Draw) ELSE Draw)
              /\ UNCHANGED <<line, scripts, loop>>
    /\ pc' = "check_read"
    /\ UNCHANGED <<input, config, run, n, j, after, seq, result, results,
                   step1, verdict>>

CheckRead ==
    LET read == [Comment EXCEPT !.op = "read", !.len = 20]
        makes == "syscall" \in config /\ ShouldFuzz(Draw)
        d == IF "syscall" \in config THEN should_fuzz(Draw) ELSE Draw IN
    /\ pc = "check_read"
    /\ IF makes
         THEN /\ Send([d EXCEPT !.ops = <<read>>])
              /\ update_fuzz_scripts(<<read>>)
         ELSE Send(d) /\ UNCHANGED <<line, scripts, loop>>
    /\ IF n < Checks THEN n' = n + 1 /\ pc' = "check"
                     ELSE n' = 1 /\ pc' = "close"
    /\ UNCHANGED <<input, config, run, j, after, seq, result, results, step1,
                   verdict>>

\* close(), then do_some_fuzz() on the closed socket.
Close ==
    LET close == [Comment EXCEPT !.op = "close"] IN
    /\ pc = "close"
    /\ Send([Draw EXCEPT !.ops = <<close>>])
    /\ update_fuzz_scripts(<<close>>)
    /\ update_fuzz_results(<<>>)
    /\ after' = TRUE
    /\ pc' = LoopTop
    /\ UNCHANGED <<input, config, run, n, j, seq, step1, verdict>>

\* main(), between the two runs.
SecondRun ==
    /\ pc = "finish" /\ run = 1
    /\ step1' = results
    /\ Reinit(2)
    /\ UNCHANGED <<input, config, fuzzed, len, verdict, sent>>

\* Mutant: the comparison stops at the first NULL.
fuzz_test_result_compare_ToNull(a, b) ==
    LET different == {i \in DOMAIN a \cap DOMAIN b :
                        a[i] # b[i] /\ 0..i \subseteq DOMAIN a} IN
    IF different = {} THEN -1
    ELSE CHOOSE i \in different : \A k \in different : i <= k

\* fuzz_test_result_compare(): slots that are set in only one of the two
\* arrays are passed over.
fuzz_test_result_compare(a, b) ==
    LET different == {i \in DOMAIN a \cap DOMAIN b : a[i] # b[i]} IN
    IF different = {} THEN -1
    ELSE CHOOSE i \in different : \A k \in different : i <= k

\* main(), after the second run.
Compare ==
    /\ pc = "finish" /\ run = 2
    /\ verdict' = fuzz_test_result_compare(step1, results)
    /\ pc' = "compared"
    /\ UNCHANGED <<input, config, run, n, j, after, index, fuzzed, seq, len,
                   book, step1, sent>>

Ended ==
    /\ pc \in {"exited", "compared"}
    /\ UNCHANGED vars

Next ==
    \/ fuzz_three_way_handshake_packets \/ HandshakeDone
    \/ FuzzNormal \/ FuzzSecond \/ FuzzSyscall \/ NoSyscall
    \/ CheckPacket \/ CheckRead \/ Close \/ SecondRun \/ Compare \/ Ended

Spec == Init /\ [][Next]_vars

----------------------------------------------------------------------------
(* Properties *)

Last(s) == s[Len(s)]

IsPrefix(s, t) ==
    Len(s) <= Len(t) /\ SubSeq(s, 1, Len(s)) = SubSeq(t, 1, Len(s))

\* The kernel sees exactly what the shared object saw: the second run
\* repeats the operations of the first, in order, whatever the calls
\* returned and whatever the first run left in the global variables.
SameOperations ==
    /\ run = 2 => IsPrefix(sent[2], sent[1])
    /\ pc = "compared" => sent[1] = sent[2]

\* The scripts of all loop indexes, the text not yet stored included, are
\* the operations of this run: no slot is written twice, nothing is lost.
ScriptsRecordAll ==
    LET stored[i \in 0..loop] ==
            IF i = 0 THEN <<>> ELSE stored[i - 1] \o scripts[i - 1]
    IN SelectSeq(stored[loop] \o line, LAMBDA o : o.op # "comment") = sent[run]

\* print_scripts(i) prints what leads to a difference in result i: the call
\* with that result is the last one of script i - 1.
ResultFollowsScript ==
    \A i \in DOMAIN results :
        /\ i - 1 \in DOMAIN scripts
        /\ results[i][1].call = Last(scripts[i - 1])

\* "@return index of the first different character, -1 for equal string":
\* fuzz_test_result_compare() finds a difference exactly if there is one.
VerdictIsExact ==
    pc = "compared" => (verdict = -1 <=> step1 = results)

\* A slot is used for every script that is not empty: at most two per
\* iteration for packets, one for each call of the table that is not disabled,
\* two per check, and close().
MaxSlots ==
    LET calls == Cardinality({i \in DOMAIN Table : Table[i] # "noop"})
    IN (FuzzLoops + AfterLoops) * (2 + calls) + 2 * Checks + 1

\* The loop index of update_fuzz_scripts() and update_fuzz_results() stays
\* within MaxSlots, 163 with the counts of the code; the arrays hold 1000.
SlotsInRange == loop <= MaxSlots
=============================================================================
