--------------------------- MODULE SameRunsProofs ---------------------------
(* The two runs of FuzzReplay compared.  Without --fuzz_once a run is a     *)
(* function of the file and the command line, as far as the operations, the *)
(* scripts and the slots that have results are concerned: only the values   *)
(* that the calls return differ.                                            *)
EXTENDS FuzzReplayProofs, WellFoundedInduction

Point(file, flags, at, nn, jj, closed, k, sq, out, text, slot, slots) ==
    [file |-> file, flags |-> flags, pc |-> at, n |-> nn, j |-> jj,
     after |-> closed, index |-> k, seq |-> sq, out |-> out, line |-> text,
     loop |-> slot, slots |-> slots]

\* Where a run is, and where both runs start.
Now == Point(input, config, pc, n, j, after, index, seq, sent[run], line, loop,
             DOMAIN results)
Start == Point(input, config, "handshake", 0, 0, FALSE, 0, 1, <<>>, <<>>, 0, {})

At(s) == [file |-> s.file, flags |-> s.flags, k |-> s.index, fuzzed |-> FALSE,
          seq |-> s.seq, len |-> 0, ops |-> <<>>]

Slot(text) == IF text = <<>> THEN 0 ELSE 1

Top(s) == IF "packet" \in s.flags THEN "normal" ELSE "syscall"
LoopsAt(s) == IF s.after THEN AfterLoops ELSE FuzzLoops
LoopN(s) == IF s.n < LoopsAt(s) THEN s.n + 1 ELSE 1
LoopPc(s) == IF s.n < LoopsAt(s) THEN Top(s)
             ELSE IF s.after THEN "finish" ELSE "check"

StepHandshake(s) ==
    LET d == HandshakePacket(At(s)) IN
    IF s.n < Handshake
    THEN Point(s.file, s.flags, s.pc, s.n + 1, s.j, s.after, d.k, s.seq,
               s.out \o d.ops, s.line \o d.ops, s.loop, s.slots)
    ELSE Point(s.file, s.flags, Top(s), 1, 1, s.after, s.index, s.seq,
               s.out, s.line, s.loop, s.slots)

StepNormal(s) ==
    LET d == inject_fuzz_normal_packet(At(s))
    IN Point(s.file, s.flags, "second", s.n, s.j, s.after, d.k, s.seq + d.len,
             s.out \o d.ops, <<>>, s.loop + Slot(s.line \o d.ops), s.slots)

StepSecond(s) ==
    LET d == SecondPackets(At(s))
        text == IF Peek(At(s)) < 50 THEN <<>> ELSE <<Comment>> \o d.ops
    IN Point(s.file, s.flags, "syscall", s.n, s.j, s.after, d.k, s.seq,
             s.out \o d.ops, <<>>, s.loop + Slot(s.line \o text), s.slots)

\* Does the table go on after this entry?
More(s) == "syscall" \in s.flags /\ s.j < Len(Table)

StepSyscall(s) ==
    LET made == "syscall" \in s.flags /\ Peek(At(s)) % 100 < 50
        d == IF "syscall" \notin s.flags THEN At(s)
             ELSE IF made THEN Call(read_byte(At(s)), s.j)
             ELSE read_byte(At(s))
    IN Point(s.file, s.flags,
             IF More(s) THEN s.pc ELSE LoopPc(s),
             IF More(s) THEN s.n ELSE LoopN(s),
             IF More(s) THEN s.j + 1 ELSE 1,
             s.after, d.k, s.seq, s.out \o d.ops,
             IF made THEN <<>> ELSE s.line,
             IF made THEN s.loop + Slot(s.line \o d.ops) ELSE s.loop,
             IF d.ops = <<>> THEN s.slots ELSE s.slots \cup {s.loop + 1})

StepCheck(s) ==
    LET d == fuzz_to_packet(At(s), TRUE) IN
    IF "packet" \in s.flags
    THEN Point(s.file, s.flags, "check_read", s.n, s.j, s.after, d.k, s.seq,
               s.out \o d.ops, <<>>, s.loop + Slot(s.line \o d.ops), s.slots)
    ELSE Point(s.file, s.flags, "check_read", s.n, s.j, s.after, s.index, s.seq,
               s.out, s.line, s.loop, s.slots)

StepCheckRead(s) ==
    LET read == <<[Comment EXCEPT !.op = "read", !.len = 20]>>
        nn == IF s.n < Checks THEN s.n + 1 ELSE 1
        at == IF s.n < Checks THEN "check" ELSE "close"
    IN IF "syscall" \in s.flags
       THEN Point(s.file, s.flags, at, nn, s.j, s.after, s.index, s.seq,
                  s.out \o read, <<>>, s.loop + Slot(s.line \o read), s.slots)
       ELSE Point(s.file, s.flags, at, nn, s.j, s.after, s.index, s.seq,
                  s.out, s.line, s.loop, s.slots)

StepClose(s) ==
    LET close == <<[Comment EXCEPT !.op = "close"]>>
    IN Point(s.file, s.flags, Top(s), s.n, s.j, TRUE, s.index, s.seq,
             s.out \o close, <<>>, s.loop + Slot(s.line \o close), s.slots)

Step(s) ==
    CASE s.pc = "handshake"  -> StepHandshake(s)
      [] s.pc = "normal"     -> StepNormal(s)
      [] s.pc = "second"     -> StepSecond(s)
      [] s.pc = "syscall"    -> StepSyscall(s)
      [] s.pc = "check"      -> StepCheck(s)
      [] s.pc = "check_read" -> StepCheckRead(s)
      [] s.pc = "close"      -> StepClose(s)

----------------------------------------------------------------------------
(* Every action of a run takes Now to Step(Now). *)

Plain == "once" \notin config

LEMMA NowFields ==
    /\ Now.file = input /\ Now.flags = config /\ Now.pc = pc /\ Now.n = n
    /\ Now.j = j /\ Now.after = after /\ Now.index = index /\ Now.seq = seq
    /\ Now.out = sent[run] /\ Now.line = line /\ Now.loop = loop
    /\ Now.slots = DOMAIN results
BY DEF Now, Point

LEMMA AtNow ==
    ASSUME Typed
    PROVE  /\ At(Now) \in Draws /\ Draw \in Draws /\ Same(Draw, At(Now))
           /\ At(Now).ops = <<>> /\ At(Now).flags = config /\ At(Now).k = index
           /\ Draw.ops = <<>> /\ Draw.flags = config /\ Draw.k = index
<1>1. Draw \in Draws /\ Draw.ops = <<>> /\ Draw.flags = config /\ Draw.k = index
  BY DrawType DEF Draw
<1>2. At(Now) = [file |-> input, flags |-> config, k |-> index, fuzzed |-> FALSE,
                 seq |-> seq, len |-> 0, ops |-> <<>>]
  BY NowFields DEF At
<1>3. input \in Seq(Nat) /\ config \in SUBSET Flags /\ index \in Nat /\ seq \in Int
  BY DEF Typed, Started
<1>4. <<>> \in Seq(Op) /\ FALSE \in BOOLEAN /\ 0 \in Int
  OBVIOUS
<1>5. At(Now) \in Draws
  BY <1>2, <1>3, <1>4 DEF Draws
<1> QED BY <1>1, <1>2, <1>5 DEF Same, Draw

LEMMA Stored ==
    ASSUME Typed, NEW text \in Seq(Op), update_fuzz_scripts(text)
    PROVE  line' = <<>> /\ loop' = loop + Slot(line \o text)
<1>1. line \in Seq(Op) /\ loop \in Nat
  BY DEF Typed
<1>2. /\ line' = <<>>
      /\ IF line \o text = <<>> THEN UNCHANGED <<scripts, loop>>
         ELSE scripts' = Put(scripts, loop, line \o text) /\ loop' = loop + 1
  BY <1>1, ScriptsStep
<1> QED BY <1>1, <1>2 DEF Slot

LEMMA SentHere ==
    ASSUME Typed, NEW d \in Draws, Send(d), UNCHANGED run
    PROVE  index' = d.k /\ sent'[run'] = sent[run] \o d.ops
BY SendType, Zenon DEF Send

LEMMA NowPrime ==
    Now' = Point(input', config', pc', n', j', after', index', seq',
                 sent'[run'], line', loop', DOMAIN results')
BY DEF Now, Point

LEMMA TopNow == LoopTop = Top(Now)
BY NowFields DEF LoopTop, Top

LEMMA HandshakeSteps ==
    ASSUME Typed, fuzz_three_way_handshake_packets, pc' # "exited"
    PROVE  Now' = StepHandshake(Now)
<1> DEFINE d == HandshakePacket(Draw)
           e == HandshakePacket(At(Now))
<1>1. Same(d, e) /\ d \in Draws
  BY AtNow, SameHandshake, HandshakeType
<1>2. /\ Send(d) /\ line' = line \o d.ops /\ n' = n + 1 /\ pc' = pc /\ n < Handshake
      /\ UNCHANGED <<input, config, run, j, after, seq, loop, results>>
  BY DEF fuzz_three_way_handshake_packets
<1>3. StepHandshake(Now) =
        Point(input, config, pc, n + 1, j, after, e.k, seq, sent[run] \o e.ops,
              line \o e.ops, loop, DOMAIN results)
  BY <1>2, NowFields DEF StepHandshake
<1> HIDE DEF d, e
<1>4. index' = d.k /\ sent'[run'] = sent[run] \o d.ops
  BY <1>1, <1>2, SentHere, Zenon
<1>5. d.k = e.k /\ d.ops = e.ops
  BY <1>1 DEF Same
<1> QED BY <1>2, <1>3, <1>4, <1>5, NowPrime

LEMMA HandshakeEnds ==
    ASSUME Typed, HandshakeDone
    PROVE  Now' = StepHandshake(Now)
<1>1. /\ ~(n < Handshake) /\ n' = 1 /\ j' = 1 /\ pc' = LoopTop
      /\ UNCHANGED <<input, config, run, after, index, seq, line, loop, results, sent>>
  BY FuzzAssumption DEF HandshakeDone, book
<1>2. StepHandshake(Now) =
        Point(input, config, Top(Now), 1, 1, after, index, seq, sent[run],
              line, loop, DOMAIN results)
  BY <1>1, NowFields DEF StepHandshake
<1> QED BY <1>1, <1>2, TopNow, NowPrime

LEMMA NormalSteps ==
    ASSUME Typed, Plain, FuzzNormal
    PROVE  Now' = StepNormal(Now)
<1> DEFINE d == inject_fuzz_normal_packet(Draw)
           e == inject_fuzz_normal_packet(At(Now))
<1>1. Same(d, e) /\ d.len = e.len /\ d \in Draws
  BY AtNow, SameNormal, NormalType DEF Plain
<1>2. /\ Send(d) /\ update_fuzz_scripts(d.ops) /\ seq' = seq + d.len /\ pc' = "second"
      /\ UNCHANGED <<input, config, run, n, j, after, results>>
  BY DEF FuzzNormal
<1>3. StepNormal(Now) =
        Point(input, config, "second", n, j, after, e.k, seq + e.len,
              sent[run] \o e.ops, <<>>, loop + Slot(line \o e.ops), DOMAIN results)
  BY NowFields DEF StepNormal
<1> HIDE DEF d, e
<1>4. index' = d.k /\ sent'[run'] = sent[run] \o d.ops
  BY <1>1, <1>2, SentHere, Zenon
<1>5. line' = <<>> /\ loop' = loop + Slot(line \o d.ops)
  BY <1>1, <1>2, Stored DEF Draws
<1>6. d.k = e.k /\ d.ops = e.ops
  BY <1>1 DEF Same
<1> QED BY <1>1, <1>2, <1>3, <1>4, <1>5, <1>6, NowPrime

LEMMA SecondSteps ==
    ASSUME Typed, Plain, FuzzSecond
    PROVE  Now' = StepSecond(Now)
<1> DEFINE d == SecondPackets(Draw)
           e == SecondPackets(At(Now))
           text == IF Peek(Draw) < 50 THEN <<>> ELSE <<Comment>> \o d.ops
<1>1. Same(d, e) /\ d \in Draws /\ Peek(Draw) = Peek(At(Now))
  BY AtNow, SameSecond, SecondType, SameRead DEF Plain
<1>2. d.k = e.k /\ d.ops = e.ops /\ d.ops \in Seq(Op)
  BY <1>1 DEF Same, Draws
<1>3. /\ Send(d) /\ update_fuzz_scripts(text) /\ pc' = "syscall"
      /\ UNCHANGED <<input, config, run, n, j, after, seq, results>>
  BY DEF FuzzSecond
<1>4. StepSecond(Now) =
        Point(input, config, "syscall", n, j, after, e.k, seq, sent[run] \o e.ops,
              <<>>, loop + Slot(line \o text), DOMAIN results)
  BY <1>1, <1>2, NowFields DEF StepSecond
<1>5. text \in Seq(Op)
  BY <1>2, CommentSeq
<1> HIDE DEF d, e, text
<1>6. index' = d.k /\ sent'[run'] = sent[run] \o d.ops
  BY <1>1, <1>3, SentHere, Zenon
<1>7. line' = <<>> /\ loop' = loop + Slot(line \o text)
  BY <1>3, <1>5, Stored
<1> QED BY <1>2, <1>3, <1>4, <1>6, <1>7, NowPrime

LEMMA LoopSteps ==
    ASSUME Typed, NextLoop
    PROVE  j' = 1 /\ n' = LoopN(Now) /\ pc' = LoopPc(Now)
<1>1. LoopsAt(Now) = (IF after THEN AfterLoops ELSE FuzzLoops) /\ Now.n = n
  BY NowFields DEF LoopsAt
<1>2. Now.after = after
  BY NowFields
<1> QED BY <1>1, <1>2, TopNow DEF NextLoop, LoopN, LoopPc

\* A call of the table, without --fuzz_once.
LEMMA SyscallSteps ==
    ASSUME Typed, Recorded, Plain, FuzzSyscall
    PROVE  Now' = StepSyscall(Now)
<1> DEFINE c == Call(read_byte(Draw), j)
           e == Call(read_byte(At(Now)), j)
           made == Peek(Draw) % 100 < 50
           d == IF made THEN c ELSE read_byte(Draw)
           g == IF made THEN e ELSE read_byte(At(Now))
<1>1. ShouldFuzz(Draw) /\ should_fuzz(Draw) = Draw
  BY AtNow, NotOnce DEF Plain
<1>2. /\ pc = "syscall" /\ "syscall" \in config /\ j \in 1..Len(Table)
      /\ UNCHANGED <<input, config, run, after, seq>>
      /\ IF j < Len(Table) THEN j' = j + 1 /\ UNCHANGED <<n, pc>> ELSE NextLoop
  BY DEF FuzzSyscall, Typed
<1>3. /\ read_byte(Draw) \in Draws /\ read_byte(Draw).ops = <<>>
      /\ read_byte(At(Now)) \in Draws /\ read_byte(At(Now)).ops = <<>>
      /\ Same(read_byte(Draw), read_byte(At(Now)))
      /\ Peek(Draw) = Peek(At(Now))
  BY AtNow, ReadByteType, SameRead
<1>4. /\ Same(c, e) /\ c \in Draws
      /\ c.ops # <<>> => \E p \in Op : c.ops = <<p>>
  BY <1>2, <1>3, CallType, SameCall
<1>5. /\ made =>
           /\ Send(c) /\ update_fuzz_scripts(c.ops)
           /\ \E r : update_fuzz_results(IF c.ops = <<>> THEN <<>>
                                         ELSE <<[call |-> c.ops[1], value |-> r]>>)
      /\ ~made => Send(read_byte(Draw)) /\ UNCHANGED book
  BY <1>1, Zenon DEF FuzzSyscall
<1>6. d \in Draws /\ Same(d, g) /\ Send(d) /\ (~made => d.ops = <<>>)
  BY <1>3, <1>4, <1>5
<1>7. d.k = g.k /\ d.ops = g.ops /\ d.ops \in Seq(Op)
  BY <1>6 DEF Same, Draws
<1>8. StepSyscall(Now) =
        Point(input, config,
              IF j < Len(Table) THEN pc ELSE LoopPc(Now),
              IF j < Len(Table) THEN n ELSE LoopN(Now),
              IF j < Len(Table) THEN j + 1 ELSE 1,
              after, g.k, seq, sent[run] \o g.ops,
              IF made THEN <<>> ELSE line,
              IF made THEN loop + Slot(line \o g.ops) ELSE loop,
              IF g.ops = <<>> THEN DOMAIN results ELSE DOMAIN results \cup {loop + 1})
  BY <1>2, <1>3, NowFields DEF StepSyscall, More
<1>9. /\ pc' = IF j < Len(Table) THEN pc ELSE LoopPc(Now)
      /\ n' = IF j < Len(Table) THEN n ELSE LoopN(Now)
      /\ j' = IF j < Len(Table) THEN j + 1 ELSE 1
  BY <1>2, LoopSteps
<1>10. index' = d.k /\ sent'[run'] = sent[run] \o d.ops
  <2> HIDE DEF d
  <2> QED BY <1>2, <1>6, SentHere, Zenon
<1>11. /\ line' = IF made THEN <<>> ELSE line
       /\ loop' = IF made THEN loop + Slot(line \o d.ops) ELSE loop
       /\ DOMAIN results' =
            IF d.ops = <<>> THEN DOMAIN results ELSE DOMAIN results \cup {loop + 1}
  <2> HIDE DEF made, c
  <2>1. CASE ~made
    BY <2>1, <1>5, <1>6 DEF book
  <2>2. CASE made
    <3>1. d = c /\ c.ops \in Seq(Op)
      BY <2>2, <1>7
    <3>2. line' = <<>> /\ loop' = loop + Slot(line \o c.ops)
      BY <2>2, <1>5, <3>1, Stored
    <3>3. CASE c.ops = <<>>
      <4>1. update_fuzz_results(<<>>)
        BY <2>2, <1>5, <3>3
      <4>2. results' = results
        BY <4>1 DEF update_fuzz_results, Typed
      <4> QED BY <2>2, <3>1, <3>2, <3>3, <4>2, Zenon
    <3>4. CASE c.ops # <<>>
      <4>1. PICK p \in Op : c.ops = <<p>>
        BY <1>4, <3>4
      <4>2. PICK r : update_fuzz_results(<<[call |-> p, value |-> r]>>)
        <5>1. c.ops[1] = p
          BY <4>1
        <5> QED BY <2>2, <1>5, <3>4, <5>1, Zenon
      <4>3. DOMAIN results' = DOMAIN results \cup {loop + 1}
        BY <2>2, <1>5, <4>1, <4>2, ResultAdded
      <4> QED BY <2>2, <3>1, <3>2, <3>4, <4>3
    <3> QED BY <3>3, <3>4
  <2> QED BY <2>1, <2>2
<1> HIDE DEF d, g, made
<1> QED BY <1>2, <1>7, <1>8, <1>9, <1>10, <1>11, NowPrime

LEMMA NoSyscallSteps ==
    ASSUME Typed, Plain, NoSyscall
    PROVE  Now' = StepSyscall(Now)
<1>1. ShouldFuzz(Draw)
  BY AtNow, NotOnce DEF Plain
<1>2. /\ "syscall" \notin config /\ Send(Draw) /\ NextLoop
      /\ UNCHANGED <<input, config, run, after, seq, line, loop, results>>
  BY <1>1 DEF NoSyscall, book
<1>3. StepSyscall(Now) =
        Point(input, config, LoopPc(Now), LoopN(Now), 1, after, At(Now).k, seq,
              sent[run] \o At(Now).ops, line, loop, DOMAIN results)
  BY <1>2, AtNow, NowFields DEF StepSyscall, More
<1>4. index' = Draw.k /\ sent'[run'] = sent[run] \o Draw.ops
  BY <1>2, AtNow, SentHere, Zenon
<1> QED BY <1>2, <1>3, <1>4, AtNow, LoopSteps, NowPrime

LEMMA CheckSteps ==
    ASSUME Typed, Plain, CheckPacket
    PROVE  Now' = StepCheck(Now)
<1> DEFINE d == fuzz_to_packet(Draw, TRUE)
           e == fuzz_to_packet(At(Now), TRUE)
<1>1. ShouldFuzz(Draw) /\ should_fuzz(Draw) = Draw
  BY AtNow, NotOnce DEF Plain
<1>2. d \in Draws /\ Same(d, e)
  BY AtNow, DataPacketType, SamePacket, Zenon
<1>3. /\ "packet" \in config => Send(d) /\ update_fuzz_scripts(d.ops)
      /\ "packet" \notin config => Send(Draw) /\ UNCHANGED <<line, scripts, loop>>
      /\ pc' = "check_read"
      /\ UNCHANGED <<input, config, run, n, j, after, seq, results>>
  BY <1>1, Zenon DEF CheckPacket
<1>4. StepCheck(Now) =
        IF "packet" \in config
        THEN Point(input, config, "check_read", n, j, after, e.k, seq,
                   sent[run] \o e.ops, <<>>, loop + Slot(line \o e.ops), DOMAIN results)
        ELSE Point(input, config, "check_read", n, j, after, index, seq, sent[run],
                   line, loop, DOMAIN results)
  BY NowFields DEF StepCheck
<1> HIDE DEF d, e
<1>5. d.k = e.k /\ d.ops = e.ops /\ d.ops \in Seq(Op)
  BY <1>2 DEF Same, Draws
<1>6. CASE "packet" \in config
  <2>1. index' = d.k /\ sent'[run'] = sent[run] \o d.ops
    BY <1>2, <1>3, <1>6, SentHere, Zenon
  <2>2. line' = <<>> /\ loop' = loop + Slot(line \o d.ops)
    BY <1>3, <1>5, <1>6, Stored
  <2> QED BY <1>3, <1>4, <1>5, <1>6, <2>1, <2>2, NowPrime
<1>7. CASE "packet" \notin config
  <2>1. index' = index /\ sent'[run'] = sent[run] \o <<>>
    BY <1>3, <1>7, AtNow, SentHere, Zenon
  <2>2. sent[run] \o <<>> = sent[run]
    BY DEF Typed
  <2> QED BY <1>3, <1>4, <1>7, <2>1, <2>2, NowPrime
<1> QED BY <1>6, <1>7

LEMMA CheckReadSteps ==
    ASSUME Typed, Plain, CheckRead
    PROVE  Now' = StepCheckRead(Now)
<1> DEFINE read == [Comment EXCEPT !.op = "read", !.len = 20]
           d == [Draw EXCEPT !.ops = <<read>>]
           nn == IF n < Checks THEN n + 1 ELSE 1
           at == IF n < Checks THEN "check" ELSE "close"
<1>1. ShouldFuzz(Draw) /\ should_fuzz(Draw) = Draw
  BY AtNow, NotOnce DEF Plain
<1>2. read \in Op
  <2>1. "read" \in OpNames /\ 20 \in Int
    BY DEF OpNames
  <2> QED BY <2>1, CommentType, Zenon DEF Op
<1>3. /\ "syscall" \in config => Send(d) /\ update_fuzz_scripts(<<read>>)
      /\ "syscall" \notin config => Send(Draw) /\ UNCHANGED <<line, scripts, loop>>
      /\ n' = nn /\ pc' = at
      /\ UNCHANGED <<input, config, run, j, after, seq, results>>
  BY <1>1 DEF CheckRead
<1>4. StepCheckRead(Now) =
        IF "syscall" \in config
        THEN Point(input, config, at, nn, j, after, index, seq, sent[run] \o <<read>>,
                   <<>>, loop + Slot(line \o <<read>>), DOMAIN results)
        ELSE Point(input, config, at, nn, j, after, index, seq, sent[run],
                   line, loop, DOMAIN results)
  BY NowFields DEF StepCheckRead
<1> HIDE DEF read, nn, at
<1>5. d \in Draws /\ d.ops = <<read>> /\ <<read>> \in Seq(Op)
  BY <1>2, AtNow, SetOps
<1>6. d.k = index
  BY AtNow DEF Draws
<1> HIDE DEF d
<1>7. CASE "syscall" \in config
  <2>1. index' = index /\ sent'[run'] = sent[run] \o <<read>>
    BY <1>3, <1>5, <1>6, <1>7, SentHere, Zenon
  <2>2. line' = <<>> /\ loop' = loop + Slot(line \o <<read>>)
    BY <1>3, <1>5, <1>7, Stored, Zenon
  <2> QED BY <1>3, <1>4, <1>7, <2>1, <2>2, NowPrime
<1>8. CASE "syscall" \notin config
  <2>1. index' = index /\ sent'[run'] = sent[run] \o <<>>
    BY <1>3, <1>8, AtNow, SentHere, Zenon
  <2>2. sent[run] \o <<>> = sent[run]
    BY DEF Typed
  <2> QED BY <1>3, <1>4, <1>8, <2>1, <2>2, NowPrime
<1> QED BY <1>7, <1>8

LEMMA CloseSteps ==
    ASSUME Typed, Close
    PROVE  Now' = StepClose(Now)
<1> DEFINE close == [Comment EXCEPT !.op = "close"]
           d == [Draw EXCEPT !.ops = <<close>>]
<1>1. close \in Op
  BY DEF Comment, Op, OpNames
<1>2. /\ Send(d) /\ update_fuzz_scripts(<<close>>) /\ update_fuzz_results(<<>>)
      /\ after' = TRUE /\ pc' = LoopTop
      /\ UNCHANGED <<input, config, run, n, j, seq>>
  BY DEF Close
<1>3. StepClose(Now) =
        Point(input, config, Top(Now), n, j, TRUE, index, seq, sent[run] \o <<close>>,
              <<>>, loop + Slot(line \o <<close>>), DOMAIN results)
  BY NowFields DEF StepClose
<1>4. results' = results
  BY <1>2 DEF update_fuzz_results, Typed
<1> HIDE DEF close
<1>5. d \in Draws /\ d.ops = <<close>> /\ <<close>> \in Seq(Op)
  BY <1>1, AtNow, SetOps
<1>6. d.k = index
  BY AtNow DEF Draws
<1> HIDE DEF d
<1>7. index' = index /\ sent'[run'] = sent[run] \o <<close>>
  BY <1>2, <1>5, <1>6, SentHere, Zenon
<1>8. line' = <<>> /\ loop' = loop + Slot(line \o <<close>>)
  BY <1>2, <1>5, Stored, Zenon
<1> QED BY <1>2, <1>3, <1>4, <1>7, <1>8, TopNow, NowPrime


\* The steps of a run, apart from its end.
RunStep ==
    \/ fuzz_three_way_handshake_packets \/ HandshakeDone
    \/ FuzzNormal \/ FuzzSecond \/ FuzzSyscall \/ NoSyscall
    \/ CheckPacket \/ CheckRead \/ Close

\* Every step of a run goes to the next point.
LEMMA NowSteps ==
    ASSUME Typed, Recorded, Plain, RunStep, pc' # "exited"
    PROVE  Now' = Step(Now) /\ Now.pc # "finish"
<1>0. Now.pc = pc
  BY NowFields
<1>1. CASE fuzz_three_way_handshake_packets \/ HandshakeDone
  <2>1. pc = "handshake" /\ Now' = StepHandshake(Now)
    BY <1>1, HandshakeSteps, HandshakeEnds
       DEF fuzz_three_way_handshake_packets, HandshakeDone
  <2> QED BY <1>0, <2>1 DEF Step
<1>2. CASE FuzzNormal
  <2>1. pc = "normal" /\ Now' = StepNormal(Now)
    BY <1>2, NormalSteps DEF FuzzNormal
  <2> QED BY <1>0, <2>1 DEF Step
<1>3. CASE FuzzSecond
  <2>1. pc = "second" /\ Now' = StepSecond(Now)
    BY <1>3, SecondSteps DEF FuzzSecond
  <2> QED BY <1>0, <2>1 DEF Step
<1>4. CASE FuzzSyscall \/ NoSyscall
  <2>1. pc = "syscall" /\ Now' = StepSyscall(Now)
    BY <1>4, SyscallSteps, NoSyscallSteps, Zenon DEF FuzzSyscall, NoSyscall
  <2> QED BY <1>0, <2>1 DEF Step
<1>5. CASE CheckPacket
  <2>1. pc = "check" /\ Now' = StepCheck(Now)
    BY <1>5, CheckSteps, Zenon DEF CheckPacket
  <2> QED BY <1>0, <2>1 DEF Step
<1>6. CASE CheckRead
  <2>1. pc = "check_read" /\ Now' = StepCheckRead(Now)
    BY <1>6, CheckReadSteps DEF CheckRead
  <2> QED BY <1>0, <2>1 DEF Step
<1>7. CASE Close
  <2>1. pc = "close" /\ Now' = StepClose(Now)
    BY <1>7, CloseSteps DEF Close
  <2> QED BY <1>0, <2>1 DEF Step
<1> QED BY <1>1, <1>2, <1>3, <1>4, <1>5, <1>6, <1>7 DEF RunStep

----------------------------------------------------------------------------
(* Prefixes. *)

LEMMA PrefixSelf ==
    ASSUME NEW a \in Seq(Op)
    PROVE  IsPrefix(a, a)
BY DEF IsPrefix

LEMMA PrefixLonger ==
    ASSUME NEW a \in Seq(Op), NEW b \in Seq(Op), NEW c \in Seq(Op), IsPrefix(a, b)
    PROVE  IsPrefix(a, b \o c)
<1>1. Len(a) <= Len(b) /\ SubSeq(a, 1, Len(a)) = SubSeq(b, 1, Len(a))
  BY DEF IsPrefix
<1>2. b \o c \in Seq(Op) /\ Len(b \o c) = Len(b) + Len(c)
  OBVIOUS
<1>3. \A i \in 1..Len(a) : (b \o c)[i] = b[i]
  BY <1>1
<1>4. SubSeq(b \o c, 1, Len(a)) = SubSeq(b, 1, Len(a))
  BY <1>1, <1>2, <1>3
<1> QED BY <1>1, <1>2, <1>4 DEF IsPrefix

----------------------------------------------------------------------------
(* The points that the first run passes.  They are closed under Step, up to *)
(* the point where the run is or ended, so that the second run, which takes *)
(* the same steps from the same start, never leaves them.                   *)

Passed(S) ==
    /\ Start \in S
    /\ \A s \in S : s.out \in Seq(Op) /\ IsPrefix(s.out, sent[1])

FirstRun(S) ==
    /\ Now \in S /\ sent[2] = <<>>
    /\ \A s \in S : s # Now => s.pc # "finish" /\ Step(s) \in S

SecondRunIn(S) ==
    /\ \A s \in S : s.pc # "finish" => Step(s) \in S
    /\ \A s \in S : s.pc = "finish" => s.out = sent[1] /\ s.slots = DOMAIN step1
    /\ pc # "compared" => Now \in S

Compared ==
    /\ sent[2] = sent[1]
    /\ DOMAIN results = DOMAIN step1
    /\ verdict = fuzz_test_result_compare(step1, results)

Traced(S) ==
    /\ Passed(S)
    /\ run = 1 => FirstRun(S)
    /\ run = 2 => SecondRunIn(S)

Repeats ==
    /\ pc = "exited" => run = 1
    /\ pc = "compared" => run = 2
    /\ Plain /\ pc # "exited" => \E S : Traced(S)
    /\ Plain /\ pc = "compared" => Compared

\* A step only appends operations.
LEMMA StepGrows ==
    ASSUME Typed, Typed', RunStep
    PROVE  /\ UNCHANGED <<input, config, run, step1>> /\ pc \notin {"exited", "compared", "finish"}
           /\ pc' # "compared"
           /\ \A i \in 1..2 : i # run => sent'[i] = sent[i]
           /\ \A a \in Seq(Op) : IsPrefix(a, sent[run]) => IsPrefix(a, sent'[run])
<1>1. /\ UNCHANGED <<input, config, run, step1>>
      /\ pc \notin {"exited", "compared", "finish"} /\ pc' # "compared"
  <2>1. LoopTop \in {"normal", "syscall"}
    BY LoopTopType
  <2> QED BY <2>1, Zenon DEF RunStep, fuzz_three_way_handshake_packets, HandshakeDone, FuzzNormal,
          FuzzSecond, FuzzSyscall, NoSyscall, CheckPacket, CheckRead, Close, NextLoop
<1>2. UNCHANGED sent \/ \E d \in Draws : Send(d)
  <2>0. Draw \in Draws /\ should_fuzz(Draw) \in Draws /\ j \in Nat
    BY DrawType, ShouldFuzzType DEF Typed
  <2>1. CASE fuzz_three_way_handshake_packets
    BY <2>0, <2>1, HandshakeType DEF fuzz_three_way_handshake_packets
  <2>2. CASE HandshakeDone
    BY <2>2 DEF HandshakeDone
  <2>3. CASE FuzzNormal
    BY <2>0, <2>3, NormalType DEF FuzzNormal
  <2>4. CASE FuzzSecond
    BY <2>0, <2>4, SecondType DEF FuzzSecond
  <2>5. CASE FuzzSyscall
    <3>1. pc = "syscall" /\ j \in 1..Len(Table)
      BY <2>5 DEF FuzzSyscall, Typed
    <3>2. read_byte(should_fuzz(Draw)) \in Draws /\ read_byte(should_fuzz(Draw)).ops = <<>>
      BY <2>0, DrawType, ShouldFuzzType, ReadByteType
    <3>3. Call(read_byte(should_fuzz(Draw)), j) \in Draws
      BY <3>1, <3>2, CallType
    <3> QED BY <2>5, <3>2, <3>3 DEF FuzzSyscall
  <2>6. CASE NoSyscall
    BY <2>0, <2>6 DEF NoSyscall
  <2>7. CASE CheckPacket
    <3>1. fuzz_to_packet(should_fuzz(Draw), TRUE) \in Draws
      BY <2>0, DataPacketType, Zenon
    <3> QED BY <2>0, <2>7, <3>1, Zenon DEF CheckPacket
  <2>8. CASE CheckRead
    <3> DEFINE read == [Comment EXCEPT !.op = "read", !.len = 20]
               d == IF "syscall" \in config THEN should_fuzz(Draw) ELSE Draw
    <3>1. read \in Op
      <4>1. "read" \in OpNames /\ 20 \in Int
        BY DEF OpNames
      <4> QED BY <4>1, CommentType, Zenon DEF Op
    <3>2. Send([d EXCEPT !.ops = <<read>>]) \/ Send(d)
      BY <2>8 DEF CheckRead
    <3> HIDE DEF read
    <3>3. d \in Draws
      BY <2>0
    <3> HIDE DEF d
    <3>4. [d EXCEPT !.ops = <<read>>] \in Draws
      BY <3>1, <3>3, SetOps, Zenon
    <3> QED BY <3>2, <3>3, <3>4
  <2>9. CASE Close
    <3> DEFINE close == [Comment EXCEPT !.op = "close"]
    <3>1. close \in Op
      BY DEF Comment, Op, OpNames
    <3>2. Send([Draw EXCEPT !.ops = <<close>>])
      BY <2>9 DEF Close
    <3> HIDE DEF close
    <3>3. [Draw EXCEPT !.ops = <<close>>] \in Draws
      BY <2>0, <3>1, SetOps, Zenon
    <3> QED BY <3>2, <3>3
  <2> QED BY <2>1, <2>2, <2>3, <2>4, <2>5, <2>6, <2>7, <2>8, <2>9 DEF RunStep
<1>3. CASE UNCHANGED sent
  BY <1>1, <1>3
<1>4. ASSUME NEW d \in Draws, Send(d)
      PROVE  /\ \A i \in 1..2 : i # run => sent'[i] = sent[i]
             /\ \A a \in Seq(Op) : IsPrefix(a, sent[run]) => IsPrefix(a, sent'[run])
  <2>1. sent'[run] = sent[run] \o d.ops /\ \A i \in (1..2) \ {run} : sent'[i] = sent[i]
    BY <1>4, SendType, Zenon
  <2>2. sent[run] \in Seq(Op) /\ d.ops \in Seq(Op)
    BY Zenon DEF Typed, Draws
  <2>3. \A a \in Seq(Op) : IsPrefix(a, sent[run]) => IsPrefix(a, sent'[run])
    BY <2>1, <2>2, PrefixLonger
  <2> QED BY <2>1, <2>3
<1> QED BY <1>1, <1>2, <1>3, <1>4


\* A step inside a run keeps Repeats.
LEMMA RunRepeats ==
    ASSUME Typed, Typed', Recorded, Repeats, RunStep
    PROVE  Repeats'
<1>1. /\ UNCHANGED <<input, config, run, step1>>
      /\ pc \notin {"exited", "compared", "finish"} /\ pc' # "compared"
      /\ \A i \in 1..2 : i # run => sent'[i] = sent[i]
      /\ \A a \in Seq(Op) : IsPrefix(a, sent[run]) => IsPrefix(a, sent'[run])
  BY StepGrows
<1>2. pc' = "exited" => run' = 1
  BY <1>1, LoopTopType DEF RunStep, fuzz_three_way_handshake_packets,
     HandshakeDone, FuzzNormal, FuzzSecond, FuzzSyscall, NoSyscall, CheckPacket,
     CheckRead, Close, NextLoop
<1>3. ASSUME Plain', pc' # "exited" PROVE \E S : Traced(S)'
  <2>1. Plain
    BY <1>1, <1>3 DEF Plain
  <2>2. PICK S : Traced(S)
    BY <1>1, <2>1 DEF Repeats
  <2>3. Now' = Step(Now) /\ Now.pc # "finish" /\ Now.pc = pc
    BY <1>3, <2>1, NowSteps, NowFields
  <2>4. Now'.out = sent'[run]
    BY <1>1, NowPrime DEF Point
  <2>5. Start' = Start
    BY <1>1 DEF Start, Point
  <2>6. CASE run = 1
    <3>1. PICK T : T = S \cup {Now'}
      BY Zenon
    <3>2. Passed(S) /\ FirstRun(S)
      BY <2>2, <2>6 DEF Traced
    <3>3. ASSUME NEW s \in T
          PROVE  s.out \in Seq(Op) /\ IsPrefix(s.out, sent'[1])
      <4>1. CASE s \in S
        BY <1>1, <2>6, <3>2, <4>1 DEF Passed
      <4>2. CASE s = Now'
        <5>1. sent'[1] \in Seq(Op)
          BY DEF Typed
        <5> QED BY <2>4, <2>6, <4>2, <5>1, PrefixSelf
      <4> QED BY <3>1, <3>3, <4>1, <4>2
    <3>4. Passed(T)'
      BY <2>5, <3>1, <3>2, <3>3 DEF Passed
    <3>5. ASSUME NEW s \in T, s # Now'
          PROVE  s.pc # "finish" /\ Step(s) \in T
      <4>1. s \in S
        BY <3>1, <3>5
      <4>2. CASE s = Now
        BY <2>3, <3>1, <4>2
      <4>3. CASE s # Now
        BY <3>1, <3>2, <4>1, <4>3 DEF FirstRun
      <4> QED BY <4>2, <4>3
    <3>6. FirstRun(T)'
      <4>1. sent'[2] = <<>>
        BY <1>1, <2>6, <3>2 DEF FirstRun
      <4> QED BY <3>1, <3>5, <4>1 DEF FirstRun
    <3> QED BY <1>1, <2>6, <3>4, <3>6 DEF Traced
  <2>7. CASE run = 2
    <3>1. Passed(S) /\ SecondRunIn(S)
      BY <2>2, <2>7 DEF Traced
    <3>2. sent'[1] = sent[1]
      BY <1>1, <2>7
    <3>3. Passed(S)'
      BY <2>5, <3>1, <3>2 DEF Passed
    <3>4. Now' \in S
      BY <1>1, <2>3, <3>1 DEF SecondRunIn
    <3>5. SecondRunIn(S)'
      BY <1>1, <3>1, <3>2, <3>4 DEF SecondRunIn
    <3> QED BY <1>1, <2>7, <3>3, <3>5 DEF Traced
  <2> QED BY <2>6, <2>7 DEF Typed
<1> QED BY <1>1, <1>2, <1>3 DEF Repeats

\* So does the start of the second run.
LEMMA SecondRepeats ==
    ASSUME Typed, Repeats, SecondRun
    PROVE  Repeats'
<1>1. /\ pc = "finish" /\ run = 1 /\ run' = 2 /\ pc' = "handshake" /\ step1' = results
      /\ UNCHANGED <<input, config, sent>>
      /\ n' = 0 /\ j' = 0 /\ after' = FALSE /\ index' = 0 /\ seq' = 1 /\ loop' = 0
      /\ line' = <<>> /\ results' = <<>>
  BY DEF SecondRun, Reinit, NoSlots
<1>2. ASSUME Plain' PROVE \E S : Traced(S)'
  <2>1. PICK S : Passed(S) /\ FirstRun(S)
    BY <1>1, <1>2 DEF Repeats, Plain, Traced
  <2>2. Now.pc = "finish" /\ Now.out = sent[1] /\ Now.slots = DOMAIN results
    BY <1>1, NowFields
  <2>3. Start' = Start
    BY <1>1 DEF Start, Point
  <2>4. Now' = Start
    <3>1. sent'[run'] = <<>> /\ DOMAIN results' = {}
      BY <1>1, <2>1 DEF FirstRun
    <3>2. Now' = Point(input, config, "handshake", 0, 0, after', 0, 1, <<>>, <<>>, 0, {})
      BY <1>1, <3>1, NowPrime
    <3> QED BY <1>1, <3>2, Zenon DEF Start
  <2>5. Passed(S)'
    BY <1>1, <2>1, <2>3 DEF Passed
  <2>6. SecondRunIn(S)'
    <3>1. \A s \in S : s.pc # "finish" => Step(s) \in S
      BY <2>1, <2>2 DEF FirstRun
    <3>2. \A s \in S : s.pc = "finish" => s.out = sent'[1] /\ s.slots = DOMAIN step1'
      BY <1>1, <2>1, <2>2 DEF FirstRun
    <3>3. Now' \in S
      BY <2>1, <2>4 DEF Passed
    <3> QED BY <3>1, <3>2, <3>3 DEF SecondRunIn
  <2> QED BY <1>1, <2>5, <2>6 DEF Traced
<1> QED BY <1>1, <1>2 DEF Repeats

\* So does the comparison.
LEMMA CompareRepeats ==
    ASSUME Typed, Repeats, Compare
    PROVE  Repeats'
<1>1. /\ pc = "finish" /\ run = 2 /\ pc' = "compared"
      /\ verdict' = fuzz_test_result_compare(step1, results)
      /\ UNCHANGED <<input, config, run, results, step1, sent>>
  BY DEF Compare, book
<1>2. ASSUME Plain' PROVE (\E S : Traced(S)') /\ Compared'
  <2>1. PICK S : Passed(S) /\ SecondRunIn(S)
    BY <1>1, <1>2 DEF Repeats, Plain, Traced
  <2>2. Now.pc = "finish" /\ Now.out = sent[2] /\ Now.slots = DOMAIN results
    BY <1>1, NowFields
  <2>3. sent[2] = sent[1] /\ DOMAIN results = DOMAIN step1
    BY <1>1, <2>1, <2>2 DEF SecondRunIn
  <2>4. Compared'
    BY <1>1, <2>3 DEF Compared, fuzz_test_result_compare
  <2>5. Start' = Start
    BY <1>1 DEF Start, Point
  <2>6. Passed(S)'
    BY <1>1, <2>1, <2>5 DEF Passed
  <2>7. SecondRunIn(S)'
    BY <1>1, <2>1 DEF SecondRunIn
  <2> QED BY <1>1, <2>4, <2>6, <2>7 DEF Traced
<1> QED BY <1>1, <1>2 DEF Repeats

LEMMA StayRepeats ==
    ASSUME Repeats, UNCHANGED vars
    PROVE  Repeats'
<1>1. UNCHANGED <<input, config, run, pc, n, j, after, index, seq, line, loop,
                  results, step1, verdict, sent>>
  BY DEF vars, book
<1>2. Start' = Start /\ Now' = Now
  BY <1>1 DEF Start, Now, Point
<1>3. ASSUME NEW S, Traced(S) PROVE Traced(S)'
  BY <1>1, <1>2, <1>3 DEF Traced, Passed, FirstRun, SecondRunIn
<1>4. Compared => Compared'
  BY <1>1 DEF Compared, fuzz_test_result_compare
<1> QED BY <1>1, <1>3, <1>4 DEF Repeats, Plain

LEMMA NextRepeats ==
    ASSUME Typed, Typed', Recorded, Repeats, [Next]_vars
    PROVE  Repeats'
BY RunRepeats, SecondRepeats, CompareRepeats, StayRepeats DEF Next, RunStep, Ended

LEMMA InitRepeats == Init => Repeats
<1> SUFFICES ASSUME Init PROVE Repeats
  OBVIOUS
<1>1. sent[1] = <<>> /\ sent[2] = <<>> /\ run = 1 /\ pc = "handshake"
  BY DEF Init
<1>2. Now = Start
  <2>1. DOMAIN results = {}
    BY DEF Init, NoSlots
  <2> QED BY <1>1, <2>1, Zenon DEF Now, Start, Init
<1>3. PICK S : S = {Start}
  BY Zenon
<1>4. Start.out = <<>>
  BY DEF Start, Point
<1>5. sent[1] \in Seq(Op)
  BY <1>1
<1>6. IsPrefix(sent[1], sent[1])
  BY <1>5, PrefixSelf
<1>7. Passed(S)
  BY <1>1, <1>3, <1>4, <1>5, <1>6, Zenon DEF Passed
<1>8. FirstRun(S)
  BY <1>1, <1>2, <1>3 DEF FirstRun
<1>9. Traced(S)
  BY <1>1, <1>7, <1>8 DEF Traced
<1> QED BY <1>1, <1>9 DEF Repeats

\* Without --fuzz_once the kernel is given exactly what the shared object was
\* given: after every step of the second run its operations are a prefix of
\* those of the first, and when the results are compared they are the same,
\* whatever the calls returned and whatever the first run left behind in
\* has_fuzzed_once and last_packet_data_length.
THEOREM SecondRunRepeats == Spec => []("once" \notin config => SameOperations)
<1>1. Init => Typed /\ Recorded /\ Repeats
  BY InitTyped, InitRecorded, InitRepeats
<1>2. Typed /\ Recorded /\ Repeats /\ [Next]_vars => (Typed /\ Recorded /\ Repeats)'
  BY NextTyped, NextRecorded, NextRepeats
<1>3. Typed /\ Recorded /\ Repeats => ("once" \notin config => SameOperations)
  <2> SUFFICES ASSUME Typed, Repeats, Plain PROVE SameOperations
    BY DEF Plain
  <2>1. sent[1] \in Seq(Op)
    BY DEF Typed
  <2>2. pc = "compared" => sent[2] = sent[1]
    BY DEF Repeats, Compared
  <2>3. ASSUME run = 2, pc # "compared" PROVE IsPrefix(sent[2], sent[1])
    <3>1. PICK S : Passed(S) /\ SecondRunIn(S)
      BY <2>3 DEF Repeats, Traced
    <3>2. Now \in S /\ Now.out = sent[2]
      BY <2>3, <3>1, NowFields DEF SecondRunIn
    <3> QED BY <3>1, <3>2 DEF Passed
  <2> QED BY <2>1, <2>2, <2>3, PrefixSelf DEF SameOperations
<1> QED BY <1>1, <1>2, <1>3, PTL DEF Spec


----------------------------------------------------------------------------
(* The verdict. *)

\* Every non-empty set of natural numbers has a least element.
LEMMA NatMin ==
    ASSUME NEW S \in SUBSET Nat, S # {}
    PROVE  \E x \in S : \A y \in S : x <= y
<1> DEFINE R == OpToRel(<, Nat)
<1>1. IsWellFoundedOn(R, Nat)
  BY NatLessThanWellFounded, Zenon
<1>2. PICK x \in S : \A y \in S : ~ (<<y, x>> \in R)
  <2> HIDE DEF R
  <2> QED BY <1>1, WFMin, Zenon
<1>3. R = {ss \in Nat \X Nat : ss[1] < ss[2]}
  BY Zenon DEF OpToRel
<1>4. ASSUME NEW y \in S PROVE x <= y
  <2> HIDE DEF R
  <2>1. <<y, x>> \in Nat \X Nat
    OBVIOUS
  <2>2. ~(y < x)
    BY <1>2, <1>3, <2>1
  <2> QED BY <2>2
<1> QED BY <1>4

\* The two arrays of results are arrays.
IsArray(f) == f = [i \in DOMAIN f |-> f[i]]

Arrays == IsArray(results) /\ IsArray(step1)

LEMMA PutArray ==
    ASSUME NEW f, NEW i, NEW what
    PROVE  IsArray(Put(f, i, what))
BY DEF IsArray, Put

LEMMA EmptyArray == IsArray(<<>>)
BY DEF IsArray

\* Every step keeps the results arrays.
LEMMA NextArrays ==
    ASSUME Arrays, [Next]_vars
    PROVE  Arrays'
<1>1. ASSUME NEW text, update_fuzz_results(text) PROVE IsArray(results')
  <2>1. PICK all : IF all = <<>> THEN UNCHANGED results
                   ELSE results' = Put(results, loop', all)
    BY <1>1, Zenon DEF update_fuzz_results
  <2> QED BY <2>1, PutArray DEF Arrays
<1>2. IsArray(results')
  <2>1. CASE UNCHANGED results
    BY <2>1 DEF Arrays
  <2>2. CASE FuzzSyscall
    <3>1. \/ UNCHANGED book
          \/ \E text : update_fuzz_results(text)
      BY <2>2, Zenon DEF FuzzSyscall
    <3> QED BY <1>1, <2>1, <3>1 DEF book
  <2>3. CASE Close
    <3>1. update_fuzz_results(<<>>)
      BY <2>3 DEF Close
    <3> QED BY <1>1, <3>1
  <2>4. CASE SecondRun
    BY <2>4, EmptyArray DEF SecondRun, Reinit, NoSlots
  <2>5. CASE \/ fuzz_three_way_handshake_packets \/ HandshakeDone \/ FuzzNormal
             \/ FuzzSecond \/ NoSyscall \/ CheckPacket \/ CheckRead \/ Compare
             \/ Ended \/ UNCHANGED vars
    BY <2>1, <2>5, Zenon DEF fuzz_three_way_handshake_packets, HandshakeDone, FuzzNormal,
       FuzzSecond, NoSyscall, CheckPacket, CheckRead, Compare, Ended, vars, book
  <2> QED BY <2>2, <2>3, <2>4, <2>5 DEF Next
<1>3. step1' = step1 \/ step1' = results
  BY Zenon DEF Next, fuzz_three_way_handshake_packets, HandshakeDone, FuzzNormal,
     FuzzSecond, FuzzSyscall, NoSyscall, CheckPacket, CheckRead, Close, SecondRun,
     Compare, Ended, vars
<1> QED BY <1>2, <1>3 DEF Arrays

\* fuzz_test_result_compare() on two arrays with the same slots set.
LEMMA CompareExact ==
    ASSUME NEW a, NEW b, IsArray(a), IsArray(b),
           DOMAIN a = DOMAIN b, DOMAIN b \subseteq Nat
    PROVE  fuzz_test_result_compare(a, b) = -1 <=> a = b
<1> DEFINE different == {i \in DOMAIN a \cap DOMAIN b : a[i] # b[i]}
<1>1. CASE different = {}
  <2>1. fuzz_test_result_compare(a, b) = -1
    BY <1>1 DEF fuzz_test_result_compare
  <2>2. \A i \in DOMAIN a : a[i] = b[i]
    BY <1>1
  <2>3. a = b
    BY <2>2 DEF IsArray
  <2> QED BY <2>1, <2>3
<1>2. CASE different # {}
  <2>1. a # b
    BY <1>2
  <2>2. fuzz_test_result_compare(a, b) =
          CHOOSE i \in different : \A k \in different : i <= k
    BY <1>2 DEF fuzz_test_result_compare
  <2>3. different \in SUBSET Nat
    OBVIOUS
  <2> HIDE DEF different
  <2>4. \E i \in different : \A k \in different : i <= k
    BY <1>2, <2>3, NatMin
  <2>5. fuzz_test_result_compare(a, b) \in different
    BY <2>2, <2>4
  <2>6. fuzz_test_result_compare(a, b) # -1
    BY <2>3, <2>5
  <2> QED BY <2>1, <2>6
<1> QED BY <1>1, <1>2

\* Without --fuzz_once fuzz_test_result_compare() says that the two stacks
\* agree (-1) exactly if every call of the second run returned what the call
\* of the first run did.  It passes over slots that are set in only one of the
\* arrays; the two runs set the same ones.
THEOREM VerdictsAreExact == Spec => []("once" \notin config => VerdictIsExact)
<1>1. Init => Typed /\ Recorded /\ Repeats /\ Arrays
  <2>1. Init => Arrays
    BY EmptyArray DEF Init, Arrays, NoSlots
  <2> QED BY <2>1, InitTyped, InitRecorded, InitRepeats
<1>2. Typed /\ Recorded /\ Repeats /\ Arrays /\ [Next]_vars
        => (Typed /\ Recorded /\ Repeats /\ Arrays)'
  BY NextTyped, NextRecorded, NextRepeats, NextArrays
<1>3. Typed /\ Recorded /\ Repeats /\ Arrays => ("once" \notin config => VerdictIsExact)
  <2> SUFFICES ASSUME Typed, Recorded, Repeats, Arrays, Plain, pc = "compared"
               PROVE  verdict = -1 <=> step1 = results
    BY DEF Plain, VerdictIsExact
  <2>1. /\ DOMAIN step1 = DOMAIN results
        /\ verdict = fuzz_test_result_compare(step1, results)
    BY DEF Repeats, Compared
  <2>2. DOMAIN results \subseteq Nat
    BY DEF Recorded, Typed
  <2> QED BY <2>1, <2>2, CompareExact DEF Arrays
<1> QED BY <1>1, <1>2, <1>3, PTL DEF Spec

=============================================================================
