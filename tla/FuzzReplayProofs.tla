-------------------------- MODULE FuzzReplayProofs --------------------------
(* Theorems about FuzzReplay, for every set of fuzz files, every template   *)
(* script and table of calls, and every number of iterations.               *)
EXTENDS FuzzReplay, FiniteSetTheorems, SequenceTheorems, TLAPS

----------------------------------------------------------------------------
(* What the generators return. *)

OpNames == {"template", "packet", "sized", "plain", "read", "close", "comment"}

Op == [op : OpNames, seq : Int, len : Int, err : Int]

Draws == [file : Seq(Nat), flags : SUBSET Flags, k : Nat, fuzzed : BOOLEAN,
          seq : Int, len : Int, ops : Seq(Op)]

LEMMA PeekType ==
    ASSUME NEW d \in Draws
    PROVE  Peek(d) \in Nat
<1>1. CASE d.k < Len(d.file)
  <2>1. Len(d.file) \in Nat /\ \A i \in 1..Len(d.file) : d.file[i] \in Nat
    BY DEF Draws
  <2>2. d.k + 1 \in 1..Len(d.file)
    BY <1>1, <2>1 DEF Draws
  <2> QED BY <1>1, <2>1, <2>2 DEF Peek
<1>2. CASE ~(d.k < Len(d.file))
  BY <1>2 DEF Peek
<1> QED BY <1>1, <1>2

LEMMA ReadByteType ==
    ASSUME NEW d \in Draws
    PROVE  /\ read_byte(d) \in Draws
           /\ read_byte(d).ops = d.ops /\ read_byte(d).seq = d.seq
           /\ read_byte(d).len = d.len /\ read_byte(d).flags = d.flags
<1>1. CASE d.k < Len(d.file)
  <2>1. read_byte(d) = [d EXCEPT !.k = d.k + 1]
    BY <1>1 DEF read_byte, Draws
  <2>2. d.k + 1 \in Nat
    BY DEF Draws
  <2> QED BY <2>1, <2>2, Zenon DEF Draws
<1>2. CASE ~(d.k < Len(d.file))
  BY <1>2 DEF read_byte
<1> QED BY <1>1, <1>2

LEMMA ShouldFuzzType ==
    ASSUME NEW d \in Draws
    PROVE  /\ should_fuzz(d) \in Draws
           /\ should_fuzz(d).ops = d.ops /\ should_fuzz(d).seq = d.seq
           /\ should_fuzz(d).len = d.len /\ should_fuzz(d).flags = d.flags
<1>1. ShouldFuzz(d) \in BOOLEAN
  BY DEF ShouldFuzz
<1>2. [read_byte(d) EXCEPT !.fuzzed = ShouldFuzz(d)] \in Draws
  BY <1>1, ReadByteType DEF Draws
<1> QED BY <1>2, ReadByteType, Zenon DEF should_fuzz, Draws

LEMMA PacketType ==
    ASSUME NEW d \in Draws, NEW data
    PROVE  /\ fuzz_to_packet(d, data) \in Draws
           /\ Len(fuzz_to_packet(d, data).ops) = Len(d.ops) + 1
           /\ \E p \in Op : /\ fuzz_to_packet(d, data).ops = Append(d.ops, p)
                            /\ p.op = "packet"
           /\ fuzz_to_packet(d, data).seq = d.seq
           /\ fuzz_to_packet(d, data).flags = d.flags
<1> DEFINE size == IF data THEN Peek(d) ELSE 0
           p == [op |-> "packet", len |-> size, err |-> 0,
                 seq |-> IF "free" \in d.flags THEN Peek(d) ELSE d.seq]
<1>1. p \in Op /\ size \in Int /\ p.op = "packet"
  <2>1. Peek(d) \in Int /\ d.seq \in Int
    BY PeekType DEF Draws
  <2>2. size \in Int /\ p.seq \in Int
    BY <2>1
  <2> QED BY <2>2 DEF Op, OpNames
<1>2. fuzz_to_packet(d, data) = [read_byte(d) EXCEPT !.len = size, !.ops = Append(@, p)]
  BY DEF fuzz_to_packet
<1> HIDE DEF p, size
<1>3. /\ read_byte(d) \in Draws /\ read_byte(d).ops = d.ops
      /\ read_byte(d).seq = d.seq /\ read_byte(d).flags = d.flags
  BY ReadByteType
<1>4. Append(d.ops, p) \in Seq(Op) /\ Len(Append(d.ops, p)) = Len(d.ops) + 1
  BY <1>1 DEF Draws
<1>5. fuzz_to_packet(d, data) \in Draws
  BY <1>1, <1>2, <1>3, <1>4, ZenonT(30) DEF Draws
<1>6. /\ fuzz_to_packet(d, data).ops = Append(d.ops, p)
      /\ fuzz_to_packet(d, data).seq = d.seq
      /\ fuzz_to_packet(d, data).flags = d.flags
  BY <1>2, <1>3 DEF Draws
<1> QED BY <1>1, <1>4, <1>5, <1>6

LEMMA DataPacketType ==
    ASSUME NEW d \in Draws
    PROVE  /\ fuzz_to_packet(d, TRUE) \in Draws
           /\ Len(fuzz_to_packet(d, TRUE).ops) > 0
           /\ fuzz_to_packet(d, TRUE).seq = d.seq
           /\ fuzz_to_packet(d, TRUE).flags = d.flags
<1> DEFINE p == fuzz_to_packet(d, TRUE)
<1>1. /\ p \in Draws /\ Len(p.ops) = Len(d.ops) + 1
      /\ p.seq = d.seq /\ p.flags = d.flags
  BY PacketType, Zenon
<1> HIDE DEF p
<1>2. Len(p.ops) > 0
  BY <1>1 DEF Draws
<1> QED BY <1>1, <1>2, Zenon DEF p

LEMMA ErrorType ==
    ASSUME NEW d \in Draws, Len(d.ops) > 0
    PROVE  /\ inject_error_to_packet(d) \in Draws
           /\ Len(inject_error_to_packet(d).ops) = Len(d.ops)
           /\ \A i \in DOMAIN d.ops : inject_error_to_packet(d).ops[i].op = d.ops[i].op
           /\ inject_error_to_packet(d).seq = d.seq
           /\ inject_error_to_packet(d).len = d.len
           /\ inject_error_to_packet(d).flags = d.flags
<1>1. /\ read_byte(d) \in Draws /\ read_byte(d).ops = d.ops
      /\ read_byte(d).seq = d.seq /\ read_byte(d).len = d.len
      /\ read_byte(d).flags = d.flags
  BY ReadByteType
<1>2. Peek(d) \in Nat
  BY PeekType
<1> DEFINE ops == [d.ops EXCEPT ![Len(d.ops)].err = 1 + Peek(d)]
<1>3. inject_error_to_packet(d) = [read_byte(d) EXCEPT !.ops = ops]
  BY <1>1 DEF inject_error_to_packet, Draws
<1>4. /\ ops \in Seq(Op) /\ Len(ops) = Len(d.ops)
      /\ \A i \in DOMAIN d.ops : ops[i].op = d.ops[i].op
  <2>1. d.ops \in Seq(Op) /\ Len(d.ops) \in DOMAIN d.ops
    BY DEF Draws
  <2>2. d.ops[Len(d.ops)] \in Op
    BY <2>1
  <2>3. [d.ops[Len(d.ops)] EXCEPT !.err = 1 + Peek(d)] \in Op
    <3>1. 1 + Peek(d) \in Int
      BY <1>2
    <3> QED BY <2>2, <3>1 DEF Op
  <2>4. [d.ops[Len(d.ops)] EXCEPT !.err = 1 + Peek(d)].op = d.ops[Len(d.ops)].op
    BY <2>2 DEF Op
  <2> QED BY <2>1, <2>3, <2>4
<1> HIDE DEF ops
<1> QED BY <1>1, <1>3, <1>4, Zenon DEF Draws

LEMMA NormalType ==
    ASSUME NEW d \in Draws
    PROVE  /\ inject_fuzz_normal_packet(d) \in Draws
           /\ inject_fuzz_normal_packet(d).seq = d.seq
           /\ inject_fuzz_normal_packet(d).flags = d.flags
<1>1. /\ should_fuzz(d) \in Draws
      /\ should_fuzz(d).seq = d.seq /\ should_fuzz(d).flags = d.flags
  BY ShouldFuzzType
<1> DEFINE p == fuzz_to_packet(should_fuzz(d), TRUE)
<1>2. p \in Draws /\ Len(p.ops) > 0 /\ p.seq = d.seq /\ p.flags = d.flags
  BY <1>1, DataPacketType, Zenon
<1> HIDE DEF p
<1>3. /\ read_byte(p) \in Draws /\ Len(read_byte(p).ops) > 0
      /\ read_byte(p).seq = d.seq /\ read_byte(p).flags = d.flags
  BY <1>2, ReadByteType
<1>4. /\ inject_error_to_packet(read_byte(p)) \in Draws
      /\ inject_error_to_packet(read_byte(p)).seq = d.seq
      /\ inject_error_to_packet(read_byte(p)).flags = d.flags
  BY <1>3, ErrorType
<1> QED BY <1>1, <1>3, <1>4, Zenon DEF inject_fuzz_normal_packet, p

LEMMA ErrorPacketType ==
    ASSUME NEW d \in Draws
    PROVE  inject_fuzz_error_packet(d) \in Draws
<1>1. should_fuzz(d) \in Draws
  BY ShouldFuzzType
<1>2. /\ fuzz_to_packet(should_fuzz(d), TRUE) \in Draws
      /\ Len(fuzz_to_packet(should_fuzz(d), TRUE).ops) > 0
  BY <1>1, DataPacketType, Zenon
<1>3. inject_error_to_packet(fuzz_to_packet(should_fuzz(d), TRUE)) \in Draws
  BY <1>2, ErrorType, Zenon
<1> QED BY <1>1, <1>3, Zenon DEF inject_fuzz_error_packet

LEMMA SecondType ==
    ASSUME NEW d \in Draws
    PROVE  SecondPackets(d) \in Draws
<1> DEFINE e == read_byte(d)
           f(x) == inject_fuzz_normal_packet(x)
<1>1. e \in Draws /\ Peek(d) \in Nat
  BY ReadByteType, PeekType
<1>2. inject_fuzz_error_packet(e) \in Draws
  BY <1>1, ErrorPacketType
<1>3. \A x \in Draws : f(x) \in Draws
  BY NormalType
<1>4. f(f(f(f(e)))) \in Draws
  <2> HIDE DEF e, f
  <2> QED BY <1>1, <1>3
<1>5. Peek(d) < 50 \/ Peek(d) \in 50..149 \/ Peek(d) >= 150
  BY <1>1
<1> QED BY <1>1, <1>2, <1>4, <1>5 DEF SecondPackets

LEMMA SetOps ==
    ASSUME NEW d \in Draws, NEW p \in Op
    PROVE  /\ <<p>> \in Seq(Op)
           /\ [d EXCEPT !.ops = <<p>>] \in Draws
           /\ [d EXCEPT !.ops = <<p>>].ops = <<p>>
<1> DEFINE s == <<p>>
<1>1. s \in Seq(Op)
  OBVIOUS
<1> HIDE DEF s
<1>2. [d EXCEPT !.ops = s] \in Draws /\ [d EXCEPT !.ops = s].ops = s
  BY <1>1 DEF Draws
<1> QED BY <1>1, <1>2 DEF s

LEMMA CommentType == Comment \in Op
BY DEF Comment, Op, OpNames

LEMMA CommentSeq ==
    ASSUME NEW ops \in Seq(Op)
    PROVE  <<Comment>> \o ops \in Seq(Op)
BY CommentType

LEMMA CallType ==
    ASSUME NEW d \in Draws, d.ops = <<>>, NEW i \in 1..Len(Table)
    PROVE  /\ Call(d, i) \in Draws
           /\ Table[i] = "noop" => Call(d, i).ops = <<>>
           /\ Call(d, i).ops # <<>> =>
                \E p \in Op : Call(d, i).ops = <<p>> /\ p.op = Table[i]
<1> DEFINE kind == Table[i]
           size == IF kind = "sized" THEN Peek(d) ELSE 0
           call == [op |-> kind, seq |-> i, len |-> size, err |-> 0]
<1>1. kind \in CallKinds /\ i \in Int
  BY FuzzAssumption
<1>2. size \in Int
  BY PeekType
<1>3. read_byte(d) \in Draws
  BY ReadByteType
<1> HIDE DEF size, kind
<1>4. CASE kind = "sized"
  <2>1. call \in Op
    BY <1>1, <1>2, <1>4 DEF Op, OpNames
  <2>2. Call(d, i) = [read_byte(d) EXCEPT !.ops = <<call>>]
    BY <1>4 DEF Call, kind, size
  <2> HIDE DEF call
  <2>3. Call(d, i) \in Draws /\ Call(d, i).ops = <<call>>
    BY <2>1, <2>2, <1>3, SetOps
  <2>4. call.op = kind
    BY DEF call
  <2> QED BY <2>1, <2>3, <2>4, <1>4 DEF kind
<1>5. CASE kind = "plain"
  <2>1. call \in Op
    BY <1>1, <1>2, <1>5 DEF Op, OpNames
  <2>2. Call(d, i) = [d EXCEPT !.ops = <<call>>]
    BY <1>5 DEF Call, kind, size
  <2> HIDE DEF call
  <2>3. Call(d, i) \in Draws /\ Call(d, i).ops = <<call>>
    BY <2>1, <2>2, SetOps
  <2>4. call.op = kind
    BY DEF call
  <2> QED BY <2>1, <2>3, <2>4, <1>5 DEF kind
<1>6. CASE kind = "noop"
  BY <1>6 DEF Call, kind
<1> QED BY <1>1, <1>4, <1>5, <1>6 DEF CallKinds

LEMMA HandshakeType ==
    ASSUME NEW d \in Draws
    PROVE  HandshakePacket(d) \in Draws
<1>1. fuzz_to_packet(read_byte(d), Peek(d) % 100 >= 50) \in Draws
  BY ReadByteType, PacketType
<1>2. [Comment EXCEPT !.op = "template"] \in Op
  BY DEF Comment, Op, OpNames
<1>3. [d EXCEPT !.ops = <<[Comment EXCEPT !.op = "template"]>>] \in Draws
  BY <1>2, SetOps, Zenon
<1> QED BY <1>1, <1>3 DEF HandshakePacket

----------------------------------------------------------------------------
(* The generators do not read has_fuzzed_once, unless --fuzz_once is given, *)
(* nor the length of the last packet: what they make of the file depends on *)
(* the rest of the draw only.                                               *)

Same(d, e) ==
    /\ d.file = e.file /\ d.flags = e.flags
    /\ d.k = e.k /\ d.seq = e.seq /\ d.ops = e.ops

\* What a draw yields does not depend on has_fuzzed_once.
LEMMA SameRead ==
    ASSUME NEW d \in Draws, NEW e \in Draws, Same(d, e)
    PROVE  Peek(d) = Peek(e) /\ Same(read_byte(d), read_byte(e))
BY DEF Same, Draws, Peek, read_byte

LEMMA SamePacket ==
    ASSUME NEW d \in Draws, NEW e \in Draws, Same(d, e), NEW data
    PROVE  /\ Same(fuzz_to_packet(d, data), fuzz_to_packet(e, data))
           /\ fuzz_to_packet(d, data).len = fuzz_to_packet(e, data).len
<1>1. Peek(d) = Peek(e) /\ Same(read_byte(d), read_byte(e)) /\ d.seq = e.seq
  BY SameRead DEF Same
<1>2. read_byte(d) \in Draws /\ read_byte(e) \in Draws
  BY ReadByteType
<1> QED BY <1>1, <1>2 DEF fuzz_to_packet, Same, Draws

LEMMA SameError ==
    ASSUME NEW d \in Draws, NEW e \in Draws, Same(d, e), Len(d.ops) > 0
    PROVE  Same(inject_error_to_packet(d), inject_error_to_packet(e))
<1>1. Peek(d) = Peek(e) /\ Same(read_byte(d), read_byte(e)) /\ d.ops = e.ops
  BY SameRead DEF Same
<1>2. read_byte(d) \in Draws /\ read_byte(e) \in Draws
  BY ReadByteType
<1> QED BY <1>1, <1>2 DEF inject_error_to_packet, Same, Draws

LEMMA NotOnce ==
    ASSUME NEW d, "once" \notin d.flags
    PROVE  ShouldFuzz(d) /\ should_fuzz(d) = d
BY DEF ShouldFuzz, should_fuzz

LEMMA SameNormal ==
    ASSUME NEW d \in Draws, NEW e \in Draws, Same(d, e),
           "once" \notin d.flags
    PROVE  /\ Same(inject_fuzz_normal_packet(d), inject_fuzz_normal_packet(e))
           /\ inject_fuzz_normal_packet(d).len = inject_fuzz_normal_packet(e).len
<1> DEFINE p == fuzz_to_packet(d, TRUE)
           q == fuzz_to_packet(e, TRUE)
<1>1. p \in Draws /\ Len(p.ops) > 0 /\ q \in Draws /\ Len(q.ops) > 0
  BY DataPacketType, Zenon
<1>2. Same(p, q) /\ p.len = q.len
  BY SamePacket, Zenon
<1>3. inject_fuzz_normal_packet(d) =
        IF Peek(p) < 50 THEN inject_error_to_packet(read_byte(p))
                        ELSE read_byte(p)
  <2>1. ShouldFuzz(d) /\ should_fuzz(d) = d
    BY NotOnce
  <2> QED BY <2>1, Zenon DEF inject_fuzz_normal_packet
<1>4. inject_fuzz_normal_packet(e) =
        IF Peek(q) < 50 THEN inject_error_to_packet(read_byte(q))
                        ELSE read_byte(q)
  <2>1. "once" \notin e.flags
    BY DEF Same
  <2>2. ShouldFuzz(e) /\ should_fuzz(e) = e
    BY <2>1, NotOnce
  <2> QED BY <2>2, Zenon DEF inject_fuzz_normal_packet
<1> HIDE DEF p, q
<1>5. Peek(p) = Peek(q) /\ Same(read_byte(p), read_byte(q))
  BY <1>1, <1>2, SameRead
<1>6. /\ read_byte(p) \in Draws /\ Len(read_byte(p).ops) > 0 /\ read_byte(p).len = p.len
      /\ read_byte(q) \in Draws /\ Len(read_byte(q).ops) > 0 /\ read_byte(q).len = q.len
  BY <1>1, ReadByteType
<1>7. Same(inject_error_to_packet(read_byte(p)), inject_error_to_packet(read_byte(q)))
  BY <1>5, <1>6, SameError
<1>8. /\ inject_error_to_packet(read_byte(p)).len = p.len
      /\ inject_error_to_packet(read_byte(q)).len = q.len
  BY <1>6, ErrorType
<1> QED BY <1>2, <1>3, <1>4, <1>5, <1>6, <1>7, <1>8

LEMMA SameErrorPacket ==
    ASSUME NEW d \in Draws, NEW e \in Draws, Same(d, e),
           "once" \notin d.flags
    PROVE  Same(inject_fuzz_error_packet(d), inject_fuzz_error_packet(e))
<1> DEFINE p == fuzz_to_packet(d, TRUE)
           q == fuzz_to_packet(e, TRUE)
<1>1. p \in Draws /\ Len(p.ops) > 0 /\ q \in Draws
  BY DataPacketType, Zenon
<1>2. Same(p, q)
  BY SamePacket, Zenon
<1>3. /\ inject_fuzz_error_packet(d) = inject_error_to_packet(p)
      /\ inject_fuzz_error_packet(e) = inject_error_to_packet(q)
  <2>1. "once" \notin d.flags /\ "once" \notin e.flags
    BY DEF Same
  <2>2. ShouldFuzz(d) /\ should_fuzz(d) = d /\ ShouldFuzz(e) /\ should_fuzz(e) = e
    BY <2>1, NotOnce
  <2> QED BY <2>2, Zenon DEF inject_fuzz_error_packet
<1> HIDE DEF p, q
<1> QED BY <1>1, <1>2, <1>3, SameError

LEMMA SameSecond ==
    ASSUME NEW d \in Draws, NEW e \in Draws, Same(d, e),
           "once" \notin d.flags
    PROVE  Same(SecondPackets(d), SecondPackets(e))
<1> DEFINE f(x) == inject_fuzz_normal_packet(x)
           d1 == read_byte(d)
           e1 == read_byte(e)
<1>1. /\ Peek(d) = Peek(e) /\ Peek(d) \in Nat
      /\ Same(d1, e1) /\ d1 \in Draws /\ e1 \in Draws /\ "once" \notin d1.flags
  BY SameRead, ReadByteType, PeekType
<1>2. Same(inject_fuzz_error_packet(d1), inject_fuzz_error_packet(e1))
  BY <1>1, SameErrorPacket
<1>3. \A x, y \in Draws : Same(x, y) /\ "once" \notin x.flags =>
        /\ Same(f(x), f(y)) /\ f(x) \in Draws /\ f(y) \in Draws
        /\ "once" \notin f(x).flags
  BY SameNormal, NormalType
<1>4. Same(f(f(f(f(d1)))), f(f(f(f(e1)))))
  <2> HIDE DEF d1, e1, f
  <2> QED BY <1>1, <1>3
<1>5. Peek(d) < 50 \/ Peek(d) \in 50..149 \/ Peek(d) >= 150
  BY <1>1
<1> QED BY <1>1, <1>2, <1>4, <1>5 DEF SecondPackets

LEMMA SameCall ==
    ASSUME NEW d \in Draws, NEW e \in Draws, Same(d, e),
           NEW i \in 1..Len(Table)
    PROVE  Same(Call(d, i), Call(e, i))
<1>1. Peek(d) = Peek(e) /\ Same(read_byte(d), read_byte(e))
  BY SameRead
<1>2. read_byte(d) \in Draws /\ read_byte(e) \in Draws
  BY ReadByteType
<1>3. Table[i] \in CallKinds
  BY FuzzAssumption
<1>4. CASE Table[i] = "sized"
  BY <1>1, <1>2, <1>4, Zenon DEF Call, Same, Draws
<1>5. CASE Table[i] = "plain"
  BY <1>5, Zenon DEF Call, Same, Draws
<1>6. CASE Table[i] = "noop"
  BY <1>6 DEF Call
<1> QED BY <1>3, <1>4, <1>5, <1>6 DEF CallKinds

LEMMA SameHandshake ==
    ASSUME NEW d \in Draws, NEW e \in Draws, Same(d, e)
    PROVE  Same(HandshakePacket(d), HandshakePacket(e))
<1>1. Peek(d) = Peek(e) /\ Same(read_byte(d), read_byte(e))
  BY SameRead
<1>2. read_byte(d) \in Draws /\ read_byte(e) \in Draws
  BY ReadByteType
<1>3. Same(fuzz_to_packet(read_byte(d), Peek(d) % 100 >= 50),
           fuzz_to_packet(read_byte(e), Peek(d) % 100 >= 50))
  BY <1>1, <1>2, SamePacket
<1>4. CASE FuzzedHandshake(d.flags)
  <2>1. d.flags = e.flags
    BY DEF Same
  <2> QED BY <1>1, <1>3, <1>4, <2>1 DEF HandshakePacket
<1>5. CASE ~FuzzedHandshake(d.flags)
  BY <1>5 DEF HandshakePacket, Same, Draws
<1> QED BY <1>4, <1>5

----------------------------------------------------------------------------
(* Types. *)

PCs == {"handshake", "exited", "normal", "second", "syscall", "check",
        "check_read", "close", "finish", "compared"}

\* The file and the command line are what the program was started with.
Started == input \in Seq(Nat) /\ config \subseteq Flags

Typed ==
    /\ Started
    /\ run \in 1..2 /\ pc \in PCs
    /\ n \in Nat /\ j \in Nat /\ after \in BOOLEAN
    /\ index \in Nat /\ fuzzed \in BOOLEAN /\ seq \in Int /\ len \in Int
    /\ line \in Seq(Op) /\ loop \in Nat /\ result = <<>>
    /\ sent \in [1..2 -> Seq(Op)]
    /\ pc \in {"normal", "second", "close"} => j = 1
    /\ pc = "syscall" => j \in 1..Len(Table)
    /\ pc \in {"check", "check_read"} => j = 1

LEMMA DrawType ==
    ASSUME Typed
    PROVE  Draw \in Draws /\ Draw.ops = <<>>
BY DEF Typed, Started, Draw, Draws

LEMMA SendType ==
    ASSUME Typed, NEW d \in Draws, Send(d)
    PROVE  /\ index' \in Nat /\ fuzzed' \in BOOLEAN /\ len' \in Int
           /\ sent' \in [1..2 -> Seq(Op)]
           /\ sent'[run] = sent[run] \o d.ops
           /\ \A i \in (1..2) \ {run} : sent'[i] = sent[i]
<1>1. d.k \in Nat /\ d.fuzzed \in BOOLEAN /\ d.len \in Int /\ d.ops \in Seq(Op)
  BY DEF Draws
<1>2. sent[run] \o d.ops \in Seq(Op)
  BY <1>1 DEF Typed
<1> QED BY <1>1, <1>2, Zenon DEF Send, Typed

LEMMA ScriptsStep ==
    ASSUME line \in Seq(Op), loop \in Nat, NEW text \in Seq(Op),
           update_fuzz_scripts(text)
    PROVE  /\ line' = <<>> /\ line \o text \in Seq(Op)
           /\ IF line \o text = <<>> THEN UNCHANGED <<scripts, loop>>
              ELSE scripts' = Put(scripts, loop, line \o text) /\ loop' = loop + 1
<1>1. line \o text \in Seq(Op)
  OBVIOUS
<1>2. line \o text = <<>> => line = <<>>
  OBVIOUS
<1> QED BY <1>1, <1>2 DEF update_fuzz_scripts

LEMMA ScriptsType ==
    ASSUME Typed, NEW text \in Seq(Op), update_fuzz_scripts(text)
    PROVE  line' \in Seq(Op) /\ loop' \in Nat
<1>1. line \in Seq(Op) /\ loop \in Nat
  BY DEF Typed
<1>2. line' = <<>> /\ (loop' = loop \/ loop' = loop + 1)
  BY <1>1, ScriptsStep
<1> QED BY <1>1, <1>2

LEMMA LoopTopType == LoopTop \in {"normal", "syscall"}
BY DEF LoopTop

LEMMA NextLoopType ==
    ASSUME Typed, NextLoop
    PROVE  /\ j' = 1 /\ n' \in Nat
           /\ pc' \in {"normal", "syscall", "finish", "check"}
BY LoopTopType DEF Typed, NextLoop

\* Every step keeps the types.
LEMMA NextTyped ==
    ASSUME Typed, [Next]_vars
    PROVE  Typed'
<1> USE DEF PCs
<1>0. 1 \in 1..Len(Table) /\ Handshake \in Nat
  BY FuzzAssumption
<1>1. Started /\ Draw \in Draws /\ Draw.ops = <<>> /\ LoopTop \in {"normal", "syscall"}
  BY DrawType, LoopTopType DEF Typed
<1>2. ASSUME fuzz_three_way_handshake_packets PROVE Typed'
  <2>1. HandshakePacket(Draw) \in Draws
    BY <1>1, HandshakeType
  <2>2. /\ index' \in Nat /\ fuzzed' \in BOOLEAN /\ len' \in Int
        /\ sent' \in [1..2 -> Seq(Op)]
    BY <2>1, <1>2, SendType, Zenon DEF fuzz_three_way_handshake_packets
  <2>3. line' \in Seq(Op)
    BY <2>1, <1>2 DEF fuzz_three_way_handshake_packets, Typed, Draws
  <2>4. pc' \in {"handshake", "exited"}
    BY <1>2 DEF fuzz_three_way_handshake_packets
  <2> QED BY <1>2, <2>2, <2>3, <2>4
          DEF fuzz_three_way_handshake_packets, Typed, Started
<1>3. ASSUME HandshakeDone PROVE Typed'
  BY <1>3, <1>0, <1>1 DEF HandshakeDone, Typed, Started, book
<1>4. ASSUME FuzzNormal PROVE Typed'
  <2> DEFINE d == inject_fuzz_normal_packet(Draw)
  <2>1. d \in Draws /\ d.ops \in Seq(Op) /\ d.len \in Int
    BY <1>1, NormalType DEF Draws
  <2>2. Send(d) /\ update_fuzz_scripts(d.ops) /\ seq' = seq + d.len
    BY <1>4 DEF FuzzNormal
  <2> HIDE DEF d
  <2>3. /\ index' \in Nat /\ fuzzed' \in BOOLEAN /\ len' \in Int
        /\ sent' \in [1..2 -> Seq(Op)]
    BY <2>1, <2>2, SendType, Zenon
  <2>4. line' \in Seq(Op) /\ loop' \in Nat
    BY <2>1, <2>2, ScriptsType
  <2>5. seq' \in Int
    BY <2>1, <2>2 DEF Typed
  <2>6. /\ pc' = "second" /\ pc = "normal"
        /\ UNCHANGED <<input, config, run, n, j, after, result>>
    BY <1>4 DEF FuzzNormal
  <2> QED BY <2>3, <2>4, <2>5, <2>6, <1>0 DEF Typed, Started
<1>5. ASSUME FuzzSecond PROVE Typed'
  <2> DEFINE d == SecondPackets(Draw)
             text == IF Peek(Draw) < 50 THEN <<>> ELSE <<Comment>> \o d.ops
  <2>1. d \in Draws /\ d.ops \in Seq(Op)
    BY <1>1, SecondType DEF Draws
  <2>2. Send(d) /\ update_fuzz_scripts(text)
    BY <1>5 DEF FuzzSecond
  <2>3. text \in Seq(Op)
    BY <2>1, CommentSeq
  <2> HIDE DEF d, text
  <2>4. /\ index' \in Nat /\ fuzzed' \in BOOLEAN /\ len' \in Int
        /\ sent' \in [1..2 -> Seq(Op)]
    BY <2>1, <2>2, SendType, Zenon
  <2>5. line' \in Seq(Op) /\ loop' \in Nat
    BY <2>2, <2>3, ScriptsType
  <2>6. /\ pc' = "syscall" /\ pc = "second"
        /\ UNCHANGED <<input, config, run, n, j, after, seq, result>>
    BY <1>5 DEF FuzzSecond
  <2> QED BY <2>4, <2>5, <2>6, <1>0 DEF Typed, Started
<1>6. ASSUME FuzzSyscall PROVE Typed'
  <2> DEFINE f == should_fuzz(Draw)
             d == Call(read_byte(f), j)
  <2>0. /\ pc = "syscall"
        /\ UNCHANGED <<input, config, run, after, seq>>
        /\ \/ j < Len(Table) /\ j' = j + 1 /\ UNCHANGED <<n, pc>>
           \/ NextLoop
    BY <1>6 DEF FuzzSyscall
  <2>1. f \in Draws /\ f.ops = <<>> /\ read_byte(f) \in Draws /\ read_byte(f).ops = <<>>
    BY <1>1, ShouldFuzzType, ReadByteType
  <2>2. d \in Draws /\ d.ops \in Seq(Op)
    BY <2>0, <2>1, <1>1, CallType, Zenon DEF Typed, Draws
  <2>3. \/ Send(read_byte(f)) /\ UNCHANGED book
        \/ /\ Send(d) /\ update_fuzz_scripts(d.ops)
           /\ \E r : update_fuzz_results(IF d.ops = <<>> THEN <<>>
                                         ELSE <<[call |-> d.ops[1], value |-> r]>>)
    BY <1>6, Zenon DEF FuzzSyscall
  <2> HIDE DEF d, f
  <2>4. /\ index' \in Nat /\ fuzzed' \in BOOLEAN /\ len' \in Int
        /\ sent' \in [1..2 -> Seq(Op)]
    BY <2>1, <2>2, <2>3, SendType, Zenon
  <2>5. line' \in Seq(Op) /\ loop' \in Nat
    BY <2>2, <2>3, ScriptsType DEF Typed, book
  <2>6. result' = <<>>
    BY <2>3, Zenon DEF Typed, book, update_fuzz_results
  <2>7. CASE NextLoop
    BY <2>0, <2>4, <2>5, <2>6, <2>7, NextLoopType, <1>0 DEF Typed, Started
  <2>8. CASE j < Len(Table) /\ j' = j + 1 /\ UNCHANGED <<n, pc>>
    BY <2>0, <2>4, <2>5, <2>6, <2>8, <1>0, FuzzAssumption DEF Typed, Started
  <2> QED BY <2>0, <2>7, <2>8
<1>7. ASSUME NoSyscall PROVE Typed'
  <2>1. Send(Draw) \/ Send(should_fuzz(Draw))
    BY <1>7 DEF NoSyscall
  <2>2. should_fuzz(Draw) \in Draws
    BY <1>1, ShouldFuzzType
  <2>3. /\ index' \in Nat /\ fuzzed' \in BOOLEAN /\ len' \in Int
        /\ sent' \in [1..2 -> Seq(Op)]
    BY <1>1, <2>1, <2>2, SendType, ZenonT(30)
  <2>4. NextLoop /\ UNCHANGED <<input, config, run, after, seq, line, loop, result>>
    BY <1>7 DEF NoSyscall, book
  <2> QED BY <2>3, <2>4, NextLoopType, <1>0 DEF Typed, Started
<1>8. ASSUME CheckPacket PROVE Typed'
  <2> DEFINE d == fuzz_to_packet(should_fuzz(Draw), TRUE)
  <2>1. should_fuzz(Draw) \in Draws
    BY <1>1, ShouldFuzzType
  <2>2. d \in Draws /\ d.ops \in Seq(Op)
    BY <2>1, <1>1, DataPacketType, Zenon DEF Draws
  <2>3. \/ Send(d) /\ update_fuzz_scripts(d.ops)
        \/ (Send(Draw) \/ Send(should_fuzz(Draw))) /\ UNCHANGED <<line, scripts, loop>>
    BY <1>8, Zenon DEF CheckPacket
  <2> HIDE DEF d
  <2>4. /\ index' \in Nat /\ fuzzed' \in BOOLEAN /\ len' \in Int
        /\ sent' \in [1..2 -> Seq(Op)]
    BY <1>1, <2>1, <2>2, <2>3, SendType, Zenon
  <2>5. line' \in Seq(Op) /\ loop' \in Nat
    BY <2>2, <2>3, ScriptsType DEF Typed
  <2>6. /\ pc' = "check_read" /\ pc = "check"
        /\ UNCHANGED <<input, config, run, n, j, after, seq, result>>
    BY <1>8 DEF CheckPacket
  <2> QED BY <2>4, <2>5, <2>6, <1>0 DEF Typed, Started
<1>9. ASSUME CheckRead PROVE Typed'
  <2> DEFINE read == [Comment EXCEPT !.op = "read", !.len = 20]
             d == IF "syscall" \in config THEN should_fuzz(Draw) ELSE Draw
  <2>1. d \in Draws
    BY <1>1, ShouldFuzzType
  <2>2. read \in Op
    <3>1. "read" \in OpNames /\ 20 \in Int
      BY DEF OpNames
    <3> QED BY <3>1, CommentType, Zenon DEF Op
  <2>3. \/ Send([d EXCEPT !.ops = <<read>>]) /\ update_fuzz_scripts(<<read>>)
        \/ Send(d) /\ UNCHANGED <<line, scripts, loop>>
    BY <1>9 DEF CheckRead
  <2>4. /\ pc = "check_read" /\ UNCHANGED <<input, config, run, j, after, seq, result>>
        /\ \/ n' = n + 1 /\ pc' = "check"
           \/ n' = 1 /\ pc' = "close"
    BY <1>9 DEF CheckRead
  <2> HIDE DEF d, read
  <2>5. [d EXCEPT !.ops = <<read>>] \in Draws /\ <<read>> \in Seq(Op)
    BY <2>1, <2>2, SetOps, Zenon
  <2>6. /\ index' \in Nat /\ fuzzed' \in BOOLEAN /\ len' \in Int
        /\ sent' \in [1..2 -> Seq(Op)]
    BY <2>1, <2>5, <2>3, SendType, Zenon
  <2>7. line' \in Seq(Op) /\ loop' \in Nat
    BY <2>5, <2>3, ScriptsType, Zenon DEF Typed
  <2> QED BY <2>4, <2>6, <2>7, <1>0 DEF Typed, Started
<1>10. ASSUME Close PROVE Typed'
  <2> DEFINE close == [Comment EXCEPT !.op = "close"]
  <2>1. close \in Op
    BY DEF Comment, Op, OpNames
  <2>2. /\ Send([Draw EXCEPT !.ops = <<close>>]) /\ update_fuzz_scripts(<<close>>)
        /\ update_fuzz_results(<<>>)
        /\ pc = "close" /\ pc' = LoopTop /\ after' = TRUE
        /\ UNCHANGED <<input, config, run, n, j, seq>>
    BY <1>10 DEF Close
  <2> HIDE DEF close
  <2>3. [Draw EXCEPT !.ops = <<close>>] \in Draws /\ <<close>> \in Seq(Op)
    BY <1>1, <2>1, SetOps, Zenon
  <2>4. /\ index' \in Nat /\ fuzzed' \in BOOLEAN /\ len' \in Int
        /\ sent' \in [1..2 -> Seq(Op)]
    BY <2>2, <2>3, SendType, Zenon
  <2>5. line' \in Seq(Op) /\ loop' \in Nat
    BY <2>2, <2>3, ScriptsType, Zenon
  <2>6. result' = <<>>
    BY <2>2 DEF Typed, update_fuzz_results
  <2> QED BY <2>2, <2>4, <2>5, <2>6, <1>0, <1>1, Zenon DEF Typed, Started
<1>11. ASSUME SecondRun PROVE Typed'
  <2>1. /\ run' = 2 /\ pc' = "handshake" /\ n' = 0 /\ j' = 0 /\ after' = FALSE
        /\ index' = 0 /\ seq' = 1 /\ loop' = 0 /\ line' = <<>> /\ result' = <<>>
        /\ UNCHANGED <<input, config, fuzzed, len, sent>>
    BY <1>11 DEF SecondRun, Reinit
  <2>2. line' \in Seq(Op) /\ sent' \in [1..2 -> Seq(Op)]
    BY <2>1 DEF Typed
  <2>3. Started'
    BY <2>1 DEF Typed, Started
  <2>4. after' \in BOOLEAN /\ fuzzed' \in BOOLEAN /\ len' \in Int
    BY <2>1, Zenon DEF Typed
  <2>5. run' \in 1..2 /\ n' \in Nat /\ j' \in Nat /\ index' \in Nat
        /\ seq' \in Int /\ loop' \in Nat
    BY <2>1
  <2> QED BY <2>1, <2>2, <2>3, <2>4, <2>5 DEF Typed
<1>12. ASSUME Compare PROVE Typed'
  BY <1>12 DEF Compare, Typed, Started, book
<1>13. ASSUME UNCHANGED vars PROVE Typed'
  BY <1>13 DEF vars, book, Typed, Started
<1> QED BY <1>2, <1>3, <1>4, <1>5, <1>6, <1>7, <1>8, <1>9, <1>10, <1>11,
           <1>12, <1>13 DEF Next, Ended

LEMMA InitTyped == Init => Typed
<1> SUFFICES ASSUME Init PROVE Typed
  OBVIOUS
<1>1. Started
  <2>1. input \in Seq(0..255) /\ config \in Configs
    BY FuzzAssumption DEF Init
  <2>3. 0..255 \subseteq Nat
    OBVIOUS
  <2> DEFINE Bytes == 0..255
  <2> HIDE DEF Bytes
  <2>4. Bytes \subseteq Nat /\ input \in Seq(Bytes)
    BY <2>1, <2>3, Zenon DEF Bytes
  <2>5. input \in Seq(Nat)
    BY <2>4, SeqMonotonic, Zenon
  <2> QED BY <2>1, <2>5, FuzzAssumption DEF Started
<1>2. line \in Seq(Op) /\ sent \in [1..2 -> Seq(Op)]
  BY DEF Init
<1>3. after \in BOOLEAN /\ fuzzed \in BOOLEAN
  BY Zenon DEF Init
<1> QED BY <1>1, <1>2, <1>3 DEF Init, Typed, PCs

----------------------------------------------------------------------------
(* The records.  Script slots are used in order, and a result is stored one *)
(* slot after the script that ends with its call.                           *)

Recorded ==
    /\ DOMAIN scripts = 0..(loop - 1)
    /\ DOMAIN results \subseteq 1..loop
    /\ \A i \in DOMAIN results : results[i][1].call = Last(scripts[i - 1])

LEMMA PutSlot ==
    ASSUME NEW f, NEW i, NEW what
    PROVE  /\ DOMAIN Put(f, i, what) = DOMAIN f \cup {i}
           /\ Put(f, i, what)[i] = what
           /\ \A k \in DOMAIN f \ {i} : Put(f, i, what)[k] = f[k]
BY DEF Put

\* update_fuzz_scripts() keeps the scripts that results follow.
LEMMA ScriptAdded ==
    ASSUME Typed, Recorded, NEW text \in Seq(Op), update_fuzz_scripts(text)
    PROVE  /\ DOMAIN scripts' = 0..(loop' - 1)
           /\ loop' \in Nat /\ loop <= loop'
           /\ \A i \in DOMAIN results : results[i][1].call = Last(scripts'[i - 1])
<1>1. line \in Seq(Op) /\ loop \in Nat
  BY DEF Typed
<1>2. IF line \o text = <<>> THEN UNCHANGED <<scripts, loop>>
      ELSE scripts' = Put(scripts, loop, line \o text) /\ loop' = loop + 1
  BY <1>1, ScriptsStep
<1>3. CASE line \o text = <<>>
  BY <1>1, <1>2, <1>3 DEF Recorded
<1>4. CASE line \o text # <<>>
  <2> DEFINE all == line \o text
  <2>1. scripts' = Put(scripts, loop, all) /\ loop' = loop + 1
    BY <1>2, <1>4
  <2> HIDE DEF all
  <2>2. DOMAIN scripts' = 0..(loop - 1) \cup {loop}
    BY <2>1, PutSlot, Zenon DEF Recorded
  <2>3. \A i \in DOMAIN results : scripts'[i - 1] = scripts[i - 1]
    <3> SUFFICES ASSUME NEW i \in DOMAIN results
                 PROVE  scripts'[i - 1] = scripts[i - 1]
      OBVIOUS
    <3>1. i - 1 \in 0..(loop - 1) \ {loop}
      BY <1>1 DEF Recorded
    <3>2. Put(scripts, loop, all)[i - 1] = scripts[i - 1]
      BY <3>1 DEF Put, Recorded
    <3> QED BY <2>1, <3>2
  <2>4. DOMAIN scripts' = 0..(loop' - 1)
    BY <1>1, <2>1, <2>2
  <2> QED BY <1>1, <2>1, <2>3, <2>4 DEF Recorded
<1> QED BY <1>3, <1>4

\* A step that stores no result keeps Recorded.
LEMMA ResultsKept ==
    ASSUME Typed, Recorded, NEW text \in Seq(Op), update_fuzz_scripts(text),
           UNCHANGED results
    PROVE  Recorded'
<1>1. /\ DOMAIN scripts' = 0..(loop' - 1)
      /\ loop' \in Nat /\ loop <= loop'
      /\ \A i \in DOMAIN results : results[i][1].call = Last(scripts'[i - 1])
  BY ScriptAdded
<1>2. DOMAIN results' \subseteq 1..loop'
  BY <1>1 DEF Recorded, Typed
<1> QED BY <1>1, <1>2 DEF Recorded

\* A call that is made is stored before its result.
LEMMA ResultAdded ==
    ASSUME Typed, Recorded, NEW p \in Op, NEW r, update_fuzz_scripts(<<p>>),
           update_fuzz_results(<<[call |-> p, value |-> r]>>)
    PROVE  /\ Recorded'
           /\ DOMAIN results' = DOMAIN results \cup {loop + 1}
<1> DEFINE item == <<[call |-> p, value |-> r]>>
           all == line \o <<p>>
<1>1. line \in Seq(Op) /\ loop \in Nat /\ <<p>> \in Seq(Op) /\ result = <<>>
  BY DEF Typed
<1>2. all # <<>> /\ Last(all) = p
  BY <1>1 DEF Last
<1>3. scripts' = Put(scripts, loop, all) /\ loop' = loop + 1
  <2> HIDE DEF all
  <2>1. IF all = <<>> THEN UNCHANGED <<scripts, loop>>
        ELSE scripts' = Put(scripts, loop, all) /\ loop' = loop + 1
    BY <1>1, ScriptsStep, Zenon DEF all
  <2> QED BY <1>2, <2>1
<1>4. <<>> \o item = item /\ item # <<>> /\ item[1].call = p
  OBVIOUS
<1>5. results' = Put(results, loop', item)
  <2>1. LET a == result \o item IN
          IF a = <<>> THEN UNCHANGED <<result, results>>
          ELSE results' = Put(results, loop', a) /\ result' = <<>>
    BY Zenon DEF update_fuzz_results
  <2> HIDE DEF item
  <2> QED BY <1>1, <1>4, <2>1
<1> HIDE DEF item, all
<1>6. /\ DOMAIN scripts' = 0..(loop' - 1)
      /\ \A i \in DOMAIN results : results[i][1].call = Last(scripts'[i - 1])
  BY <1>1, ScriptAdded, Zenon
<1>7. scripts'[loop] = all
  <2>1. Put(scripts, loop, all)[loop] = all
    BY DEF Put
  <2> QED BY <1>3, <2>1
<1>8. /\ DOMAIN results' = DOMAIN results \cup {loop + 1}
      /\ results'[loop + 1] = item
      /\ \A i \in DOMAIN results : results'[i] = results[i]
  <2>1. \A i \in DOMAIN results : i # loop + 1
    BY <1>1 DEF Recorded
  <2> DEFINE q == Put(results, loop + 1, item)
  <2>2. /\ DOMAIN q = DOMAIN results \cup {loop + 1}
        /\ q[loop + 1] = item
        /\ \A i \in DOMAIN results : q[i] = results[i]
    BY <2>1 DEF Put
  <2>3. results' = q
    BY <1>3, <1>5
  <2> QED BY <2>2, <2>3, Zenon
<1>9. results'[loop + 1][1].call = Last(scripts'[(loop + 1) - 1])
  BY <1>1, <1>2, <1>4, <1>7, <1>8
<1>10. DOMAIN results' \subseteq 1..loop'
  BY <1>1, <1>3, <1>8 DEF Recorded
<1>11. \A i \in DOMAIN results' : results'[i][1].call = Last(scripts'[i - 1])
  BY <1>6, <1>8, <1>9
<1> QED BY <1>6, <1>8, <1>10, <1>11 DEF Recorded

\* What a system call of the table does to the records.
LEMMA SyscallBook ==
    ASSUME Typed, FuzzSyscall
    PROVE  \/ UNCHANGED book
           \/ update_fuzz_scripts(<<>>) /\ UNCHANGED results
           \/ /\ Table[j] # "noop"
              /\ \E p \in Op : \E r :
                   /\ update_fuzz_scripts(<<p>>)
                   /\ update_fuzz_results(<<[call |-> p, value |-> r]>>)
<1> DEFINE f == should_fuzz(Draw)
           d == Call(read_byte(f), j)
<1>1. /\ f \in Draws /\ f.ops = <<>>
      /\ read_byte(f) \in Draws /\ read_byte(f).ops = <<>>
  BY DrawType, ShouldFuzzType, ReadByteType DEF Typed
<1>2. /\ Table[j] = "noop" => d.ops = <<>>
      /\ d.ops # <<>> => \E p \in Op : d.ops = <<p>>
  <2>1. Started /\ j \in 1..Len(Table)
    BY DEF Typed, FuzzSyscall
  <2> HIDE DEF f
  <2> QED BY <1>1, <2>1, CallType
<1>3. \/ UNCHANGED book
      \/ /\ update_fuzz_scripts(d.ops)
         /\ \E r : update_fuzz_results(IF d.ops = <<>> THEN <<>>
                                       ELSE <<[call |-> d.ops[1], value |-> r]>>)
  BY ZenonT(30) DEF FuzzSyscall
<1> HIDE DEF d, f
<1>4. CASE d.ops = <<>> /\ update_fuzz_scripts(d.ops) /\ update_fuzz_results(<<>>)
  BY <1>4 DEF update_fuzz_results, Typed
<1>5. ASSUME d.ops # <<>>, update_fuzz_scripts(d.ops), NEW r,
             update_fuzz_results(<<[call |-> d.ops[1], value |-> r]>>)
      PROVE  /\ Table[j] # "noop"
             /\ \E p \in Op : /\ update_fuzz_scripts(<<p>>)
                              /\ update_fuzz_results(<<[call |-> p, value |-> r]>>)
  <2>1. PICK p \in Op : d.ops = <<p>>
    BY <1>2, <1>5
  <2>2. d.ops[1] = p
    BY <2>1
  <2> QED BY <1>2, <1>5, <2>1, <2>2
<1> QED BY <1>3, <1>4, <1>5, Zenon

\* Every step keeps Recorded.
LEMMA NextRecorded ==
    ASSUME Typed, Recorded, [Next]_vars
    PROVE  Recorded'
<1>0. Started /\ Draw \in Draws
  BY DrawType DEF Typed
<1>1. ASSUME UNCHANGED <<scripts, loop, results>> PROVE Recorded'
  BY <1>1 DEF Recorded
<1>2. CASE fuzz_three_way_handshake_packets
  BY <1>1, <1>2 DEF fuzz_three_way_handshake_packets
<1>3. CASE HandshakeDone \/ NoSyscall \/ Compare \/ Ended \/ UNCHANGED vars
  BY <1>1, <1>3 DEF HandshakeDone, NoSyscall, Compare, Ended, vars, book
<1>4. CASE FuzzNormal
  <2>1. inject_fuzz_normal_packet(Draw).ops \in Seq(Op)
    BY <1>0, NormalType DEF Draws
  <2> QED BY <1>4, <2>1, ResultsKept DEF FuzzNormal
<1>5. CASE FuzzSecond
  <2> DEFINE d == SecondPackets(Draw)
             text == IF Peek(Draw) < 50 THEN <<>> ELSE <<Comment>> \o d.ops
  <2>1. d.ops \in Seq(Op)
    BY <1>0, SecondType DEF Draws
  <2>2. text \in Seq(Op)
    BY <2>1, CommentSeq
  <2>3. update_fuzz_scripts(text) /\ UNCHANGED results
    BY <1>5 DEF FuzzSecond
  <2> HIDE DEF text
  <2> QED BY <2>2, <2>3, ResultsKept
<1>6. CASE FuzzSyscall
  <2>1. CASE UNCHANGED book
    BY <1>1, <2>1 DEF book
  <2>2. CASE update_fuzz_scripts(<<>>) /\ UNCHANGED results
    <3>1. <<>> \in Seq(Op)
      OBVIOUS
    <3> QED BY <2>2, <3>1, ResultsKept, Zenon
  <2>3. ASSUME NEW p \in Op, NEW r, update_fuzz_scripts(<<p>>),
               update_fuzz_results(<<[call |-> p, value |-> r]>>)
        PROVE  Recorded'
    BY <2>3, ResultAdded
  <2> QED BY <1>6, <2>1, <2>2, <2>3, SyscallBook, Zenon
<1>7. CASE CheckPacket
  <2> DEFINE d == fuzz_to_packet(should_fuzz(Draw), TRUE)
  <2>1. d \in Draws
    BY <1>0, ShouldFuzzType, DataPacketType, Zenon
  <2>2. \/ update_fuzz_scripts(d.ops)
        \/ UNCHANGED <<line, scripts, loop>>
    BY <1>7, Zenon DEF CheckPacket
  <2>3. UNCHANGED results
    BY <1>7 DEF CheckPacket
  <2> HIDE DEF d
  <2>4. d.ops \in Seq(Op)
    BY <2>1 DEF Draws
  <2> QED BY <1>1, <2>2, <2>3, <2>4, ResultsKept
<1>8. CASE CheckRead
  <2> DEFINE read == [Comment EXCEPT !.op = "read", !.len = 20]
  <2>1. read \in Op
    <3>1. "read" \in OpNames /\ 20 \in Int
      BY DEF OpNames
    <3> QED BY <3>1, CommentType, Zenon DEF Op
  <2>2. \/ update_fuzz_scripts(<<read>>)
        \/ UNCHANGED <<line, scripts, loop>>
    BY <1>8 DEF CheckRead
  <2>3. UNCHANGED results
    BY <1>8 DEF CheckRead
  <2> HIDE DEF read
  <2>4. <<read>> \in Seq(Op)
    BY <2>1, <1>0, SetOps
  <2> QED BY <1>1, <2>2, <2>3, <2>4, ResultsKept, Zenon
<1>9. CASE Close
  <2> DEFINE close == [Comment EXCEPT !.op = "close"]
  <2>1. close \in Op
    BY DEF Comment, Op, OpNames
  <2>2. update_fuzz_scripts(<<close>>) /\ update_fuzz_results(<<>>)
    BY <1>9 DEF Close
  <2>3. UNCHANGED results
    BY <2>2 DEF update_fuzz_results, Typed
  <2> HIDE DEF close
  <2>4. <<close>> \in Seq(Op)
    BY <2>1, <1>0, SetOps
  <2> QED BY <2>2, <2>3, <2>4, ResultsKept, Zenon
<1>10. CASE SecondRun
  <2>1. loop' = 0 /\ scripts' = <<>> /\ results' = <<>>
    BY <1>10 DEF SecondRun, Reinit, NoSlots
  <2>2. DOMAIN scripts' = {} /\ DOMAIN results' = {}
    BY <2>1
  <2> QED BY <2>1, <2>2 DEF Recorded
<1> QED BY <1>2, <1>3, <1>4, <1>5, <1>6, <1>7, <1>8, <1>9, <1>10 DEF Next

LEMMA InitRecorded == Init => Recorded
<1> SUFFICES ASSUME Init PROVE Recorded
  OBVIOUS
<1>1. loop = 0 /\ scripts = <<>> /\ results = <<>>
  BY DEF Init, NoSlots
<1>2. DOMAIN scripts = {} /\ DOMAIN results = {}
  BY <1>1
<1> QED BY <1>1, <1>2 DEF Recorded

\* print_scripts(i), which is printed for a difference in result i, ends with
\* the call that gave the result: in every run, for every file and table.
THEOREM ResultsFollowScripts == Spec => []ResultFollowsScript
<1>1. Init => Typed /\ Recorded
  BY InitTyped, InitRecorded
<1>2. Typed /\ Recorded /\ [Next]_vars => (Typed /\ Recorded)'
  BY NextTyped, NextRecorded
<1>3. Typed /\ Recorded => ResultFollowsScript
  BY DEF Typed, Recorded, ResultFollowsScript
<1> QED BY <1>1, <1>2, <1>3, PTL DEF Spec

----------------------------------------------------------------------------
(* The number of slots.                                                     *)

\* The calls among the first i entries of the table, the slots that one
\* iteration of do_some_fuzz() takes at most, and k iterations.
Calls(i) == Cardinality({k \in 1..i : Table[k] # "noop"})
PerLoop == 2 + Calls(Len(Table))
Total(k) == k * PerLoop

\* What was used before iteration i.
Before(closed, i) ==
    (IF closed THEN Total(FuzzLoops) + 2 * Checks + 1 ELSE 0) + Total(i - 1)

Loops == IF after THEN AfterLoops ELSE FuzzLoops

\* Text of the handshake that waits for the next update_fuzz_scripts().
Pending == IF line = <<>> THEN 0 ELSE 1

Bounded ==
    /\ pc \in {"handshake", "exited"} => loop = 0 /\ ~after
    /\ pc \in {"normal", "second", "syscall"} => n \in 1..Loops
    /\ pc = "normal" => loop <= Before(after, n)
    /\ pc = "second" => loop <= Before(after, n) + 1
    /\ pc = "syscall" => loop + Pending <= Before(after, n) + 2 + Calls(j - 1)
    /\ pc \in {"check", "check_read"} => ~after /\ n \in 1..Checks
    /\ pc = "check" => loop <= Total(FuzzLoops) + 2 * (n - 1)
    /\ pc = "check_read" => loop <= Total(FuzzLoops) + 2 * (n - 1) + 1
    /\ pc = "close" => ~after /\ n = 1 /\ loop <= Total(FuzzLoops) + 2 * Checks
    /\ pc \in {"finish", "compared"} => loop <= MaxSlots

\* Calls counts the table entry by entry.
LEMMA CallsStep ==
    /\ Calls(0) = 0
    /\ \A i \in 0..Len(Table) : Calls(i) \in Nat
    /\ \A i \in 1..Len(Table) : Calls(i - 1) <= Calls(i)
    /\ \A i \in 1..Len(Table) : Table[i] # "noop" => Calls(i) = Calls(i - 1) + 1
<1> DEFINE S(i) == {k \in 1..i : Table[k] # "noop"}
<1>1. Len(Table) \in Nat
  BY FuzzAssumption
<1>2. ASSUME NEW i \in Nat PROVE IsFiniteSet(S(i)) /\ Cardinality(S(i)) \in Nat
  <2>1. IsFiniteSet(1..i)
    BY FS_Interval
  <2>2. S(i) \subseteq 1..i
    OBVIOUS
  <2>3. IsFiniteSet(S(i))
    BY <2>1, <2>2, FS_Subset
  <2> QED BY <2>3, FS_CardinalityType
<1>3. S(0) = {}
  OBVIOUS
<1>4. ASSUME NEW i \in 1..Len(Table)
      PROVE  /\ Cardinality(S(i - 1)) <= Cardinality(S(i))
             /\ Table[i] # "noop" => Cardinality(S(i)) = Cardinality(S(i - 1)) + 1
  <2>1. i - 1 \in Nat /\ i \in Nat
    BY <1>1
  <2>2. IsFiniteSet(S(i - 1)) /\ Cardinality(S(i - 1)) \in Nat
    BY <1>2, <2>1, Zenon
  <2>3. CASE Table[i] # "noop"
    <3>1. S(i) = S(i - 1) \cup {i} /\ i \notin S(i - 1)
      BY <2>1, <2>3
    <3> HIDE DEF S
    <3>2. Cardinality(S(i)) = Cardinality(S(i - 1)) + 1
      BY <2>2, <3>1, FS_AddElement
    <3> QED BY <2>2, <3>2
  <2>4. CASE Table[i] = "noop"
    <3>1. S(i) = S(i - 1)
      BY <2>1, <2>4
    <3> HIDE DEF S
    <3> QED BY <2>2, <2>4, <3>1
  <2> QED BY <2>3, <2>4
<1>5. Cardinality(S(0)) = 0
  BY <1>3, FS_EmptySet
<1>6. \A i : Calls(i) = Cardinality(S(i))
  BY DEF Calls
<1> HIDE DEF S
<1>7. \A i \in 0..Len(Table) : Calls(i) \in Nat
  BY <1>1, <1>2, <1>6
<1>8. \A i \in 1..Len(Table) :
        /\ Calls(i - 1) <= Calls(i)
        /\ Table[i] # "noop" => Calls(i) = Calls(i - 1) + 1
  BY <1>4, <1>6
<1> QED BY <1>5, <1>6, <1>7, <1>8

LEMMA CallsUpTo ==
    ASSUME NEW i \in 0..Len(Table)
    PROVE  Calls(i) <= Calls(Len(Table))
<1> DEFINE S(k) == {x \in 1..k : Table[x] # "noop"}
<1>1. Len(Table) \in Nat
  BY FuzzAssumption
<1>2. S(i) \subseteq S(Len(Table)) /\ S(Len(Table)) \subseteq 1..Len(Table)
  BY <1>1
<1>3. IsFiniteSet(S(Len(Table)))
  <2>1. IsFiniteSet(1..Len(Table))
    BY <1>1, FS_Interval
  <2> QED BY <1>2, <2>1, FS_Subset
<1>4. Cardinality(S(i)) <= Cardinality(S(Len(Table)))
  BY <1>2, <1>3, FS_Subset
<1> QED BY <1>4 DEF Calls

LEMMA TotalStep ==
    /\ PerLoop \in Nat /\ PerLoop = 2 + Calls(Len(Table))
    /\ \A k \in Nat : Total(k) \in Nat /\ Total(k + 1) = Total(k) + PerLoop
    /\ Total(0) = 0
    /\ \A k, i \in Nat : Total(k + i) = Total(k) + Total(i)
<1>1. PerLoop \in Nat /\ PerLoop = 2 + Calls(Len(Table))
  <2>1. Calls(Len(Table)) \in Nat
    BY CallsStep, FuzzAssumption
  <2> QED BY <2>1 DEF PerLoop
<1> DEFINE P == PerLoop
<1> HIDE DEF P
<1>2. P \in Nat
  BY <1>1 DEF P
<1>3. /\ \A k \in Nat : k * P \in Nat /\ (k + 1) * P = k * P + P
      /\ 0 * P = 0
      /\ \A k, i \in Nat : (k + i) * P = k * P + i * P
  BY <1>2
<1> QED BY <1>1, <1>3 DEF Total, P

LEMMA PerLoopType == PerLoop \in Nat /\ 2 <= PerLoop
<1>1. Calls(Len(Table)) \in Nat
  BY CallsStep, FuzzAssumption
<1> QED BY <1>1 DEF PerLoop

LEMMA TotalSum ==
    ASSUME NEW k \in Nat, NEW i \in Nat
    PROVE  Total(k + i) = Total(k) + Total(i) /\ Total(k) \in Nat /\ Total(i) \in Nat
BY TotalStep, Zenon

LEMMA TotalPred ==
    ASSUME NEW k \in Nat \ {0}
    PROVE  /\ Total(k - 1) \in Nat /\ Total(k) \in Nat
           /\ Total(k - 1) + PerLoop = Total(k)
<1>1. k - 1 \in Nat /\ (k - 1) + 1 = k
  OBVIOUS
<1>2. \A i \in Nat : Total(i) \in Nat /\ Total(i + 1) = Total(i) + PerLoop
  BY TotalStep, Zenon
<1>3. Total(k - 1) \in Nat /\ Total((k - 1) + 1) = Total(k - 1) + PerLoop
  BY <1>1, <1>2
<1>4. Total(k) \in Nat
  BY <1>2
<1> QED BY <1>1, <1>3, <1>4

LEMMA MaxSlotsTotal ==
    /\ MaxSlots = Total(FuzzLoops) + Total(AfterLoops) + 2 * Checks + 1
    /\ MaxSlots \in Nat
<1>1. FuzzLoops \in Nat /\ AfterLoops \in Nat /\ Checks \in Nat
  BY FuzzAssumption
<1>2. Cardinality({i \in DOMAIN Table : Table[i] # "noop"}) = Calls(Len(Table))
  <2>1. DOMAIN Table = 1..Len(Table)
    BY FuzzAssumption
  <2> QED BY <2>1 DEF Calls
<1>3. MaxSlots = Total(FuzzLoops + AfterLoops) + 2 * Checks + 1
  BY <1>2 DEF MaxSlots, Total, PerLoop
<1>4. /\ Total(FuzzLoops + AfterLoops) = Total(FuzzLoops) + Total(AfterLoops)
      /\ Total(FuzzLoops) \in Nat /\ Total(AfterLoops) \in Nat
  BY <1>1, TotalStep, Zenon
<1> QED BY <1>1, <1>3, <1>4

LEMMA BeforeType ==
    ASSUME NEW closed, NEW i \in Nat \ {0}
    PROVE  Before(closed, i) \in Nat
<1>1. Total(i - 1) \in Nat /\ Total(FuzzLoops) \in Nat /\ Checks \in Nat
  <2>1. i - 1 \in Nat
    OBVIOUS
  <2> QED BY <2>1, TotalStep, FuzzAssumption, Zenon
<1> QED BY <1>1 DEF Before

\* One update_fuzz_scripts() takes at most one slot, none if it adds no text
\* and no text waits.
LEMMA Counted ==
    ASSUME Typed, NEW text \in Seq(Op), update_fuzz_scripts(text)
    PROVE  /\ loop' \in Nat /\ loop' <= loop + 1 /\ Pending' = 0
           /\ text = <<>> => loop' <= loop + Pending
<1>1. line \in Seq(Op) /\ loop \in Nat
  BY DEF Typed
<1>2. /\ line' = <<>>
      /\ IF line \o text = <<>> THEN UNCHANGED <<scripts, loop>>
         ELSE scripts' = Put(scripts, loop, line \o text) /\ loop' = loop + 1
  BY <1>1, ScriptsStep
<1>3. loop' = loop \/ (loop' = loop + 1 /\ line \o text # <<>>)
  BY <1>2
<1>4. text = <<>> => line \o text = line
  BY <1>1
<1> QED BY <1>1, <1>2, <1>3, <1>4 DEF Pending

\* The end of an iteration of do_some_fuzz().
LEMMA LoopBounded ==
    ASSUME Typed, NextLoop, UNCHANGED after, n \in 1..Loops,
           Bounded, pc = "syscall", loop' \in Nat,
           loop' + Pending' <= Before(after, n) + PerLoop
    PROVE  Bounded'
<1>0. /\ FuzzLoops \in Nat \ {0} /\ AfterLoops \in Nat \ {0} /\ Checks \in Nat \ {0}
      /\ n \in Nat \ {0} /\ n <= Loops
  BY FuzzAssumption DEF Typed, Loops
<1>1. Pending \in 0..1 /\ Pending' \in 0..1
  BY DEF Pending
<1>2. /\ Total(n - 1) \in Nat /\ Total(n) = Total(n - 1) + PerLoop /\ PerLoop \in Nat
      /\ Total(FuzzLoops) \in Nat /\ Total(0) = 0
  <2>1. n - 1 \in Nat /\ (n - 1) + 1 = n
    BY <1>0
  <2> QED BY <1>0, <2>1, TotalStep, Zenon
<1>3. Before(after, n) + PerLoop = Before(after, n + 1)
  BY <1>0, <1>2 DEF Before
<1>4. Before(after, n) \in Nat
  BY <1>0, <1>2 DEF Before
<1>5. CASE n < Loops
  <2>1. n' = n + 1 /\ pc' = LoopTop /\ j' = 1
    BY <1>5 DEF NextLoop, Loops
  <2>2. loop' + Pending' <= Before(after, n')
    BY <1>3, <2>1
  <2>3. n' \in 1..Loops'
    BY <1>0, <1>5, <2>1 DEF Loops
  <2>4. Before(after, n') \in Nat
    BY <1>2, <1>3, <1>4, <2>1
  <2>5. loop' <= Before(after, n') /\ loop' + Pending' <= Before(after, n') + 2
    BY <1>1, <2>2, <2>4
  <2>6. Calls(j' - 1) = 0
    BY <2>1, CallsStep
  <2> QED BY <2>1, <2>3, <2>4, <2>5, <2>6, LoopTopType DEF Bounded
<1>6. CASE ~(n < Loops) /\ ~after
  <2>1. n' = 1 /\ pc' = "check" /\ n = FuzzLoops
    BY <1>0, <1>6 DEF NextLoop, Loops
  <2>2. loop' <= Total(FuzzLoops)
    BY <1>0, <1>1, <1>2, <1>6, <2>1 DEF Before
  <2> QED BY <1>0, <1>2, <1>6, <2>1, <2>2 DEF Bounded
<1>7. CASE ~(n < Loops) /\ after
  <2>1. n' = 1 /\ pc' = "finish" /\ n = AfterLoops
    BY <1>0, <1>7 DEF NextLoop, Loops
  <2>2. Before(after, n) + PerLoop = MaxSlots
    BY <1>0, <1>2, <1>7, <2>1, MaxSlotsTotal DEF Before
  <2>3. loop' <= MaxSlots'
    <3>1. loop' <= MaxSlots
      BY <1>1, <2>2, MaxSlotsTotal
    <3> QED BY <3>1 DEF MaxSlots
  <2> QED BY <2>1, <2>3 DEF Bounded
<1> QED BY <1>5, <1>6, <1>7

\* Every step keeps Bounded.
LEMMA NextBounded ==
    ASSUME Typed, Bounded, [Next]_vars
    PROVE  Bounded'
<1>0. /\ Started /\ Draw \in Draws /\ loop \in Nat /\ n \in Nat
      /\ LoopTop \in {"normal", "syscall"}
  BY DrawType, LoopTopType DEF Typed
<1>1. /\ FuzzLoops \in Nat \ {0} /\ AfterLoops \in Nat \ {0} /\ Checks \in Nat \ {0}
      /\ Total(FuzzLoops) \in Nat /\ Total(AfterLoops) \in Nat /\ Total(0) = 0
      /\ Calls(0) = 0
  BY FuzzAssumption, TotalStep, CallsStep, Zenon
<1>2. Pending \in 0..1
  BY DEF Pending
<1>3. CASE fuzz_three_way_handshake_packets
  BY <1>3 DEF fuzz_three_way_handshake_packets, Bounded
<1>4. CASE HandshakeDone
  <2>1. /\ pc = "handshake" /\ n' = 1 /\ j' = 1 /\ pc' = LoopTop
        /\ loop' = loop /\ line' = line /\ after' = after
    BY <1>4 DEF HandshakeDone, book
  <2>2. ~after /\ loop = 0 /\ ~after' /\ loop' = 0
    BY <2>1 DEF Bounded
  <2>3. Before(after', n') = 0 /\ n' \in 1..Loops'
    BY <1>1, <2>1, <2>2 DEF Before, Loops
  <2>4. Pending' \in 0..1
    BY DEF Pending
  <2>5. Calls(j' - 1) = 0
    BY <2>1, CallsStep
  <2> QED BY <1>0, <2>1, <2>2, <2>3, <2>4, <2>5 DEF Bounded
<1>5. CASE FuzzNormal
  <2>1. inject_fuzz_normal_packet(Draw).ops \in Seq(Op)
    BY <1>0, NormalType DEF Draws
  <2>2. loop' \in Nat /\ loop' <= loop + 1
    BY <1>5, <2>1, Counted DEF FuzzNormal
  <2>3. pc = "normal" /\ pc' = "second" /\ UNCHANGED <<n, after>>
    BY <1>5 DEF FuzzNormal
  <2>4. n \in 1..Loops /\ loop <= Before(after, n)
    BY <2>3 DEF Bounded
  <2>5. Before(after, n) \in Nat
    BY <1>0, <2>4, BeforeType
  <2>6. loop' <= Before(after', n') + 1
    BY <1>0, <2>2, <2>3, <2>4, <2>5
  <2> QED BY <2>3, <2>4, <2>6 DEF Bounded, Loops
<1>6. CASE FuzzSecond
  <2> DEFINE d == SecondPackets(Draw)
             text == IF Peek(Draw) < 50 THEN <<>> ELSE <<Comment>> \o d.ops
  <2>1. d.ops \in Seq(Op)
    BY <1>0, SecondType DEF Draws
  <2>2. text \in Seq(Op)
    BY <2>1, CommentSeq
  <2>3. /\ update_fuzz_scripts(text) /\ pc = "second" /\ pc' = "syscall"
        /\ UNCHANGED <<n, j, after>>
    BY <1>6 DEF FuzzSecond
  <2> HIDE DEF text
  <2>4. loop' \in Nat /\ loop' <= loop + 1 /\ Pending' = 0
    BY <2>2, <2>3, Counted
  <2>5. n \in 1..Loops /\ loop <= Before(after, n) + 1 /\ j' = 1
    BY <2>3 DEF Bounded, Typed
  <2>6. Before(after, n) \in Nat
    BY <1>0, <2>5, BeforeType
  <2>7. Calls(j' - 1) = 0
    BY <2>5, CallsStep
  <2>8. loop' + Pending' <= Before(after', n') + 2 + Calls(j' - 1)
    BY <1>0, <2>3, <2>4, <2>5, <2>6, <2>7
  <2> QED BY <2>3, <2>5, <2>8 DEF Bounded, Loops
<1>7. CASE FuzzSyscall
  <2>1. /\ pc = "syscall" /\ UNCHANGED after /\ j \in 1..Len(Table)
        /\ \/ j < Len(Table) /\ j' = j + 1 /\ UNCHANGED <<n, pc>>
           \/ j = Len(Table) /\ NextLoop
    <3>1. pc = "syscall" /\ j \in 1..Len(Table) /\ Len(Table) \in Nat
      BY <1>7, FuzzAssumption DEF FuzzSyscall, Typed
    <3> QED BY <1>7, <3>1 DEF FuzzSyscall
  <2>2. n \in 1..Loops /\ loop + Pending <= Before(after, n) + 2 + Calls(j - 1)
    BY <2>1 DEF Bounded
  <2>3. Before(after, n) \in Nat
    BY <1>0, <2>2, BeforeType
  <2>4. /\ Calls(j) \in Nat /\ Calls(j - 1) \in Nat /\ Calls(j - 1) <= Calls(j)
        /\ Table[j] # "noop" => Calls(j) = Calls(j - 1) + 1
    <3>1. j - 1 \in 0..Len(Table) /\ j \in 0..Len(Table)
      BY <2>1, FuzzAssumption
    <3> QED BY <2>1, <3>1, CallsStep
  <2>5. loop' \in Nat /\ Pending' \in 0..1 /\ loop' + Pending' <= Before(after, n) + 2 + Calls(j)
    <3>1. CASE UNCHANGED book
      <4>1. loop' = loop /\ Pending' = Pending
        BY <3>1 DEF book, Pending
      <4> QED BY <1>0, <1>2, <2>2, <2>3, <2>4, <4>1
    <3>2. CASE update_fuzz_scripts(<<>>)
      <4>1. <<>> \in Seq(Op)
        OBVIOUS
      <4>2. loop' \in Nat /\ Pending' = 0 /\ loop' <= loop + Pending
        BY <3>2, <4>1, Counted, Zenon
      <4> QED BY <1>0, <1>2, <2>2, <2>3, <2>4, <4>2
    <3>3. ASSUME Table[j] # "noop", NEW p \in Op, update_fuzz_scripts(<<p>>)
          PROVE  /\ loop' \in Nat /\ Pending' \in 0..1
                 /\ loop' + Pending' <= Before(after, n) + 2 + Calls(j)
      <4>1. <<p>> \in Seq(Op)
        BY <1>0, SetOps
      <4>2. loop' \in Nat /\ Pending' = 0 /\ loop' <= loop + 1
        BY <3>3, <4>1, Counted, Zenon
      <4> QED BY <1>0, <1>2, <2>2, <2>3, <2>4, <3>3, <4>2
    <3> QED BY <1>7, <3>1, <3>2, <3>3, SyscallBook, Zenon
  <2>6. CASE j < Len(Table) /\ j' = j + 1 /\ UNCHANGED <<n, pc>>
    <3>1. j' - 1 = j
      BY <2>1, <2>6, FuzzAssumption
    <3>2. n' \in 1..Loops' /\ pc' = "syscall"
      BY <2>1, <2>2, <2>6 DEF Loops
    <3>3. loop' + Pending' <= Before(after', n') + 2 + Calls(j' - 1)
      BY <2>1, <2>5, <2>6, <3>1
    <3> QED BY <3>2, <3>3 DEF Bounded
  <2>7. CASE j = Len(Table) /\ NextLoop
    <3>1. loop' + Pending' <= Before(after, n) + PerLoop
      <4>1. PerLoop = 2 + Calls(j)
        BY <2>7 DEF PerLoop
      <4> QED BY <2>3, <2>4, <2>5, <4>1
    <3> QED BY <2>1, <2>2, <2>5, <2>7, <3>1, LoopBounded
  <2> QED BY <2>1, <2>6, <2>7
<1>8. CASE NoSyscall
  <2>1. /\ pc = "syscall" /\ UNCHANGED <<after, line, loop>> /\ NextLoop
        /\ j \in 1..Len(Table) /\ j - 1 \in 0..Len(Table)
    BY <1>8, FuzzAssumption DEF NoSyscall, book, Typed
  <2>2. n \in 1..Loops /\ loop + Pending <= Before(after, n) + 2 + Calls(j - 1)
    BY <2>1 DEF Bounded
  <2>3. Before(after, n) \in Nat
    BY <1>0, <2>2, BeforeType
  <2>4. Calls(j - 1) <= Calls(Len(Table)) /\ Calls(j - 1) \in Nat /\ Calls(Len(Table)) \in Nat
    BY <2>1, CallsUpTo, CallsStep, FuzzAssumption
  <2>5. loop' + Pending' <= Before(after, n) + PerLoop
    <3>1. loop' = loop /\ Pending' = Pending
      BY <2>1 DEF Pending
    <3> QED BY <1>0, <1>2, <2>2, <2>3, <2>4, <3>1 DEF PerLoop
  <2> QED BY <1>0, <2>1, <2>2, <2>5, LoopBounded
<1>9. CASE CheckPacket
  <2> DEFINE d == fuzz_to_packet(should_fuzz(Draw), TRUE)
  <2>1. d \in Draws
    BY <1>0, ShouldFuzzType, DataPacketType, Zenon
  <2>2. \/ update_fuzz_scripts(d.ops)
        \/ UNCHANGED <<line, scripts, loop>>
    BY <1>9, Zenon DEF CheckPacket
  <2>3. pc = "check" /\ pc' = "check_read" /\ UNCHANGED <<n, after>>
    BY <1>9 DEF CheckPacket
  <2> HIDE DEF d
  <2>4. d.ops \in Seq(Op)
    BY <2>1 DEF Draws
  <2>5. loop' \in Nat /\ loop' <= loop + 1
    <3>1. CASE update_fuzz_scripts(d.ops)
      BY <2>4, <3>1, Counted
    <3>2. CASE UNCHANGED loop
      BY <1>0, <3>2
    <3> QED BY <2>2, <3>1, <3>2
  <2>6. n \in 1..Checks /\ ~after /\ loop <= Total(FuzzLoops) + 2 * (n - 1)
    BY <2>3 DEF Bounded
  <2>7. loop' <= Total(FuzzLoops) + 2 * (n' - 1) + 1
    BY <1>0, <1>1, <2>3, <2>5, <2>6
  <2> QED BY <2>3, <2>6, <2>7 DEF Bounded
<1>10. CASE CheckRead
  <2> DEFINE read == [Comment EXCEPT !.op = "read", !.len = 20]
  <2>1. read \in Op
    <3>1. "read" \in OpNames /\ 20 \in Int
      BY DEF OpNames
    <3> QED BY <3>1, CommentType, Zenon DEF Op
  <2>2. \/ update_fuzz_scripts(<<read>>)
        \/ UNCHANGED <<line, scripts, loop>>
    BY <1>10 DEF CheckRead
  <2>3. /\ pc = "check_read" /\ UNCHANGED after
        /\ IF n < Checks THEN n' = n + 1 /\ pc' = "check"
                         ELSE n' = 1 /\ pc' = "close"
    BY <1>10 DEF CheckRead
  <2> HIDE DEF read
  <2>4. <<read>> \in Seq(Op)
    BY <2>1, <1>0, SetOps
  <2>5. loop' \in Nat /\ loop' <= loop + 1
    <3>1. CASE update_fuzz_scripts(<<read>>)
      BY <2>4, <3>1, Counted
    <3>2. CASE UNCHANGED loop
      BY <1>0, <3>2
    <3> QED BY <2>2, <3>1, <3>2
  <2>6. n \in 1..Checks /\ ~after /\ loop <= Total(FuzzLoops) + 2 * (n - 1) + 1
    BY <2>3 DEF Bounded
  <2>7. loop' <= Total(FuzzLoops) + 2 * n
    BY <1>0, <1>1, <2>5, <2>6
  <2>8. CASE n < Checks
    BY <1>1, <2>3, <2>6, <2>7, <2>8 DEF Bounded
  <2>9. CASE ~(n < Checks)
    <3>1. n = Checks
      BY <1>1, <2>6, <2>9
    <3> QED BY <1>1, <2>3, <2>6, <2>7, <2>9, <3>1 DEF Bounded
  <2> QED BY <2>8, <2>9
<1>11. CASE Close
  <2> DEFINE close == [Comment EXCEPT !.op = "close"]
  <2>1. close \in Op
    BY DEF Comment, Op, OpNames
  <2>2. /\ update_fuzz_scripts(<<close>>) /\ pc = "close" /\ after' = TRUE
        /\ pc' = LoopTop /\ n' = n /\ j' = j
    BY <1>11 DEF Close
  <2> HIDE DEF close
  <2>3. <<close>> \in Seq(Op)
    BY <2>1, <1>0, SetOps
  <2>4. loop' \in Nat /\ loop' <= loop + 1 /\ Pending' = 0
    BY <2>2, <2>3, Counted, Zenon
  <2>5. n = 1 /\ loop <= Total(FuzzLoops) + 2 * Checks /\ j = 1
    BY <2>2 DEF Bounded, Typed
  <2>6. Before(after', n') = Total(FuzzLoops) + 2 * Checks + 1
    BY <1>1, <2>2, <2>5 DEF Before
  <2>7. n' \in 1..Loops'
    BY <1>1, <2>2, <2>5 DEF Loops
  <2>8. Calls(j' - 1) = 0
    BY <2>2, <2>5, CallsStep
  <2>9. loop' <= Before(after', n') /\ loop' + Pending' <= Before(after', n') + 2
    BY <1>0, <1>1, <2>4, <2>5, <2>6
  <2>10. Before(after', n') \in Nat
    BY <1>1, <2>6
  <2>11. pc' = "normal" \/ pc' = "syscall"
    BY <1>0, <2>2
  <2> QED BY <2>7, <2>8, <2>9, <2>10, <2>11 DEF Bounded
<1>12. CASE SecondRun
  <2>1. pc' = "handshake" /\ loop' = 0 /\ after' = FALSE
    BY <1>12 DEF SecondRun, Reinit
  <2> QED BY <2>1 DEF Bounded
<1>13. CASE Compare
  <2>1. pc = "finish" /\ pc' = "compared" /\ loop' = loop
    BY <1>13 DEF Compare, book
  <2>2. MaxSlots' = MaxSlots
    BY DEF MaxSlots
  <2> QED BY <2>1, <2>2 DEF Bounded
<1>14. CASE Ended \/ UNCHANGED vars
  <2>1. UNCHANGED <<pc, loop, after, n, j, line>>
    BY <1>14 DEF Ended, vars, book
  <2>2. UNCHANGED <<Loops, Pending, MaxSlots>>
    BY <2>1 DEF Loops, Pending, MaxSlots
  <2> QED BY <2>1, <2>2 DEF Bounded
<1> QED BY <1>3, <1>4, <1>5, <1>6, <1>7, <1>8, <1>9, <1>10, <1>11, <1>12,
           <1>13, <1>14 DEF Next

\* The loop index that update_fuzz_scripts() and update_fuzz_results() write
\* at never exceeds MaxSlots, whatever the file holds: with the counts of the
\* code 163, of the 1000 entries that fuzz_scripts and fuzz_results have.
THEOREM SlotsStayInRange == Spec => []SlotsInRange
<1>1. Init => Typed /\ Bounded
  <2>1. ASSUME Init PROVE Bounded
    BY <2>1 DEF Init, Bounded
  <2> QED BY <2>1, InitTyped
<1>2. Typed /\ Bounded /\ [Next]_vars => (Typed /\ Bounded)'
  BY NextTyped, NextBounded
<1>3. Typed /\ Bounded => SlotsInRange
  <2> SUFFICES ASSUME Typed, Bounded PROVE loop <= MaxSlots
    BY DEF SlotsInRange
  <2>1. /\ FuzzLoops \in Nat /\ AfterLoops \in Nat /\ Checks \in Nat
        /\ Total(FuzzLoops) \in Nat /\ Total(AfterLoops) \in Nat
        /\ loop \in Nat /\ n \in Nat /\ Pending \in 0..1
    <3>1. FuzzLoops \in Nat /\ AfterLoops \in Nat /\ Checks \in Nat
      BY FuzzAssumption
    <3>2. loop \in Nat /\ n \in Nat /\ Pending \in 0..1
      BY DEF Typed, Pending
    <3> QED BY <3>1, <3>2, TotalSum, Zenon
  <2>2. /\ MaxSlots = Total(FuzzLoops) + Total(AfterLoops) + 2 * Checks + 1
        /\ MaxSlots \in Nat
    BY MaxSlotsTotal
  <2>3. CASE pc \in {"normal", "second", "syscall"}
    <3>1. n \in 1..Loops
      BY <2>3 DEF Bounded
    <3>2. Before(after, n) \in Nat
      BY <2>1, <3>1, BeforeType
    <3>3. loop <= Before(after, n) + PerLoop
      <4>1. PerLoop \in Nat /\ 2 <= PerLoop
        BY PerLoopType
      <4>2. pc = "syscall" => /\ Calls(j - 1) <= Calls(Len(Table))
                              /\ Calls(j - 1) \in Nat /\ Calls(Len(Table)) \in Nat
        <5>1. pc = "syscall" => j - 1 \in 0..Len(Table)
          BY FuzzAssumption DEF Typed
        <5> QED BY <5>1, CallsUpTo, CallsStep, FuzzAssumption
      <4>3. CASE pc = "syscall"
        BY <2>1, <3>2, <4>2, <4>3 DEF Bounded, PerLoop
      <4>4. CASE pc \in {"normal", "second"}
        BY <2>1, <3>2, <4>1, <4>4 DEF Bounded
      <4> QED BY <2>3, <4>3, <4>4
    <3>4. Before(after, n) + PerLoop <= MaxSlots
      <4>1. Total(n - 1) + PerLoop = Total(n) /\ Total(n) \in Nat
        BY <2>1, <3>1, TotalPred
      <4>2. ASSUME NEW k \in Nat, n <= k PROVE Total(n) <= Total(k)
        <5>1. k - n \in Nat /\ n + (k - n) = k
          BY <2>1, <4>2
        <5>2. Total(k) = Total(n) + Total(k - n) /\ Total(k - n) \in Nat
          BY <2>1, <5>1, TotalSum, ZenonT(30)
        <5> QED BY <4>1, <5>2
      <4>3. Total(n - 1) \in Nat
        BY <2>1, <3>1, TotalPred
      <4>4. CASE after
        <5>1. Total(n) <= Total(AfterLoops)
          BY <2>1, <3>1, <4>2, <4>4 DEF Loops
        <5> QED BY <2>1, <2>2, <4>1, <4>3, <4>4, <5>1, PerLoopType DEF Before
      <4>5. CASE ~after
        <5>1. Total(n) <= Total(FuzzLoops)
          BY <2>1, <3>1, <4>2, <4>5 DEF Loops
        <5> QED BY <2>1, <2>2, <4>1, <4>3, <4>5, <5>1, PerLoopType DEF Before
      <4> QED BY <4>4, <4>5
    <3> QED BY <2>1, <2>2, <3>2, <3>3, <3>4, PerLoopType
  <2>4. CASE pc \in {"handshake", "exited"}
    BY <2>2, <2>4 DEF Bounded
  <2>5. CASE pc \in {"check", "check_read", "close"}
    BY <2>1, <2>2, <2>5 DEF Bounded
  <2>6. CASE pc \in {"finish", "compared"}
    BY <2>6 DEF Bounded
  <2> QED BY <2>3, <2>4, <2>5, <2>6 DEF Typed, PCs
<1> QED BY <1>1, <1>2, <1>3, PTL DEF Spec

=============================================================================
