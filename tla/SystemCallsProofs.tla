-------------------------- MODULE SystemCallsProofs --------------------------
(* Theorems about SystemCalls, for every set of calls, every number of live *)
(* descriptors and every bound on the table.                                *)
EXTENDS SystemCallsLemmas

----------------------------------------------------------------------------
(* What a handler does after the live call. *)

\* A call other than close() whose outcome is the expected one.  Its new
\* descriptors go from the hands of the call into the table.
LEMMA MatchKeeps ==
    ASSUME NEW c \in Calls, Orderly(Calls), c.name # "close",
           NEW o, NEW made, NEW k, NEW t, NEW X,
           Good(fds, k, X \cup Elements(made)), Elements(made) \cap X = {},
           MadeBy(c, o, made), Makings(c, k, made), Restated(fds, t),
           c.name = "accept" /\ o.r >= 0 => Unused(fds)
    PROVE  /\ Good(t, k, X) /\ KeepsChildren(fds, t)
           /\ Good(AfterMatch(c, o, made, k, t).fds, k, X)
           /\ /\ AfterMatch(c, o, made, k, t).ok
              /\ Owned(fds, k, X \cup Elements(made))
              => Owned(AfterMatch(c, o, made, k, t).fds, k, X)
           /\ IF c.name = "accept" /\ o.r >= 0
                THEN NoChild(fds) => NoChild(AfterMatch(c, o, made, k, t).fds)
                ELSE KeepsChildren(fds, AfterMatch(c, o, made, k, t).fds)
<1> DEFINE next == AfterMatch(c, o, made, k, t)
           M == Elements(made)
           n == s32(c.result.num)
           P(f, ok) == /\ Good(f, k, X)
                       /\ ok /\ Owned(fds, k, X \cup M) => Owned(f, k, X)
                       /\ IF c.name = "accept" /\ o.r >= 0
                            THEN NoChild(fds) => NoChild(f)
                            ELSE KeepsChildren(fds, f)
<1>1. /\ fds \in Seq(Entries) /\ k \in [LiveFds -> Objects]
      /\ n \in Scripts /\ o.r \in Int
  BY DEF Good, Typed, Scripts, MadeBy
<1>2. /\ Good(t, k, X \cup M) /\ KeepsChildren(fds, t)
      /\ Owned(fds, k, X \cup M) => Owned(t, k, X \cup M)
  BY RestateEntries, RestateKeeps
<1>3. Good(t, k, X)
  BY <1>2, Forget
<1>4. P(t, FALSE)
  BY <1>2, <1>3 DEF KeepsChildren
<1>5. ASSUME NEW e \in Entries, M = {o.r}, o.r \in LiveFds, e.live = o.r,
             ~e.closed, e.obj = k[o.r].id, e.st # "synack",
             k[o.r].type = "socket" => e.type = "socket"
      PROVE  P(state_add_fd(fds, e), TRUE)
  <2>1. /\ Good(state_add_fd(fds, e), k, X)
        /\ Owned(fds, k, X \cup {o.r}) => Owned(state_add_fd(fds, e), k, X)
        /\ KeepsChildren(fds, state_add_fd(fds, e))
    <3> HIDE DEF M
    <3>1. o.r \notin X /\ Good(fds, k, X \cup {o.r})
      BY <1>5 DEF M
    <3> QED BY <1>5, <3>1, EnterMade, Zenon
  <2> QED BY <1>5, <2>1, Zenon DEF KeepsChildren
<1>6. ASSUME c.name \in Makers, o.r >= 0
      PROVE  /\ M = {o.r} /\ o.r \in LiveFds /\ k[o.r].type = TypeMade[c.name]
             /\ \A type \in {"socket", "file", "epoll", "pipe"} :
                   /\ Entry(type, n, o.r, k) \in Entries
                   /\ Entry(type, n, o.r, k).type = type
                   /\ Entry(type, n, o.r, k).live = o.r
                   /\ ~Entry(type, n, o.r, k).closed
                   /\ Entry(type, n, o.r, k).obj = k[o.r].id
                   /\ Entry(type, n, o.r, k).st = "new"
  <2>1. o.r \in LiveFds /\ made = <<o.r>>
    BY <1>1, <1>6 DEF MadeBy, Makers
  <2>2. M = {o.r}
    BY <2>1 DEF Elements
  <2>3. k[o.r].type = TypeMade[c.name]
    BY <2>2 DEF Makings
  <2> HIDE DEF M, n, P, next
  <2>4. ASSUME NEW type \in {"socket", "file", "epoll", "pipe"}
        PROVE  /\ Entry(type, n, o.r, k) \in Entries
               /\ Entry(type, n, o.r, k).type = type
               /\ Entry(type, n, o.r, k).live = o.r
               /\ ~Entry(type, n, o.r, k).closed
               /\ Entry(type, n, o.r, k).obj = k[o.r].id
               /\ Entry(type, n, o.r, k).st = "new"
    BY <1>1, <2>1, EntryFields
  <2> QED BY <2>1, <2>2, <2>3, <2>4, Zenon
<1>7. CASE c.name = "socket" /\ o.r >= 0
  <2> DEFINE e == [Entry("socket", n, o.r, k) EXCEPT
                      !.proto = IF c.args[3].num = 1 THEN "icmp" ELSE "tcp"]
  <2>1. c.name \in Makers
    BY <1>7 DEF Makers
  <2>2. /\ e \in Entries /\ e.live = o.r /\ ~e.closed /\ e.obj = k[o.r].id
        /\ e.st = "new" /\ e.type = "socket"
    <3> HIDE DEF n, M
    <3> QED BY <1>6, <1>7, <2>1 DEF Entries
  <2>3. P(state_add_fd(fds, e), TRUE)
    <3> HIDE DEF e, P, M
    <3> QED BY <1>5, <1>6, <1>7, <2>1, <2>2, Zenon
  <2>4. \/ next.fds = state_add_fd(fds, e) /\ next.ok = TRUE
        \/ next.fds = t /\ next.ok = FALSE
    BY <1>7 DEF AfterMatch, run_syscall_socket
  <2> HIDE DEF P, e, next
  <2>5. P(next.fds, next.ok)
    BY <1>4, <2>3, <2>4, Zenon
  <2> QED BY <1>2, <1>3, <2>5 DEF P, next, M
<1>8. CASE c.name \in {"open", "epoll_create"} /\ o.r >= 0
  <2> DEFINE type == IF c.name = "open" THEN "file" ELSE "epoll"
             e == Entry(type, n, o.r, k)
  <2>1. c.name \in Makers /\ k[o.r].type = type
    <3>1. c.name \in Makers
      BY <1>8 DEF Makers
    <3>2. k[o.r].type = TypeMade[c.name]
      BY <1>6, <1>8, <3>1, Zenon
    <3>3. TypeMade[c.name] = type
      BY <1>8 DEF TypeMade
    <3> QED BY <3>1, <3>2, <3>3
  <2>2. /\ e \in Entries /\ e.live = o.r /\ ~e.closed /\ e.obj = k[o.r].id
        /\ e.st = "new" /\ e.type = type /\ type # "socket"
    <3> HIDE DEF n, M, e
    <3> QED BY <1>6, <1>8, <2>1, Zenon DEF e
  <2>3. P(state_add_fd(fds, e), TRUE)
    <3> HIDE DEF e, P, M, type
    <3> QED BY <1>5, <1>6, <1>8, <2>1, <2>2, ZenonT(30)
  <2>4. \/ next.fds = state_add_fd(fds, e) /\ next.ok = TRUE
        \/ next.fds = t /\ next.ok = FALSE
    BY <1>8 DEF AfterMatch, run_syscall_open, run_syscall_epoll_create
  <2> HIDE DEF P, e, next
  <2>5. P(next.fds, next.ok)
    BY <1>4, <2>3, <2>4, Zenon
  <2> QED BY <1>2, <1>3, <2>5 DEF P, next, M
<1>9. CASE c.name = "pipe" /\ o.r >= 0
  <2>1. PICK a \in LiveFds, b \in LiveFds : a # b /\ made = <<a, b>>
    BY <1>1, <1>9 DEF MadeBy, Makers
  <2>2. M = {a, b}
    BY <2>1 DEF Elements
  <2>3. k[a].type = "pipe" /\ k[b].type = "pipe"
    BY <1>9, <2>2 DEF Makings, TypeMade
  <2> DEFINE ns == [i \in 1..2 |-> s32(c.args[1].list[i].num)]
             d == Entry("pipe", ns[1], a, k)
             e == Entry("pipe", ns[2], b, k)
             g == state_add_fd(fds, d)
  <2>4. ns[1] \in Scripts /\ ns[2] \in Scripts
    BY DEF Scripts
  <2>5. /\ d \in Entries /\ d.live = a /\ ~d.closed /\ d.obj = k[a].id
        /\ d.st = "new" /\ e \in Entries /\ e.live = b /\ ~e.closed
        /\ e.obj = k[b].id /\ e.st = "new"
    <3> HIDE DEF ns, M, n, P, next
    <3>1. ASSUME NEW m \in Scripts, NEW l \in LiveFds,
                 NEW x, x = Entry("pipe", m, l, k)
          PROVE  /\ x \in Entries /\ x.live = l /\ ~x.closed
                 /\ x.obj = k[l].id /\ x.st = "new"
      BY <1>1, <3>1, EntryFields
    <3>2. a \in LiveFds /\ b \in LiveFds
      BY <2>1
    <3> HIDE DEF d, e
    <3>3. d = Entry("pipe", ns[1], a, k) /\ e = Entry("pipe", ns[2], b, k)
      BY Zenon DEF d, e
    <3>4. /\ d \in Entries /\ d.live = a /\ ~d.closed /\ d.obj = k[a].id
          /\ d.st = "new"
      BY <2>4, <3>1, <3>2, <3>3
    <3>5. /\ e \in Entries /\ e.live = b /\ ~e.closed /\ e.obj = k[b].id
          /\ e.st = "new"
      BY <2>4, <3>1, <3>2, <3>3
    <3> QED BY <3>4, <3>5, Zenon
  <2>6. a \notin X \cup {b} /\ b \notin X /\ X \cup M = (X \cup {b}) \cup {a}
    BY <2>1, <2>2
  <2>7. Good(fds, k, (X \cup {b}) \cup {a})
    BY <2>6
  <2> HIDE DEF M, d, e
  <2>8. /\ Good(g, k, X \cup {b}) /\ KeepsChildren(fds, g)
        /\ Owned(fds, k, (X \cup {b}) \cup {a}) => Owned(g, k, X \cup {b})
    <3>1. d.st # "synack" /\ (k[a].type = "socket" => d.type = "socket")
      BY <2>3, <2>5
    <3>2. PICK Y : Y = X \cup {b}
      BY Zenon
    <3>3. Good(fds, k, Y \cup {a}) /\ a \notin Y /\ a \in LiveFds
      BY <2>1, <2>6, <2>7, <3>2, Zenon
    <3>4. d \in Entries /\ d.live = a /\ ~d.closed /\ d.obj = k[a].id
      BY <2>5, Zenon
    <3> HIDE DEF g
    <3>5. /\ Good(state_add_fd(fds, d), k, Y)
          /\ KeepsChildren(fds, state_add_fd(fds, d))
          /\ Owned(fds, k, Y \cup {a}) => Owned(state_add_fd(fds, d), k, Y)
      BY <3>1, <3>3, <3>4, EnterMade, Zenon
    <3> QED BY <3>2, <3>5, Zenon DEF g
  <2>9. g \in Seq(Entries)
    BY <2>8 DEF Good, Typed
  <2> HIDE DEF g
  <2>10. /\ Good(state_add_fd(g, e), k, X) /\ KeepsChildren(g, state_add_fd(g, e))
         /\ Owned(g, k, X \cup {b}) => Owned(state_add_fd(g, e), k, X)
    <3>1. e.st # "synack" /\ (k[b].type = "socket" => e.type = "socket")
      BY <2>3, <2>5
    <3>2. KeepsChildren(g, <<e>> \o g)
      BY <2>5, <2>9, <3>1, AddKeeps
    <3>3. /\ Good(<<e>> \o g, k, X)
          /\ Owned(g, k, X \cup {b}) => Owned(<<e>> \o g, k, X)
      BY <2>5, <2>6, <2>8, <3>1, AddEntry
    <3> QED BY <3>2, <3>3 DEF state_add_fd
  <2>11. P(state_add_fd(g, e), TRUE)
    BY <1>9, <2>6, <2>8, <2>10, SMTT(30) DEF KeepsChildren
  <2>12. \/ next.fds = state_add_fd(g, e) /\ next.ok = TRUE
         \/ next.fds = t /\ next.ok = FALSE
    BY <1>9, <2>1 DEF AfterMatch, run_syscall_pipe, g, d, e
  <2> HIDE DEF P, next
  <2>13. P(next.fds, next.ok)
    BY <1>4, <2>11, <2>12, Zenon
  <2> QED BY <1>2, <1>3, <2>13 DEF P, next, M
<1>10. CASE c.name = "accept" /\ o.r >= 0
  <2> DEFINE i == Min(Children)
             g == [fds EXCEPT ![i].script = n, ![i].live = o.r,
                              ![i].obj = k[o.r].id]
             e == [Entry("socket", n, o.r, k) EXCEPT !.st = "init"]
  <2>1. c.name \in Makers
    BY <1>10 DEF Makers
  <2>2. /\ M = {o.r} /\ o.r \in LiveFds /\ o.r \notin X
        /\ Good(fds, k, X \cup {o.r})
    BY <1>6, <1>10, <2>1, Zenon
  <2>3. CASE Children # {}
    <3>1. Children \in SUBSET Nat
      BY <1>1 DEF Children
    <3>2. i \in Children
      BY <2>3, <3>1, NatMin
    <3>3. /\ i \in DOMAIN fds /\ fds[i].type = "socket" /\ fds[i].live = -1
          /\ fds[i].st = "synack"
      BY <1>10, <3>2 DEF Children, Unused
    <3> HIDE DEF i, M, n, P, next
    <3>4. Good(g, k, X) /\ (Owned(fds, k, X \cup {o.r}) => Owned(g, k, X))
      <4> DEFINE d == [fds[i] EXCEPT !.script = n, !.live = o.r,
                                     !.obj = k[o.r].id]
      <4>1. fds[i] \in Entries /\ ~fds[i].closed /\ k[o.r] \in Objects
        <5>1. fds[i] \in Entries /\ k[o.r] \in Objects
          BY <1>1, <2>2, <3>3
        <5>2. Faithful(fds, k, X \cup {o.r})
          BY <2>2 DEF Good
        <5>3. ~fds[i].closed
          BY <3>3, <5>2 DEF Faithful
        <5> QED BY <5>1, <5>3
      <4>2. k[o.r].id \in Nat
        BY <4>1, Zenon DEF Objects
      <4>3. /\ d \in Entries /\ d.live = o.r /\ d.obj = k[o.r].id
            /\ ~d.closed /\ d.type = "socket"
        BY <1>1, <2>2, <3>3, <4>1, <4>2, Zenon DEF Entries
      <4>4. g = [fds EXCEPT ![i] = d]
        BY <1>1, <3>3, <4>1, Zenon
      <4> HIDE DEF d, g
      <4> QED BY <1>1, <2>2, <3>3, <4>3, <4>4, AcceptEntry, Zenon
    <3>5. ~NoChild(fds)
      BY <3>3 DEF NoChild
    <3> HIDE DEF g
    <3>6. P(g, TRUE)
      BY <1>10, <2>2, <3>4, <3>5 DEF P
    <3>7. next.fds = g /\ next.ok = TRUE
      BY <1>10, <2>3 DEF AfterMatch, run_syscall_accept, next, n, g, i
    <3>8. P(next.fds, next.ok)
      BY <3>6, <3>7, Zenon
    <3> QED BY <1>2, <1>3, <3>8 DEF P, next, M
  <2>4. CASE Children = {}
    <3>1. /\ e \in Entries /\ e.live = o.r /\ ~e.closed /\ e.obj = k[o.r].id
          /\ e.st = "init" /\ e.type = "socket"
      <4> HIDE DEF n, M
      <4> QED BY <1>6, <1>10, <2>1 DEF Entries
    <3>2. P(state_add_fd(fds, e), TRUE)
      <4> HIDE DEF e, P, M
      <4> QED BY <1>5, <2>2, <3>1, Zenon
    <3>3. \/ next.fds = state_add_fd(fds, e) /\ next.ok = TRUE
          \/ next.fds = t /\ next.ok = FALSE
      BY <1>10, <2>4 DEF AfterMatch, run_syscall_accept
    <3> HIDE DEF P, e, next
    <3>4. P(next.fds, next.ok)
      BY <1>4, <3>2, <3>3, Zenon
    <3> QED BY <1>2, <1>3, <3>4 DEF P, next, M
  <2> QED BY <2>3, <2>4
<1>11. ASSUME ~(c.name \in Makers \cup {"pipe"} /\ o.r >= 0)
       PROVE  \A g : Restated(fds, g) => P(g, TRUE)
  <2>1. M = {}
    <3>1. made = <<>>
      BY <1>1, <1>11 DEF MadeBy
    <3> QED BY <3>1 DEF Elements
  <2>2. ~(c.name = "accept" /\ o.r >= 0)
    BY <1>11 DEF Makers
  <2> SUFFICES ASSUME NEW g, Restated(fds, g) PROVE P(g, TRUE)
    OBVIOUS
  <2>3. Good(fds, k, X) /\ X \cup M = X
    BY <2>1
  <2>4. Good(g, k, X) /\ (Owned(fds, k, X) => Owned(g, k, X))
    BY <2>3, RestateEntries
  <2>5. KeepsChildren(fds, g)
    BY <2>3, RestateKeeps
  <2> HIDE DEF M
  <2> QED BY <2>2, <2>3, <2>4, <2>5
<1>12. CASE c.name = "listen"
  <2> DEFINE fd == s32(c.args[1].num)
             i == find_by_script_fd(fd)
             g == [fds EXCEPT ![i].st = "listening"]
  <2>1. fd # -1
    BY <1>12 DEF Orderly, Uses
  <2>2. \A h : Restated(fds, h) => P(h, TRUE)
    <3>1. ~(c.name \in Makers \cup {"pipe"} /\ o.r >= 0)
      BY <1>12 DEF Makers
    <3> QED BY <1>11, <3>1
  <2>3. ASSUME fd_to_socket(i) PROVE P(g, TRUE)
    <3>1. i \in DOMAIN fds /\ fds[i].script = fd
      <4>1. i # 0
        BY <2>3 DEF fd_to_socket
      <4> QED BY <1>1, <4>1, FindFinds
    <3> HIDE DEF i, P
    <3>2. Restated(fds, g)
      BY <1>1, <2>1, <3>1, SetState, Zenon
    <3> QED BY <2>2, <3>2, Zenon
  <2>4. \/ fd_to_socket(i) /\ next.fds = g /\ next.ok = TRUE
        \/ next.fds = t /\ next.ok = FALSE
    BY <1>12 DEF AfterMatch, run_syscall_listen
  <2> HIDE DEF P, next, g, i
  <2>5. P(next.fds, next.ok)
    BY <1>4, <2>3, <2>4, Zenon
  <2> QED BY <1>2, <1>3, <2>5 DEF P, next, M
<1>13. CASE c.name # "listen" /\ ~(c.name \in Makers \cup {"pipe"} /\ o.r >= 0)
  <2>1. P(t, TRUE)
    BY <1>11, <1>13
  <2>2. next.fds = t /\ next.ok = TRUE
    BY <1>13 DEF AfterMatch, Makers
  <2> HIDE DEF P, next
  <2>3. P(next.fds, next.ok)
    BY <2>1, <2>2, Zenon
  <2> QED BY <1>2, <1>3, <2>3 DEF P, next, M
<1> QED BY <1>7, <1>8, <1>9, <1>10, <1>12, <1>13 DEF Makers

----------------------------------------------------------------------------
(* The steps. *)

\* The step before and after, when the program goes on.
LEMMA WaitingKept ==
    ASSUME Waiting, UNCHANGED is_wire_client, KeepsChildren(fds, fds'),
           pending' \in BOOLEAN, pending' => pending, Accepting' => Accepting
    PROVE  Waiting'
BY DEF Waiting, KeepsChildren

\* The connection has been taken.
LEMMA WaitingTaken ==
    ASSUME Waiting, UNCHANGED is_wire_client, NoChild(fds) => NoChild(fds'),
           pending' \in BOOLEAN, pending' => is_wire_client, ~Accepting'
    PROVE  Waiting'
<1>1. NoChild(fds') => Unused(fds')
  BY DEF NoChild, Unused
<1> QED BY <1>1 DEF Waiting

\* The invariant after the program has died.
LEMMA DeadInv ==
    ASSUME Inv, Die, UNCHANGED <<checker, is_wire_client>>, ~duplicate'
    PROVE  Inv'
<1>1. /\ status' = "died" /\ fds' = <<>>
      /\ checker' \in BOOLEAN /\ is_wire_client' \in BOOLEAN
  BY DEF Inv, Die
<1>2. SocketsClosedAtEnd'
  BY <1>1 DEF SocketsClosedAtEnd
<1> QED BY <1>1, <1>2 DEF Inv

\* The invariant after a step of a program that goes on.
LEMMA AliveInv ==
    ASSUME Inv, status = "running", UNCHANGED <<checker, is_wire_client, status>>,
           ~duplicate', Good(fds', kernel', Loose'), ThreadOK', Waiting',
           checker => Owned(fds', kernel', Loose')
    PROVE  Inv'
<1>1. SocketsClosedAtEnd'
  BY DEF SocketsClosedAtEnd
<1> QED BY <1>1 DEF Inv

\* What AfterLive does: the program dies, or the table is the one that
\* AfterMatch says.
LEMMA LiveEffect ==
    ASSUME NEW c, NEW o, NEW made, NEW k, NEW t, AfterLive(c, o, made, k, t),
           ~duplicate, \A i \in DOMAIN made : ~find_by_live_fd(made[i])
    PROVE  /\ ~duplicate'
           /\ \/ Die
              \/ /\ \/ fds' = t /\ ~checker
                    \/ /\ fds' = AfterMatch(c, o, made, k, t).fds
                       /\ checker => AfterMatch(c, o, made, k, t).ok
                 /\ kernel' = k /\ status' = status
                 /\ pending' = (pending /\ (c.blocking \/ ~Takes(c, o)))
                 /\ thread' = IF c.blocking THEN Idle ELSE thread
<1> DEFINE next == AfterMatch(c, o, made, k, t)
           fatal == c.name = "bind" /\ o.r < 0
<1>1. PICK passes :
          /\ duplicate' = (duplicate \/ (passes /\ ~next.ok /\
                               \E i \in DOMAIN made : find_by_live_fd(made[i])))
          /\ IF fatal \/ (checker /\ ~(passes /\ next.ok)) THEN Die
             ELSE /\ fds' = IF passes THEN next.fds ELSE t
                  /\ kernel' = k
                  /\ pending' = (pending /\ (c.blocking \/ ~Takes(c, o)))
                  /\ thread' = IF c.blocking THEN Idle ELSE thread
                  /\ status' = status
                  /\ Bytes(c, o)
  BY Zenon DEF AfterLive
<1> HIDE DEF next, fatal
<1>2. ~duplicate'
  BY <1>1, Zenon
<1>3. \/ Die
      \/ /\ \/ fds' = t /\ ~checker
            \/ fds' = next.fds /\ (checker => next.ok)
         /\ kernel' = k /\ status' = status
         /\ pending' = (pending /\ (c.blocking \/ ~Takes(c, o)))
         /\ thread' = IF c.blocking THEN Idle ELSE thread
  <2>1. CASE fatal \/ (checker /\ ~(passes /\ next.ok))
    BY <1>1, <2>1, Zenon
  <2>2. CASE ~(fatal \/ (checker /\ ~(passes /\ next.ok)))
    BY <1>1, <2>2, Zenon
  <2> QED BY <2>1, <2>2
<1> QED BY <1>2, <1>3 DEF next

\* AfterLive after a call other than close(), in either thread.  X is what
\* the other thread still holds, M what this call has made.
LEMMA LiveKeeps ==
    ASSUME Inv, Orderly(Calls), status = "running", NEW c \in Calls,
           c.name # "close", NEW o, NEW made, NEW k, NEW t, NEW X,
           Good(fds, k, X \cup Elements(made)), Elements(made) \cap X = {},
           checker => Owned(fds, k, X \cup Elements(made)),
           MadeBy(c, o, made), Makings(c, k, made), Restated(fds, t),
           c.name = "accept" /\ o.r >= 0 => Unused(fds),
           AfterLive(c, o, made, k, t), UNCHANGED <<checker, is_wire_client>>
    PROVE  /\ ~duplicate'
           /\ \/ Die
              \/ /\ Good(fds', kernel', X) /\ kernel' = k /\ status' = status
                 /\ checker => Owned(fds', kernel', X)
                 /\ IF c.name = "accept" /\ o.r >= 0
                      THEN NoChild(fds) => NoChild(fds')
                      ELSE KeepsChildren(fds, fds')
                 /\ pending' = (pending /\ (c.blocking \/ ~Takes(c, o)))
                 /\ thread' = IF c.blocking THEN Idle ELSE thread
<1> DEFINE next == AfterMatch(c, o, made, k, t)
           M == Elements(made)
<1>1. \A i \in DOMAIN made : ~find_by_live_fd(made[i])
  <2>1. SUFFICES ASSUME NEW x \in DOMAIN made, NEW i \in DOMAIN fds,
                        ~fds[i].closed, fds[i].live = made[x]
                 PROVE  FALSE
    BY DEF find_by_live_fd
  <2>2. made[x] \in M /\ M \subseteq LiveFds
    BY SMTT(30) DEF Elements, Good
  <2>3. made[x] # -1
    BY <2>2, SystemCallsAssumption
  <2>4. Held(fds[i])
    BY <2>1, <2>3 DEF Held
  <2> QED BY <2>1, <2>2, <2>4, SMTT(30) DEF Good, Faithful
<1>2. ~duplicate
  BY DEF Inv
<1>3. /\ Good(t, k, X) /\ KeepsChildren(fds, t) /\ Good(next.fds, k, X)
      /\ next.ok /\ Owned(fds, k, X \cup M) => Owned(next.fds, k, X)
      /\ IF c.name = "accept" /\ o.r >= 0
           THEN NoChild(fds) => NoChild(next.fds)
           ELSE KeepsChildren(fds, next.fds)
  BY MatchKeeps, Zenon
<1>4. /\ ~duplicate'
      /\ \/ Die
         \/ /\ \/ fds' = t /\ ~checker
               \/ fds' = next.fds /\ (checker => next.ok)
            /\ kernel' = k /\ status' = status
            /\ pending' = (pending /\ (c.blocking \/ ~Takes(c, o)))
            /\ thread' = IF c.blocking THEN Idle ELSE thread
  BY <1>1, <1>2, LiveEffect, Zenon
<1>5. NoChild(fds) => NoChild(t)
  BY <1>3 DEF KeepsChildren
<1> HIDE DEF next, M
<1>6. CASE fds' = t /\ ~checker /\ kernel' = k
  BY <1>3, <1>4, <1>5, <1>6, Zenon
<1>7. CASE fds' = next.fds /\ (checker => next.ok) /\ kernel' = k
  <2>1. Good(fds', kernel', X)
    BY <1>3, <1>7, Zenon
  <2>2. checker => Owned(fds', kernel', X)
    BY <1>3, <1>7, Zenon DEF M
  <2>3. IF c.name = "accept" /\ o.r >= 0 THEN NoChild(fds) => NoChild(fds')
        ELSE KeepsChildren(fds, fds')
    BY <1>3, <1>7, Zenon
  <2> QED BY <1>4, <1>7, <2>1, <2>2, <2>3, Zenon
<1> QED BY <1>4, <1>6, <1>7, ZenonT(30)

\* A step that at most changes the state of a socket and, without anything in
\* the other thread's hands before or after, what that thread does.
LEMMA QuietInv ==
    ASSUME Inv, status = "running", Restated(fds, fds'), ThreadOK',
           Loose' = Loose, Accepting' => Accepting,
           UNCHANGED <<checker, is_wire_client, duplicate, kernel, pending, status>>
    PROVE  Inv'
<1>1. Good(fds, kernel, Loose) /\ Waiting /\ ~duplicate
      /\ (checker => Owned(fds, kernel, Loose))
  BY DEF Inv
<1>2. PICK t : t = fds'
  OBVIOUS
<1>3. Good(fds, kernel, Loose) /\ Restated(fds, t)
  BY <1>1, <1>2
<1>4. Good(t, kernel, Loose) /\ (Owned(fds, kernel, Loose) => Owned(t, kernel, Loose))
  BY <1>3, RestateEntries, Zenon
<1>5. KeepsChildren(fds, t)
  BY <1>3, RestateKeeps, Zenon
<1>6. Good(fds', kernel', Loose') /\ (checker => Owned(fds', kernel', Loose'))
  BY <1>1, <1>2, <1>4, Zenon
<1>7. Waiting'
  <2>1. pending' \in BOOLEAN /\ (pending' => pending)
    BY <1>1, Zenon DEF Waiting
  <2> QED BY <1>1, <1>2, <1>5, <2>1, WaitingKept, Zenon
<1> QED BY <1>1, <1>6, <1>7, AliveInv, Zenon

\* Refuse: at most the state of a socket changes.
LEMMA RefuseInv ==
    ASSUME Inv, Orderly(Calls), NEW c \in Calls, status = "running", Refuse(c)
    PROVE  Inv'
<1> DEFINE h == system_call_table(c, Silent)
           asserts == h.connects /\ ~fd_to_socket(Socket(c))
<1>1. /\ UNCHANGED <<checker, is_wire_client, duplicate>>
      /\ \/ Die
         \/ /\ fds' = fds \/ (fds' = Prepared(c) /\ ~asserts)
            /\ UNCHANGED <<kernel, pending, thread, status>>
  BY Zenon DEF Refuse
<1>2. CASE Die
  BY <1>1, <1>2, DeadInv DEF Inv
<1>3. CASE /\ fds' = fds \/ (fds' = Prepared(c) /\ ~asserts)
           /\ UNCHANGED <<kernel, pending, thread, status>>
  <2>1. ThreadOK /\ fds \in Seq(Entries)
    BY DEF Inv, Good, Typed
  <2>2. Restated(fds, fds')
    <3>1. CASE fds' = fds
      BY <2>1, <3>1 DEF Restated
    <3>2. CASE fds' = Prepared(c) /\ ~asserts
      <4>1. Restated(fds, Prepared(c))
        BY <2>1, <3>2, PrepareRestates
      <4> QED BY <3>2, <4>1
    <3> QED BY <1>3, <3>1, <3>2
  <2>3. ThreadOK' /\ Loose' = Loose /\ (Accepting' => Accepting)
    BY <1>3, <2>1 DEF ThreadOK, Loose, Accepting
  <2> HIDE DEF h
  <2> QED BY <1>1, <1>3, <2>2, <2>3, QuietInv
<1> QED BY <1>1, <1>2, <1>3

\* begin_syscall(): the other thread has nothing in its hands yet.
LEMMA BeginInv ==
    ASSUME Inv, Orderly(Calls), NEW c \in Calls, Valid(c), begin_syscall(c)
    PROVE  Inv'
<1>1. /\ thread = Idle /\ c.blocking /\ status = "running" /\ fds' = Prepared(c)
      /\ UNCHANGED <<checker, is_wire_client, kernel, pending, status, duplicate>>
      /\ thread' = [st |-> "in", call |-> c, live |-> Live(c), bad |-> Bad(Live(c))]
  BY DEF begin_syscall, Valid
<1>2. c.name # "close"
  BY <1>1 DEF Valid, Orderly
<1>3. fds \in Seq(Entries)
  BY <1>1 DEF Inv, Good, Typed
<1>4. Restated(fds, fds')
  <2>1. system_call_table(c, Silent).connects => fd_to_socket(Socket(c))
    BY Zenon DEF begin_syscall, Goes
  <2>2. Restated(fds, Prepared(c))
    BY <1>3, <2>1, PrepareRestates, Zenon
  <2> QED BY <1>1, <2>2
<1>5. thread'.st = "in" /\ thread'.call = c /\ thread.st = "idle"
  BY <1>1 DEF Idle
<1>6. ThreadOK'
  BY <1>1, <1>2, <1>5 DEF ThreadOK
<1>7. Loose' = Loose /\ ~Accepting'
  BY <1>5 DEF Loose, Accepting
<1> QED BY <1>1, <1>4, <1>6, <1>7, QuietInv, SMTT(30)


\* Return: what the call has made is in its thread's hands only.
LEMMA ReturnInv ==
    ASSUME Inv, Return
    PROVE  Inv'
<1>1. /\ status = "running" /\ thread.st = "in" /\ ThreadOK /\ Waiting
      /\ Good(fds, kernel, {}) /\ (checker => Owned(fds, kernel, {})) /\ ~duplicate
      /\ UNCHANGED <<checker, is_wire_client, fds, status, duplicate>>
  BY DEF Inv, Return, Loose
<1>2. PICK c : c = thread.call
  OBVIOUS
<1>3. c \in Calls /\ c.blocking /\ c.name # "close"
  BY <1>1, <1>2 DEF ThreadOK, Idle
<1>4. PICK live, bad : live = thread.live /\ bad = thread.bad
  OBVIOUS
<1>5. PICK o \in Outcomes(c, bad) :
         /\ thread' = [st |-> "out", call |-> c, o |-> o, made |-> Made(c, o)]
         /\ kernel' = AfterCall(c, o, live)
         /\ pending' = (pending /\ ~Takes(c, o))
  BY <1>2, <1>4, Zenon DEF Return
<1>6. PICK made, k : made = Made(c, o) /\ k = AfterCall(c, o, live)
  OBVIOUS
<1>7. kernel \in [LiveFds -> Objects]
  BY <1>1 DEF Good, Typed
<1>8. /\ MadeBy(c, o, made) /\ Elements(made) \subseteq Free
      /\ Takes(c, o) => pending
  BY <1>6, <1>7, OutcomeMakes, Zenon DEF Takes
<1>9. /\ Good(fds, k, {} \cup Elements(made)) /\ Makings(c, k, made)
      /\ Owned(fds, kernel, {}) => Owned(fds, k, {} \cup Elements(made))
  BY <1>1, <1>3, <1>6, <1>8, MakeObjects, Zenon
<1>10. /\ thread'.st = "out" /\ thread'.call = c /\ thread'.o = o
       /\ thread'.made = made /\ kernel' = k
  BY <1>5, <1>6
<1>11. Loose' = {} \cup Elements(made)
  BY <1>10 DEF Loose
<1>12. ThreadOK'
  BY <1>3, <1>8, <1>9, <1>10 DEF ThreadOK
<1>13. Accepting' = Takes(c, o)
  BY <1>10 DEF Accepting, Takes
<1>14. Waiting'
  <2>1. pending \in BOOLEAN /\ Takes(c, o) \in BOOLEAN
    BY <1>1 DEF Waiting, Takes
  <2>2. /\ pending' \in BOOLEAN /\ (pending' => pending)
        /\ (Accepting' => pending) /\ ~(pending' /\ Accepting')
    BY <1>5, <1>8, <1>13, <2>1, Zenon
  <2> QED BY <1>1, <2>2 DEF Waiting
<1>15. Good(fds', kernel', Loose') /\ (checker => Owned(fds', kernel', Loose'))
  BY <1>1, <1>9, <1>10, <1>11, Zenon
<1> QED BY <1>1, <1>12, <1>14, <1>15, AliveInv, Zenon

\* FinishBlocking: the thread hands over what it holds.
LEMMA FinishInv ==
    ASSUME Inv, Orderly(Calls), FinishBlocking
    PROVE  Inv'
<1>1. /\ status = "running" /\ thread.st = "out" /\ ThreadOK /\ Waiting
      /\ Good(fds, kernel, Loose) /\ (checker => Owned(fds, kernel, Loose))
      /\ ~duplicate /\ fds \in Seq(Entries)
      /\ UNCHANGED <<checker, is_wire_client>>
  BY DEF Inv, FinishBlocking, Good, Typed
<1>2. PICK c, o, made : c = thread.call /\ o = thread.o /\ made = thread.made
  OBVIOUS
<1>3. PICK k, t : k = kernel /\ t = fds
  OBVIOUS
<1>4. /\ c \in Calls /\ c.blocking /\ c.name # "close"
      /\ MadeBy(c, o, made) /\ Makings(c, k, made)
  BY <1>1, <1>2, <1>3 DEF ThreadOK, Idle
<1>5. AfterLive(c, o, made, k, t)
  BY <1>2, <1>3, Zenon DEF FinishBlocking
<1>6. Loose = {} \cup Elements(made) /\ Elements(made) \cap {} = {}
  BY <1>1, <1>2 DEF Loose
<1>7. Accepting <=> c.name = "accept" /\ o.r >= 0
  BY <1>1, <1>2 DEF Accepting
<1>8. Good(fds, k, {} \cup Elements(made))
      /\ (checker => Owned(fds, k, {} \cup Elements(made)))
  BY <1>1, <1>3, <1>6, Zenon
<1>9. Restated(fds, t)
  BY <1>1, <1>3 DEF Restated
<1>10. c.name = "accept" /\ o.r >= 0 => Unused(fds)
  BY <1>1, <1>7 DEF Waiting
<1>11. /\ ~duplicate'
       /\ \/ Die
          \/ /\ Good(fds', kernel', {}) /\ status' = status
             /\ checker => Owned(fds', kernel', {})
             /\ IF c.name = "accept" /\ o.r >= 0
                  THEN NoChild(fds) => NoChild(fds')
                  ELSE KeepsChildren(fds, fds')
             /\ pending' = (pending /\ (c.blocking \/ ~Takes(c, o)))
             /\ thread' = IF c.blocking THEN Idle ELSE thread
  BY <1>1, <1>4, <1>5, <1>6, <1>8, <1>9, <1>10, LiveKeeps, Zenon
<1>12. CASE Die
  BY <1>1, <1>11, <1>12, DeadInv
<1>13. CASE ~Die
  <2>1. thread' = Idle
    BY <1>4, <1>11, <1>13, Zenon
  <2>2. Loose' = {} /\ ~Accepting' /\ ThreadOK'
    BY <2>1 DEF Loose, Accepting, ThreadOK, Idle
  <2>3. pending \in BOOLEAN /\ pending' = pending
    BY <1>1, <1>4, <1>11, <1>13 DEF Waiting
  <2>4. Waiting'
    <3>1. CASE Accepting
      <4>1. NoChild(fds) => NoChild(fds')
        BY <1>7, <1>11, <1>13, <3>1, Zenon
      <4>2. pending => is_wire_client
        BY <1>1, <3>1, Zenon DEF Waiting
      <4> QED BY <1>1, <2>2, <2>3, <4>1, <4>2, WaitingTaken, Zenon
    <3>2. CASE ~Accepting
      <4>1. KeepsChildren(fds, fds')
        BY <1>7, <1>11, <1>13, <3>2, Zenon
      <4> QED BY <1>1, <2>2, <2>3, <4>1, WaitingKept, Zenon
    <3> QED BY <3>1, <3>2
  <2>5. /\ Good(fds', kernel', Loose') /\ status' = status
        /\ (checker => Owned(fds', kernel', Loose'))
    BY <1>11, <1>13, <2>2, Zenon
  <2> QED BY <1>1, <1>11, <2>2, <2>4, <2>5, AliveInv, Zenon
<1> QED BY <1>12, <1>13

\* InboundSyn: the connection that the kernel holds has its child.
LEMMA SynInv ==
    ASSUME Inv, InboundSyn
    PROVE  Inv'
<1>1. /\ status = "running" /\ ThreadOK /\ Waiting /\ Good(fds, kernel, Loose)
      /\ (checker => Owned(fds, kernel, Loose)) /\ ~duplicate
      /\ UNCHANGED <<checker, is_wire_client, kernel, thread, status, duplicate>>
      /\ pending' = TRUE
  BY DEF Inv, InboundSyn
<1>2. NoChild(fds) /\ Unused(fds) /\ ~HasChild(fds) /\ fds \in Seq(Entries)
  BY <1>1 DEF InboundSyn, NoChild, Unused, HasChild, Good, Typed
<1>3. Loose' = Loose /\ Accepting' = Accepting /\ ThreadOK'
  BY <1>1 DEF Loose, Accepting, ThreadOK
<1>4. ~is_wire_client => ~Accepting
  BY <1>1, <1>2 DEF Waiting
<1>5. CASE is_wire_client
  <2>1. fds' = fds
    BY <1>5 DEF InboundSyn
  <2>2. Waiting'
    BY <1>1, <1>2, <1>5, <2>1 DEF Waiting
  <2> QED BY <1>1, <1>3, <2>1, <2>2, AliveInv, Zenon
<1>6. CASE ~is_wire_client
  <2>1. PICK r : r = Entry("socket", -1, -1, kernel)
    BY Zenon
  <2>2. PICK e : e = [r EXCEPT !.st = "synack"]
    BY Zenon
  <2>3. /\ e \in Entries /\ e.live = -1 /\ e.script = -1 /\ ~e.closed
        /\ e.obj = 0 /\ e.st = "synack" /\ e.type = "socket"
    <3>1. (IF -1 < 0 THEN 0 ELSE kernel[-1].id) = 0
      OBVIOUS
    <3>2. r = [type |-> "socket", script |-> -1, live |-> -1, closed |-> FALSE,
               st |-> "new", proto |-> "tcp", obj |-> 0]
      BY <2>1, <3>1, Zenon DEF Entry
    <3>3. /\ r \in Entries /\ r.live = -1 /\ r.script = -1 /\ ~r.closed
          /\ r.obj = 0 /\ r.type = "socket"
      BY <3>2 DEF Entries, Scripts
    <3> QED BY <2>2, <3>3 DEF Entries
  <2>4. fds' = <<e>> \o fds
    BY <1>6, <2>1, <2>2, Zenon DEF InboundSyn, state_add_fd
  <2>5. PICK t : t = <<e>> \o fds
    BY Zenon
  <2>6. /\ Good(t, kernel, Loose)
        /\ Owned(fds, kernel, Loose) => Owned(t, kernel, Loose)
    BY <1>1, <2>3, <2>5, AddChild, Zenon
  <2>7. /\ 1 \in DOMAIN t /\ t[1] = e
        /\ \A i \in DOMAIN t :
              i = 1 \/ (i - 1 \in DOMAIN fds /\ t[i] = fds[i - 1])
    BY <1>2, <2>3, <2>5, NewFirst
  <2>8. Unused(t) /\ HasChild(t)
    BY <1>2, <2>3, <2>7 DEF Unused, HasChild
  <2>9. Waiting'
    BY <1>1, <1>3, <1>4, <1>6, <2>4, <2>5, <2>8 DEF Waiting
  <2>10. Good(fds', kernel', Loose') /\ (checker => Owned(fds', kernel', Loose'))
    BY <1>1, <1>3, <2>4, <2>5, <2>6, Zenon
  <2> QED BY <1>1, <1>3, <2>9, <2>10, AliveInv, Zenon
<1> QED BY <1>5, <1>6

\* close_all_fds(): every socket is in the table, so it is closed.
LEMMA CloseAllInv ==
    ASSUME Inv, close_all_fds
    PROVE  Inv'
<1> DEFINE open == {fds[i].live : i \in {j \in DOMAIN fds : socket_close(j)}}
<1>1. /\ status = "running" /\ Good(fds, kernel, Loose) /\ ~duplicate
      /\ (checker => Owned(fds, kernel, Loose))
      /\ UNCHANGED <<checker, is_wire_client, duplicate>>
      /\ checker \in BOOLEAN /\ is_wire_client \in BOOLEAN
  BY DEF Inv, close_all_fds
<1>2. CASE Die
  BY <1>1, <1>2, DeadInv
<1>3. CASE ~Die
  <2>1. /\ thread = Idle /\ fds' = <<>> /\ status' = "finished"
        /\ kernel' = [l \in LiveFds |-> IF l \in open THEN Nothing ELSE kernel[l]]
    BY <1>3, Zenon DEF close_all_fds
  <2>2. Loose = {}
    BY <2>1 DEF Loose, Idle
  <2>3. ASSUME checker, NEW l \in LiveFds
        PROVE  kernel'[l].type # "socket"
    <3>1. CASE l \in open
      <4>1. kernel'[l] = Nothing
        BY <2>1, <3>1, Zenon
      <4> QED BY <4>1 DEF Nothing
    <3>2. CASE l \notin open
      <4>1. kernel'[l] = kernel[l]
        BY <2>1, <3>2, Zenon
      <4>2. ASSUME kernel[l].type = "socket" PROVE FALSE
        <5>1. PICK i \in DOMAIN fds :
                 Held(fds[i]) /\ fds[i].live = l /\ fds[i].type = "socket"
          BY <1>1, <2>2, <2>3, <4>2 DEF Owned
        <5>2. l >= 0
          BY SystemCallsAssumption
        <5>3. socket_close(i)
          BY <5>1, <5>2 DEF socket_close, Held
        <5> QED BY <3>2, <5>1, <5>3
      <4> QED BY <4>1, <4>2
    <3> QED BY <3>1, <3>2
  <2>4. SocketsClosedAtEnd'
    BY <1>1, <2>3, Zenon DEF SocketsClosedAtEnd
  <2> QED BY <1>1, <2>1, <2>4 DEF Inv
<1> QED BY <1>2, <1>3

\* A call other than close() leaves the objects it has not made alone.
LEMMA OthersStay ==
    ASSUME NEW c, NEW o, NEW live, c.name # "close",
           NEW l \in LiveFds, l \notin Elements(Made(c, o))
    PROVE  AfterCall(c, o, live)[l] = kernel[l]
<1> DEFINE made == Made(c, o)
<1>1. ~\E i \in DOMAIN made : made[i] = l
  BY Zenon DEF Elements
<1> HIDE DEF made
<1>2. AfterCall(c, o, live)[l] =
        IF c.name = "close" /\ o.r = 0 /\ l \in live THEN Nothing
        ELSE IF \E i \in DOMAIN made : made[i] = l
          THEN [type |-> TypeMade[c.name],
                id |-> <<Min(FreshIds), Min(FreshIds \ {Min(FreshIds)})>>[
                         CHOOSE i \in DOMAIN made : made[i] = l]]
        ELSE kernel[l]
  BY Zenon DEF AfterCall, made
<1> QED BY <1>1, <1>2, Zenon

\* A call of the main thread, other than close().  The other thread may be
\* anywhere in its own call.
LEMMA CallInv ==
    ASSUME Inv, Orderly(Calls), NEW c \in Calls, Valid(c), c.name # "close",
           invoke_system_call(c)
    PROVE  Inv'
<1>1. /\ status = "running" /\ ThreadOK /\ Waiting /\ Good(fds, kernel, Loose)
      /\ (checker => Owned(fds, kernel, Loose)) /\ ~duplicate
      /\ fds \in Seq(Entries) /\ kernel \in [LiveFds -> Objects]
      /\ UNCHANGED <<checker, is_wire_client>> /\ ~c.blocking
  <2>1. status = "running"
    BY Zenon DEF Valid
  <2>2. /\ ThreadOK /\ Waiting /\ Good(fds, kernel, Loose)
        /\ (checker => Owned(fds, kernel, Loose)) /\ ~duplicate
    BY <2>1, Zenon DEF Inv
  <2>3. fds \in Seq(Entries) /\ kernel \in [LiveFds -> Objects]
    BY <2>2, Zenon DEF Good, Typed
  <2>4. UNCHANGED <<checker, is_wire_client>> /\ ~c.blocking
    BY Zenon DEF invoke_system_call
  <2> QED BY <2>1, <2>2, <2>3, <2>4, Zenon
<1>2. PICK live, bad : live = Live(c) /\ bad = Bad(Live(c))
  BY Zenon
<1>3. PICK o \in Outcomes(c, bad) :
         AfterLive(c, o, Made(c, o), AfterCall(c, o, live), Prepared(c))
  BY <1>2, Zenon DEF invoke_system_call
<1>4. PICK made, k, t, X : /\ made = Made(c, o) /\ k = AfterCall(c, o, live)
                           /\ t = Prepared(c) /\ X = Loose
  BY Zenon
<1>5. AfterLive(c, o, made, k, t)
  BY <1>3, <1>4, Zenon
<1>6. /\ MadeBy(c, o, made) /\ Elements(made) \subseteq Free
      /\ c.name = "accept" /\ o.r >= 0 => pending
  BY <1>1, <1>4, OutcomeMakes, Zenon
<1>7. /\ Good(fds, k, X \cup Elements(made)) /\ Elements(made) \cap X = {}
      /\ Makings(c, k, made)
      /\ Owned(fds, kernel, X) => Owned(fds, k, X \cup Elements(made))
  BY <1>1, <1>4, <1>6, MakeObjects, Zenon
<1>8. Restated(fds, t)
  <2>1. system_call_table(c, Silent).connects => fd_to_socket(Socket(c))
    BY Zenon DEF invoke_system_call, Goes
  <2> QED BY <1>1, <1>4, <2>1, PrepareRestates, Zenon
<1>9. c.name = "accept" /\ o.r >= 0 => Unused(fds)
  BY <1>1, <1>6, Zenon DEF Waiting
<1>10. checker => Owned(fds, k, X \cup Elements(made))
  BY <1>1, <1>4, <1>7, Zenon
<1>11. /\ ~duplicate'
       /\ \/ Die
          \/ /\ Good(fds', kernel', X) /\ kernel' = k /\ status' = status
             /\ checker => Owned(fds', kernel', X)
             /\ IF c.name = "accept" /\ o.r >= 0
                  THEN NoChild(fds) => NoChild(fds')
                  ELSE KeepsChildren(fds, fds')
             /\ pending' = (pending /\ (c.blocking \/ ~Takes(c, o)))
             /\ thread' = IF c.blocking THEN Idle ELSE thread
  BY <1>1, <1>5, <1>6, <1>7, <1>8, <1>9, <1>10, LiveKeeps, ZenonT(30)
<1>12. CASE Die
  BY <1>1, <1>11, <1>12, DeadInv
<1>13. CASE ~Die
  <2>1. thread' = thread /\ kernel' = k
    BY <1>1, <1>11, <1>13, Zenon
  <2>2. Loose' = X /\ (Accepting' <=> Accepting)
    <3>1. Loose' = Loose /\ (Accepting' <=> Accepting)
      BY <2>1, Zenon DEF Loose, Accepting
    <3> QED BY <1>4, <3>1, Zenon
  <2>3. ThreadOK'
    <3>1. ASSUME thread.st = "out"
          PROVE  \A x \in Elements(thread.made) : k[x] = kernel[x]
      <4>1. SUFFICES ASSUME NEW x \in Elements(thread.made) PROVE k[x] = kernel[x]
        BY Zenon
      <4>2. x \in X /\ X \subseteq LiveFds
        BY <1>1, <1>4, <3>1 DEF Loose, Good
      <4>3. x \in LiveFds /\ x \notin Elements(Made(c, o))
        BY <1>4, <1>7, <4>2
      <4> QED BY <1>4, <4>3, OthersStay, Zenon
    <3>2. thread.st = "out" /\ Makings(thread.call, kernel, thread.made)
          => Makings(thread.call, k, thread.made)
      BY <3>1, Zenon DEF Makings
    <3> QED BY <1>1, <2>1, <3>2 DEF ThreadOK
  <2>4. pending \in BOOLEAN /\ pending' = (pending /\ ~Takes(c, o))
    BY <1>1, <1>11, <1>13, Zenon DEF Waiting
  <2>5. pending' \in BOOLEAN /\ (pending' => pending) /\ (Takes(c, o) => ~pending')
    BY <2>4, Zenon DEF Takes
  <2>6. Waiting'
    <3>1. CASE Takes(c, o)
      <4>1. NoChild(fds) => NoChild(fds')
        BY <1>11, <1>13, <3>1, Zenon DEF Takes
      <4>2. thread # Idle => thread.call.name # "accept"
        BY <3>1 DEF Valid, Takes
      <4>3. ~Accepting'
        BY <2>2, <4>2 DEF Accepting, Idle
      <4> QED BY <1>1, <2>5, <3>1, <4>1, <4>3, WaitingTaken, Zenon
    <3>2. CASE ~Takes(c, o)
      <4>1. KeepsChildren(fds, fds')
        BY <1>11, <1>13, <3>2, Zenon DEF Takes
      <4> QED BY <1>1, <2>2, <2>5, <4>1, WaitingKept, Zenon
    <3> QED BY <3>1, <3>2
  <2>7. /\ Good(fds', kernel', Loose') /\ status' = status
        /\ (checker => Owned(fds', kernel', Loose'))
    BY <1>11, <1>13, <2>2, Zenon
  <2> QED BY <1>1, <1>11, <2>3, <2>6, <2>7, AliveInv, Zenon
<1> QED BY <1>12, <1>13, Zenon

\* What a close() that passes its checks does.
LEMMA CloseEffect ==
    ASSUME Inv, Orderly(Calls), NEW c \in Calls, Valid(c), c.name = "close",
           invoke_system_call(c)
    PROVE  \E i \in DOMAIN fds :
              /\ Held(fds[i])
              /\ fds' = [fds EXCEPT ![i].closed = TRUE, ![i].obj = 0]
              /\ kernel' = Without(kernel, fds[i].live)
              /\ UNCHANGED <<checker, is_wire_client, pending, thread, status>>
              /\ ~duplicate'
<1> DEFINE n == s32(c.args[1].num)
           i == find_by_script_fd(n)
<1>1. /\ status = "running" /\ Good(fds, kernel, Loose) /\ Waiting
      /\ fds \in Seq(Entries) /\ ~c.blocking /\ ~duplicate
      /\ UNCHANGED <<checker, is_wire_client>>
  BY DEF Inv, Valid, invoke_system_call, Good, Typed
<1>2. ASSUME NEW o
      PROVE  /\ system_call_table(c, o).ok
                  = (check_arg_count(c.args, 1) /\ fd_arg(c.args, 1))
             /\ system_call_table(c, o).match
                  = ((check_arg_count(c.args, 1) /\ fd_arg(c.args, 1)) /\ TRUE)
             /\ system_call_table(c, o).mode = "exact"
             /\ system_call_table(c, o).connects = FALSE
  BY Zenon DEF system_call_table, syscall_close, Handler
<1>3. /\ check_arg_count(c.args, 1) /\ fd_arg(c.args, 1)
      /\ ~system_call_table(c, Silent).connects
  <2>1. system_call_table(c, Silent).ok
    BY Zenon DEF invoke_system_call, Goes
  <2> QED BY <1>2, <2>1, Zenon
<1>4. Uses(c) = {1}
  BY DEF Uses
<1>5. i \in DOMAIN fds /\ fds[i].script = n /\ n # -1 /\ i # 0
  BY <1>1, <1>3, <1>4, FindFinds DEF fd_arg, Orderly
<1>6. Held(fds[i])
  <2>1. n \in Named(c)
    BY <1>4 DEF Named
  <2>2. ~fds[i].closed
    BY <1>5, <2>1, SMTT(30) DEF Valid
  <2>3. fds[i].live # -1
    BY <1>1, <1>5, SMTT(30) DEF Good, Faithful
  <2> QED BY <2>2, <2>3 DEF Held
<1> HIDE DEF n
<1>7. Live(c) = {fds[i].live}
  BY <1>4, <1>5, SMTT(30) DEF Live, to_live_fd, n
<1>8. ~Bad(Live(c))
  <2>1. fds[i] \in Entries
    BY <1>1, <1>5
  <2>2. fds[i].live \in LiveFds
    BY <1>6, <2>1, SMTT(30) DEF Held, Entries
  <2>3. kernel[fds[i].live] # Nothing
    BY <1>1, <1>5, <1>6 DEF Good, Faithful
  <2> QED BY <1>7, <2>2, <2>3 DEF Bad
<1> HIDE DEF i
<1>9. Outcomes(c, Bad(Live(c))) = {Silent}
  BY <1>8 DEF Outcomes, Makers
<1>10. PICK live, made, k, t :
          /\ live = Live(c) /\ made = Made(c, Silent)
          /\ k = AfterCall(c, Silent, live) /\ t = Prepared(c)
  BY Zenon
<1>11. AfterLive(c, Silent, made, k, t)
  BY <1>9, <1>10, Zenon DEF invoke_system_call
<1>12. k = Without(kernel, fds[i].live)
  <2>1. made = <<>> /\ Silent.r = 0
    BY <1>10 DEF Made, Silent, Outcome, Makers
  <2>2. ASSUME NEW l \in LiveFds
        PROVE  k[l] = IF l = fds[i].live THEN Nothing ELSE kernel[l]
    <3>1. \A x \in DOMAIN made : FALSE
      BY <2>1
    <3>2. k[l] = IF l \in live THEN Nothing
                 ELSE IF \E x \in DOMAIN made : made[x] = l
                   THEN [type |-> TypeMade[c.name],
                         id |-> <<Min(FreshIds), Min(FreshIds \ {Min(FreshIds)})>>[
                                  CHOOSE x \in DOMAIN made : made[x] = l]]
                 ELSE kernel[l]
      BY <1>10, <2>1, Zenon DEF AfterCall
    <3> QED BY <1>7, <1>10, <3>1, <3>2, Zenon
  <2>3. k = [l \in LiveFds |-> k[l]]
    BY <1>10, Zenon DEF AfterCall
  <2> QED BY <2>2, <2>3, Zenon DEF Without
<1>13. end_syscall(c, "exact", Silent)
  BY DEF end_syscall, Orderly, Silent, Outcome
<1>14. /\ system_call_table(c, Silent).mode = "exact"
       /\ system_call_table(c, Silent).match
  BY <1>2, <1>3, Zenon
<1>15. AfterMatch(c, Silent, made, k, t) = [ok |-> TRUE, fds |-> run_syscall_close(n)]
  BY Zenon DEF AfterMatch, n
<1>16. /\ AfterMatch(c, Silent, made, k, t).ok
       /\ AfterMatch(c, Silent, made, k, t).fds = run_syscall_close(n)
  BY <1>15
<1>17. /\ duplicate' = FALSE /\ fds' = run_syscall_close(n) /\ kernel' = k
       /\ pending' = (pending /\ (c.blocking \/ ~Takes(c, Silent)))
       /\ thread' = thread /\ status' = status
  BY <1>1, <1>11, <1>13, <1>14, <1>16, ZenonT(30) DEF AfterLive
<1>18. pending' = pending
  BY <1>1, <1>17 DEF Takes, Waiting
<1>19. fds' = [fds EXCEPT ![i].closed = TRUE, ![i].obj = 0]
  BY <1>17, Zenon DEF run_syscall_close, i
<1>20. /\ UNCHANGED <<checker, is_wire_client, pending, thread, status>>
       /\ ~duplicate' /\ i \in DOMAIN fds
  BY <1>1, <1>5, <1>17, <1>18
<1>21. kernel' = Without(kernel, fds[i].live)
  BY <1>12, <1>17, Zenon
<1> QED BY <1>6, <1>19, <1>20, <1>21, ZenonT(30)

\* close(): the entry and the descriptor go together.
LEMMA CloseInv ==
    ASSUME Inv, Orderly(Calls), NEW c \in Calls, Valid(c), c.name = "close",
           invoke_system_call(c)
    PROVE  Inv'
<1>1. /\ status = "running" /\ ThreadOK /\ Waiting /\ Good(fds, kernel, Loose)
      /\ (checker => Owned(fds, kernel, Loose)) /\ ~duplicate
      /\ fds \in Seq(Entries)
  BY DEF Inv, Valid, Good, Typed
<1>2. PICK i \in DOMAIN fds :
              /\ Held(fds[i])
              /\ fds' = [fds EXCEPT ![i].closed = TRUE, ![i].obj = 0]
              /\ kernel' = Without(kernel, fds[i].live)
              /\ UNCHANGED <<checker, is_wire_client, pending, thread, status>>
              /\ ~duplicate'
  BY CloseEffect, Zenon
<1>3. PICK e : e = [fds[i] EXCEPT !.closed = TRUE, !.obj = 0]
  BY Zenon
<1>4. /\ e \in Entries /\ e.closed /\ e.obj = 0 /\ e.live # -1
      /\ e.st = fds[i].st /\ e.type = fds[i].type /\ e.live = fds[i].live
  <2>1. fds[i] \in Entries
    BY <1>1, <1>2
  <2> QED BY <1>2, <1>3, <2>1, Zenon DEF Entries, Held
<1>5. PICK g, m, X :
         /\ g = [fds EXCEPT ![i] = e] /\ X = Loose
         /\ m = Without(kernel, fds[i].live)
  BY Zenon
<1>6. fds' = g /\ kernel' = m
  BY <1>2, <1>3, <1>5, Zenon
<1>7. Good(g, m, X) /\ (Owned(fds, kernel, X) => Owned(g, m, X))
  <2>1. Good(fds, kernel, X) /\ Held(fds[i]) /\ i \in DOMAIN fds
    BY <1>1, <1>2, <1>5, Zenon
  <2>2. g = [fds EXCEPT ![i] = e] /\ m = Without(kernel, fds[i].live)
    BY <1>5, Zenon
  <2>3. e \in Entries /\ e.closed /\ e.obj = 0 /\ e.live # -1
    BY <1>4, Zenon
  <2>4. /\ Good(g, Without(kernel, fds[i].live), X)
        /\ Owned(fds, kernel, X) => Owned(g, Without(kernel, fds[i].live), X)
    BY <2>1, <2>2, <2>3, CloseEntry, Zenon
  <2> QED BY <2>2, <2>4, Zenon
<1>8. Loose' = X /\ (Accepting' <=> Accepting)
  BY <1>2, <1>5 DEF Loose, Accepting
<1>9. Good(fds', kernel', Loose') /\ (checker => Owned(fds', kernel', Loose'))
  BY <1>1, <1>5, <1>6, <1>7, <1>8, ZenonT(30)
<1>10. KeepsChildren(fds, fds')
  <2>1. /\ DOMAIN g = DOMAIN fds /\ g[i] = e
        /\ \A j \in DOMAIN fds : j # i => g[j] = fds[j]
    BY <1>1, <1>4, <1>5, PutEntry, SMTT(30)
  <2>2. \A j \in DOMAIN fds : /\ g[j].st = fds[j].st /\ g[j].live = fds[j].live
                              /\ g[j].type = fds[j].type
    BY <1>4, <2>1
  <2> QED BY <1>6, <2>1, <2>2 DEF KeepsChildren, NoChild, Unused, HasChild
<1>11. Waiting'
  <2>1. pending' \in BOOLEAN /\ (pending' => pending)
    BY <1>1, <1>2, Zenon DEF Waiting
  <2> QED BY <1>1, <1>2, <1>8, <1>10, <2>1, WaitingKept, Zenon
<1>12. ThreadOK'
  <2>1. ASSUME thread.st = "out"
        PROVE  \A x \in Elements(thread.made) : kernel'[x] = kernel[x]
    <3>1. SUFFICES ASSUME NEW x \in Elements(thread.made) PROVE kernel'[x] = kernel[x]
      BY Zenon
    <3>2. x \in X /\ X \subseteq LiveFds /\ fds[i].live \notin X
      BY <1>1, <1>2, <1>5, <2>1 DEF Loose, Good, Faithful
    <3> QED BY <1>2, <3>2 DEF Without
  <2>2. thread.st = "out" /\ Makings(thread.call, kernel, thread.made)
        => Makings(thread.call, kernel', thread.made)
    BY <2>1, Zenon DEF Makings
  <2> QED BY <1>1, <1>2, <2>2 DEF ThreadOK
<1> QED BY <1>1, <1>2, <1>9, <1>11, <1>12, AliveInv, ZenonT(30)

\* The invariant holds at the start.
LEMMA InitInv ==
    ASSUME Init
    PROVE  Inv
<1>1. /\ fds = <<>> /\ kernel = [l \in LiveFds |-> Nothing] /\ pending = FALSE
      /\ thread = Idle /\ status = "running" /\ duplicate = FALSE
      /\ checker \in BOOLEAN /\ is_wire_client \in BOOLEAN
  BY SystemCallsAssumption DEF Init
<1>2. Loose = {} /\ ~Accepting /\ ThreadOK
  BY <1>1 DEF Loose, Accepting, ThreadOK, Idle
<1>3. Nothing \in Objects /\ Nothing.type # "socket"
  BY DEF Nothing, Objects
<1>4. Good(fds, kernel, {})
  <2>1. Typed(fds, kernel)
    BY <1>1, <1>3 DEF Typed
  <2>2. Faithful(fds, kernel, {})
    BY <1>1 DEF Faithful
  <2>3. Distinct(kernel)
    BY <1>1 DEF Distinct
  <2> QED BY <2>1, <2>2, <2>3 DEF Good
<1>5. Owned(fds, kernel, {})
  BY <1>1, <1>3 DEF Owned
<1>6. Waiting
  <2>1. NoChild(fds)
    BY <1>1 DEF NoChild
  <2> QED BY <1>1, <1>2, <2>1, Zenon DEF Waiting
<1>7. SocketsClosedAtEnd
  BY <1>1 DEF SocketsClosedAtEnd
<1> QED BY <1>1, <1>2, <1>4, <1>5, <1>6, <1>7 DEF Inv

\* Every step keeps the invariant.
LEMMA NextInv ==
    ASSUME Inv, Orderly(Calls), [Next]_vars
    PROVE  Inv'
<1>1. ASSUME NEW c \in Calls, Valid(c),
             Refuse(c) \/ invoke_system_call(c) \/ begin_syscall(c)
      PROVE  Inv'
  <2>1. status = "running"
    BY <1>1 DEF Valid
  <2>2. CASE Refuse(c)
    BY <1>1, <2>1, <2>2, RefuseInv
  <2>3. CASE invoke_system_call(c)
    BY <1>1, <2>3, CallInv, CloseInv
  <2>4. CASE begin_syscall(c)
    BY <1>1, <2>4, BeginInv
  <2> QED BY <1>1, <2>2, <2>3, <2>4
<1>2. CASE Return
  BY <1>2, ReturnInv
<1>3. CASE FinishBlocking
  BY <1>3, FinishInv
<1>4. CASE InboundSyn
  BY <1>4, SynInv
<1>5. CASE close_all_fds
  BY <1>5, CloseAllInv
<1>6. CASE UNCHANGED vars
  BY <1>6, Zenon DEF vars, table, bytes, Inv, Loose, ThreadOK, Waiting, Accepting,
                     SocketsClosedAtEnd
<1> QED BY <1>1, <1>2, <1>3, <1>4, <1>5, <1>6, Zenon DEF Next, Ended

\* The invariant always holds.
LEMMA SpecInv ==
    ASSUME Orderly(Calls)
    PROVE  Spec => []Inv
BY InitInv, NextInv, PTL DEF Spec

----------------------------------------------------------------------------
(* The theorems. *)

\* An open entry of the table stands for the object that was made for it,
\* whatever calls close descriptors and make others in between and wherever a
\* blocking call is: to_live_fd() reaches what the script means.
THEOREM EntriesAreTheirObjects ==
    ASSUME Orderly(Calls)
    PROVE  Spec => []EntryIsItsObject
<1>1. Inv => EntryIsItsObject
  <2>1. CASE status = "running"
    <3>1. ASSUME Inv, NEW i \in DOMAIN fds, fds[i].live >= 0, ~fds[i].closed
          PROVE  kernel[fds[i].live].id = fds[i].obj
      <4>1. Held(fds[i])
        BY <3>1 DEF Held
      <4> QED BY <2>1, <3>1, <4>1 DEF Inv, Good, Faithful
    <3> QED BY <3>1 DEF EntryIsItsObject
  <2>2. CASE status # "running"
    BY <2>2 DEF Inv, EntryIsItsObject
  <2> QED BY <2>1, <2>2
<1> QED BY <1>1, SpecInv, PTL

\* check_duplicate_fd() never takes a descriptor that the kernel has just made
\* for one that the table already has.
THEOREM DuplicatesAreNeverFalse ==
    ASSUME Orderly(Calls)
    PROVE  Spec => []NoFalseDuplicate
<1>1. Inv => NoFalseDuplicate
  BY DEF Inv, NoFalseDuplicate
<1> QED BY <1>1, SpecInv, PTL

\* When a checked script ends, close_all_fds() has closed every socket that a
\* call made, those that a blocking accept() made in the other thread included.
THEOREM NoSocketIsLeft ==
    ASSUME Orderly(Calls)
    PROVE  Spec => []SocketsClosedAtEnd
<1>1. Inv => SocketsClosedAtEnd
  BY DEF Inv
<1> QED BY <1>1, SpecInv, PTL

\* syscall_write() gives every byte its position in the stream, for any set of
\* calls: what it counts is what the kernel took, after short and failed
\* writes too.
THEOREM BytesCarryTheirPosition == Spec => []StreamIsPositional
<1> DEFINE Counted == total_write_num = stream /\ ~misplaced
<1>1. Init => Counted
  BY DEF Init
<1>2. ASSUME Counted, [Next]_vars PROVE Counted'
  <2>1. ASSUME Die PROVE Counted'
    BY <1>2, <2>1 DEF Die
  <2>2. ASSUME UNCHANGED bytes PROVE Counted'
    BY <1>2, <2>2 DEF bytes
  <2>3. ASSUME NEW c, NEW o, Bytes(c, o) PROVE Counted'
    BY <1>2, <2>2, <2>3, Zenon DEF Bytes, Count
  <2> HIDE DEF Counted
  <2>4. ASSUME NEW c, NEW o, NEW made, NEW k, NEW t, AfterLive(c, o, made, k, t)
        PROVE  Counted'
    <3>1. Die \/ Bytes(c, o)
      BY <2>4, Zenon DEF AfterLive
    <3> QED BY <2>1, <2>3, <3>1, Zenon
  <2>5. ASSUME NEW c \in Calls,
               Refuse(c) \/ invoke_system_call(c) \/ begin_syscall(c)
        PROVE  Counted'
    <3>1. CASE Refuse(c)
      <4>1. Die \/ UNCHANGED bytes
        BY <3>1, Zenon DEF Refuse
      <4> QED BY <2>1, <2>2, <4>1, Zenon
    <3>2. CASE invoke_system_call(c)
      <4>1. PICK o : AfterLive(c, o, Made(c, o), AfterCall(c, o, Live(c)),
                               Prepared(c))
        BY <3>2, Zenon DEF invoke_system_call
      <4>2. PICK made, k, t : /\ made = Made(c, o) /\ k = AfterCall(c, o, Live(c))
                              /\ t = Prepared(c)
        BY Zenon
      <4>3. AfterLive(c, o, made, k, t)
        BY <4>1, <4>2, Zenon
      <4> QED BY <2>4, <4>3, Zenon
    <3>3. CASE begin_syscall(c)
      BY <2>2, <3>3, Zenon DEF begin_syscall, bytes
    <3> QED BY <2>5, <3>1, <3>2, <3>3
  <2>6. CASE Return
    BY <2>2, <2>6, Zenon DEF Return, bytes
  <2>7. CASE FinishBlocking
    <3>1. PICK c, o, made, k, t : /\ c = thread.call /\ o = thread.o
                                  /\ made = thread.made /\ k = kernel /\ t = fds
      BY Zenon
    <3>2. AfterLive(c, o, made, k, t)
      BY <2>7, <3>1, Zenon DEF FinishBlocking
    <3> QED BY <2>4, <3>2, Zenon
  <2>8. CASE InboundSyn
    BY <2>2, <2>8, Zenon DEF InboundSyn, bytes
  <2>9. CASE close_all_fds
    <3>1. Die \/ UNCHANGED bytes
      BY <2>9, Zenon DEF close_all_fds, bytes
    <3> QED BY <2>1, <2>2, <3>1, Zenon
  <2>10. CASE UNCHANGED vars
    BY <2>2, <2>10 DEF vars, bytes
  <2> QED BY <1>2, <2>5, <2>6, <2>7, <2>8, <2>9, <2>10, Zenon DEF Next, Ended
<1>3. Counted => StreamIsPositional
  BY DEF StreamIsPositional
<1> HIDE DEF Counted
<1> QED BY <1>1, <1>2, <1>3, PTL DEF Spec
=============================================================================
