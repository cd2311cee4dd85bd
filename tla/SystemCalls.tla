----------------------------- MODULE SystemCalls -----------------------------
(***************************************************************************)
(* The system calls of a script (run_system_call.c) and the table that     *)
(* relates the descriptors a script names to the live ones.                *)
(*                                                                         *)
(* A call is a record: the name, the argument expressions, the result and  *)
(* the errno the script expects, and whether it blocks.  An expression is  *)
(* a record with a type and what the handlers read of its value.  "want"   *)
(* is what the call's author means; no handler reads it.                   *)
(*                                                                         *)
(* The main thread makes a non-blocking call in one step, under the mutex. *)
(* A blocking call is begun under the mutex, returns from the kernel       *)
(* without it, and takes it again for what follows.                        *)
(***************************************************************************)
EXTENDS Integers, Sequences, FiniteSets, FiniteSetsExt

CONSTANTS
    Calls,          \* the calls a script may make
    LiveFds,        \* numbers the kernel gives out
    Half,           \* a 32-bit integer is in -Half .. Half - 1
    Checkers,       \* values of "checker": TRUE in packetdrill, FALSE in the fuzzer
    BlockingClose,  \* may close() block?
    MaxFds,         \* bound on the table
    MaxBytes        \* bound on what is written

Errnos == {"EAGAIN", "EBADF", "EMFILE"}

ASSUME SystemCallsAssumption ==
    /\ LiveFds \subseteq Nat /\ IsFiniteSet(LiveFds)
    /\ Half \in Nat \ {0} /\ Checkers \subseteq BOOLEAN
    /\ BlockingClose \in BOOLEAN /\ MaxFds \in Nat /\ MaxBytes \in Nat

VARIABLES
    checker, is_wire_client,
    fds,                \* state->fds, newest first
    kernel,             \* the object behind each live descriptor
    pending,            \* does the kernel hold a connection to accept?
    thread,             \* the blocking call in progress
    status,             \* "running", "finished", "died"
    total_write_num,
    stream,             \* bytes the kernel took on the connection
    misplaced,          \* was a byte written that is not its position?
    duplicate,          \* was a new live descriptor taken for a duplicate?
    wrong               \* did a verdict differ from what the author means?

table == <<fds, kernel, pending>>
bytes == <<total_write_num, stream, misplaced>>
vars == <<checker, is_wire_client, table, thread, status, bytes, duplicate,
          wrong>>

Idle == [st |-> "idle"]

Nothing == [type |-> "free", id |-> 0]

----------------------------------------------------------------------------
(* Arguments. *)

s32(n) == IF n >= Half THEN n - 2 * Half ELSE n

check_arg_count(args, n) == Len(args) = n

\* A number up to UINT_MAX passes, and is then read as signed.
get_s32(e) == e.type = "integer" /\ e.num < 2 * Half /\ e.num >= -Half

s32_arg(args, i) == i <= Len(args) /\ get_s32(args[i])

s64_arg(args, i) == i <= Len(args) /\ args[i].type = "integer"

bracketed_arg(args, i) ==
    i <= Len(args) /\ args[i].type = "list" /\ Len(args[i].list) = 1

s32_bracketed_arg(args, i) == bracketed_arg(args, i) /\ get_s32(args[i].list[1])

s64_bracketed_arg(args, i) ==
    bracketed_arg(args, i) /\ args[i].list[1].type = "integer"

ellipsis_arg(args, i) == i <= Len(args) /\ args[i].type = "ellipsis"

buffer_arg(args, i) ==
    i <= Len(args) /\ (\/ args[i].type = "ellipsis"
                       \/ args[i].type = "integer" /\ args[i].num = 0)

iovec_new(e) == e.type = "list" /\ \A i \in DOMAIN e.list : e.list[i].type = "iovec"

\* The count must be the length of the array, also when there is no array.
msghdr_new(e) ==
    /\ e.type = "msghdr"
    /\ e.iov.type # "none" => iovec_new(e.iov)
    /\ e.iovlen.type # "none" => get_s32(e.iovlen)
    /\ (IF e.iovlen.type = "none" THEN 0 ELSE s32(e.iovlen.num))
        = (IF e.iov.type = "none" THEN 0 ELSE Len(e.iov.list))

----------------------------------------------------------------------------
(* The table. *)

\* The index of the newest entry, closed or not; 0 is NULL.
find_by_script_fd(n) ==
    LET found == {i \in DOMAIN fds : fds[i].script = n}
    IN IF found = {} THEN 0 ELSE Min(found)

\* Mutant: closed entries are not skipped.
find_by_live_fd_Closed(l) == \E i \in DOMAIN fds : fds[i].live = l

find_by_live_fd(l) == \E i \in DOMAIN fds : ~fds[i].closed /\ fds[i].live = l

\* -1 when the script's descriptor is not known.
to_live_fd(n) ==
    LET i == find_by_script_fd(n) IN IF i = 0 THEN -1 ELSE fds[i].live

check_duplicate_fd(n, l) == find_by_script_fd(n) = 0 /\ ~find_by_live_fd(l)

fd_to_socket(i) == i # 0 /\ fds[i].type = "socket"

fd_arg(args, i) == s32_arg(args, i) /\ find_by_script_fd(s32(args[i].num)) # 0

pollfds_new(e) ==
    /\ e.type = "list"
    /\ \A i \in DOMAIN e.list :
           /\ e.list[i].type = "pollfd"
           /\ e.list[i].fd.type = "integer"
           /\ e.list[i].events.type = "integer"
           /\ e.list[i].revents.type = "integer"
           /\ find_by_script_fd(s32(e.list[i].fd.num)) # 0

pollfds_check(e, o) == \A i \in DOMAIN e.list : e.list[i].revents.num = o.val

\* wanted = -1: any descriptor of the table may be named.
get_epoll_event_from_expr(e, wanted) ==
    /\ e.type = "epollev" /\ e.events.type = "integer"
    /\ e.kind \in {"ptr", "fd", "u32", "u64"} /\ e.data.type = "integer"
    /\ e.kind = "fd" => IF wanted = -1
                          THEN find_by_script_fd(e.data.num) # 0
                          ELSE e.data.num = wanted

\* The data of an event: a descriptor is translated to the live one.
EventData(e) == IF e.kind = "fd" THEN to_live_fd(e.data.num) ELSE e.data.num

get_pipe_expression(e) ==
    /\ e.type = "list" /\ Len(e.list) = 2
    /\ \A i \in 1..2 : e.list[i].type = "integer"

----------------------------------------------------------------------------
(* The handlers.  What a handler does with a call c that has the outcome o *)
(* in the kernel: do the arguments pass (ok), how is the result compared   *)
(* (mode), and is the rest of the outcome what the script says (match).    *)
(* Some prepare a connection before the call (connects), and sendmsg() has *)
(* a check after that.                                                     *)

Handler(ok, mode, match) ==
    [ok |-> ok, mode |-> mode, match |-> ok /\ match,
     connects |-> FALSE, family |-> -1, late |-> TRUE]

Family(args, i) == IF s32_arg(args, i) THEN s32(args[i].num) ELSE -1

syscall_socket(c, o) ==
    Handler(/\ check_arg_count(c.args, 3) /\ ellipsis_arg(c.args, 1)
            /\ s32_arg(c.args, 2) /\ s32_arg(c.args, 3), "fd", TRUE)

syscall_bind(c, o) ==
    Handler(/\ check_arg_count(c.args, 3) /\ fd_arg(c.args, 1)
            /\ ellipsis_arg(c.args, 2) /\ ellipsis_arg(c.args, 3),
            "exact", TRUE)

syscall_listen(c, o) ==
    Handler(check_arg_count(c.args, 2) /\ fd_arg(c.args, 1) /\ s32_arg(c.args, 2),
            "exact", TRUE)

syscall_accept(c, o) ==
    Handler(/\ check_arg_count(c.args, 3) /\ fd_arg(c.args, 1)
            /\ ellipsis_arg(c.args, 2) /\ ellipsis_arg(c.args, 3),
            "fd", TRUE)

syscall_connect(c, o) ==
    [Handler(/\ check_arg_count(c.args, 3) /\ fd_arg(c.args, 1)
             /\ ellipsis_arg(c.args, 2) \/ s32_arg(c.args, 2)
             /\ ellipsis_arg(c.args, 3), "exact", TRUE)
        EXCEPT !.connects = TRUE, !.family = Family(c.args, 2)]

syscall_read(c, o) ==
    Handler(/\ check_arg_count(c.args, 3) /\ fd_arg(c.args, 1)
            /\ buffer_arg(c.args, 2) /\ s32_arg(c.args, 3), "exact", TRUE)

syscall_readv(c, o) ==
    Handler(/\ check_arg_count(c.args, 3) /\ fd_arg(c.args, 1)
            /\ iovec_new(c.args[2]) /\ s32_arg(c.args, 3)
            /\ s32(c.args[3].num) = Len(c.args[2].list), "exact", TRUE)

syscall_recv(c, o) ==
    Handler(/\ check_arg_count(c.args, 4) /\ fd_arg(c.args, 1)
            /\ buffer_arg(c.args, 2) /\ s32_arg(c.args, 3) /\ s32_arg(c.args, 4),
            "exact", TRUE)

syscall_recvfrom(c, o) ==
    Handler(/\ check_arg_count(c.args, 6) /\ fd_arg(c.args, 1)
            /\ buffer_arg(c.args, 2) /\ s32_arg(c.args, 3) /\ s32_arg(c.args, 4)
            /\ ellipsis_arg(c.args, 5) /\ ellipsis_arg(c.args, 6),
            "exact", TRUE)

\* What recvmsg() delivers: the flags, and the control messages as one value.
syscall_recvmsg(c, o) ==
    Handler(/\ check_arg_count(c.args, 3) /\ fd_arg(c.args, 1)
            /\ msghdr_new(c.args[2]) /\ s32_arg(c.args, 3), "exact",
            o.val = c.args[2].flags /\ o.data = c.args[2].control)

syscall_write(c, o) ==
    Handler(/\ check_arg_count(c.args, 3) /\ fd_arg(c.args, 1)
            /\ buffer_arg(c.args, 2) /\ s32_arg(c.args, 3), "exact", TRUE)

syscall_writev(c, o) ==
    Handler(/\ check_arg_count(c.args, 3) /\ fd_arg(c.args, 1)
            /\ iovec_new(c.args[2]) /\ s32_arg(c.args, 3)
            /\ s32(c.args[3].num) = Len(c.args[2].list), "exact", TRUE)

syscall_send(c, o) ==
    Handler(/\ check_arg_count(c.args, 4) /\ fd_arg(c.args, 1)
            /\ buffer_arg(c.args, 2) /\ s32_arg(c.args, 3) /\ s32_arg(c.args, 4),
            "exact", TRUE)

\* The peer of an ICMP socket is always the configured one.
syscall_icmp_sendto(c, o) ==
    [Handler(/\ check_arg_count(c.args, 6) /\ fd_arg(c.args, 1)
             /\ buffer_arg(c.args, 2) /\ s32_arg(c.args, 3) /\ s32_arg(c.args, 4)
             /\ ellipsis_arg(c.args, 5) /\ ellipsis_arg(c.args, 6),
             "exact", TRUE) EXCEPT !.connects = TRUE]

syscall_sendto(c, o) ==
    LET ok == /\ check_arg_count(c.args, 6) /\ fd_arg(c.args, 1)
              /\ buffer_arg(c.args, 2) /\ s32_arg(c.args, 3) /\ s32_arg(c.args, 4)
              /\ ellipsis_arg(c.args, 5) \/ s32_arg(c.args, 5)
              /\ ellipsis_arg(c.args, 6)
    IN IF ok /\ fds[find_by_script_fd(s32(c.args[1].num))].proto = "icmp"
         THEN syscall_icmp_sendto(c, o)
         ELSE [Handler(ok, "exact", TRUE)
                  EXCEPT !.connects = TRUE, !.family = Family(c.args, 5)]

\* The connection is prepared before the flags are refused.
syscall_sendmsg(c, o) ==
    LET ok == /\ check_arg_count(c.args, 3) /\ fd_arg(c.args, 1)
              /\ msghdr_new(c.args[2]) /\ s32_arg(c.args, 3)
    IN [Handler(ok, "exact", TRUE)
           EXCEPT !.connects = ok /\ c.args[2].name,
                  !.late = ok => c.args[2].flags = 0]

syscall_fcntl(c, o) ==
    Handler(/\ Len(c.args) \in {2, 3} /\ fd_arg(c.args, 1) /\ s32_arg(c.args, 2)
            /\ Len(c.args) = 3 => s32_arg(c.args, 3), "exact", TRUE)

syscall_ioctl(c, o) ==
    Handler(/\ Len(c.args) \in {2, 3} /\ fd_arg(c.args, 1) /\ s32_arg(c.args, 2)
            /\ Len(c.args) = 3 => s32_bracketed_arg(c.args, 3), "exact",
            Len(c.args) = 3 => o.val = s32(c.args[3].list[1].num))

syscall_close(c, o) ==
    Handler(check_arg_count(c.args, 1) /\ fd_arg(c.args, 1), "exact", TRUE)

syscall_shutdown(c, o) ==
    Handler(check_arg_count(c.args, 2) /\ fd_arg(c.args, 1) /\ s32_arg(c.args, 2),
            "exact", TRUE)

IntSize == 4        \* an int
StructSize == 16    \* struct gre, struct in6_addr

\* The value is looked at only after the call: a wrong type is an error then.
syscall_getsockopt(c, o) ==
    Handler(/\ check_arg_count(c.args, 5) /\ fd_arg(c.args, 1)
            /\ s32_arg(c.args, 2) /\ s32_arg(c.args, 3)
            /\ s32_bracketed_arg(c.args, 5), "exact",
            LET len == s32(c.args[5].list[1].num)
                val == c.args[4]
            IN /\ o.data = len
               /\ \/ val.type = "string" /\ o.val = val.val
                  \/ /\ val.type = "list" /\ len = IntSize
                     /\ s32_bracketed_arg(c.args, 4)
                     /\ o.val = s32(val.list[1].num)
                  \/ /\ val.type \in {"gre", "in6_addr"} /\ len = StructSize
                     /\ o.val = val.val)

syscall_setsockopt(c, o) ==
    Handler(/\ check_arg_count(c.args, 5) /\ fd_arg(c.args, 1)
            /\ s32_arg(c.args, 2) /\ s32_arg(c.args, 3) /\ s32_arg(c.args, 5)
            /\ \/ c.args[4].type \in {"linger", "gre", "in6_addr", "mpls_stack",
                                      "string"}
               \/ s32_bracketed_arg(c.args, 4), "exact", TRUE)

syscall_poll(c, o) ==
    Handler(/\ check_arg_count(c.args, 3) /\ pollfds_new(c.args[1])
            /\ s32_arg(c.args, 2) /\ s32_arg(c.args, 3)
            /\ s32(c.args[2].num) = Len(c.args[1].list), "exact",
            pollfds_check(c.args[1], o))

syscall_cap_set(c, o) ==
    Handler(/\ check_arg_count(c.args, 3)
            /\ s32_arg(c.args, 1) /\ s32_arg(c.args, 2) /\ s32_arg(c.args, 3),
            "fd", TRUE)

syscall_open(c, o) ==
    Handler(/\ check_arg_count(c.args, 2) /\ c.args[1].type = "string"
            /\ s32_arg(c.args, 2), "fd", TRUE)

syscall_sendfile(c, o) ==
    Handler(/\ check_arg_count(c.args, 4) /\ fd_arg(c.args, 1) /\ fd_arg(c.args, 2)
            /\ s64_bracketed_arg(c.args, 3) /\ s32_arg(c.args, 4),
            "exact", TRUE)

syscall_epoll_create(c, o) ==
    Handler(check_arg_count(c.args, 1) /\ s32_arg(c.args, 1), "fd", TRUE)

syscall_epoll_ctl(c, o) ==
    Handler(/\ check_arg_count(c.args, 4) /\ fd_arg(c.args, 1)
            /\ s32_arg(c.args, 2) /\ fd_arg(c.args, 3)
            /\ get_epoll_event_from_expr(c.args[4], s32(c.args[3].num)),
            "exact", TRUE)

syscall_epoll_wait(c, o) ==
    Handler(/\ check_arg_count(c.args, 4) /\ fd_arg(c.args, 1)
            /\ get_epoll_event_from_expr(c.args[2], -1)
            /\ s32_arg(c.args, 3) /\ s32_arg(c.args, 4), "exact",
            /\ o.val = c.args[2].events.num
            /\ o.data = EventData(c.args[2]))

syscall_pipe(c, o) ==
    Handler(check_arg_count(c.args, 1) /\ get_pipe_expression(c.args[1]),
            "exact", TRUE)

syscall_splice(c, o) ==
    Handler(/\ check_arg_count(c.args, 6) /\ fd_arg(c.args, 1) /\ s64_arg(c.args, 2)
            /\ fd_arg(c.args, 3) /\ s64_arg(c.args, 4)
            /\ s32_arg(c.args, 5) /\ s32_arg(c.args, 6), "exact", TRUE)

\* The arguments that the handler of a call translates with to_live_fd().
Uses(c) ==
    CASE c.name \in {"socket", "open", "epoll_create", "pipe", "poll",
                    "cap_set"} -> {}
      [] c.name = "sendfile" -> {1, 2}
      [] c.name \in {"epoll_ctl", "splice"} -> {1, 3}
      [] OTHER -> {1}

system_call_table(c, o) ==
    CASE c.name = "socket" -> syscall_socket(c, o)
      [] c.name = "bind" -> syscall_bind(c, o)
      [] c.name = "listen" -> syscall_listen(c, o)
      [] c.name = "accept" -> syscall_accept(c, o)
      [] c.name = "connect" -> syscall_connect(c, o)
      [] c.name = "read" -> syscall_read(c, o)
      [] c.name = "readv" -> syscall_readv(c, o)
      [] c.name = "recv" -> syscall_recv(c, o)
      [] c.name = "recvfrom" -> syscall_recvfrom(c, o)
      [] c.name = "recvmsg" -> syscall_recvmsg(c, o)
      [] c.name = "write" -> syscall_write(c, o)
      [] c.name = "writev" -> syscall_writev(c, o)
      [] c.name = "send" -> syscall_send(c, o)
      [] c.name = "sendto" -> syscall_sendto(c, o)
      [] c.name = "sendmsg" -> syscall_sendmsg(c, o)
      [] c.name = "fcntl" -> syscall_fcntl(c, o)
      [] c.name = "ioctl" -> syscall_ioctl(c, o)
      [] c.name = "close" -> syscall_close(c, o)
      [] c.name = "shutdown" -> syscall_shutdown(c, o)
      [] c.name = "getsockopt" -> syscall_getsockopt(c, o)
      [] c.name = "setsockopt" -> syscall_setsockopt(c, o)
      [] c.name = "poll" -> syscall_poll(c, o)
      [] c.name = "cap_set" -> syscall_cap_set(c, o)
      [] c.name = "open" -> syscall_open(c, o)
      [] c.name = "sendfile" -> syscall_sendfile(c, o)
      [] c.name = "epoll_create" -> syscall_epoll_create(c, o)
      [] c.name = "epoll_ctl" -> syscall_epoll_ctl(c, o)
      [] c.name = "epoll_wait" -> syscall_epoll_wait(c, o)
      [] c.name = "pipe" -> syscall_pipe(c, o)
      [] c.name = "splice" -> syscall_splice(c, o)

----------------------------------------------------------------------------
(* The kernel: any result that the state of its descriptors allows. *)

Makers == {"socket", "open", "epoll_create", "accept"}

Outputs == {"ioctl", "getsockopt", "recvmsg", "poll", "epoll_wait"}

Outcome(r, errno, val, data) == [r |-> r, errno |-> errno, val |-> val, data |-> data]

Silent == Outcome(0, "old", 0, 0)

Fails(errno) == {Outcome(-1, errno, 0, 0)}

Free == {l \in LiveFds : kernel[l] = Nothing}

Outcomes(c, bad) ==
    IF bad THEN Fails("EBADF")
    ELSE IF c.name = "accept" /\ ~pending THEN Fails("EAGAIN")
    ELSE IF c.name \in Makers THEN
        IF Free = {} THEN Fails("EMFILE") ELSE {[Silent EXCEPT !.r = Min(Free)]}
    ELSE IF c.name = "pipe" THEN
        IF Cardinality(Free) < 2 THEN Fails("EMFILE") ELSE {Silent}
    ELSE IF c.name = "close" THEN {Silent}
    ELSE IF c.name \in Outputs THEN
        {Outcome(r, "old", v, IntSize) : r \in 0..1, v \in 0..1}
        \cup {Outcome(1, "old", 1, d) : d \in LiveFds \cup {StructSize}}
    ELSE Fails("EAGAIN") \cup {[Silent EXCEPT !.r = n] : n \in 0..2}

TypeMade == [socket |-> "socket", accept |-> "socket", open |-> "file",
             epoll_create |-> "epoll", pipe |-> "pipe"]

\* Numbers for new objects: the least that nothing refers to.
Ids == 1..(Cardinality(LiveFds) + MaxFds + 2)
FreshIds == Ids \ ({kernel[l].id : l \in LiveFds} \cup {fds[i].obj : i \in DOMAIN fds})

\* The kernel hands over the connection it holds.
Takes(c, o) == c.name = "accept" /\ o.r >= 0

\* The live descriptors a successful call makes.
Made(c, o) ==
    IF o.r < 0 THEN <<>>
    ELSE IF c.name \in Makers THEN <<o.r>>
    ELSE IF c.name = "pipe" THEN <<Min(Free), Min(Free \ {Min(Free)})>>
    ELSE <<>>

AfterCall(c, o, live) ==
    LET made == Made(c, o)
        first == Min(FreshIds)
        ids == <<first, Min(FreshIds \ {first})>>
    IN [l \in LiveFds |->
          IF c.name = "close" /\ o.r = 0 /\ l \in live THEN Nothing
          ELSE IF \E i \in DOMAIN made : made[i] = l
            THEN [type |-> TypeMade[c.name],
                  id |-> ids[CHOOSE i \in DOMAIN made : made[i] = l]]
          ELSE kernel[l]]

----------------------------------------------------------------------------
(* What follows the live call.  The operators on the table take the table  *)
(* and the kernel as they are after the call.                              *)

Entry(type, n, l, k) ==
    [type |-> type, script |-> n, live |-> l, closed |-> FALSE,
     st |-> "new", proto |-> "tcp", obj |-> IF l < 0 THEN 0 ELSE k[l].id]

state_add_fd(t, e) == <<e>> \o t

run_syscall_open(n, l, k) == state_add_fd(fds, Entry("file", n, l, k))

run_syscall_socket(n, l, k, icmp) ==
    state_add_fd(fds, [Entry("socket", n, l, k) EXCEPT
                          !.proto = IF icmp THEN "icmp" ELSE "tcp"])

run_syscall_epoll_create(n, l, k) == state_add_fd(fds, Entry("epoll", n, l, k))

run_syscall_pipe(n, l, k) ==
    state_add_fd(state_add_fd(fds, Entry("pipe", n[1], l[1], k)),
                 Entry("pipe", n[2], l[2], k))

\* Mutant: the entry stays open.
run_syscall_close_Forget(n) == fds

run_syscall_close(n) ==
    [fds EXCEPT ![find_by_script_fd(n)].closed = TRUE,
                ![find_by_script_fd(n)].obj = 0]

run_syscall_listen(n) ==
    [fds EXCEPT ![find_by_script_fd(n)].st = "listening"]

\* Sockets made by a SYN the interpreter injected, waiting for accept().
Children == {i \in DOMAIN fds : fds[i].type = "socket" /\ fds[i].st = "synack"}

\* On the wire client the socket is created here.  No check for duplicates.
run_syscall_accept(n, l, k) ==
    IF Children # {}
      THEN [fds EXCEPT ![Min(Children)].script = n, ![Min(Children)].live = l,
                       ![Min(Children)].obj = k[l].id]
      ELSE state_add_fd(fds, [Entry("socket", n, l, k) EXCEPT !.st = "init"])

\* Family 0 is AF_UNSPEC: disconnect.
run_syscall_connect(i, family) ==
    [fds EXCEPT ![i].st = IF family = 0 THEN "new"
                          ELSE IF @ = "new" THEN "connecting" ELSE @]

\* Mutant: errno is not compared.
end_syscall_NoErrno(c, mode, o) ==
    /\ get_s32(c.result)
    /\ IF mode = "fd" /\ s32(c.result.num) >= 0
         THEN o.r >= 0 ELSE o.r = s32(c.result.num)

end_syscall(c, mode, o) ==
    /\ get_s32(c.result)
    /\ IF mode = "fd" /\ s32(c.result.num) >= 0
         THEN o.r >= 0 ELSE o.r = s32(c.result.num)
    /\ c.errno # "none" => o.errno = c.errno

\* How the table t changes when the outcome is as expected; "no" is an error.
AfterMatch(c, o, made, k, t) ==
    LET n == s32(c.result.num)
        fd == s32(c.args[1].num)
        ok(new) == [ok |-> TRUE, fds |-> new]
        no == [ok |-> FALSE, fds |-> t]
    IN CASE c.name = "socket" /\ o.r >= 0 ->
              IF n >= 0 /\ check_duplicate_fd(n, o.r)
                THEN ok(run_syscall_socket(n, o.r, k, c.args[3].num = 1)) ELSE no
         [] c.name = "open" /\ o.r >= 0 ->
              IF check_duplicate_fd(n, o.r) THEN ok(run_syscall_open(n, o.r, k)) ELSE no
         [] c.name = "epoll_create" /\ o.r >= 0 ->
              IF check_duplicate_fd(n, o.r)
                THEN ok(run_syscall_epoll_create(n, o.r, k)) ELSE no
         [] c.name = "pipe" /\ o.r >= 0 ->
              LET ns == [i \in 1..2 |-> s32(c.args[1].list[i].num)]
              IN IF \A i \in 1..2 : check_duplicate_fd(ns[i], made[i])
                   THEN ok(run_syscall_pipe(ns, made, k)) ELSE no
         [] c.name = "accept" /\ o.r >= 0 ->
              IF Children # {} \/ is_wire_client
                THEN ok(run_syscall_accept(n, o.r, k)) ELSE no
         [] c.name = "close" -> ok(run_syscall_close(fd))
         [] c.name = "listen" ->
              IF fd_to_socket(find_by_script_fd(fd))
                THEN ok(run_syscall_listen(fd)) ELSE no
         [] OTHER -> ok(t)

\* Does the outcome agree with what the author of the call means?
Agrees(c, o, k) ==
    /\ IF c.name \in Makers \cup {"cap_set"} /\ c.want.r >= 0
         THEN o.r >= 0 ELSE o.r = c.want.r
    /\ c.want.errno \in {"any", o.errno}
    /\ c.want.data # "none" =>
         /\ o.val = c.want.val
         /\ \/ c.want.data = "any"
            \/ c.want.data = "size" /\ o.data = c.want.size
            \/ /\ c.want.data = "fd" /\ o.data \in LiveFds
               /\ \E i \in DOMAIN fds : /\ fds[i].script = c.want.size
                                        /\ k[o.data].id = fds[i].obj

\* The process ends; what it leaves is of no interest.
Die ==
    /\ status' = "died"
    /\ fds' = <<>> /\ kernel' = [l \in LiveFds |-> Nothing] /\ pending' = FALSE
    /\ thread' = Idle
    /\ total_write_num' = 0 /\ stream' = 0 /\ misplaced' = misplaced

\* Mutant: counts what was asked for, not what was written.
Count_Asked(c, o) == IF o.r > 0 THEN s32(c.args[3].num) ELSE 0

\* syscall_write() numbers the bytes it sends.
Count(c, o) == IF o.r > 0 THEN o.r ELSE 0

Bytes(c, o) ==
    IF c.name = "write"
      THEN /\ total_write_num' = total_write_num + Count(c, o)
           /\ stream' = stream + (IF o.r > 0 THEN o.r ELSE 0)
           /\ misplaced' = (misplaced \/ (o.r > 0 /\ total_write_num # stream))
      ELSE UNCHANGED bytes

\* The part of a handler after the live call.  k is the kernel after it.
AfterLive(c, o, made, k, t) ==
    LET h == system_call_table(c, o)
        next == AfterMatch(c, o, made, k, t)
        fatal == c.name = "bind" /\ o.r < 0
    IN \E passes \in {end_syscall(c, h.mode, o) /\ h.match} :
       /\ wrong' = (wrong \/ (checker /\ ~fatal /\ passes # Agrees(c, o, k)))
       /\ duplicate' = (duplicate \/ (passes /\ ~next.ok /\
                            \E i \in DOMAIN made : find_by_live_fd(made[i])))
       /\ IF fatal \/ (checker /\ ~(passes /\ next.ok)) THEN Die
          ELSE /\ fds' = IF passes THEN next.fds ELSE t
               /\ kernel' = k
               /\ pending' = (pending /\ (c.blocking \/ ~Takes(c, o)))
               /\ thread' = IF c.blocking THEN Idle ELSE thread
               /\ status' = status
               /\ Bytes(c, o)

----------------------------------------------------------------------------
(* Which calls a valid script makes: it names no descriptor it has closed, *)
(* gives accept() a new one, and closes a descriptor without blocking.     *)

Named(c) ==
    IF c.name = "poll" THEN {c.args[1].list[i].fd.num : i \in DOMAIN c.args[1].list}
    ELSE {s32(c.args[i].num) : i \in Uses(c)}
         \cup (IF c.name = "epoll_wait" /\ c.args[2].kind = "fd"
                 THEN {c.args[2].data.num} ELSE {})

\* What EntryIsItsObject and SocketsClosedAtEnd ask of a script besides: a
\* close() does not block and is expected to succeed, and no call names -1,
\* the number that the table gives a socket before its accept().
Orderly(calls) ==
    /\ ~BlockingClose
    /\ \A c \in calls :
          /\ c.name = "close" =>
               get_s32(c.result) /\ s32(c.result.num) = 0 /\ c.errno = "none"
          /\ 1 \in Uses(c) => s32(c.args[1].num) # -1

Valid(c) ==
    /\ status = "running"
    /\ \A n \in Named(c), i \in DOMAIN fds : fds[i].script = n => ~fds[i].closed
    /\ c.name = "accept" =>
         /\ \A i \in DOMAIN fds : fds[i].script # s32(c.result.num)
         /\ thread # Idle => thread.call.name # "accept"
    /\ c.blocking => (c.name = "close" => BlockingClose)
    /\ c.name \in Makers => Len(fds) < MaxFds
    /\ c.name = "pipe" => Len(fds) + 1 < MaxFds
    /\ c.name = "write" => stream + 2 <= MaxBytes

Init ==
    /\ checker \in Checkers /\ is_wire_client \in BOOLEAN
    /\ is_wire_client => checker        \* the fuzzer has no wire client
    /\ fds = <<>> /\ kernel = [l \in LiveFds |-> Nothing] /\ pending = FALSE
    /\ thread = Idle /\ status = "running"
    /\ total_write_num = 0 /\ stream = 0 /\ misplaced = FALSE
    /\ duplicate = FALSE /\ wrong = FALSE

Live(c) ==
    {to_live_fd(s32(c.args[i].num)) : i \in Uses(c)}

Bad(live) == \E l \in live : l \notin LiveFds \/ kernel[l] = Nothing

\* The index of the socket that a call names first.
Socket(c) == find_by_script_fd(s32(c.args[1].num))

\* The table when the live call is made.
Prepared(c) ==
    LET h == system_call_table(c, Silent)
    IN IF h.connects THEN run_syscall_connect(Socket(c), h.family) ELSE fds

\* A handler that returns an error, or fails an assertion, before the call.
\* A blocking call that is not made also fails an assertion of its thread.
Refuse(c) ==
    LET h == system_call_table(c, Silent)
        asserts == h.connects /\ ~fd_to_socket(Socket(c))
    IN /\ c.blocking => thread = Idle
       /\ ~h.ok \/ asserts \/ ~h.late
       /\ IF checker \/ c.blocking \/ (h.ok /\ asserts) THEN Die
          ELSE /\ fds' = IF h.ok THEN Prepared(c) ELSE fds
               /\ UNCHANGED <<kernel, pending, thread, status, bytes>>
       /\ UNCHANGED <<checker, is_wire_client, duplicate, wrong>>

Goes(c) ==
    LET h == system_call_table(c, Silent)
    IN /\ h.ok /\ h.late
       /\ h.connects => fd_to_socket(Socket(c))

\* The main thread makes a call; a blocking one may be in progress, since
\* await_idle_thread() waits for one second only.
invoke_system_call(c) ==
    /\ ~c.blocking /\ Goes(c)
    /\ \E o \in Outcomes(c, Bad(Live(c))) :
          AfterLive(c, o, Made(c, o), AfterCall(c, o, Live(c)), Prepared(c))
    /\ UNCHANGED <<checker, is_wire_client>>

\* The other thread enters a blocking call: the kernel knows its objects.
begin_syscall(c) ==
    /\ c.blocking /\ thread = Idle /\ Goes(c)
    /\ thread' = [st |-> "in", call |-> c, live |-> Live(c), bad |-> Bad(Live(c))]
    /\ fds' = Prepared(c)
    /\ UNCHANGED <<checker, is_wire_client, kernel, pending, status, bytes,
                   duplicate, wrong>>

\* The kernel returns from it; the thread does not have the mutex.
Return ==
    /\ status = "running" /\ thread.st = "in"
    /\ \E o \in Outcomes(thread.call, thread.bad) :
          /\ thread' = [st |-> "out", call |-> thread.call, o |-> o,
                        made |-> Made(thread.call, o)]
          /\ kernel' = AfterCall(thread.call, o, thread.live)
          /\ pending' = (pending /\ ~Takes(thread.call, o))
    /\ UNCHANGED <<checker, is_wire_client, fds, status, bytes, duplicate, wrong>>

\* It gets the mutex and finishes its handler.
FinishBlocking ==
    /\ status = "running" /\ thread.st = "out"
    /\ AfterLive(thread.call, thread.o, thread.made, kernel, fds)
    /\ UNCHANGED <<checker, is_wire_client>>

\* A SYN for a listening socket: the interpreter adds a child to the table.
\* The wire client does not see packets.
InboundSyn ==
    /\ status = "running" /\ ~pending /\ Len(fds) < MaxFds
    /\ \A i \in DOMAIN fds : fds[i].st \notin {"synack", "init"}
    /\ \E i \in DOMAIN fds : fds[i].st = "listening" /\ ~fds[i].closed
    /\ pending' = TRUE
    /\ fds' = IF is_wire_client THEN fds
              ELSE state_add_fd(fds, [Entry("socket", -1, -1, kernel)
                                         EXCEPT !.st = "synack"])
    /\ UNCHANGED <<checker, is_wire_client, kernel, thread, status, bytes,
                   duplicate, wrong>>

\* Mutant: every socket counts as closed by the script.
socket_close_Never(i) == FALSE

\* Only the handler for sockets closes the live descriptor.
socket_close(i) ==
    fds[i].type = "socket" /\ fds[i].live >= 0 /\ ~fds[i].closed

\* state_free(): the script is over.  A blocking call in progress is fatal.
close_all_fds ==
    /\ status = "running"
    /\ LET open == {fds[i].live : i \in {j \in DOMAIN fds : socket_close(j)}}
       IN IF thread # Idle \/ Bad(open) THEN Die
          ELSE /\ kernel' = [l \in LiveFds |->
                                IF l \in open THEN Nothing ELSE kernel[l]]
               /\ fds' = <<>> /\ status' = "finished"
               /\ UNCHANGED <<pending, thread, bytes>>
    /\ UNCHANGED <<checker, is_wire_client, duplicate, wrong>>

Ended == status # "running" /\ UNCHANGED vars

Next ==
    \/ \E c \in {d \in Calls : Valid(d)} :
           Refuse(c) \/ invoke_system_call(c) \/ begin_syscall(c)
    \/ Return \/ FinishBlocking
    \/ InboundSyn \/ close_all_fds
    \/ Ended

Spec == Init /\ [][Next]_vars

----------------------------------------------------------------------------
\* An open entry of the table stands for the object that was made for it:
\* whatever closes and reuses of numbers lie between, and also while a
\* blocking call is half done, a handler that translates a script's
\* descriptor reaches the object the script means (to_live_fd()).
EntryIsItsObject ==
    \A i \in DOMAIN fds :
        fds[i].live >= 0 /\ ~fds[i].closed => kernel[fds[i].live].id = fds[i].obj

\* A live descriptor the kernel has just made is never taken for one that
\* is already in the table.  check_duplicate_fd() says that this "should not
\* happen if the script is valid and this program is bug-free".
NoFalseDuplicate == ~duplicate

\* When a checked script ends, close_all_fds() has closed every socket that
\* any call of the script made, accepted ones included.
SocketsClosedAtEnd ==
    status = "finished" /\ checker =>
        \A l \in LiveFds : kernel[l].type # "socket"

\* Every byte that write() hands to the connection carries its position in
\* the stream, through short and failed writes: the collector compares each
\* outbound payload with these positions (validate_outbound_packet()).
StreamIsPositional == ~misplaced

\* The verdict on a call is right both ways: the interpreter goes on exactly
\* when result, errno and output are what the author of the script means.
VerdictIsRight == ~wrong
=============================================================================
