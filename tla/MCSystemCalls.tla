---------------------------- MODULE MCSystemCalls ----------------------------
(* The calls of a small instance: every handler, with good and bad arguments. *)
EXTENDS SystemCalls

I(n) == [type |-> "integer", num |-> n]
Dots == [type |-> "ellipsis"]
L(s) == [type |-> "list", list |-> s]
Absent == [type |-> "none"]
Value(t, v) == [type |-> t, val |-> v]
Msg(iov, n, flags, name) ==
    [type |-> "msghdr", iov |-> iov, iovlen |-> n, flags |-> flags, name |-> name,
     control |-> 4]
Iov == L(<<[type |-> "iovec"]>>)
Poll(fd, revents) ==
    L(<<[type |-> "pollfd", fd |-> I(fd), events |-> I(1), revents |-> I(revents)]>>)
Event(n, kind, d) ==
    [type |-> "epollev", events |-> I(n), kind |-> kind, data |-> I(d)]

Call(name, args, r, errno) ==
    [name |-> name, args |-> args, result |-> I(r), errno |-> errno,
     blocking |-> FALSE,
     want |-> [r |-> r, errno |-> IF errno = "none" THEN "any" ELSE errno,
               val |-> 0, data |-> "none", size |-> 0]]
Blocking(c) == [c EXCEPT !.blocking = TRUE]
\* What the author expects of the output.
Out(c, val, data, size) ==
    [c EXCEPT !.want.val = val, !.want.data = data, !.want.size = size]

\* 15 is -1 to a reader of 32-bit numbers, when Half is 8.
Makes ==
    {Call("socket", <<Dots, I(1), I(6)>>, 3, "none"),
     Call("socket", <<Dots, I(1), I(1)>>, 5, "none")}
    \cup {Call("accept", <<I(3), Dots, Dots>>, 4, "none"),
          Blocking(Call("accept", <<I(3), Dots, Dots>>, 4, "none")),
          Call("accept", <<I(3), Dots, Dots>>, -1, "EAGAIN"),
          Call("open", <<[type |-> "string"], I(0)>>, 5, "none"),
          Call("open", <<I(0), I(0)>>, 5, "none"),
          Call("epoll_create", <<I(1)>>, 6, "none"),
          [Call("epoll_create", <<I(1)>>, -1, "none") EXCEPT !.result = I(15)],
          Call("pipe", <<L(<<I(5), I(6)>>)>>, 0, "none"),
          Call("pipe", <<L(<<I(5)>>)>>, 0, "none")}
    \cup {Call("close", <<I(n)>>, 0, "none") : n \in 3..5}
    \cup {Blocking(Call("close", <<I(3)>>, 0, "none"))}

OnSockets ==
    {Call("bind", <<I(3), Dots, Dots>>, 0, "none"),
     Call("listen", <<I(3), I(1)>>, 0, "none"),
     Call("connect", <<I(5), Dots, Dots>>, 0, "none"),
     Call("connect", <<I(5), I(0), Dots>>, 0, "none"),
     Blocking(Call("connect", <<I(5), Dots, Dots>>, 0, "none")),
     Call("sendto", <<I(5), Dots, I(2), I(0), Dots, Dots>>, 2, "none"),
     Call("sendto", <<I(5), Dots, I(2), I(0), I(2), Dots>>, 2, "none"),
     Call("sendmsg", <<I(5), Msg(Iov, I(1), 0, TRUE), I(0)>>, 2, "none"),
     Call("sendmsg", <<I(5), Msg(Iov, I(1), 1, TRUE), I(0)>>, 2, "none"),
     Call("sendmsg", <<I(5), Msg(Absent, I(1), 0, FALSE), I(0)>>, 2, "none")}

Data ==
    {Call("write", <<I(4), Dots, I(2)>>, r, "none") : r \in 1..2}
    \cup {Call("write", <<I(4), Dots, I(2)>>, -1, "EAGAIN"),
          Call("read", <<I(4), I(0), I(2)>>, 2, "none"),
          Call("read", <<I(4), Dots, I(16)>>, 2, "none"),
          Blocking(Call("read", <<I(4), Dots, I(2)>>, 2, "none")),
          Call("readv", <<I(4), Iov, I(1)>>, 2, "none"),
          Call("readv", <<I(4), Iov, I(2)>>, 2, "none"),
          Call("recv", <<I(4), Dots, I(2), I(0)>>, -1, "EAGAIN"),
          Call("recvfrom", <<I(4), Dots, I(2), I(0), Dots, Dots>>, 2, "none"),
          Out(Call("recvmsg", <<I(4), Msg(Iov, I(1), 1, FALSE), I(0)>>, 1, "none"),
              1, "size", 4),
          Call("writev", <<I(4), Iov, I(1)>>, 2, "none"),
          Call("send", <<I(4), Dots, I(2), I(0)>>, 2, "none"),
          Call("shutdown", <<I(4), I(1)>>, 0, "none"),
          Call("fcntl", <<I(4), I(1)>>, 0, "none"),
          Call("fcntl", <<I(4), I(1), I(1)>>, 0, "none"),
          Call("fcntl", <<I(4)>>, 0, "none"),
          Call("sendfile", <<I(4), I(5), L(<<I(0)>>), I(1)>>, 1, "none"),
          Call("splice", <<I(5), I(0), I(4), I(0), I(1), I(0)>>, 1, "none"),
          Call("cap_set", <<I(0), I(0), I(0)>>, 0, "none")}

Options ==
    {Call("ioctl", <<I(4), I(1)>>, 0, "none"),
     Out(Call("ioctl", <<I(4), I(1), L(<<I(1)>>)>>, 0, "none"), 1, "any", 0),
     Out(Call("getsockopt", <<I(4), I(1), I(1), L(<<I(1)>>), L(<<I(4)>>)>>, 0,
              "none"), 1, "size", 4),
     Out(Call("getsockopt", <<I(4), I(1), I(1), Value("string", 1), L(<<I(4)>>)>>,
              0, "none"), 1, "size", 4),
     Call("setsockopt", <<I(4), I(1), I(1), L(<<I(1)>>), I(4)>>, 0, "none"),
     Call("setsockopt", <<I(4), I(1), I(1), Value("linger", 1), I(4)>>, 0, "none"),
     Call("setsockopt", <<I(4), I(1), I(1), Dots, I(4)>>, 0, "none"),
     Out(Call("poll", <<Poll(4, 1), I(1), I(0)>>, 1, "none"), 1, "any", 0),
     Call("poll", <<Poll(4, 1), I(2), I(0)>>, 1, "none"),
     Call("epoll_ctl", <<I(6), I(1), I(4), Event(1, "fd", 4)>>, 0, "none"),
     Call("epoll_ctl", <<I(6), I(1), I(4), Event(1, "fd", 3)>>, 0, "none"),
     Out(Call("epoll_wait", <<I(6), Event(1, "fd", 4), I(1), I(0)>>, 1, "none"),
         1, "fd", 4),
     Out(Call("epoll_wait", <<I(6), Event(1, "u32", 4), I(1), I(0)>>, 1, "none"),
         1, "size", 4)}

MCCalls == Makes \cup OnSockets \cup Data \cup Options

\* The calls are those that the theorems of SystemCallsProofs are about.
ASSUME OrderlyAssumption == BlockingClose \/ Orderly(Calls)
=============================================================================
