-------------------------- MODULE SystemCallsLemmas --------------------------
(* The inductive invariant of SystemCalls, and what the operators on the    *)
(* table and on the kernel do to it.                                        *)
EXTENDS SystemCalls, FiniteSetTheorems, WellFoundedInduction, TLAPS

----------------------------------------------------------------------------
(* The inductive invariant.  Good relates a table f to a kernel k, where X  *)
(* is the set of live descriptors that a blocking call has made and that    *)
(* its thread has not yet put into the table.                               *)

\* Script numbers; every number comes from a call or is the -1 of a child.
Scripts ==
    {-1} \cup {s32(c.result.num) : c \in Calls}
    \cup {s32(c.args[1].list[i].num) : c \in Calls, i \in 1..2}

Entries ==
    [type : {"socket", "file", "epoll", "pipe"}, script : Scripts,
     live : LiveFds \cup {-1}, closed : BOOLEAN,
     st : {"new", "listening", "synack", "init", "connecting"},
     proto : {"tcp", "icmp"}, obj : Nat]

Objects == [type : {"free", "socket", "file", "epoll", "pipe"}, id : Nat]

\* An open entry with a live descriptor.
Held(e) == ~e.closed /\ e.live # -1

Typed(f, k) == f \in Seq(Entries) /\ k \in [LiveFds -> Objects]

\* A held descriptor is of the object made for it, and in one entry only; an
\* entry without an object is a child or is closed.
Faithful(f, k, X) ==
    /\ \A i \in DOMAIN f : Held(f[i]) =>
          /\ k[f[i].live] # Nothing /\ k[f[i].live].id = f[i].obj
          /\ f[i].live \notin X
    /\ \A i, j \in DOMAIN f :
          Held(f[i]) /\ Held(f[j]) /\ f[i].live = f[j].live => i = j
    /\ \A i \in DOMAIN f :
          /\ f[i].live = -1 => f[i].script = -1 /\ ~f[i].closed /\ f[i].obj = 0
          /\ f[i].closed => f[i].obj = 0

\* Objects have different numbers.
Distinct(k) ==
    /\ \A l \in LiveFds : k[l] # Nothing => k[l].id # 0
    /\ \A l, m \in LiveFds : k[l] # Nothing /\ k[l].id = k[m].id => l = m

Good(f, k, X) ==
    /\ Typed(f, k) /\ Faithful(f, k, X) /\ Distinct(k)
    /\ X \subseteq LiveFds /\ \A x \in X : k[x] # Nothing

\* Every live socket is in the table, or in the hands of the other thread.
Owned(f, k, X) ==
    \A l \in LiveFds : k[l].type = "socket" =>
        \/ l \in X
        \/ \E i \in DOMAIN f : Held(f[i]) /\ f[i].live = l /\ f[i].type = "socket"

Elements(s) == {s[i] : i \in DOMAIN s}

\* What a call c with the outcome o has made.
MadeBy(c, o, made) ==
    /\ o.r \in Int
    /\ IF o.r < 0 \/ c.name \notin Makers \cup {"pipe"} THEN made = <<>>
       ELSE IF c.name = "pipe"
         THEN \E a, b \in LiveFds : a # b /\ made = <<a, b>>
       ELSE o.r \in LiveFds /\ made = <<o.r>>

Makings(c, k, made) == \A x \in Elements(made) : k[x].type = TypeMade[c.name]

ThreadOK ==
    \/ thread = Idle
    \/ /\ thread.st \in {"in", "out"}
       /\ thread.call \in Calls /\ thread.call.blocking
       /\ thread.call.name # "close"
       /\ thread.st = "out" => /\ MadeBy(thread.call, thread.o, thread.made)
                               /\ Makings(thread.call, kernel, thread.made)

Loose == IF thread.st = "out" THEN Elements(thread.made) ELSE {}

\* The other thread has taken a connection and has not yet entered it.
Accepting ==
    thread.st = "out" /\ thread.call.name = "accept" /\ thread.o.r >= 0

\* No entry is a child; none of the children has a descriptor; there is one.
NoChild(f) == \A i \in DOMAIN f : f[i].st # "synack"
Unused(f) == \A i \in DOMAIN f : f[i].st = "synack" => f[i].live = -1
HasChild(f) == \E i \in DOMAIN f : f[i].type = "socket" /\ f[i].st = "synack"

\* A connection to accept has a child that no accept() has used; the wire
\* client has no children.
Waiting ==
    /\ pending \in BOOLEAN
    /\ is_wire_client => NoChild(fds)
    /\ pending \/ Accepting => Unused(fds)
    /\ ~is_wire_client /\ (pending \/ Accepting) => HasChild(fds)
    /\ ~is_wire_client => ~(pending /\ Accepting)

Inv ==
    /\ checker \in BOOLEAN /\ is_wire_client \in BOOLEAN
    /\ status \in {"running", "finished", "died"}
    /\ ~duplicate
    /\ status = "running" =>
          /\ Good(fds, kernel, Loose) /\ ThreadOK /\ Waiting
          /\ checker => Owned(fds, kernel, Loose)
    /\ status # "running" => fds = <<>>
    /\ SocketsClosedAtEnd

----------------------------------------------------------------------------
(* Least numbers: the kernel gives out the least free descriptor, and the  *)
(* table is searched from its newest entry.                                *)

\* Every non-empty set of natural numbers has a least element.
LEMMA NatMin ==
    ASSUME NEW S \in SUBSET Nat, S # {}
    PROVE  Min(S) \in S
<1> DEFINE R == OpToRel(<, Nat)
<1>1. IsWellFoundedOn(R, Nat)
  BY NatLessThanWellFounded, Zenon
<1>2. PICK x \in S : \A y \in S : ~ (<<y, x>> \in R)
  <2> HIDE DEF R
  <2> QED BY <1>1, WFMin, Zenon
<1>3. R = {ss \in Nat \X Nat : ss[1] < ss[2]}
  BY Zenon DEF OpToRel
<1>4. ASSUME NEW y \in S PROVE x <= y
  <2> HIDE DEF R
  <2>1. <<y, x>> \in Nat \X Nat
    OBVIOUS
  <2>2. ~(y < x)
    BY <1>2, <1>3, <2>1
  <2> QED BY <2>2
<1>5. \E z \in S : \A y \in S : z =< y
  BY <1>4
<1> HIDE DEF R
<1> QED BY <1>5, Zenon DEF Min

\* find_by_script_fd() returns an entry with the number it looks for.
LEMMA FindFinds ==
    ASSUME fds \in Seq(Entries), NEW n, find_by_script_fd(n) # 0
    PROVE  /\ find_by_script_fd(n) \in DOMAIN fds
           /\ fds[find_by_script_fd(n)].script = n
<1> DEFINE found == {i \in DOMAIN fds : fds[i].script = n}
<1>1. found # {} /\ find_by_script_fd(n) = Min(found)
  BY DEF find_by_script_fd
<1>2. found \in SUBSET Nat
  OBVIOUS
<1>3. Min(found) \in found
  BY <1>1, <1>2, NatMin, Zenon
<1> QED BY <1>1, <1>3

\* The kernel gives out free descriptors.
LEMMA LeastFree ==
    ASSUME Free # {}
    PROVE  Min(Free) \in Free /\ Min(Free) \in LiveFds
<1>1. Free \in SUBSET Nat /\ Free \subseteq LiveFds
  BY SystemCallsAssumption, Zenon DEF Free
<1> QED BY <1>1, NatMin, Zenon

\* A finite set with two elements has a least and a second.
LEMMA TwoLeast ==
    ASSUME NEW S \in SUBSET Nat, IsFiniteSet(S), ~(Cardinality(S) < 2)
    PROVE  /\ Min(S) \in S /\ Min(S \ {Min(S)}) \in S
           /\ Min(S \ {Min(S)}) # Min(S)
<1>1. S # {}
  BY FS_EmptySet
<1>2. S \ {Min(S)} # {}
  <2>1. CASE S = {Min(S)}
    <3>1. Cardinality(S) = 1
      BY <2>1, FS_Singleton
    <3> QED BY <3>1
  <2> QED BY <1>1, <2>1
<1>3. Min(S \ {Min(S)}) \in S \ {Min(S)}
  BY <1>2, NatMin
<1> QED BY <1>1, <1>3, NatMin

\* There are numbers for two new objects that no object and no entry has.
LEMMA Fresh ==
    ASSUME NEW X, Good(fds, kernel, X)
    PROVE  /\ FreshIds \in SUBSET (Nat \ {0})
           /\ Min(FreshIds) \in FreshIds
           /\ Min(FreshIds \ {Min(FreshIds)}) \in FreshIds
           /\ Min(FreshIds \ {Min(FreshIds)}) # Min(FreshIds)
<1> DEFINE K == {kernel[l].id : l \in LiveFds}
           N == Cardinality(LiveFds)
<1>1. N \in Nat /\ IsFiniteSet(LiveFds) /\ MaxFds \in Nat
  BY SystemCallsAssumption, FS_CardinalityType
<1>2. IsFiniteSet(K) /\ Cardinality(K) <= N /\ Cardinality(K) \in Nat
  <2> DEFINE g == [l \in LiveFds |-> kernel[l].id]
  <2>1. g \in Surjection(LiveFds, K)
    BY DEF Surjection
  <2>2. IsFiniteSet(K) /\ Cardinality(K) <= N
    <3> HIDE DEF g, K, N
    <3> QED BY <1>1, <2>1, FS_Surjection DEF N
  <2> HIDE DEF K
  <2> QED BY <2>2, FS_CardinalityType
<1>3. IsFiniteSet(Ids) /\ Cardinality(Ids) = N + MaxFds + 2
      /\ Ids \in SUBSET (Nat \ {0})
  <2> HIDE DEF N
  <2>1. Ids = 1..(N + MaxFds + 2)
    BY DEF Ids, N
  <2> QED BY <1>1, <2>1, FS_Interval
<1>4. Ids \ K \subseteq FreshIds
  <2>1. ASSUME NEW i \in DOMAIN fds PROVE fds[i].obj \in K \cup {0}
    <3>1. fds[i] \in Entries
      BY DEF Good, Typed
    <3>2. CASE Held(fds[i])
      BY <3>1, <3>2 DEF Good, Faithful, Held, Entries
    <3>3. CASE ~Held(fds[i])
      BY <3>1, <3>3 DEF Good, Faithful, Held, Entries
    <3> QED BY <3>2, <3>3
  <2> QED BY <1>3, <2>1 DEF FreshIds
<1>5. FreshIds \subseteq Ids
  BY DEF FreshIds
<1> HIDE DEF K, N
<1>6. IsFiniteSet(Ids \ K) /\ Cardinality(Ids \ K) \in Nat
  BY <1>3, FS_Subset, FS_CardinalityType
<1>7. N + MaxFds + 2 <= Cardinality(Ids \ K) + N
  <2>1. /\ IsFiniteSet((Ids \ K) \cup K)
        /\ Cardinality((Ids \ K) \cup K)
             = Cardinality(Ids \ K) + Cardinality(K) - Cardinality((Ids \ K) \cap K)
    BY <1>2, <1>6, FS_Union, Zenon
  <2>2. Cardinality((Ids \ K) \cap K) = 0
    <3>1. (Ids \ K) \cap K = {}
      OBVIOUS
    <3> QED BY <3>1, FS_EmptySet
  <2>3. Cardinality((Ids \ K) \cup K) = Cardinality(Ids \ K) + Cardinality(K)
    BY <1>2, <1>6, <2>1, <2>2
  <2>4. Cardinality(Ids) <= Cardinality((Ids \ K) \cup K)
    <3>1. Ids \subseteq (Ids \ K) \cup K
      OBVIOUS
    <3> QED BY <2>1, <3>1, FS_Subset
  <2> QED BY <1>1, <1>2, <1>3, <1>6, <2>3, <2>4
<1>8. IsFiniteSet(FreshIds) /\ Cardinality(FreshIds) \in Nat
      /\ Cardinality(Ids \ K) <= Cardinality(FreshIds)
  <2>1. IsFiniteSet(FreshIds)
    BY <1>3, <1>5, FS_Subset, Zenon
  <2> QED BY <1>4, <2>1, FS_Subset, FS_CardinalityType
<1>9. ~(Cardinality(FreshIds) < 2)
  BY <1>1, <1>6, <1>7, <1>8
<1>10. FreshIds \in SUBSET (Nat \ {0}) /\ FreshIds \in SUBSET Nat
  BY <1>3, <1>5
<1> QED BY <1>8, <1>9, <1>10, TwoLeast

----------------------------------------------------------------------------
(* What the changes of the table do to the invariant. *)

\* state_add_fd() puts the new entry first and moves the others.
LEMMA NewFirst ==
    ASSUME NEW S, NEW f \in Seq(S), NEW e \in S
    PROVE  /\ <<e>> \o f \in Seq(S)
           /\ DOMAIN (<<e>> \o f) = 1..(Len(f) + 1)
           /\ (<<e>> \o f)[1] = e
           /\ \A i \in DOMAIN f : /\ i + 1 \in DOMAIN (<<e>> \o f)
                                  /\ (<<e>> \o f)[i + 1] = f[i]
           /\ \A i \in DOMAIN (<<e>> \o f) :
                  i = 1 \/ (i - 1 \in DOMAIN f /\ (<<e>> \o f)[i] = f[i - 1])
OBVIOUS

\* A new entry for the descriptor l, which was in nobody's hands but this
\* call's.
LEMMA AddEntry ==
    ASSUME NEW f, NEW k, NEW X, NEW l \in LiveFds, NEW e \in Entries,
           Good(f, k, X \cup {l}), l \notin X,
           e.live = l, ~e.closed, e.obj = k[l].id
    PROVE  /\ Good(<<e>> \o f, k, X)
           /\ (k[l].type = "socket" => e.type = "socket")
                 /\ Owned(f, k, X \cup {l}) => Owned(<<e>> \o f, k, X)
<1> DEFINE g == <<e>> \o f
<1>1. f \in Seq(Entries) /\ l # -1
  BY SystemCallsAssumption DEF Good, Typed
<1>2. /\ g \in Seq(Entries) /\ DOMAIN g = 1..(Len(f) + 1) /\ g[1] = e
      /\ \A i \in DOMAIN f : i + 1 \in DOMAIN g /\ g[i + 1] = f[i]
      /\ \A i \in DOMAIN g : i = 1 \/ (i - 1 \in DOMAIN f /\ g[i] = f[i - 1])
  BY <1>1, NewFirst
<1> HIDE DEF g
<1>3. Typed(g, k) /\ Distinct(k) /\ X \subseteq LiveFds
      /\ \A x \in X : k[x] # Nothing
  BY <1>2 DEF Good, Typed
<1>4. Faithful(g, k, X)
  <2>1. ASSUME NEW i \in DOMAIN g, Held(g[i])
        PROVE  /\ k[g[i].live] # Nothing /\ k[g[i].live].id = g[i].obj
               /\ g[i].live \notin X
    BY <1>2, <2>1 DEF Good, Faithful
  <2>2. ASSUME NEW i \in DOMAIN g, NEW j \in DOMAIN g,
               Held(g[i]), Held(g[j]), g[i].live = g[j].live
        PROVE  i = j
    <3>1. CASE i = 1 /\ j # 1
      BY <1>2, <2>2, <3>1 DEF Good, Faithful
    <3>2. CASE i # 1 /\ j = 1
      BY <1>2, <2>2, <3>2 DEF Good, Faithful
    <3>3. CASE i # 1 /\ j # 1
      <4>1. i - 1 = j - 1
        BY <1>2, <2>2, <3>3 DEF Good, Faithful
      <4> QED BY <1>2, <4>1
    <3> QED BY <3>1, <3>2, <3>3
  <2>3. ASSUME NEW i \in DOMAIN g
        PROVE  /\ g[i].live = -1 =>
                    g[i].script = -1 /\ ~g[i].closed /\ g[i].obj = 0
               /\ g[i].closed => g[i].obj = 0
    <3>1. CASE i = 1
      BY <1>1, <1>2, <3>1
    <3>2. CASE i # 1
      <4>1. i - 1 \in DOMAIN f /\ g[i] = f[i - 1]
        BY <1>2, <3>2
      <4> QED BY <4>1 DEF Good, Faithful
    <3> QED BY <3>1, <3>2
  <2> QED BY <2>1, <2>2, <2>3 DEF Faithful
<1>5. ASSUME k[l].type = "socket" => e.type = "socket", Owned(f, k, X \cup {l})
      PROVE  Owned(g, k, X)
  <2>1. ASSUME NEW m \in LiveFds, k[m].type = "socket", m \notin X
        PROVE  \E i \in DOMAIN g :
                  Held(g[i]) /\ g[i].live = m /\ g[i].type = "socket"
    <3>1. CASE m = l
      <4>1. 1 \in DOMAIN g
        BY <1>1, <1>2
      <4> QED BY <1>1, <1>2, <1>5, <2>1, <3>1, <4>1 DEF Held
    <3>2. CASE m # l
      <4>1. PICK i \in DOMAIN f :
                Held(f[i]) /\ f[i].live = m /\ f[i].type = "socket"
        BY <1>5, <2>1, <3>2 DEF Owned
      <4> QED BY <1>2, <4>1
    <3> QED BY <3>1, <3>2
  <2> QED BY <2>1 DEF Owned
<1>6. Good(g, k, X)
  BY <1>3, <1>4 DEF Good
<1> QED BY <1>5, <1>6 DEF g

\* A child: an entry that has no descriptor yet.
LEMMA AddChild ==
    ASSUME NEW f, NEW k, NEW X, NEW e \in Entries, Good(f, k, X),
           e.live = -1, e.script = -1, ~e.closed, e.obj = 0
    PROVE  /\ Good(<<e>> \o f, k, X)
           /\ Owned(f, k, X) => Owned(<<e>> \o f, k, X)
<1> DEFINE g == <<e>> \o f
<1>1. f \in Seq(Entries)
  BY DEF Good, Typed
<1>2. /\ g \in Seq(Entries) /\ g[1] = e
      /\ \A i \in DOMAIN f : i + 1 \in DOMAIN g /\ g[i + 1] = f[i]
      /\ \A i \in DOMAIN g : i \in Int
                 /\ (i = 1 \/ (i - 1 \in DOMAIN f /\ g[i] = f[i - 1]))
  BY <1>1, NewFirst
<1> HIDE DEF g
<1>3. ~Held(e)
  BY DEF Held
<1>4. Faithful(g, k, X)
  <2>1. ASSUME NEW i \in DOMAIN g, NEW j \in DOMAIN g,
               Held(g[i]), Held(g[j]), g[i].live = g[j].live
        PROVE  i = j
    <3>1. i - 1 = j - 1
      BY <1>2, <1>3, <2>1 DEF Good, Faithful
    <3> QED BY <1>2, <3>1
  <2>2. ASSUME NEW i \in DOMAIN g, Held(g[i])
        PROVE  /\ k[g[i].live] # Nothing /\ k[g[i].live].id = g[i].obj
               /\ g[i].live \notin X
    BY <1>2, <1>3, <2>2 DEF Good, Faithful
  <2>3. ASSUME NEW i \in DOMAIN g
        PROVE  /\ g[i].live = -1 =>
                    g[i].script = -1 /\ ~g[i].closed /\ g[i].obj = 0
               /\ g[i].closed => g[i].obj = 0
    <3>1. CASE i = 1
      BY <1>2, <3>1
    <3>2. CASE i # 1
      <4>1. i - 1 \in DOMAIN f /\ g[i] = f[i - 1]
        BY <1>2, <3>2
      <4> QED BY <4>1 DEF Good, Faithful
    <3> QED BY <3>1, <3>2
  <2> QED BY <2>1, <2>2, <2>3 DEF Faithful
<1>5. Good(g, k, X)
  BY <1>2, <1>4 DEF Good, Typed
<1>6. Owned(f, k, X) => Owned(g, k, X)
  BY <1>2 DEF Owned
<1> QED BY <1>5, <1>6 DEF g

\* Replacing one entry leaves the others.
LEMMA PutEntry ==
    ASSUME NEW S, NEW f \in Seq(S), NEW i \in DOMAIN f, NEW e \in S
    PROVE  /\ [f EXCEPT ![i] = e] \in Seq(S)
           /\ DOMAIN [f EXCEPT ![i] = e] = DOMAIN f
           /\ [f EXCEPT ![i] = e][i] = e
           /\ \A j \in DOMAIN f : j # i => [f EXCEPT ![i] = e][j] = f[j]
OBVIOUS

\* The kernel without the object behind l.
Without(k, l) == [x \in LiveFds |-> IF x = l THEN Nothing ELSE k[x]]

\* run_syscall_close(): the entry no longer stands for an object, and the
\* descriptor is free.
LEMMA CloseEntry ==
    ASSUME NEW f, NEW k, NEW X, Good(f, k, X), NEW i \in DOMAIN f, Held(f[i]),
           NEW e \in Entries, e.closed, e.obj = 0, e.live # -1,
           NEW g, g = [f EXCEPT ![i] = e]
    PROVE  /\ Good(g, Without(k, f[i].live), X)
           /\ Owned(f, k, X) => Owned(g, Without(k, f[i].live), X)
<1> DEFINE m == Without(k, f[i].live)
<1>1. /\ f \in Seq(Entries) /\ k \in [LiveFds -> Objects]
      /\ f[i] \in Entries /\ f[i].live \in LiveFds
  <2>1. f \in Seq(Entries) /\ k \in [LiveFds -> Objects]
    BY DEF Good, Typed
  <2>2. f[i] \in Entries
    BY <2>1
  <2> QED BY <2>1, <2>2 DEF Held, Entries
<1>2. Nothing \in Objects
  BY DEF Nothing, Objects
<1>3. /\ DOMAIN g = DOMAIN f /\ g \in Seq(Entries) /\ g[i] = e
      /\ \A j \in DOMAIN f : j # i => g[j] = f[j]
  BY <1>1, PutEntry
<1>4. g[i].closed /\ g[i].obj = 0 /\ g[i].live # -1
  BY <1>3
<1>5. ~Held(g[i])
  BY <1>4 DEF Held
<1>6. \A l \in LiveFds : l # f[i].live => m[l] = k[l]
  BY DEF Without
<1>7. Typed(g, m)
  BY <1>1, <1>2, <1>3 DEF Typed, Without
<1>8. \A j \in DOMAIN g : Held(g[j]) =>
          /\ j # i /\ g[j] = f[j] /\ g[j].live \in LiveFds
          /\ g[j].live # f[i].live /\ m[g[j].live] = k[g[j].live]
  <2>1. ASSUME NEW j \in DOMAIN g, Held(g[j])
        PROVE  /\ j # i /\ g[j] = f[j] /\ g[j].live \in LiveFds
               /\ g[j].live # f[i].live
    <3>1. j # i /\ j \in DOMAIN f /\ g[j] = f[j]
      BY <1>3, <1>5, <2>1
    <3>2. f[j] \in Entries
      BY <1>1, <3>1
    <3>3. g[j].live \in LiveFds
      BY <2>1, <3>1, <3>2 DEF Held, Entries
    <3>4. g[j].live # f[i].live
      BY <2>1, <3>1 DEF Good, Faithful
    <3> QED BY <3>1, <3>3, <3>4
  <2> QED BY <1>6, <2>1
<1>9. Faithful(g, m, X)
  <2>1. \A j \in DOMAIN g : Held(g[j]) =>
            /\ m[g[j].live] # Nothing /\ m[g[j].live].id = g[j].obj
            /\ g[j].live \notin X
    BY <1>3, <1>8 DEF Good, Faithful
  <2>2. \A h, j \in DOMAIN g :
            Held(g[h]) /\ Held(g[j]) /\ g[h].live = g[j].live => h = j
    BY <1>3, <1>8 DEF Good, Faithful
  <2>3. \A j \in DOMAIN g :
            /\ g[j].live = -1 => g[j].script = -1 /\ ~g[j].closed /\ g[j].obj = 0
            /\ g[j].closed => g[j].obj = 0
    BY <1>3, <1>4 DEF Good, Faithful
  <2> QED BY <2>1, <2>2, <2>3 DEF Faithful
<1>10. Distinct(m)
  BY <1>1, <1>2, <1>6 DEF Good, Distinct, Nothing, Without
<1>11. X \subseteq LiveFds /\ \A x \in X : m[x] # Nothing
  BY <1>6 DEF Good, Faithful
<1>12. Good(g, m, X)
  BY <1>7, <1>9, <1>10, <1>11 DEF Good
<1>13. ASSUME Owned(f, k, X) PROVE Owned(g, m, X)
  <2>1. ASSUME NEW l \in LiveFds, m[l].type = "socket", l \notin X
        PROVE  \E j \in DOMAIN g :
                  Held(g[j]) /\ g[j].live = l /\ g[j].type = "socket"
    <3>1. l # f[i].live /\ k[l].type = "socket"
      BY <2>1 DEF Nothing, Without
    <3>2. PICK j \in DOMAIN f :
              Held(f[j]) /\ f[j].live = l /\ f[j].type = "socket"
      BY <1>13, <2>1, <3>1 DEF Owned
    <3> QED BY <1>3, <3>1, <3>2
  <2> QED BY <2>1 DEF Owned
<1> QED BY <1>12, <1>13

\* run_syscall_accept(): the child becomes the socket that was accepted.
LEMMA AcceptEntry ==
    ASSUME NEW f, NEW k, NEW X, NEW l \in LiveFds, Good(f, k, X \cup {l}),
           l \notin X, NEW i \in DOMAIN f, f[i].live = -1, f[i].type = "socket",
           NEW e \in Entries, e.live = l, e.obj = k[l].id, ~e.closed,
           e.type = "socket", NEW g, g = [f EXCEPT ![i] = e]
    PROVE  /\ Good(g, k, X)
           /\ Owned(f, k, X \cup {l}) => Owned(g, k, X)
<1>1. f \in Seq(Entries) /\ k \in [LiveFds -> Objects]
  BY DEF Good, Typed
<1>2. l # -1 /\ k[l] # Nothing /\ l \in X \cup {l}
  BY SystemCallsAssumption DEF Good
<1>3. /\ DOMAIN g = DOMAIN f /\ g \in Seq(Entries) /\ g[i] = e
      /\ \A j \in DOMAIN f : j # i => g[j] = f[j]
  BY <1>1, PutEntry
<1>4. /\ g[i].live = l /\ g[i].obj = k[l].id /\ ~g[i].closed
      /\ g[i].type = "socket"
  BY <1>3
<1>5. Held(g[i])
  BY <1>2, <1>4 DEF Held
<1>6. \A j \in DOMAIN f : j # i /\ Held(g[j]) =>
          /\ g[j] = f[j] /\ g[j].live \notin X /\ g[j].live # l
          /\ k[g[j].live] # Nothing /\ k[g[j].live].id = g[j].obj
  BY <1>2, <1>3 DEF Good, Faithful
<1>7. Faithful(g, k, X)
  <2>1. \A j \in DOMAIN g : Held(g[j]) =>
            /\ k[g[j].live] # Nothing /\ k[g[j].live].id = g[j].obj
            /\ g[j].live \notin X
    BY <1>2, <1>3, <1>4, <1>6
  <2>2. \A h, j \in DOMAIN g :
            Held(g[h]) /\ Held(g[j]) /\ g[h].live = g[j].live => h = j
    <3>1. SUFFICES ASSUME NEW h \in DOMAIN g, NEW j \in DOMAIN g,
                          Held(g[h]), Held(g[j]), g[h].live = g[j].live, h # j
                   PROVE  FALSE
      OBVIOUS
    <3>2. h # i /\ j # i
      BY <1>3, <1>4, <1>6, <3>1
    <3> QED BY <1>3, <3>1, <3>2 DEF Good, Faithful
  <2>3. \A j \in DOMAIN g :
            /\ g[j].live = -1 => g[j].script = -1 /\ ~g[j].closed /\ g[j].obj = 0
            /\ g[j].closed => g[j].obj = 0
    BY <1>2, <1>3, <1>4 DEF Good, Faithful
  <2> QED BY <2>1, <2>2, <2>3 DEF Faithful
<1>8. Good(g, k, X)
  BY <1>1, <1>3, <1>7 DEF Good, Typed
<1>9. ASSUME Owned(f, k, X \cup {l}) PROVE Owned(g, k, X)
  <2>1. ASSUME NEW m \in LiveFds, k[m].type = "socket", m \notin X
        PROVE  \E j \in DOMAIN g :
                  Held(g[j]) /\ g[j].live = m /\ g[j].type = "socket"
    <3>1. CASE m = l
      BY <1>3, <1>4, <1>5, <3>1
    <3>2. CASE m # l
      <4>1. PICK j \in DOMAIN f :
                Held(f[j]) /\ f[j].live = m /\ f[j].type = "socket"
        BY <1>9, <2>1, <3>2 DEF Owned
      <4>2. j # i
        BY <4>1 DEF Held
      <4> QED BY <1>3, <4>1, <4>2
    <3> QED BY <3>1, <3>2
  <2> QED BY <2>1 DEF Owned
<1> QED BY <1>8, <1>9

\* The table b is the table a but for states of sockets; an entry that has no
\* descriptor keeps its state, and none becomes a child.
Restated(a, b) ==
    /\ b \in Seq(Entries) /\ DOMAIN b = DOMAIN a
    /\ \A i \in DOMAIN a :
          /\ b[i].type = a[i].type /\ b[i].script = a[i].script
          /\ b[i].live = a[i].live /\ b[i].closed = a[i].closed
          /\ b[i].obj = a[i].obj
          /\ b[i].st = a[i].st \/ (b[i].st # "synack" /\ a[i].script # -1)

\* A change of states alone keeps Good and Owned.
LEMMA RestateEntries ==
    ASSUME NEW f, NEW g, NEW k, NEW X, Good(f, k, X), Restated(f, g)
    PROVE  Good(g, k, X) /\ (Owned(f, k, X) => Owned(g, k, X))
<1>1. \A i \in DOMAIN g : /\ Held(g[i]) <=> Held(f[i])
                          /\ i \in DOMAIN f
                          /\ g[i].live = f[i].live /\ g[i].obj = f[i].obj
                          /\ g[i].closed = f[i].closed
                          /\ g[i].script = f[i].script
                          /\ g[i].type = f[i].type
  BY DEF Restated, Held
<1>2. Faithful(g, k, X)
  BY <1>1 DEF Good, Faithful
<1>3. Good(g, k, X)
  BY <1>2 DEF Good, Typed, Restated
<1>4. Owned(f, k, X) => Owned(g, k, X)
  <2>1. DOMAIN g = DOMAIN f
    BY DEF Restated
  <2> QED BY <1>1, <2>1 DEF Owned
<1> QED BY <1>3, <1>4

\* Setting the state of one named entry is such a change.
LEMMA SetState ==
    ASSUME NEW f \in Seq(Entries), NEW i \in DOMAIN f, f[i].script # -1,
           NEW v \in {"new", "listening", "synack", "init", "connecting"},
           v # "synack" \/ v = f[i].st
    PROVE  Restated(f, [f EXCEPT ![i].st = v])
<1> DEFINE e == [f[i] EXCEPT !.st = v]
           g == [f EXCEPT ![i] = e]
<1>1. f[i] \in Entries
  OBVIOUS
<1>2. /\ e \in Entries /\ e.st = v
      /\ e.type = f[i].type /\ e.script = f[i].script /\ e.live = f[i].live
      /\ e.closed = f[i].closed /\ e.obj = f[i].obj
  BY <1>1 DEF Entries
<1> HIDE DEF e
<1>3. /\ g \in Seq(Entries) /\ DOMAIN g = DOMAIN f /\ g[i] = e
      /\ \A j \in DOMAIN f : j # i => g[j] = f[j]
  BY <1>2, PutEntry
<1> HIDE DEF g
<1>4. Restated(f, g)
  BY <1>2, <1>3 DEF Restated
<1> QED BY <1>4 DEF g, e

\* Only calls that name a socket first prepare a connection.
LEMMA ConnectsNames ==
    ASSUME NEW c, system_call_table(c, Silent).connects
    PROVE  1 \in Uses(c)
<1>1. c.name \notin {"socket", "open", "epoll_create", "pipe", "poll", "cap_set"}
  BY Zenon DEF system_call_table, Handler, syscall_socket, syscall_open,
         syscall_epoll_create, syscall_pipe, syscall_poll, syscall_cap_set
<1> QED BY <1>1 DEF Uses

\* What run_syscall_connect() does before the live call.
LEMMA PrepareRestates ==
    ASSUME NEW c \in Calls, Orderly(Calls), fds \in Seq(Entries),
           system_call_table(c, Silent).connects => fd_to_socket(Socket(c))
    PROVE  Restated(fds, Prepared(c))
<1> DEFINE h == system_call_table(c, Silent)
<1>1. CASE h.connects
  <2>1. Socket(c) # 0
    BY <1>1 DEF fd_to_socket
  <2>2. Socket(c) \in DOMAIN fds /\ fds[Socket(c)].script = s32(c.args[1].num)
    BY <2>1, FindFinds DEF Socket
  <2>3. s32(c.args[1].num) # -1
    BY <1>1, ConnectsNames DEF Orderly
  <2> DEFINE v == IF h.family = 0 THEN "new"
                  ELSE IF fds[Socket(c)].st = "new" THEN "connecting"
                  ELSE fds[Socket(c)].st
  <2>4. /\ v \in {"new", "listening", "synack", "init", "connecting"}
        /\ v # "synack" \/ v = fds[Socket(c)].st
    <3>1. fds[Socket(c)] \in Entries
      BY <2>2
    <3> HIDE DEF h
    <3> QED BY <3>1 DEF Entries
  <2>5. Prepared(c) = [fds EXCEPT ![Socket(c)].st = v]
    <3> HIDE DEF h
    <3>1. Prepared(c) = run_syscall_connect(Socket(c), h.family)
      BY <1>1 DEF Prepared, h
    <3> QED BY <3>1 DEF run_syscall_connect
  <2>6. fds[Socket(c)].script # -1
    BY <2>2, <2>3
  <2> HIDE DEF h, v
  <2>7. Restated(fds, [fds EXCEPT ![Socket(c)].st = v])
    BY <2>2, <2>4, <2>6, SetState, Zenon
  <2> QED BY <2>5, <2>7
<1>2. CASE ~h.connects
  <2>1. Prepared(c) = fds
    BY <1>2 DEF Prepared
  <2> QED BY <2>1 DEF Restated
<1> QED BY <1>1, <1>2

----------------------------------------------------------------------------
(* What a call does to the kernel. *)

\* The outcomes of a call that makes descriptors.
LEMMA OutcomeMakes ==
    ASSUME NEW c, NEW bad, NEW o \in Outcomes(c, bad), kernel \in [LiveFds -> Objects]
    PROVE  /\ MadeBy(c, o, Made(c, o)) /\ Elements(Made(c, o)) \subseteq Free
           /\ c.name = "accept" /\ o.r >= 0 => pending
           /\ c.name = "close" => o.r \in {0, -1} /\ Made(c, o) = <<>>
<1>1. o.r \in Int /\ (o.r < 0 => o.r = -1)
  <2>1. \A l \in LiveFds : l \in Nat
    BY SystemCallsAssumption
  <2>2. Free # {} => Min(Free) \in Nat
    BY <2>1, LeastFree
  <2> QED BY <2>2 DEF Outcomes, Fails, Outcome, Silent
<1>2. CASE o.r < 0 \/ c.name \notin Makers \cup {"pipe"}
  <2>1. Made(c, o) = <<>>
    BY <1>2 DEF Made
  <2>2. c.name = "accept" => c.name \in Makers
    BY DEF Makers
  <2>3. c.name = "close" => o.r \in {0, -1}
    BY DEF Outcomes, Fails, Outcome, Silent, Makers
  <2> QED BY <1>1, <1>2, <2>1, <2>2, <2>3 DEF MadeBy, Elements
<1>3. CASE ~(o.r < 0) /\ c.name \in Makers
  <2>1. o.r = Min(Free) /\ Free # {} /\ (c.name = "accept" => pending)
    BY <1>3 DEF Outcomes, Fails, Outcome, Silent
  <2>2. Made(c, o) = <<o.r>> /\ c.name # "pipe" /\ c.name # "close"
    BY <1>3 DEF Made, Makers
  <2>3. o.r \in Free /\ o.r \in LiveFds
    BY <2>1, LeastFree
  <2>4. MadeBy(c, o, Made(c, o))
    BY <1>1, <1>3, <2>2, <2>3 DEF MadeBy
  <2> QED BY <1>1, <2>1, <2>2, <2>3, <2>4 DEF Elements
<1>4. CASE ~(o.r < 0) /\ c.name = "pipe"
  <2> DEFINE a == Min(Free)
             b == Min(Free \ {Min(Free)})
  <2>1. ~(Cardinality(Free) < 2)
    BY <1>4 DEF Outcomes, Fails, Outcome, Makers
  <2>2. a \in Free /\ b \in Free /\ a # b
    <3>1. Free \in SUBSET Nat /\ IsFiniteSet(Free)
      BY SystemCallsAssumption, FS_Subset, Zenon DEF Free
    <3> QED BY <2>1, <3>1, TwoLeast
  <2>3. Made(c, o) = <<a, b>>
    BY <1>4 DEF Made, Makers
  <2>4. a \in LiveFds /\ b \in LiveFds
    BY <2>2 DEF Free
  <2> HIDE DEF a, b
  <2>5. MadeBy(c, o, Made(c, o))
    BY <1>1, <1>4, <2>2, <2>3, <2>4 DEF MadeBy
  <2>6. Elements(Made(c, o)) \subseteq Free
    BY <2>2, <2>3 DEF Elements
  <2> QED BY <1>4, <2>5, <2>6
<1> QED BY <1>1, <1>2, <1>3, <1>4

\* The descriptors that a call makes were free, and get new objects of the
\* type the call is about; nothing else changes in the kernel.
LEMMA MakeObjects ==
    ASSUME NEW X, Good(fds, kernel, X), NEW c, NEW o, NEW live,
           c.name # "close", MadeBy(c, o, Made(c, o)),
           Elements(Made(c, o)) \subseteq Free
    PROVE  /\ Good(fds, AfterCall(c, o, live), X \cup Elements(Made(c, o)))
           /\ Elements(Made(c, o)) \cap X = {}
           /\ Makings(c, AfterCall(c, o, live), Made(c, o))
           /\ Owned(fds, kernel, X) =>
                Owned(fds, AfterCall(c, o, live), X \cup Elements(Made(c, o)))
<1> DEFINE made == Made(c, o)
           M == Elements(made)
           k == AfterCall(c, o, live)
           a == Min(FreshIds)
           b == Min(FreshIds \ {a})
           ids == <<a, b>>
           T == TypeMade[c.name]
           Types == {"socket", "file", "epoll", "pipe"}
<1>1. /\ fds \in Seq(Entries) /\ kernel \in [LiveFds -> Objects]
      /\ X \subseteq LiveFds /\ Distinct(kernel) /\ Faithful(fds, kernel, X)
      /\ \A x \in X : kernel[x] # Nothing
  BY DEF Good, Typed
<1>2. /\ a \in FreshIds /\ b \in FreshIds /\ a # b
      /\ FreshIds \in SUBSET (Nat \ {0})
  BY Fresh
<1>3. \A l \in LiveFds : kernel[l].id \notin FreshIds
  BY DEF FreshIds
<1>4. /\ made # <<>> => T \in Types
      /\ DOMAIN made \subseteq {1, 2} /\ M \subseteq LiveFds
      /\ \A l \in M : kernel[l] = Nothing
  <2>1. CASE o.r < 0 \/ c.name \notin Makers \cup {"pipe"}
    BY <2>1 DEF MadeBy, Elements
  <2>2. CASE ~(o.r < 0) /\ c.name = "pipe"
    <3>1. PICK x \in LiveFds, y \in LiveFds : made = <<x, y>>
      BY <2>2 DEF MadeBy
    <3>2. T \in Types
      BY <2>2 DEF TypeMade
    <3> QED BY <3>1, <3>2 DEF Elements, Free
  <2>3. CASE ~(o.r < 0) /\ c.name \in Makers
    <3>1. o.r \in LiveFds /\ made = <<o.r>>
      BY <2>3 DEF MadeBy, Makers
    <3>2. T \in Types
      BY <2>3 DEF TypeMade, Makers
    <3> QED BY <3>1, <3>2 DEF Elements, Free
  <2> QED BY <2>1, <2>2, <2>3
<1>5. ASSUME NEW l \in M
      PROVE  \E i \in DOMAIN made : /\ made[i] = l /\ made # <<>>
                                    /\ k[l] = [type |-> T, id |-> ids[i]]
  <2> DEFINE i == CHOOSE x \in DOMAIN made : made[x] = l
  <2>1. \E x \in DOMAIN made : made[x] = l
    BY DEF Elements
  <2>2. i \in DOMAIN made /\ made[i] = l
    BY <2>1
  <2>3. k[l] = [type |-> T, id |-> ids[i]]
    BY <1>4, <2>1 DEF AfterCall
  <2>4. made # <<>>
    BY <2>1
  <2> HIDE DEF i, made, ids, T, k
  <2> QED BY <2>2, <2>3, <2>4
<1>6. \A l \in LiveFds \ M : k[l] = kernel[l]
  BY DEF AfterCall, Elements
<1>7. DOMAIN k = LiveFds /\ k = [l \in LiveFds |-> k[l]]
  BY DEF AfterCall
<1>8. ids[1] = a /\ ids[2] = b
  OBVIOUS
<1> HIDE DEF made, M, k, a, b, ids, T, Types
<1>9. \A l \in M : /\ k[l] \in Objects /\ k[l] # Nothing /\ k[l].type = T
                   /\ k[l].id \in FreshIds /\ k[l].id # 0
  <2>1. SUFFICES ASSUME NEW l \in M
                 PROVE  /\ k[l] \in Objects /\ k[l] # Nothing /\ k[l].type = T
                        /\ k[l].id \in FreshIds /\ k[l].id # 0
    OBVIOUS
  <2>2. PICK i \in DOMAIN made : /\ made # <<>>
                                 /\ k[l] = [type |-> T, id |-> ids[i]]
    BY <1>5
  <2>3. ids[i] \in FreshIds /\ ids[i] \in Nat \ {0}
    BY <1>2, <1>4, <1>8, <2>2
  <2>4. k[l].type = T /\ k[l].id = ids[i] /\ T \in Types
    BY <1>4, <2>2
  <2>5. k[l] # Nothing
    BY <2>3, <2>4 DEF Nothing
  <2>6. k[l] \in Objects
    BY <2>2, <2>3, <2>4 DEF Objects, Types
  <2> QED BY <2>3, <2>4, <2>5, <2>6
<1>10. \A l, m \in M : k[l].id = k[m].id => l = m
  <2>1. SUFFICES ASSUME NEW l \in M, NEW m \in M, k[l].id = k[m].id
                 PROVE  l = m
    OBVIOUS
  <2>2. PICK i \in DOMAIN made :
            made[i] = l /\ k[l] = [type |-> T, id |-> ids[i]]
    BY <1>5
  <2>3. PICK j \in DOMAIN made :
            made[j] = m /\ k[m] = [type |-> T, id |-> ids[j]]
    BY <1>5
  <2>4. ids[i] = ids[j]
    BY <2>1, <2>2, <2>3
  <2>5. i = j
    BY <1>2, <1>4, <1>8, <2>4
  <2> QED BY <2>2, <2>3, <2>5
<1>11. k \in [LiveFds -> Objects]
  BY <1>1, <1>6, <1>7, <1>9, Zenon
<1>12. Distinct(k)
  <2>1. ASSUME NEW l \in LiveFds, k[l] # Nothing PROVE k[l].id # 0
    BY <1>1, <1>6, <1>9, <2>1 DEF Distinct
  <2>2. ASSUME NEW l \in LiveFds, NEW m \in LiveFds, k[l] # Nothing,
               k[l].id = k[m].id
        PROVE  l = m
    <3>1. CASE l \in M /\ m \in M
      BY <1>10, <2>2, <3>1
    <3>2. CASE l \in M /\ m \notin M
      BY <1>3, <1>6, <1>9, <2>2, <3>2
    <3>3. CASE l \notin M /\ m \in M
      BY <1>3, <1>6, <1>9, <2>2, <3>3
    <3>4. CASE l \notin M /\ m \notin M
      BY <1>1, <1>6, <2>2, <3>4 DEF Distinct
    <3> QED BY <3>1, <3>2, <3>3, <3>4
  <2> QED BY <2>1, <2>2 DEF Distinct
<1>13. \A i \in DOMAIN fds : Held(fds[i]) =>
           /\ fds[i].live \in LiveFds \ M /\ k[fds[i].live] = kernel[fds[i].live]
  <2>1. SUFFICES ASSUME NEW i \in DOMAIN fds, Held(fds[i])
                 PROVE  fds[i].live \in LiveFds \ M
    BY <1>6
  <2>2. fds[i] \in Entries
    BY <1>1
  <2>3. fds[i].live \in LiveFds
    BY <2>1, <2>2 DEF Entries, Held
  <2>4. kernel[fds[i].live] # Nothing
    BY <1>1, <2>1 DEF Faithful
  <2> QED BY <1>4, <2>3, <2>4
<1>14. Faithful(fds, k, X \cup M)
  <2>1. \A i \in DOMAIN fds : Held(fds[i]) =>
            /\ k[fds[i].live] # Nothing /\ k[fds[i].live].id = fds[i].obj
            /\ fds[i].live \notin X \cup M
    BY <1>1, <1>13 DEF Faithful
  <2> QED BY <1>1, <2>1 DEF Faithful
<1>15. M \cap X = {}
  BY <1>1, <1>4
<1>16. /\ X \cup M \subseteq LiveFds
       /\ \A x \in X \cup M : k[x] # Nothing
  <2>1. ASSUME NEW x \in X PROVE k[x] # Nothing
    BY <1>1, <1>6, <1>15
  <2> QED BY <1>1, <1>4, <1>9, <2>1
<1>17. Good(fds, k, X \cup M)
  BY <1>1, <1>11, <1>12, <1>14, <1>16 DEF Good, Typed
<1>18. Makings(c, k, made)
  BY <1>9 DEF Makings, M, T
<1>19. Owned(fds, kernel, X) => Owned(fds, k, X \cup M)
  BY <1>6 DEF Owned
<1> QED BY <1>15, <1>17, <1>18, <1>19 DEF k, M, made

----------------------------------------------------------------------------
(* What follows the live call. *)

\* Good for more descriptors in hand is Good for fewer.
LEMMA Forget ==
    ASSUME NEW f, NEW k, NEW Y, NEW X \in SUBSET Y, Good(f, k, Y)
    PROVE  Good(f, k, X)
<1>1. Faithful(f, k, X)
  BY DEF Good, Faithful
<1> QED BY <1>1 DEF Good

\* The children of the table f are children of the table g.
KeepsChildren(f, g) ==
    /\ NoChild(f) => NoChild(g)
    /\ Unused(f) => Unused(g)
    /\ Unused(f) /\ HasChild(f) => HasChild(g)

\* A change of states keeps the children.
LEMMA RestateKeeps ==
    ASSUME NEW f, NEW g, NEW k, NEW X, Good(f, k, X), Restated(f, g)
    PROVE  KeepsChildren(f, g)
<1>1. NoChild(f) => NoChild(g)
  BY DEF NoChild, Restated
<1>2. Unused(f) => Unused(g)
  BY DEF Unused, Restated
<1>3. Unused(f) /\ HasChild(f) => HasChild(g)
  <2>1. SUFFICES ASSUME Unused(f), NEW i \in DOMAIN f, f[i].type = "socket",
                        f[i].st = "synack"
                 PROVE  HasChild(g)
    BY DEF HasChild
  <2>2. f[i].script = -1
    BY <2>1 DEF Good, Faithful, Unused
  <2> QED BY <2>1, <2>2 DEF Restated, HasChild
<1> QED BY <1>1, <1>2, <1>3 DEF KeepsChildren

\* A new entry that is not a child keeps them.
LEMMA AddKeeps ==
    ASSUME NEW f \in Seq(Entries), NEW e \in Entries, e.st # "synack"
    PROVE  KeepsChildren(f, <<e>> \o f)
<1> DEFINE g == <<e>> \o f
<1>1. /\ g[1] = e
      /\ \A i \in DOMAIN f : i + 1 \in DOMAIN g /\ g[i + 1] = f[i]
      /\ \A i \in DOMAIN g : i = 1 \/ (i - 1 \in DOMAIN f /\ g[i] = f[i - 1])
  BY NewFirst
<1> HIDE DEF g
<1>2. NoChild(f) => NoChild(g)
  BY <1>1 DEF NoChild
<1>3. Unused(f) => Unused(g)
  BY <1>1 DEF Unused
<1>4. HasChild(f) => HasChild(g)
  BY <1>1 DEF HasChild
<1> QED BY <1>2, <1>3, <1>4 DEF KeepsChildren, g

\* What Entry fills in for a live descriptor.
LEMMA EntryFields ==
    ASSUME NEW type \in {"socket", "file", "epoll", "pipe"}, NEW n \in Scripts,
           NEW l \in LiveFds, NEW k \in [LiveFds -> Objects]
    PROVE  /\ Entry(type, n, l, k) \in Entries
           /\ Entry(type, n, l, k).type = type
           /\ Entry(type, n, l, k).live = l
           /\ ~Entry(type, n, l, k).closed
           /\ Entry(type, n, l, k).obj = k[l].id
           /\ Entry(type, n, l, k).st = "new"
<1>1. l \in Nat /\ k[l] \in Objects
  BY SystemCallsAssumption
<1>2. ~(l < 0) /\ k[l].id \in Nat
  BY <1>1 DEF Objects
<1>3. Entry(type, n, l, k) =
          [type |-> type, script |-> n, live |-> l, closed |-> FALSE,
           st |-> "new", proto |-> "tcp", obj |-> k[l].id]
  BY <1>2 DEF Entry
<1> QED BY <1>2, <1>3 DEF Entries

\* A handler enters the one descriptor its call has made.
LEMMA EnterMade ==
    ASSUME NEW k, NEW X, NEW l \in LiveFds, Good(fds, k, X \cup {l}), l \notin X,
           NEW e \in Entries, e.live = l, ~e.closed, e.obj = k[l].id,
           k[l].type = "socket" => e.type = "socket", e.st # "synack"
    PROVE  /\ Good(state_add_fd(fds, e), k, X)
           /\ Owned(fds, k, X \cup {l}) => Owned(state_add_fd(fds, e), k, X)
           /\ KeepsChildren(fds, state_add_fd(fds, e))
<1>1. fds \in Seq(Entries)
  BY DEF Good, Typed
<1>2. state_add_fd(fds, e) = <<e>> \o fds
  BY DEF state_add_fd
<1>3. KeepsChildren(fds, <<e>> \o fds)
  BY <1>1, AddKeeps
<1> QED BY <1>2, <1>3, AddEntry
=============================================================================
