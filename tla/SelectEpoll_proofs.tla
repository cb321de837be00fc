-------------------------- MODULE SelectEpoll_proofs --------------------------
(***************************************************************************)
(* SelectEpoll keeps its types and implements Collector, for both calls,   *)
(* any number of children and packets, and whatever children fail.         *)
(***************************************************************************)
EXTENDS SelectEpoll, FiniteSetTheorems, TLAPS

\* TypeOK, but for the bound of ct.
Places ==
    /\ call \in {"select", "epoll"}
    /\ parent \in {"fork", "accept", "wait", "scan", "cleanup", "done"}
    /\ pc \in [Children -> {"unborn", "connect", "send", "exited", "failed"}]
    /\ connected \in [Children -> 0..Lim]
    /\ ind \in [Children -> 1..Lim]
    /\ num \in [Children -> 0..NO_OF_MESSAGES]
    /\ backlog \in Seq(Sockets) /\ fds \in Seq(Sockets)
    /\ Len(backlog) <= N + 1 /\ Len(fds) <= TotalFds
    /\ unread \in [Sockets -> 0..SocketBuffer]
    /\ ready \subseteq DOMAIN fds
    /\ ct \in Nat

\* A child before its last connect and a parent that accepts have more to do.
Unfinished ==
    /\ \A c \in Children : pc[c] \in {"unborn", "connect"} => connected[c] < Lim
    /\ parent \in {"fork", "accept"} => Len(fds) < TotalFds

\* The places of packets in the buffers that are taken.
Taken == {u \in Sockets \X (1..SocketBuffer) : u[2] <= unread[u[1]]}

\* A packet that was sent is counted or still in a connection, not both.
Conserved == ct + Cardinality(Taken) = Cardinality(SentPackets)

\* The loops end when all packets have been counted.
Ending == parent \in {"cleanup", "done"} => ct >= Total

IInv == Places /\ Unfinished /\ Conserved /\ Ending

-----------------------------------------------------------------------------
\* Constants and finite sets

LEMMA Sizes ==
    /\ N \in Nat \ {0} /\ Lim \in Nat \ {0} /\ TotalFds \in Nat \ {0} /\ Total \in Nat
<1>1. N \in Nat /\ N >= 1 /\ N <= Monitor /\ Monitor \in Nat
  BY ChildrenAssumption, MonitorAssumption, FS_CardinalityType DEF N
<1>2. \A m, n \in Nat : n >= 1 /\ n <= m => m \div n \in Nat /\ m \div n >= 1
  OBVIOUS
<1>3. Lim \in Nat /\ Lim >= 1
  BY <1>1, <1>2 DEF Lim
<1>4. \A m, n \in Nat : m >= 1 /\ n >= 1 => m * n \in Nat /\ m * n >= 1
  OBVIOUS
<1>5. TotalFds \in Nat /\ TotalFds >= 1
  BY <1>1, <1>3, <1>4 DEF TotalFds
<1>6. Total \in Nat
  BY <1>1, MessagesAssumption DEF Total
<1> QED
  BY <1>1, <1>3, <1>5, <1>6

LEMMA PacketSet == IsFiniteSet(Packets) /\ Cardinality(Packets) = Total
<1>1. IsFiniteSet(1..NO_OF_MESSAGES) /\ Cardinality(1..NO_OF_MESSAGES) = NO_OF_MESSAGES
  BY FS_Interval, MessagesAssumption
<1> QED
  BY <1>1, ChildrenAssumption, FS_Product DEF Packets, N, Total

LEMMA PlaceSet == IsFiniteSet(Sockets \X (1..SocketBuffer))
<1>1. IsFiniteSet(1..Lim) /\ IsFiniteSet(1..SocketBuffer)
  BY FS_Interval, Sizes, BufferAssumption
<1>2. IsFiniteSet(Sockets)
  BY <1>1, ChildrenAssumption, FS_Product DEF Sockets
<1> QED
  BY <1>1, <1>2, FS_Product

\* Both sets that are counted are finite, and no more is sent than there is.
LEMMA Counts ==
    /\ IsFiniteSet(SentPackets) /\ Cardinality(SentPackets) \in Nat
    /\ Cardinality(SentPackets) <= Total
    /\ IsFiniteSet(Taken) /\ Cardinality(Taken) \in Nat
<1>1. SentPackets \in SUBSET Packets /\ Taken \in SUBSET (Sockets \X (1..SocketBuffer))
  BY DEF SentPackets, Taken
<1> QED
  BY <1>1, PacketSet, PlaceSet, FS_Subset, FS_CardinalityType

-----------------------------------------------------------------------------
\* The invariant

LEMMA InitIInv == Init => IInv
<1> SUFFICES ASSUME Init PROVE IInv
  OBVIOUS
<1>1. Places /\ Unfinished /\ Ending
  BY Sizes, MessagesAssumption, BufferAssumption DEF Init, Places, Unfinished, Ending
<1>2. SentPackets = {} /\ Taken = {}
  BY DEF Init, SentPackets, Packets, Taken
<1>3. Conserved
  BY <1>2, FS_EmptySet DEF Init, Conserved
<1> QED
  BY <1>1, <1>3 DEF IInv

\* A function with one more value of its range.
LEMMA Updated ==
    ASSUME NEW D, NEW R, NEW f \in [D -> R], NEW x \in D, NEW y \in R
    PROVE  [f EXCEPT ![x] = y] \in [D -> R]
OBVIOUS

LEMMA StepPlaces == Places /\ Unfinished /\ [Next]_vars => Places' /\ Unfinished'
<1> SUFFICES ASSUME Places, Unfinished, [Next]_vars
             PROVE  Places' /\ Unfinished'
  OBVIOUS
<1> USE Sizes DEF Places, Unfinished
<1>1. ASSUME NEW c \in Children, Fork(c) PROVE Places' /\ Unfinished'
  BY <1>1 DEF Fork
<1>2. ASSUME NEW c \in Children, Connect(c) PROVE Places' /\ Unfinished'
  <2>1. connected[c] < Lim /\ connected' = [connected EXCEPT ![c] = connected[c] + 1]
    BY <1>2 DEF Connect
  <2>2. connected' \in [Children -> 0..Lim]
    BY <2>1
  <2>3. <<c, connected[c] + 1>> \in Sockets
    BY <2>1 DEF Sockets
  <2>4. backlog' \in Seq(Sockets) /\ Len(backlog') <= N + 1
    BY <1>2, <2>3 DEF Connect, BacklogHasRoom
  <2>5. /\ pc' \in [Children -> {"unborn", "connect", "send", "exited", "failed"}]
        /\ ind' \in [Children -> 1..Lim]
    BY <1>2 DEF Connect, PickSocket
  <2>6. Unfinished'
    BY <1>2, <2>1 DEF Connect
  <2> QED
    BY <1>2, <2>2, <2>4, <2>5, <2>6 DEF Connect
<1>3. ASSUME NEW c \in Children, Send(c) PROVE Places' /\ Unfinished'
  <2>1. <<c, ind[c]>> \in Sockets
    BY DEF Sockets
  <2>2. unread' \in [Sockets -> 0..SocketBuffer]
    <3>1. /\ unread[<<c, ind[c]>>] \in 0..SocketBuffer /\ SocketBuffer \in Nat
          /\ unread[<<c, ind[c]>>] < SocketBuffer
      BY <1>3, <2>1, BufferAssumption DEF Send
    <3>2. unread[<<c, ind[c]>>] + 1 \in 0..SocketBuffer
      BY <3>1
    <3>3. unread' = [unread EXCEPT ![<<c, ind[c]>>] = unread[<<c, ind[c]>>] + 1]
      BY <1>3 DEF Send
    <3> QED
      BY <2>1, <3>2, <3>3, Updated
  <2>3. num' \in [Children -> 0..NO_OF_MESSAGES]
    BY <1>3, MessagesAssumption DEF Send
  <2>4. ind' \in [Children -> 1..Lim]
    BY <1>3 DEF Send, PickSocket
  <2> QED
    BY <1>3, <2>2, <2>3, <2>4 DEF Send
<1>4. ASSUME NEW c \in Children, ChildExit(c) \/ ChildFail(c) PROVE Places' /\ Unfinished'
  BY <1>4 DEF ChildExit, ChildFail
<1>5. ASSUME Accept PROVE Places' /\ Unfinished'
  <2>1. Head(backlog) \in Sockets /\ backlog' \in Seq(Sockets) /\ Len(backlog') = Len(backlog) - 1
    BY <1>5 DEF Accept
  <2>2. fds' \in Seq(Sockets) /\ Len(fds') = Len(fds) + 1 /\ DOMAIN fds \subseteq DOMAIN fds'
    BY <1>5, <2>1 DEF Accept
  <2>3. parent' = "accept" => Len(fds') < TotalFds
    BY <1>5, <2>2 DEF Accept
  <2> QED
    BY <1>5, <2>1, <2>2, <2>3 DEF Accept
<1>6. ASSUME Wait PROVE Places' /\ Unfinished'
  BY <1>6 DEF Wait
<1>7. ASSUME Scan PROVE Places' /\ Unfinished'
  <2>1. PICK i \in ready : /\ ready' = ready \ {i}
                           /\ \/ /\ unread[fds[i]] > 0
                                 /\ unread' = [unread EXCEPT ![fds[i]] = @ - 1]
                                 /\ ct' = ct + 1
                              \/ UNCHANGED <<unread, ct>>
    BY <1>7 DEF Scan
  <2>2. fds[i] \in Sockets
    OBVIOUS
  <2>3. unread' \in [Sockets -> 0..SocketBuffer] /\ ct' \in Nat
    <3>1. unread[fds[i]] \in Nat /\ unread[fds[i]] <= SocketBuffer /\ SocketBuffer \in Nat
      BY <2>2, BufferAssumption
    <3>2. unread[fds[i]] > 0 => unread[fds[i]] - 1 \in 0..SocketBuffer
      BY <3>1
    <3>3. ct' \in Nat
      BY <2>1
    <3>4. CASE unread[fds[i]] > 0 /\ unread' = [unread EXCEPT ![fds[i]] = unread[fds[i]] - 1]
      <4> DEFINE s == fds[i]
                 n == unread[s] - 1
                 R == 0..SocketBuffer
      <4>1. s \in Sockets /\ n \in R /\ unread \in [Sockets -> R]
        BY <2>2, <3>2, <3>4
      <4>2. unread' = [unread EXCEPT ![s] = n]
        BY <3>4
      <4> HIDE DEF s, n, R
      <4>3. unread' \in [Sockets -> R]
        BY <4>1, <4>2, Updated, Zenon
      <4> QED
        BY <3>3, <4>3 DEF R
    <3> QED
      BY <2>1, <3>3, <3>4
  <2>4. ready' \subseteq DOMAIN fds'
    BY <1>7, <2>1 DEF Scan
  <2> QED
    BY <1>7, <2>3, <2>4 DEF Scan
<1>8. ASSUME Cleanup PROVE Places' /\ Unfinished'
  BY <1>8 DEF Cleanup
<1>9. CASE UNCHANGED vars
  BY <1>9 DEF vars
<1> QED
  BY <1>1, <1>2, <1>3, <1>4, <1>5, <1>6, <1>7, <1>8, <1>9 DEF Next, ParentStep, ChildStep

\* A write sends one packet more and takes one place more.
LEMMA OneSent ==
    ASSUME Places, NEW c \in Children, Send(c)
    PROVE  /\ <<c, num[c] + 1>> \in Packets \ SentPackets
           /\ SentPackets' = SentPackets \cup {<<c, num[c] + 1>>}
           /\ Cardinality(SentPackets') = Cardinality(SentPackets) + 1
           /\ Cardinality(Taken') = Cardinality(Taken) + 1
           /\ ct' = ct
<1> DEFINE p == <<c, num[c] + 1>>
           u == <<<<c, ind[c]>>, unread[<<c, ind[c]>>] + 1>>
<1>1. p \in Packets /\ p \notin SentPackets
  BY MessagesAssumption DEF Send, Places, Packets, SentPackets
<1>2. SentPackets' = SentPackets \cup {p}
  <2>1. \A m \in Packets : m[2] <= num'[m[1]] <=> m[2] <= num[m[1]] \/ m = p
    BY MessagesAssumption DEF Send, Places, Packets
  <2> QED
    BY <1>1, <2>1 DEF SentPackets
<1>3. <<c, ind[c]>> \in Sockets
  BY DEF Places, Sockets
<1> DEFINE s == <<c, ind[c]>>
           held == unread[s]
<1>4. /\ unread \in [Sockets -> 0..SocketBuffer] /\ held \in 0..SocketBuffer
      /\ held < SocketBuffer /\ unread' = [unread EXCEPT ![s] = held + 1]
  BY <1>3 DEF Send, Places
<1>5. u \in Sockets \X (1..SocketBuffer) /\ u \notin Taken
  <2>1. u = <<s, held + 1>>
    OBVIOUS
  <2> HIDE DEF s, held, u
  <2>2. held + 1 \in 1..SocketBuffer /\ ~(held + 1 <= held)
    BY <1>4, BufferAssumption
  <2>3. s \in Sockets
    BY <1>3 DEF s
  <2>4. u \in Sockets \X (1..SocketBuffer)
    BY <2>1, <2>2, <2>3
  <2>5. ~(u[2] <= unread[u[1]])
    BY <2>1, <2>2 DEF held
  <2> QED
    BY <2>4, <2>5 DEF Taken
<1>6. Taken' = Taken \cup {u}
  <2>1. ASSUME NEW t \in Sockets, NEW k \in 1..SocketBuffer
        PROVE  k <= unread'[t] <=> k <= unread[t] \/ (t = s /\ k = held + 1)
    <3> HIDE DEF s
    <3>1. CASE t = s
      BY <1>3, <1>4, <3>1, BufferAssumption DEF s
    <3>2. CASE t # s
      BY <1>4, <3>2
    <3> QED
      BY <3>1, <3>2
  <2>2. \A v \in Sockets \X (1..SocketBuffer) :
          v[2] <= unread'[v[1]] <=> v[2] <= unread[v[1]] \/ v = u
    <3> TAKE v \in Sockets \X (1..SocketBuffer)
    <3>1. v[1] \in Sockets /\ v[2] \in 1..SocketBuffer /\ v = <<v[1], v[2]>>
      OBVIOUS
    <3>2. v = u <=> v[1] = s /\ v[2] = held + 1
      <4>1. u = <<s, held + 1>>
        OBVIOUS
      <4> HIDE DEF s, held, u
      <4> QED
        BY <3>1, <4>1
    <3> QED
      BY <2>1, <3>1, <3>2
  <2> QED
    BY <1>5, <2>2 DEF Taken
<1> QED
  BY <1>1, <1>2, <1>5, <1>6, Counts, FS_AddElement DEF Send

\* A read of a packet frees the place that it counts.
LEMMA OneRead ==
    ASSUME Places, NEW i \in DOMAIN fds, unread[fds[i]] > 0,
           unread' = [unread EXCEPT ![fds[i]] = @ - 1]
    PROVE  Cardinality(Taken) >= 1 /\ Cardinality(Taken') = Cardinality(Taken) - 1
<1> DEFINE u == <<fds[i], unread[fds[i]]>>
<1>1. fds[i] \in Sockets
  BY DEF Places
<1>2. u \in Taken
  BY <1>1, BufferAssumption DEF Places, Taken
<1>3. \A v \in Sockets \X (1..SocketBuffer) :
        v[2] <= unread'[v[1]] <=> v[2] <= unread[v[1]] /\ v # u
  BY <1>1, BufferAssumption DEF Places
<1>4. Taken' = Taken \ {u}
  BY <1>3 DEF Taken
<1>5. Cardinality(Taken) >= 1
  BY <1>2, Counts, FS_EmptySet
<1> QED
  BY <1>2, <1>4, <1>5, Counts, FS_RemoveElement

OneLess == Cardinality(Taken) >= 1 /\ Cardinality(Taken') = Cardinality(Taken) - 1

\* The ways in which a step moves packets.
LEMMA Moves ==
    ASSUME Places, [Next]_vars
    PROVE  \/ \E c \in Children : Send(c)
           \/ /\ SentPackets' = SentPackets
              /\ \/ ct' = ct + 1 /\ OneLess
                 \/ ct' = ct /\ Taken' = Taken
<1>1. ASSUME Scan PROVE /\ SentPackets' = SentPackets
                        /\ \/ ct' = ct + 1 /\ OneLess
                           \/ ct' = ct /\ Taken' = Taken
  <2>1. PICK i \in ready :
          \/ /\ unread[fds[i]] > 0
             /\ unread' = [unread EXCEPT ![fds[i]] = @ - 1]
             /\ ct' = ct + 1
          \/ UNCHANGED <<unread, ct>>
    BY <1>1 DEF Scan
  <2>2. i \in DOMAIN fds
    BY DEF Places
  <2>3. SentPackets' = SentPackets
    BY <1>1 DEF Scan, SentPackets
  <2>4. CASE UNCHANGED <<unread, ct>>
    BY <2>3, <2>4 DEF Taken
  <2> QED
    BY <2>1, <2>2, <2>3, <2>4, OneRead DEF OneLess
<1>2. ASSUME UNCHANGED <<num, unread, ct>> PROVE SentPackets' = SentPackets /\ ct' = ct /\ Taken' = Taken
  BY <1>2 DEF SentPackets, Taken
<1>3. \/ \E c \in Children : Send(c)
      \/ Scan
      \/ UNCHANGED <<num, unread, ct>>
  BY DEF Next, ParentStep, ChildStep, Fork, Connect, ChildExit, ChildFail, Accept, Wait,
         Cleanup, vars
<1> QED
  BY <1>1, <1>2, <1>3

LEMMA StepConserved == Places /\ Conserved /\ [Next]_vars => Conserved'
<1> SUFFICES ASSUME Places, Conserved, [Next]_vars PROVE Conserved'
  OBVIOUS
<1>1. ct \in Nat /\ Cardinality(Taken) \in Nat /\ Cardinality(SentPackets) \in Nat
  BY Counts DEF Places
<1>2. ASSUME NEW c \in Children, Send(c) PROVE Conserved'
  <2>1. /\ Cardinality(SentPackets') = Cardinality(SentPackets) + 1
        /\ Cardinality(Taken') = Cardinality(Taken) + 1
        /\ ct' = ct
    BY <1>2, OneSent
  <2> QED
    BY <1>1, <2>1 DEF Conserved
<1>3. ASSUME SentPackets' = SentPackets,
             \/ ct' = ct + 1 /\ OneLess
             \/ ct' = ct /\ Taken' = Taken
      PROVE  Conserved'
  BY <1>1, <1>3 DEF Conserved, OneLess
<1> QED
  BY <1>2, <1>3, Moves

LEMMA StepEnding == Places /\ Ending /\ [Next]_vars => Ending'
<1> SUFFICES ASSUME Places, Ending, [Next]_vars PROVE Ending'
  OBVIOUS
<1>1. ASSUME Scan PROVE Ending'
  BY <1>1 DEF Scan, Ending
<1>2. ASSUME Accept PROVE Ending'
  BY <1>2 DEF Accept, Ending
<1>3. ASSUME ct' = ct, parent' \in {"cleanup", "done"} => parent \in {"cleanup", "done"}
      PROVE  Ending'
  BY <1>3 DEF Ending
<1>4. \/ Scan \/ Accept
      \/ ct' = ct /\ (parent' \in {"cleanup", "done"} => parent \in {"cleanup", "done"})
  BY DEF Next, ParentStep, ChildStep, Fork, Connect, Send, ChildExit, ChildFail, Wait,
         Cleanup, vars
<1> QED
  BY <1>1, <1>2, <1>3, <1>4

\* What Spec keeps, and what follows from it for the number counted.
LEMMA Invariance == Spec => []IInv
<1>1. IInv /\ [Next]_vars => IInv'
  BY StepPlaces, StepConserved, StepEnding DEF IInv
<1> QED
  BY InitIInv, <1>1, PTL DEF Spec

LEMMA CountedOfSent == IInv => ct <= Cardinality(SentPackets) /\ ct <= Total
<1> SUFFICES ASSUME IInv PROVE ct <= Cardinality(SentPackets) /\ ct <= Total
  OBVIOUS
<1>1. ct \in Nat /\ Cardinality(Taken) \in Nat /\ Cardinality(SentPackets) \in Nat
  BY Counts DEF IInv, Places
<1> QED
  BY <1>1, Counts, Sizes DEF IInv, Conserved

-----------------------------------------------------------------------------
\* Theorems

\* No array of the benchmark is indexed past its end (fds with TotalFds
\* entries, sockfd with Lim), no connection and no queue of pending
\* connections holds more than it can, and ct never passes Total, however the
\* children run or fail.
THEOREM TypeCorrect == Spec => []TypeOK
<1>1. IInv => TypeOK
  BY CountedOfSent, Sizes DEF IInv, Places, TypeOK
<1> QED
  BY <1>1, Invariance, PTL

\* Collector counts with the same operator.
LEMMA SameCardinality == \A S : Counting!Cardinality(S) = Cardinality(S)
  BY DEF Counting!Cardinality, Cardinality

LEMMA StepCollects == IInv /\ [Next]_vars => [Counting!Next]_(Counting!vars)
<1> SUFFICES ASSUME IInv, [Next]_vars PROVE [Counting!Next]_(Counting!vars)
  OBVIOUS
<1>1. Places /\ ct \in Nat
  BY DEF IInv, Places
<1>2. ASSUME NEW c \in Children, Send(c) PROVE Counting!Send
  <2>1. UNCHANGED <<ct, parent = "done">>
    BY <1>2 DEF Send
  <2> QED
    BY <1>1, <1>2, <2>1, OneSent DEF Counting!Send
<1>3. ASSUME Scan PROVE Counting!Count \/ UNCHANGED Counting!vars
  <2>1. UNCHANGED SentPackets /\ UNCHANGED (parent = "done")
    BY <1>3 DEF Scan, SentPackets
  <2>2. CASE ct' = ct
    BY <2>1, <2>2 DEF Counting!vars
  <2>3. CASE ct' = ct + 1
    <3>1. Cardinality(Taken) >= 1
      <4>1. ~\E c \in Children : Send(c)
        BY <1>3 DEF Scan, Send
      <4> QED
        BY <1>1, <2>3, <4>1, Moves DEF OneLess
    <3>2. ct < Cardinality(SentPackets)
      BY <1>1, <3>1, Counts DEF IInv, Conserved
    <3> QED
      BY <2>1, <2>3, <3>2, SameCardinality DEF Counting!Count
  <2> QED
    BY <1>3, <2>2, <2>3 DEF Scan
<1>4. ASSUME Cleanup PROVE Counting!Finish
  <2>1. ct = Cardinality(Packets)
    BY <1>1, <1>4, CountedOfSent, PacketSet, Sizes DEF IInv, Ending, Cleanup
  <2>2. SentPackets' = SentPackets /\ ct' = ct /\ parent # "done" /\ (parent = "done")' = TRUE
    BY <1>4 DEF Cleanup, SentPackets
  <2> QED
    BY <2>1, <2>2, SameCardinality DEF Counting!Finish
<1>5. ASSUME UNCHANGED <<num, ct>>, UNCHANGED (parent = "done") PROVE UNCHANGED Counting!vars
  BY <1>5 DEF Counting!vars, SentPackets
<1>6. \/ \E c \in Children : Send(c)
      \/ Scan
      \/ Cleanup
      \/ UNCHANGED <<num, ct>> /\ UNCHANGED (parent = "done")
  BY DEF Next, ParentStep, ChildStep, Fork, Connect, ChildExit, ChildFail, Accept, Wait, vars
<1> QED
  BY <1>2, <1>3, <1>4, <1>5, <1>6 DEF Counting!Next

\* run_select and run_epoll keep the promise of a collector: ++ct counts each
\* packet that a child has written once, an end of file never, and cleanup is
\* over only when all N * NO_OF_MESSAGES packets are counted.
THEOREM CollectsCorrect == Spec => Collects
<1>1. Init => Counting!Init
  <2>1. Init => SentPackets = {}
    BY DEF Init, SentPackets, Packets
  <2> QED
    BY <2>1 DEF Init, Counting!Init
<1> QED
  BY <1>1, StepCollects, Invariance, PTL DEF Spec, Collects, Counting!Spec

=============================================================================
