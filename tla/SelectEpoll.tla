----------------------------- MODULE SelectEpoll -----------------------------
(***************************************************************************)
(* One measurement of select_epoll_test.c: run_select or run_epoll with    *)
(* the children it forks.  Every child opens Lim connections and sends     *)
(* NO_OF_MESSAGES packets, each over one of them taken at random; the      *)
(* parent accepts all connections and then reads one packet from each      *)
(* descriptor that select or epoll_wait reports, until it has counted all. *)
(***************************************************************************)
EXTENDS Integers, Sequences, FiniteSets

CONSTANTS
    Children,         \* the N children
    Monitor,          \* monitor: 10, 100 or 1000 in main
    NO_OF_MESSAGES,   \* per child
    SocketBuffer,     \* packets a connection holds before write blocks
    Killable          \* children that may fail or be killed

N == Cardinality(Children)
Lim == Monitor \div N
TotalFds == Lim * N
Total == N * NO_OF_MESSAGES

ASSUME ChildrenAssumption == IsFiniteSet(Children) /\ N \in 1..Monitor
ASSUME MonitorAssumption == Monitor \in Nat
ASSUME MessagesAssumption == NO_OF_MESSAGES \in Nat
ASSUME BufferAssumption == SocketBuffer \in Nat \ {0}
ASSUME KillableAssumption == Killable \subseteq Children

VARIABLES
    call,        \* what this measurement is of: "select" or "epoll"
    parent,      \* where the parent is
    pc,          \* where each child is
    connected,   \* how many sockets of each child are connected
    ind,         \* the socket each child writes to next
    num,         \* packets each child has sent
    backlog,     \* connections the parent has not accepted yet
    fds,         \* the connections accepted, in order
    unread,      \* packets in each connection
    ready,       \* the indices of fds still to be read in this round
    ct           \* packets counted

vars == <<call, parent, pc, connected, ind, num, backlog, fds, unread, ready, ct>>

Sockets == Children \X (1..Lim)

\* A child that has ended has closed its sockets, whatever the loop that was
\* to close them does: its bound is read past the end of sockfd.
Ended(c) == pc[c] \in {"exited", "failed"}

-----------------------------------------------------------------------------

Init ==
    /\ call \in {"select", "epoll"}
    /\ parent = "fork"
    /\ pc = [c \in Children |-> "unborn"]
    /\ connected = [c \in Children |-> 0]
    /\ ind = [c \in Children |-> 1]
    /\ num = [c \in Children |-> 0]
    /\ backlog = <<>>
    /\ fds = <<>>
    /\ unread = [s \in Sockets |-> 0]
    /\ ready = {}
    /\ ct = 0

Fork(c) ==
    /\ parent = "fork"
    /\ pc[c] = "unborn"
    /\ pc' = [pc EXCEPT ![c] = "connect"]
    /\ parent' = IF \A d \in Children \ {c} : pc[d] # "unborn" THEN "accept" ELSE "fork"
    /\ UNCHANGED <<call, connected, ind, num, backlog, fds, unread, ready, ct>>

\* listen(max_pending) lets one connection more than N wait for accept.
BacklogHasRoom == Len(backlog) <= N

\* Mutant: random() % (lim + 1).
PickSocket_OneTooFar(c) == \E k \in 1..(Lim + 1) : ind' = [ind EXCEPT ![c] = k]

\* random() picks a socket of the child.
PickSocket(c) == \E k \in 1..Lim : ind' = [ind EXCEPT ![c] = k]

\* connect of the child's next socket; after the last one it begins to send.
Connect(c) ==
    /\ pc[c] = "connect"
    /\ BacklogHasRoom
    /\ connected' = [connected EXCEPT ![c] = @ + 1]
    /\ backlog' = Append(backlog, <<c, connected[c] + 1>>)
    /\ \/ connected[c] + 1 < Lim /\ UNCHANGED <<pc, ind>>
       \/ /\ connected[c] + 1 = Lim
          /\ pc' = [pc EXCEPT ![c] = "send"]
          /\ PickSocket(c)
    /\ UNCHANGED <<call, parent, num, fds, unread, ready, ct>>

\* write of a packet: it blocks while the connection is full.
Send(c) ==
    /\ pc[c] = "send"
    /\ num[c] < NO_OF_MESSAGES
    /\ unread[<<c, ind[c]>>] < SocketBuffer
    /\ unread' = [unread EXCEPT ![<<c, ind[c]>>] = @ + 1]
    /\ num' = [num EXCEPT ![c] = @ + 1]
    /\ PickSocket(c)
    /\ UNCHANGED <<call, parent, pc, connected, backlog, fds, ready, ct>>

ChildExit(c) ==
    /\ pc[c] = "send"
    /\ num[c] >= NO_OF_MESSAGES
    /\ pc' = [pc EXCEPT ![c] = "exited"]
    /\ UNCHANGED <<call, parent, connected, ind, num, backlog, fds, unread, ready, ct>>

\* socket or connect fails and the child exits, or it is killed.  What it has
\* sent stays readable.
ChildFail(c) ==
    /\ c \in Killable
    /\ pc[c] \in {"connect", "send"}
    /\ pc' = [pc EXCEPT ![c] = "failed"]
    /\ UNCHANGED <<call, parent, connected, ind, num, backlog, fds, unread, ready, ct>>

\* Mutant: the loop accepts one connection fewer.
Accept_OneFewer ==
    /\ parent = "accept"
    /\ backlog # <<>>
    /\ fds' = Append(fds, Head(backlog))
    /\ backlog' = Tail(backlog)
    /\ parent' = IF Len(fds) + 2 < TotalFds THEN "accept"
                 ELSE IF call = "select" /\ ct >= Total THEN "cleanup" ELSE "wait"
    /\ UNCHANGED <<call, pc, connected, ind, num, unread, ready, ct>>

\* accept of one connection.  After the last one run_select looks at ct before
\* it waits for the first time, run_epoll does not.
Accept ==
    /\ parent = "accept"
    /\ backlog # <<>>
    /\ fds' = Append(fds, Head(backlog))
    /\ backlog' = Tail(backlog)
    /\ parent' = IF Len(fds) + 1 < TotalFds THEN "accept"
                 ELSE IF call = "select" /\ ct >= Total THEN "cleanup" ELSE "wait"
    /\ UNCHANGED <<call, pc, connected, ind, num, unread, ready, ct>>

\* A descriptor is readable if it has data or its peer is gone.
Readable(i) == unread[fds[i]] > 0 \/ Ended(fds[i][1])

\* select or epoll_wait returns all readable descriptors.
Wait ==
    /\ parent = "wait"
    /\ ready' = {i \in DOMAIN fds : Readable(i)}
    /\ ready' # {}
    /\ parent' = "scan"
    /\ UNCHANGED <<call, pc, connected, ind, num, backlog, fds, unread, ct>>

\* Mutant: an end of file is counted too.
Scan_CountsEnds ==
    /\ parent = "scan"
    /\ \E i \in ready :
          /\ call = "select" => \A j \in ready : i <= j
          /\ ready' = ready \ {i}
          /\ ct' = ct + 1
          /\ unread' = [unread EXCEPT ![fds[i]] = IF @ > 0 THEN @ - 1 ELSE 0]
    /\ parent' = IF ready' # {} THEN "scan" ELSE IF ct' >= Total THEN "cleanup" ELSE "wait"
    /\ UNCHANGED <<call, pc, connected, ind, num, backlog, fds>>

\* read of the next reported descriptor: the lowest index of fds after select,
\* any one after epoll_wait.  An end of file is not counted.  The round ends
\* with the last descriptor, and the loop when all packets have been counted.
Scan ==
    /\ parent = "scan"
    /\ \E i \in ready :
          /\ call = "select" => \A j \in ready : i <= j
          /\ ready' = ready \ {i}
          /\ \/ /\ unread[fds[i]] > 0
                /\ unread' = [unread EXCEPT ![fds[i]] = @ - 1]
                /\ ct' = ct + 1
             \/ /\ unread[fds[i]] = 0
                /\ UNCHANGED <<unread, ct>>
    /\ parent' = IF ready' # {} THEN "scan" ELSE IF ct' >= Total THEN "cleanup" ELSE "wait"
    /\ UNCHANGED <<call, pc, connected, ind, num, backlog, fds>>

\* cleanup: waitpid of every child, then close.
Cleanup ==
    /\ parent = "cleanup"
    /\ \A c \in Children : Ended(c)
    /\ parent' = "done"
    /\ UNCHANGED <<call, pc, connected, ind, num, backlog, fds, unread, ready, ct>>

ParentStep == (\E c \in Children : Fork(c)) \/ Accept \/ Wait \/ Scan \/ Cleanup

ChildStep(c) == Connect(c) \/ Send(c) \/ ChildExit(c)

Next == ParentStep \/ \E c \in Children : ChildStep(c) \/ ChildFail(c)

\* Every process runs; none has to fail.
Fairness == WF_vars(ParentStep) /\ \A c \in Children : WF_vars(ChildStep(c))

Spec == Init /\ [][Next]_vars
FairSpec == Spec /\ Fairness

-----------------------------------------------------------------------------
\* Properties

\* Types of the variables.
TypeOK ==
    /\ call \in {"select", "epoll"}
    /\ parent \in {"fork", "accept", "wait", "scan", "cleanup", "done"}
    /\ pc \in [Children -> {"unborn", "connect", "send", "exited", "failed"}]
    /\ connected \in [Children -> 0..Lim]
    /\ ind \in [Children -> 1..Lim]
    /\ num \in [Children -> 0..NO_OF_MESSAGES]
    /\ backlog \in Seq(Sockets) /\ fds \in Seq(Sockets)
    /\ Len(backlog) <= N + 1 /\ Len(fds) <= TotalFds
    /\ unread \in [Sockets -> 0..SocketBuffer]
    /\ ready \subseteq DOMAIN fds
    /\ ct \in 0..Total

\* The k-th packet of each child.
Packets == Children \X (1..NO_OF_MESSAGES)

SentPackets == {m \in Packets : m[2] <= num[m[1]]}

Counting == INSTANCE Collector WITH
    Messages <- Packets,
    sent     <- SentPackets,
    counted  <- ct,
    finished <- parent = "done"

\* Every packet is counted once (run_select, run_epoll: ++ct), though ends of
\* file are reported in between, in whatever rounds and order descriptors are
\* reported, and cleanup is over when all are counted and never before.
Collects == Counting!Spec

\* A child has not done all its work and will not.
FailedEarly(c) ==
    pc[c] = "failed" /\ (connected[c] < Lim \/ num[c] < NO_OF_MESSAGES)

\* The measurement ends, although connects wait for room in the backlog and
\* writes for room in a connection, unless a child failed before it had sent
\* all its packets.
Finishes == <>(parent = "done" \/ \E c \in Children : FailedEarly(c))

=============================================================================
