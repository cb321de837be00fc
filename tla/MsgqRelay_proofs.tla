--------------------------- MODULE MsgqRelay_proofs ---------------------------
(***************************************************************************)
(* Theorems about MsgqRelay for every set of clients and destinations,     *)
(* every capacity and every number of lines: type correctness, RightReader,*)
(* WedgeNeedsUser, TextPrefix and ExactlyOnce, and that it implements      *)
(* RelayPromise.                                                           *)
(***************************************************************************)
EXTENDS MsgqRelay, FiniteSetTheorems, WellFoundedInduction, TLAPS

\* The server alone posts messages of a client's type, and with that client
\* as destination.
Routed == \A c \in Clients : \A i \in DOMAIN queue[c] : queue[c][i].dpid = c

\* A child waits for its own parent's type, or its parent has exited; it does
\* not wait before the fork.
ChildType ==
    \A c \in Clients :
        /\ child[c] # None => parent[c] # "start"
        /\ \/ child[c] \in {None, c}
           \/ child[c] = AdoptivePid /\ parent[c] = "exited"

IInv == TypeOK /\ Routed /\ ChildType /\ RightReader

\* Clients are types of messages; neither 0 nor 1 is one, nor is the pid that
\* adopts a child.
LEMMA ClientTypes ==
    /\ \A c \in Clients : c \in Types /\ c # 1 /\ c # None /\ c # AdoptivePid /\ c > 0
    /\ 1 \in Types
    /\ AdoptivePid \in Types /\ AdoptivePid # None
    /\ \A d \in Dests : d > 0 => d \in Types
BY ClientsAssumption, AdoptivePidAssumption DEF Types, None

\* A destination is an integer, so it is positive or it is not.
LEMMA DestOrder == \A d \in Dests \cup {0} : d > 0 => ~(d <= 0)
<1> SUFFICES ASSUME NEW d \in Dests \cup {0} PROVE d > 0 => ~(d <= 0)
  OBVIOUS
<1>1. d \in Int
  BY DestsAssumption
<1> QED
  BY <1>1

\* copy() yields a text.
LEMMA CopyType ==
    ASSUME NEW dest \in Texts, NEW src \in Texts
    PROVE  Copy(dest, src) \in Texts
BY DEF Copy, Texts

\* The first character can be cleared.
LEMMA ClearType ==
    ASSUME NEW t \in Texts
    PROVE  [t EXCEPT ![1] = NUL] \in Texts
BY MaxSizeAssumption DEF Texts, Chars, NUL

\* A buffer cleared by initialize() and one of uninitialised characters are texts.
LEMMA FreshTypes ==
    /\ EmptyText \in Texts
    /\ [1..MAXSIZE -> {NUL, Garbage}] \subseteq Texts
    /\ \A k \in Nat, n \in Nat : [i \in 1..MAXSIZE |-> IF i <= n THEN k ELSE NUL] \in Texts
BY DEF EmptyText, Texts, Chars, NUL, Garbage

LEMMA InitIInv == Init => IInv
<1> SUFFICES ASSUME Init PROVE IInv
  OBVIOUS
<1> USE DEF Init
<1>1. TypeOK
  BY FreshTypes, ClientsAssumption DEF TypeOK, Messages
<1>2. Routed /\ ChildType /\ RightReader
  BY ClientTypes DEF Routed, ChildType, RightReader
<1> QED
  BY <1>1, <1>2 DEF IInv

LEMMA StepType == TypeOK /\ [Next]_vars => TypeOK'
<1> SUFFICES ASSUME TypeOK, [Next]_vars PROVE TypeOK'
  OBVIOUS
<1> USE DEF TypeOK
<1>1. ASSUME NEW c \in Clients, NEW d \in Dests, Start(c, d) PROVE TypeOK'
  <2>1. buffer' \in [Clients -> Messages]
    BY <1>1 DEF Start, Messages
  <2> QED
    BY <2>1, <1>1 DEF Start
<1>2. ASSUME NEW c \in Clients, NEW n \in 0..MaxLength, TypeLine(c, n) PROVE TypeOK'
  <2> DEFINE k == Len(typed) + 1
             text == [i \in 1..MAXSIZE |-> IF i <= n THEN k ELSE NUL]
  <2>1. k \in Nat /\ n \in Nat
    BY MaxSizeAssumption, MaxLengthAssumption
  <2>2. text \in Texts
    BY <2>1, FreshTypes
  <2> HIDE DEF k, text
  <2>3. buffer[c] \in Messages
    OBVIOUS
  <2>4. buffer' = [buffer EXCEPT ![c] = [@ EXCEPT !.line = k, !.mtext = text]]
    BY <1>2 DEF TypeLine, k, text
  <2>5. [buffer[c] EXCEPT !.line = k, !.mtext = text] \in Messages
    BY <2>1, <2>2, <2>3 DEF Messages
  <2>6. buffer' \in [Clients -> Messages]
    BY <2>4, <2>5
  <2>7. [dpid |-> buffer[c].dpid, spid |-> c, line |-> k, mtext |-> text] \in Messages
    BY <2>1, <2>2, <2>3 DEF Messages
  <2>8. typed' = Append(typed, [dpid |-> buffer[c].dpid, spid |-> c, line |-> k, mtext |-> text])
    BY <1>2 DEF TypeLine, k, text
  <2>9. typed' \in Seq(Messages)
    BY <2>7, <2>8
  <2> QED
    BY <2>6, <2>9, <1>2 DEF TypeLine
<1>3. ASSUME NEW c \in Clients, ClientSend(c) PROVE TypeOK'
  <2>1. queue' \in [Types -> Seq(Messages)]
    BY <1>3, ClientTypes DEF ClientSend
  <2>2. [buffer[c] EXCEPT !.line = 0, !.mtext = EmptyText] \in Messages
    BY FreshTypes DEF Messages
  <2>3. buffer' = [buffer EXCEPT ![c] = [@ EXCEPT !.line = 0, !.mtext = EmptyText]]
    BY <1>3 DEF ClientSend
  <2>4. buffer' \in [Clients -> Messages]
    BY <2>2, <2>3
  <2> QED
    BY <2>1, <2>4, <1>3 DEF ClientSend
<1>4. ASSUME NEW c \in Clients, ParentExit(c) PROVE TypeOK'
  BY <1>4 DEF ParentExit
<1>5. ASSUME NEW c \in Clients, ChildCall(c) PROVE TypeOK'
  BY <1>5, ClientTypes DEF ChildCall, Getppid
<1>6. ASSUME NEW c \in Clients, ChildReceive(c) PROVE TypeOK'
  <2>1. child[c] \in Types /\ queue[child[c]] \in Seq(Messages) /\ queue[child[c]] # <<>>
    BY <1>6 DEF ChildReceive
  <2>2. Head(queue[child[c]]) \in Messages /\ Tail(queue[child[c]]) \in Seq(Messages)
    BY <2>1
  <2>3. received' \in [Clients -> Seq(Messages)]
    BY <1>6, <2>2 DEF ChildReceive
  <2>4. queue' \in [Types -> Seq(Messages)]
    BY <1>6, <2>1, <2>2 DEF ChildReceive
  <2> QED
    BY <2>3, <2>4, <1>6 DEF ChildReceive
<1>7. ASSUME ServerReceive PROVE TypeOK'
  <2>1. Head(queue[1]) \in Messages /\ Tail(queue[1]) \in Seq(Messages)
    BY <1>7, ClientTypes DEF ServerReceive
  <2>2. queue' \in [Types -> Seq(Messages)]
    BY <1>7, <2>1 DEF ServerReceive
  <2>3. Copy(sendbuffer.mtext, Head(queue[1]).mtext) \in Texts
    BY <2>1, CopyType DEF Messages
  <2>4. sendbuffer' = [Head(queue[1]) EXCEPT !.mtext = Copy(sendbuffer.mtext, @)]
    BY <1>7 DEF ServerReceive
  <2>5. sendbuffer' \in Messages
    BY <2>1, <2>3, <2>4 DEF Messages
  <2> QED
    BY <2>2, <2>5, <1>7 DEF ServerReceive
<1>8. ASSUME ServerSend PROVE TypeOK'
  <2>0. sendbuffer.dpid \in Types
    BY <1>8, ClientTypes DEF ServerSend, Messages
  <2>1. queue' \in [Types -> Seq(Messages)]
    BY <2>0, <1>8 DEF ServerSend
  <2>2. sendbuffer' = [sendbuffer EXCEPT !.mtext = [@ EXCEPT ![1] = NUL]]
    BY <1>8 DEF ServerSend
  <2>3. [sendbuffer.mtext EXCEPT ![1] = NUL] \in Texts
    BY ClearType DEF Messages
  <2>4. sendbuffer' \in Messages
    BY <2>2, <2>3 DEF Messages
  <2> QED
    BY <2>1, <2>4, <1>8 DEF ServerSend
<1>9. ASSUME ServerEnds PROVE TypeOK'
  <2>1. sendbuffer.line \in Nat
    BY DEF Messages
  <2> QED
    BY <1>9, <2>1 DEF ServerEnds
<1>10. ASSUME ServerRestart PROVE TypeOK'
  <2>1. PICK g \in [1..MAXSIZE -> {NUL, Garbage}] :
           sendbuffer' = [dpid |-> 0, spid |-> 0, line |-> 0, mtext |-> g]
    BY <1>10 DEF ServerRestart
  <2>2. g \in Texts
    BY FreshTypes
  <2>3. sendbuffer' \in Messages
    BY <2>1, <2>2 DEF Messages
  <2> QED
    BY <2>3, <1>10 DEF ServerRestart
<1>11. CASE UNCHANGED vars
  BY <1>11 DEF vars
<1> QED
  BY <1>1, <1>2, <1>3, <1>4, <1>5, <1>6, <1>7, <1>8, <1>9, <1>10, <1>11
  DEF Next, ServerFail, ServerKilled

LEMMA StepRouted == TypeOK /\ Routed /\ [Next]_vars => Routed'
<1> SUFFICES ASSUME TypeOK, Routed, [Next]_vars, NEW u \in Clients
             PROVE  \A i \in DOMAIN queue'[u] : queue'[u][i].dpid = u
  BY DEF Routed
<1> DEFINE Kept == \A i \in DOMAIN queue'[u] : queue'[u][i].dpid = u
<1>a. /\ u \in Types /\ u # 1 /\ queue[u] \in Seq(Messages)
      /\ \A i \in DOMAIN queue[u] : queue[u][i].dpid = u
  BY ClientTypes DEF Routed, TypeOK
<1>b. ASSUME queue'[u] = queue[u] PROVE Kept
  BY <1>a, <1>b
<1>c. ASSUME queue[u] # <<>>, queue'[u] = Tail(queue[u]) PROVE Kept
  <2>1. DOMAIN queue'[u] = 1..(Len(queue[u]) - 1)
    BY <1>a, <1>c
  <2>2. \A i \in DOMAIN queue'[u] : i + 1 \in DOMAIN queue[u] /\ queue'[u][i] = queue[u][i + 1]
    BY <1>a, <1>c, <2>1
  <2> QED
    BY <1>a, <2>2
<1>1. ASSUME NEW c \in Clients, ClientSend(c) PROVE Kept
  BY <1>1, <1>a, <1>b DEF ClientSend, TypeOK
<1>2. ASSUME NEW c \in Clients, ChildReceive(c) PROVE Kept
  <2>1. CASE child[c] = u
    BY <2>1, <1>2, <1>a, <1>c DEF ChildReceive, TypeOK
  <2>2. CASE child[c] # u
    BY <2>2, <1>2, <1>a, <1>b DEF ChildReceive, TypeOK
  <2> QED
    BY <2>1, <2>2
<1>3. ASSUME ServerReceive PROVE Kept
  BY <1>3, <1>a, <1>b DEF ServerReceive, TypeOK
<1>4. ASSUME ServerSend PROVE Kept
  <2>1. CASE sendbuffer.dpid = u
    <3>1. queue'[u] = Append(queue[u], sendbuffer)
      BY <2>1, <1>4, <1>a DEF ServerSend, TypeOK
    <3>2. /\ DOMAIN queue'[u] = 1..(Len(queue[u]) + 1)
          /\ queue'[u][Len(queue[u]) + 1] = sendbuffer
          /\ \A i \in 1..Len(queue[u]) : queue'[u][i] = queue[u][i]
      BY <3>1, <1>a DEF TypeOK
    <3> QED
      BY <3>2, <2>1, <1>a
  <2>2. CASE sendbuffer.dpid # u
    BY <2>2, <1>4, <1>a, <1>b DEF ServerSend, TypeOK
  <2> QED
    BY <2>1, <2>2
<1>5. CASE UNCHANGED queue
  BY <1>5, <1>b
<1> QED
  BY <1>1, <1>2, <1>3, <1>4, <1>5
  DEF Next, vars, Start, TypeLine, ParentExit, ChildCall, ServerFail, ServerKilled, ServerEnds,
      ServerRestart

LEMMA StepChildType == TypeOK /\ ChildType /\ [Next]_vars => ChildType'
<1> SUFFICES ASSUME TypeOK, ChildType, [Next]_vars, NEW u \in Clients
             PROVE  /\ child'[u] # None => parent'[u] # "start"
                    /\ \/ child'[u] \in {None, u}
                       \/ child'[u] = AdoptivePid /\ parent'[u] = "exited"
  BY DEF ChildType
<1> USE DEF TypeOK, ChildType
<1>1. ASSUME NEW c \in Clients, NEW d \in Dests, Start(c, d) PROVE ChildType'
  BY <1>1 DEF Start
<1>2. ASSUME NEW c \in Clients, NEW n \in 0..MaxLength, TypeLine(c, n) PROVE ChildType'
  <2>1. child' = child /\ parent[c] = "input" /\ parent' = [parent EXCEPT ![c] = "send"]
    BY <1>2 DEF TypeLine
  <2> QED
    BY <2>1
<1>3. ASSUME NEW c \in Clients, ClientSend(c) PROVE ChildType'
  BY <1>3 DEF ClientSend
<1>4. ASSUME NEW c \in Clients, ParentExit(c) PROVE ChildType'
  BY <1>4 DEF ParentExit
<1>5. ASSUME NEW c \in Clients, ChildCall(c) PROVE ChildType'
  BY <1>5 DEF ChildCall, Getppid
<1>6. ASSUME NEW c \in Clients, ChildReceive(c) PROVE ChildType'
  BY <1>6 DEF ChildReceive
<1>7. CASE UNCHANGED <<parent, child>>
  BY <1>7
<1> QED
  BY <1>1, <1>2, <1>3, <1>4, <1>5, <1>6, <1>7
  DEF Next, vars, ServerReceive, ServerSend, ServerFail, ServerKilled, ServerEnds,
      ServerRestart

LEMMA StepRightReader == IInv /\ [Next]_vars => RightReader'
<1> SUFFICES ASSUME IInv, [Next]_vars PROVE RightReader'
  OBVIOUS
<1> USE DEF IInv, TypeOK
<1>1. ASSUME NEW c \in Clients, ChildReceive(c) PROVE RightReader'
  <2> DEFINE m == Head(queue[child[c]])
  <2>1. /\ received' = [received EXCEPT ![c] = Append(@, m)]
        /\ parent' = parent
        /\ child[c] \in Types /\ queue[child[c]] \in Seq(Messages) /\ queue[child[c]] # <<>>
    BY <1>1 DEF ChildReceive
  <2>2. m \in Messages /\ m = queue[child[c]][1] /\ 1 \in DOMAIN queue[child[c]]
    BY <2>1
  <2>3. m.dpid = c \/ parent[c] = "exited"
    <3>1. CASE child[c] = c
      BY <3>1, <2>2 DEF Routed
    <3>2. CASE child[c] # c
      BY <3>2, <1>1 DEF ChildType, ChildReceive
    <3> QED
      BY <3>1, <3>2
  <2> SUFFICES ASSUME NEW u \in Clients, NEW i \in DOMAIN received'[u]
               PROVE  received'[u][i].dpid = u \/ parent'[u] = "exited"
    BY DEF RightReader
  <2>4. CASE u # c
    BY <2>4, <2>1 DEF RightReader
  <2>5. CASE u = c
    <3>1. /\ received'[c] = Append(received[c], m)
          /\ received[c] \in Seq(Messages)
      BY <2>1
    <3> HIDE DEF m
    <3>2. /\ i \in 1..(Len(received[c]) + 1)
          /\ received'[c][i] = IF i = Len(received[c]) + 1 THEN m ELSE received[c][i]
      BY <3>1, <2>2, <2>5
    <3> QED
      BY <3>1, <3>2, <2>1, <2>3, <2>5 DEF RightReader
  <2> QED
    BY <2>4, <2>5
<1>2. ASSUME NEW c \in Clients, ParentExit(c) PROVE RightReader'
  BY <1>2 DEF ParentExit, RightReader
<1>3. ASSUME NEW c \in Clients, NEW d \in Dests, Start(c, d) PROVE RightReader'
  BY <1>3 DEF Start, RightReader
<1>4. ASSUME NEW c \in Clients, NEW n \in 0..MaxLength, TypeLine(c, n) PROVE RightReader'
  <2>1. received' = received /\ parent[c] = "input" /\ parent' = [parent EXCEPT ![c] = "send"]
    BY <1>4 DEF TypeLine
  <2> QED
    BY <2>1 DEF RightReader
<1>5. ASSUME NEW c \in Clients, ClientSend(c) PROVE RightReader'
  BY <1>5 DEF ClientSend, RightReader
<1>6. CASE UNCHANGED <<received, parent>>
  BY <1>6 DEF RightReader
<1> QED
  BY <1>1, <1>2, <1>3, <1>4, <1>5, <1>6
  DEF Next, vars, ChildCall, ServerReceive, ServerSend, ServerFail, ServerKilled, ServerEnds,
      ServerRestart

\* The invariant is inductive.
LEMMA Invariance == Spec => []IInv
<1>1. IInv /\ [Next]_vars => IInv'
  BY StepType, StepRouted, StepChildType, StepRightReader DEF IInv
<1> QED
  BY InitIInv, <1>1, PTL DEF Spec

\* Every variable keeps its type, in particular every message is posted with a
\* type the queue has.
THEOREM TypeCorrect == Spec => []TypeOK
<1>1. IInv => TypeOK
  BY DEF IInv
<1> QED
  BY Invariance, <1>1, PTL

\* No client prints a line addressed to somebody else while its parent process
\* is running (the child's msgrcv on getppid()).
THEOREM ReaderCorrect == Spec => []RightReader
<1>1. IInv => RightReader
  BY DEF IInv
<1> QED
  BY Invariance, <1>1, PTL

\* A wedged relay stays wedged until a user starts a client, ends one or ends the
\* server.
THEOREM WedgeIsPermanent == Spec => WedgeNeedsUser
<1> DEFINE Freed ==
        \/ Wedged'
        \/ \E c \in Clients : parent[c] = "start" /\ parent'[c] = "input"
        \/ \E c \in Clients : parent[c] = "input" /\ parent'[c] = "exited"
        \/ server' = "dead"
<1>1. ASSUME IInv, [Next]_vars, Wedged PROVE Freed
  <2> USE DEF IInv, TypeOK
  <2>1. Used = Capacity /\ ~(Used < Capacity)
    BY <1>1, CapacityAssumption DEF Wedged
  <2>2. ASSUME UNCHANGED <<queue, server, sendbuffer, child>>,
               \A c \in Clients : (parent'[c] = "start" <=> parent[c] = "start")
                                  /\ (parent'[c] = "exited" <=> parent[c] = "exited")
        PROVE  Wedged'
    BY <1>1, <2>2 DEF Wedged, Idle, Getppid, Used
  <2>3. ASSUME NEW c \in Clients, NEW d \in Dests, Start(c, d) PROVE Freed
    BY <1>1, <2>3 DEF Start
  <2>4. ASSUME NEW c \in Clients, NEW n \in 0..MaxLength, TypeLine(c, n) PROVE Freed
    <3>1. /\ UNCHANGED <<queue, server, sendbuffer, child>>
          /\ parent[c] = "input" /\ parent' = [parent EXCEPT ![c] = "send"]
      BY <2>4 DEF TypeLine
    <3> QED
      BY <1>1, <2>2, <3>1
  <2>5. ASSUME NEW c \in Clients, ParentExit(c) PROVE Freed
    BY <1>1, <2>5 DEF ParentExit
  <2>6. ASSUME NEW c \in Clients, ChildCall(c) PROVE Freed
    <3>1. /\ UNCHANGED <<queue, server, sendbuffer, parent>>
          /\ child[c] = None /\ child' = [child EXCEPT ![c] = Getppid(c)]
      BY <2>6 DEF ChildCall
    <3>2. Getppid(c) # None
      BY ClientTypes DEF Getppid
    <3>3. \A u \in Clients : Idle(u)'
      BY <1>1, <3>1, <3>2 DEF Wedged, Idle, Getppid
    <3>4. Used' = Used
      BY <3>1 DEF Used
    <3> QED
      BY <1>1, <3>1, <3>3, <3>4 DEF Wedged
  <2>7. ASSUME NEW c \in Clients, ChildReceive(c) PROVE FALSE
    BY <1>1, <2>7 DEF ChildReceive, Wedged, Idle, ChildType
  <2>8. ~ServerReceive /\ ~ServerSend /\ ~ServerFail /\ ~ServerRestart
    <3>1. ~ServerSend
      BY <2>1 DEF ServerSend
    <3>2. sendbuffer.dpid \in Dests \cup {0}
      BY <1>1 DEF Messages
    <3>3. sendbuffer.dpid > 0 => ~(sendbuffer.dpid <= 0)
      BY <3>2, DestOrder
    <3> QED
      BY <1>1, <3>1, <3>3 DEF ServerReceive, ServerFail, ServerRestart, Wedged
  <2>9. \A c \in Clients : ~ClientSend(c)
    BY <2>1 DEF ClientSend
  <2>10. CASE ServerKilled
    BY <2>10 DEF ServerKilled, ServerEnds
  <2>11. CASE UNCHANGED vars
    BY <2>2, <2>11 DEF vars
  <2> QED
    BY <1>1, <2>3, <2>4, <2>5, <2>6, <2>7, <2>8, <2>9, <2>10, <2>11 DEF Next
<1>2. IInv /\ [Next]_vars => [Wedged => Freed]_vars
  BY <1>1
<1> QED
  BY Invariance, <1>2, PTL DEF Spec, WedgeNeedsUser

-----------------------------------------------------------------------------
(***************************************************************************)
(* Where the lines are: TextPrefix and ExactlyOnce.                        *)
(***************************************************************************)

\* No line is in two places of F.
Single(F) ==
    \A a \in DOMAIN F, b \in DOMAIN F : \A i \in DOMAIN F[a], j \in DOMAIN F[b] :
        F[a][i].line = F[b][j].line => a = b /\ i = j

\* Line k is somewhere in F.
Somewhere(F, k) == \E b \in DOMAIN F : \E i \in DOMAIN F[b] : F[b][i].line = k

\* The first message of a box is taken out, a message is put into one.
Without(F, a) == [F EXCEPT ![a] = Tail(@)]
With(F, b, m) == [F EXCEPT ![b] = Append(@, m)]

LEMMA HeadIsFirst ==
    \A M : \A s \in Seq(M) : s # <<>> => 1 \in DOMAIN s /\ s[1] = Head(s)
OBVIOUS

\* How far a message is shifted in box b when the first one of box a is taken.
Shift(a, b) == IF b = a THEN 1 ELSE 0

LEMMA Shifted ==
    ASSUME NEW B, NEW M, NEW F \in [B -> Seq(M)], NEW a \in B, F[a] # <<>>, NEW b \in B
    PROVE  /\ \A i \in DOMAIN Without(F, a)[b] :
                 /\ i \in Nat \ {0} /\ i + Shift(a, b) \in DOMAIN F[b]
                 /\ Without(F, a)[b][i] = F[b][i + Shift(a, b)]
           /\ \A i \in DOMAIN F[b] :
                 \/ b = a /\ i = 1 /\ F[b][i] = Head(F[a])
                 \/ /\ i \in Nat \ {0} /\ i - Shift(a, b) \in DOMAIN Without(F, a)[b]
                    /\ Without(F, a)[b][i - Shift(a, b)] = F[b][i]
<1>1. CASE b = a
  <2>1. Without(F, a)[b] = Tail(F[b]) /\ F[b] \in Seq(M) /\ Shift(a, b) = 1
    BY <1>1 DEF Without, Shift
  <2> QED
    BY <1>1, <2>1
<1>2. CASE b # a
  <2>1. Without(F, a)[b] = F[b] /\ F[b] \in Seq(M) /\ Shift(a, b) = 0
    BY <1>2 DEF Without, Shift
  <2> QED
    BY <2>1
<1> QED
  BY <1>1, <1>2

LEMMA TakeOne ==
    ASSUME NEW B, NEW M, NEW F \in [B -> Seq(M)], NEW a \in B, F[a] # <<>>, Single(F)
    PROVE  /\ Without(F, a) \in [B -> Seq(M)]
           /\ Single(Without(F, a))
           /\ ~Somewhere(Without(F, a), Head(F[a]).line)
           /\ \A k : Somewhere(F, k) <=> Somewhere(Without(F, a), k) \/ k = Head(F[a]).line
<1> DEFINE G == Without(F, a)
<1>1. G \in [B -> Seq(M)]
  BY DEF Without
<1>2. ASSUME NEW b \in B, NEW i \in DOMAIN G[b]
      PROVE  /\ i + Shift(a, b) \in DOMAIN F[b] /\ G[b][i] = F[b][i + Shift(a, b)]
             /\ i \in Nat \ {0}
  BY Shifted
<1>3. ASSUME NEW b \in B, NEW i \in DOMAIN F[b]
      PROVE  \/ b = a /\ i = 1 /\ F[b][i] = Head(F[a])
             \/ i - Shift(a, b) \in DOMAIN G[b] /\ G[b][i - Shift(a, b)] = F[b][i]
  BY Shifted
<1>4. 1 \in DOMAIN F[a] /\ F[a][1] = Head(F[a]) /\ DOMAIN F = B
  BY Zenon, HeadIsFirst
<1>5. DOMAIN G = B
  BY <1>1
<1> HIDE DEF G
<1>6. Single(G)
  <2> SUFFICES ASSUME NEW b \in B, NEW c \in B, NEW i \in DOMAIN G[b], NEW j \in DOMAIN G[c],
                      G[b][i].line = G[c][j].line
               PROVE  b = c /\ i = j
    BY <1>5 DEF Single
  <2>1. b = c /\ i + Shift(a, b) = j + Shift(a, c)
    BY <1>2, <1>4 DEF Single
  <2> QED
    BY <1>2, <2>1 DEF Shift
<1>7. ~Somewhere(G, Head(F[a]).line)
  <2> SUFFICES ASSUME NEW b \in B, NEW i \in DOMAIN G[b], G[b][i].line = Head(F[a]).line
               PROVE  FALSE
    BY <1>5 DEF Somewhere
  <2>1. b = a /\ i + Shift(a, b) = 1
    BY <1>2, <1>4 DEF Single
  <2> QED
    BY <1>2, <2>1 DEF Shift
<1>8. \A k : Somewhere(F, k) => Somewhere(G, k) \/ k = Head(F[a]).line
  BY <1>3, <1>4, <1>5 DEF Somewhere
<1>9. \A k : Somewhere(G, k) \/ k = Head(F[a]).line => Somewhere(F, k)
  BY <1>2, <1>4, <1>5 DEF Somewhere
<1> QED
  BY <1>1, <1>6, <1>7, <1>8, <1>9 DEF G

LEMMA Appended ==
    ASSUME NEW B, NEW M, NEW F \in [B -> Seq(M)], NEW a \in B, NEW m, NEW b \in B
    PROVE  /\ \A i \in DOMAIN F[b] :
                 i \in DOMAIN With(F, a, m)[b] /\ With(F, a, m)[b][i] = F[b][i]
           /\ \A i \in DOMAIN With(F, a, m)[b] :
                 \/ i \in DOMAIN F[b] /\ With(F, a, m)[b][i] = F[b][i]
                 \/ b = a /\ i = Len(F[a]) + 1 /\ With(F, a, m)[b][i] = m
<1>1. CASE b = a
  <2>1. With(F, a, m)[b] = Append(F[b], m) /\ F[b] \in Seq(M)
    BY <1>1 DEF With
  <2> QED
    BY <1>1, <2>1
<1>2. CASE b # a
  <2>1. With(F, a, m)[b] = F[b]
    BY <1>2 DEF With
  <2> QED
    BY <2>1
<1> QED
  BY <1>1, <1>2

LEMMA PutOne ==
    ASSUME NEW B, NEW M, NEW F \in [B -> Seq(M)], NEW b \in B, NEW m \in M,
           Single(F), ~Somewhere(F, m.line)
    PROVE  /\ With(F, b, m) \in [B -> Seq(M)]
           /\ Single(With(F, b, m))
           /\ \A k : Somewhere(F, k) \/ k = m.line <=> Somewhere(With(F, b, m), k)
<1> DEFINE G == With(F, b, m)
           n == Len(F[b]) + 1
<1>1. G \in [B -> Seq(M)] /\ DOMAIN F = B /\ DOMAIN G = B
  BY DEF With
<1>2. G[b] = Append(F[b], m) /\ F[b] \in Seq(M)
  BY DEF With
<1>3. n \in DOMAIN G[b] /\ G[b][n] = m
  BY <1>2
<1>4. ASSUME NEW a \in B, NEW i \in DOMAIN F[a]
      PROVE  i \in DOMAIN G[a] /\ G[a][i] = F[a][i]
  BY Appended
<1>5. ASSUME NEW a \in B, NEW i \in DOMAIN G[a]
      PROVE  \/ i \in DOMAIN F[a] /\ G[a][i] = F[a][i]
             \/ a = b /\ i = n
  BY Appended
<1> HIDE DEF G, n
<1>6. Single(G)
  BY <1>1, <1>3, <1>5 DEF Single, Somewhere
<1>7. \A k : Somewhere(F, k) \/ k = m.line => Somewhere(G, k)
  BY <1>1, <1>3, <1>4 DEF Somewhere
<1>8. \A k : Somewhere(G, k) => Somewhere(F, k) \/ k = m.line
  BY <1>1, <1>3, <1>5 DEF Somewhere
<1> QED
  BY <1>1, <1>6, <1>7, <1>8 DEF G

-----------------------------------------------------------------------------
\* Texts

\* Every set of numbers but the empty one has a least element.
LEMMA Least == \A S \in SUBSET Nat : S # {} => \E x \in S : \A y \in S : x <= y
<1> SUFFICES ASSUME NEW S \in SUBSET Nat, S # {} PROVE \E x \in S : \A y \in S : x <= y
  OBVIOUS
<1> DEFINE R == OpToRel(<, Nat)
<1>1. IsWellFoundedOn(R, Nat)
  BY NatLessThanWellFounded
<1>2. ASSUME NEW x \in Nat, NEW y \in Nat, <<y, x>> \notin R PROVE x <= y
  <2>1. y < x => <<y, x>> \in R
    BY Zenon DEF OpToRel
  <2> HIDE DEF R
  <2> QED
    BY <1>2, <2>1, SMT
<1> HIDE DEF R
<1>3. PICK x \in S : \A y \in S : ~(<<y, x>> \in R)
  BY <1>1, WFMin, Zenon
<1>4. ASSUME NEW y \in S PROVE x <= y
  <2>1. x \in Nat /\ y \in Nat
    OBVIOUS
  <2> QED
    BY <1>2, <1>3, <2>1, Zenon
<1> QED
  BY <1>3, <1>4, Zenon

\* A text has a length: the number of characters before the first NUL.
LEMMA Length ==
    ASSUME NEW t \in Texts
    PROVE  /\ Strlen(t) \in 0..MAXSIZE
           /\ \A i \in 1..Strlen(t) : t[i] # NUL
           /\ Strlen(t) < MAXSIZE => t[Strlen(t) + 1] = NUL
<1> DEFINE Is(n) == /\ \A i \in 1..n : t[i] # NUL
                    /\ n < MAXSIZE => t[n + 1] = NUL
           Ends == {n \in Nat : n < MAXSIZE /\ t[n + 1] = NUL}
<1>1. \E n \in 0..MAXSIZE : Is(n)
  <2>1. CASE Ends = {}
    <3>1. \A i \in 1..MAXSIZE : t[i] # NUL
      <4> SUFFICES ASSUME NEW i \in 1..MAXSIZE, t[i] = NUL PROVE i - 1 \in Ends
        BY <2>1
      <4> QED
        BY MaxSizeAssumption
    <3>2. Is(MAXSIZE)
      BY <3>1, MaxSizeAssumption
    <3> QED
      BY <3>2, MaxSizeAssumption
  <2>2. CASE Ends # {}
    <3>1. PICK n \in Ends : \A m \in Ends : n <= m
      BY <2>2, Least
    <3>2. \A i \in 1..n : t[i] # NUL
      <4> SUFFICES ASSUME NEW i \in 1..n, t[i] = NUL PROVE FALSE
        OBVIOUS
      <4>1. i - 1 \in Ends
        BY MaxSizeAssumption
      <4> QED
        BY <3>1, <4>1
    <3> QED
      BY <3>1, <3>2, MaxSizeAssumption
  <2> QED
    BY <2>1, <2>2
<1>2. Strlen(t) = CHOOSE n \in 0..MAXSIZE : Is(n)
  BY DEF Strlen
<1> HIDE DEF Is
<1>3. Strlen(t) \in 0..MAXSIZE /\ Is(Strlen(t))
  BY <1>1, <1>2
<1> QED
  BY <1>3 DEF Is

\* Text m starts with the text t.
Starts(m, t) == \A j \in 1..Strlen(t) : m[j] = t[j]

\* copy() passes the beginning of a text on.
LEMMA CopyStarts ==
    ASSUME NEW t \in Texts, NEW m \in Texts, NEW dest \in Texts, Starts(m, t)
    PROVE  Starts(Copy(dest, m), t)
<1>1. ASSUME NEW j \in 1..Strlen(t) PROVE j <= Strlen(m) /\ j \in 1..MAXSIZE
  <2>1. /\ Strlen(t) \in 0..MAXSIZE /\ Strlen(m) \in 0..MAXSIZE
        /\ \A i \in 1..Strlen(t) : t[i] # NUL
        /\ Strlen(m) < MAXSIZE => m[Strlen(m) + 1] = NUL
    BY Length
  <2>2. CASE Strlen(m) < j
    <3>1. Strlen(m) + 1 \in 1..Strlen(t) /\ Strlen(m) < MAXSIZE
      BY <2>1, <2>2, MaxSizeAssumption
    <3>2. m[Strlen(m) + 1] = t[Strlen(m) + 1]
      BY <3>1 DEF Starts
    <3> QED
      BY <2>1, <3>1, <3>2
  <2> QED
    BY <2>1, <2>2, MaxSizeAssumption
<1> QED
  BY <1>1 DEF Starts, Copy

-----------------------------------------------------------------------------
\* Boxes

\* What each box holds.
Holding ==
    /\ \A c \in Clients :
          /\ <<"parent", c>> \in Boxes /\ <<"printed", c>> \in Boxes
          /\ Content[<<"parent", c>>] = IF parent[c] = "send" THEN <<buffer[c]>> ELSE <<>>
          /\ Content[<<"printed", c>>] = received[c]
    /\ \A t \in Types : <<"queue", t>> \in Boxes /\ Content[<<"queue", t>>] = queue[t]
    /\ <<"server", 1>> \in Boxes
    /\ Content[<<"server", 1>>] = IF server = "send" THEN <<sendbuffer>> ELSE <<>>
    /\ DOMAIN Content = Boxes

LEMMA Contents == Holding
BY DEF Holding, Content, Held, Boxes

LEMMA BoxKinds ==
    ASSUME NEW x \in Boxes
    PROVE  \/ \E c \in Clients : x = <<"parent", c>> \/ x = <<"printed", c>>
           \/ \E t \in Types : x = <<"queue", t>>
           \/ x = <<"server", 1>>
BY DEF Boxes

LEMMA ContentType == TypeOK => Content \in [Boxes -> Seq(Messages)]
<1> SUFFICES ASSUME TypeOK PROVE Content \in [Boxes -> Seq(Messages)]
  OBVIOUS
<1>1. ASSUME NEW b \in Boxes PROVE Content[b] \in Seq(Messages)
  <2>1. ASSUME NEW c \in Clients
        PROVE  Content[<<"parent", c>>] \in Seq(Messages) /\ Content[<<"printed", c>>] \in Seq(Messages)
    <3>1. <<buffer[c]>> \in Seq(Messages) /\ <<>> \in Seq(Messages)
      BY DEF TypeOK
    <3>2. Content[<<"parent", c>>] \in {<<buffer[c]>>, <<>>}
      BY Contents DEF Holding
    <3>3. Content[<<"printed", c>>] \in Seq(Messages)
      BY Contents DEF Holding, TypeOK
    <3> QED
      BY <3>1, <3>2, <3>3
  <2>2. ASSUME NEW t \in Types PROVE Content[<<"queue", t>>] \in Seq(Messages)
    BY Contents DEF Holding, TypeOK
  <2>3. Content[<<"server", 1>>] \in Seq(Messages)
    BY Contents DEF Holding, TypeOK
  <2> QED
    BY <2>1, <2>2, <2>3, BoxKinds
<1>2. Content = [b \in Boxes |-> Held(b)]
  BY DEF Content
<1>3. \A b \in Boxes : Held(b) \in Seq(Messages)
  BY <1>1, <1>2
<1> QED
  BY <1>2, <1>3

\* Two contents are the same if they agree about each kind of box.
LEMMA SameContents ==
    ASSUME NEW V, NEW F \in [Boxes -> V], NEW G \in [Boxes -> V],
           \A c \in Clients : /\ F[<<"parent", c>>] = G[<<"parent", c>>]
                              /\ F[<<"printed", c>>] = G[<<"printed", c>>],
           \A t \in Types : F[<<"queue", t>>] = G[<<"queue", t>>],
           F[<<"server", 1>>] = G[<<"server", 1>>]
    PROVE  F = G
<1>1. ASSUME NEW b \in Boxes PROVE F[b] = G[b]
  BY BoxKinds
<1> QED
  BY <1>1

-----------------------------------------------------------------------------
\* The invariant of the lines

\* Messages with the destination and, at the beginning, the text of their line.
Faithful ==
    {m \in Messages : /\ m.line \in DOMAIN typed
                      /\ m.dpid = typed[m.line].dpid
                      /\ Starts(m.mtext, typed[m.line].mtext)}

\* Every box holds such messages, no line is in two places, and the lines that
\* are in none are those a server had in hand when it ended.
Placed ==
    /\ Content \in [Boxes -> Seq(Faithful)]
    /\ Single(Content)
    /\ lost \subseteq DOMAIN typed
    /\ \A k \in DOMAIN typed : Somewhere(Content, k) <=> k \notin lost

LEMMA InitPlaced == Init => Placed
<1> SUFFICES ASSUME Init PROVE Placed
  OBVIOUS
<1>1. \A b \in Boxes : Content[b] = <<>>
  BY DEF Init, Content, Held, Boxes
<1>2. Content = [b \in Boxes |-> <<>>] /\ DOMAIN Content = Boxes
  BY <1>1 DEF Content
<1>3. Content \in [Boxes -> Seq(Faithful)]
  BY <1>2
<1>4. Single(Content)
  BY <1>2 DEF Single
<1>5. DOMAIN typed = {} /\ lost = {}
  BY DEF Init
<1> QED
  BY <1>3, <1>4, <1>5 DEF Placed

LEMMA StayPut ==
    ASSUME Placed, UNCHANGED <<typed, lost>>, Content' = Content
    PROVE  Placed'
BY DEF Placed, Faithful

\* A message goes from one box to another, its text perhaps changed.
LEMMA Moved ==
    ASSUME Placed, UNCHANGED <<typed, lost>>,
           NEW a \in Boxes, NEW b \in Boxes, NEW m \in Faithful,
           Content[a] # <<>>, m.line = Head(Content[a]).line,
           Content' = With(Without(Content, a), b, m)
    PROVE  Placed'
<1> DEFINE G == Without(Content, a)
<1>1. /\ Content \in [Boxes -> Seq(Faithful)] /\ Single(Content)
      /\ lost \subseteq DOMAIN typed
      /\ \A k \in DOMAIN typed : Somewhere(Content, k) <=> k \notin lost
  BY DEF Placed
<1>2. /\ G \in [Boxes -> Seq(Faithful)] /\ Single(G) /\ ~Somewhere(G, m.line)
      /\ \A k : Somewhere(Content, k) <=> Somewhere(G, k) \/ k = m.line
  BY <1>1, TakeOne
<1> HIDE DEF G
<1>3. /\ With(G, b, m) \in [Boxes -> Seq(Faithful)] /\ Single(With(G, b, m))
      /\ \A k : Somewhere(G, k) \/ k = m.line <=> Somewhere(With(G, b, m), k)
  BY <1>2, PutOne
<1>4. Content' = With(G, b, m)
  BY DEF G
<1>5. Content' \in [Boxes -> Seq(Faithful)] /\ Single(Content')
  BY <1>3, <1>4
<1>6. \A k : Somewhere(Content', k) <=> Somewhere(Content, k)
  BY <1>2, <1>3, <1>4
<1>7. Faithful' = Faithful
  BY DEF Faithful
<1> QED
  BY <1>1, <1>5, <1>6, <1>7 DEF Placed

\* A message that goes with its holder is lost.
LEMMA Dropped ==
    ASSUME Placed, typed' = typed, NEW a \in Boxes, Content[a] # <<>>,
           lost' = lost \cup {Head(Content[a]).line},
           Content' = Without(Content, a)
    PROVE  Placed'
<1> DEFINE G == Without(Content, a)
           k0 == Head(Content[a]).line
<1>1. /\ Content \in [Boxes -> Seq(Faithful)] /\ Single(Content)
      /\ lost \subseteq DOMAIN typed
      /\ \A k \in DOMAIN typed : Somewhere(Content, k) <=> k \notin lost
  BY DEF Placed
<1>2. /\ G \in [Boxes -> Seq(Faithful)] /\ Single(G) /\ ~Somewhere(G, k0)
      /\ \A k : Somewhere(Content, k) <=> Somewhere(G, k) \/ k = k0
  BY <1>1, TakeOne
<1>3. k0 \in DOMAIN typed
  <2>1. Head(Content[a]) \in Faithful
    BY <1>1
  <2> QED
    BY <2>1 DEF Faithful
<1>4. Content' = G /\ lost' = lost \cup {k0}
  OBVIOUS
<1> HIDE DEF G, k0
<1>5. lost' \subseteq DOMAIN typed
  BY <1>1, <1>3, <1>4
<1>6. \A k \in DOMAIN typed : Somewhere(Content', k) <=> k \notin lost'
  BY <1>1, <1>2, <1>4
<1>7. Faithful' = Faithful
  BY DEF Faithful
<1> QED
  BY <1>2, <1>4, <1>5, <1>6, <1>7 DEF Placed

\* A new line is put into a box.
LEMMA Added ==
    ASSUME Placed, typed \in Seq(Messages), NEW m \in Messages, NEW b \in Boxes,
           m.line = Len(typed) + 1, NEW t \in Messages, t.dpid = m.dpid, t.mtext = m.mtext,
           typed' = Append(typed, t), lost' = lost,
           Content' = With(Content, b, m)
    PROVE  Placed'
<1>1. /\ Content \in [Boxes -> Seq(Faithful)] /\ Single(Content)
      /\ lost \subseteq DOMAIN typed
      /\ \A k \in DOMAIN typed : Somewhere(Content, k) <=> k \notin lost
  BY DEF Placed
<1>2. /\ DOMAIN typed' = DOMAIN typed \cup {m.line} /\ typed'[m.line] = t
      /\ m.line \notin DOMAIN typed
      /\ \A k \in DOMAIN typed : typed'[k] = typed[k]
  OBVIOUS
<1>3. Faithful \subseteq Faithful' /\ m \in Faithful'
  BY <1>2 DEF Faithful, Starts
<1>4. ~Somewhere(Content, m.line)
  <2> SUFFICES ASSUME NEW a \in Boxes, NEW i \in DOMAIN Content[a], Content[a][i].line = m.line
               PROVE  FALSE
    BY <1>1 DEF Somewhere
  <2>1. Content[a] \in Seq(Faithful)
    BY <1>1
  <2>2. Content[a][i] \in Faithful
    BY <2>1
  <2> QED
    BY <1>2, <2>2 DEF Faithful
<1>5. Content \in [Boxes -> Seq(Faithful')]
  BY <1>1, <1>3
<1>6. /\ With(Content, b, m) \in [Boxes -> Seq(Faithful')] /\ Single(With(Content, b, m))
      /\ \A k : Somewhere(Content, k) \/ k = m.line <=> Somewhere(With(Content, b, m), k)
  BY <1>1, <1>3, <1>4, <1>5, PutOne
<1>7. \A k \in DOMAIN typed' : Somewhere(Content', k) <=> k \notin lost
  BY <1>1, <1>2, <1>6
<1>8. lost \subseteq DOMAIN typed'
  BY <1>1, <1>2
<1> QED
  BY <1>6, <1>7, <1>8 DEF Placed

LEMMA Distinct ==
    \A c \in Clients, d \in Clients, t \in Types, u \in Types :
        /\ <<"parent", c>> # <<"printed", d>> /\ <<"parent", c>> # <<"queue", t>>
        /\ <<"printed", c>> # <<"queue", t>>
        /\ <<"server", 1>> \notin {<<"parent", c>>, <<"printed", c>>, <<"queue", t>>}
        /\ <<"parent", c>> = <<"parent", d>> => c = d
        /\ <<"printed", c>> = <<"printed", d>> => c = d
        /\ <<"queue", t>> = <<"queue", u>> => t = u
OBVIOUS

LEMMA FirstFaithful ==
    ASSUME Placed, NEW a \in Boxes, Content[a] # <<>>
    PROVE  Head(Content[a]) \in Faithful
<1>1. Content[a] \in Seq(Faithful)
  BY DEF Placed
<1> QED
  BY <1>1

\* A step that takes the first message out of one box and appends it to
\* another, its text perhaps changed, and leaves the other boxes alone.
LEMMA Passed ==
    ASSUME Placed, UNCHANGED <<typed, lost>>,
           Content \in [Boxes -> Seq(Messages)], Content' \in [Boxes -> Seq(Messages)],
           NEW a \in Boxes, NEW b \in Boxes, a # b, NEW m \in Faithful,
           Content[a] # <<>>, m.line = Head(Content[a]).line,
           Content'[a] = Tail(Content[a]), Content'[b] = Append(Content[b], m),
           \A x \in Boxes : x # a /\ x # b => Content'[x] = Content[x]
    PROVE  Placed'
<1>1. Content' = With(Without(Content, a), b, m)
  BY DEF With, Without
<1> QED
  BY <1>1, Moved

LEMMA StepPlaced == IInv /\ Placed /\ [Next]_vars => Placed'
<1> SUFFICES ASSUME IInv, Placed, [Next]_vars PROVE Placed'
  OBVIOUS
<1>a. TypeOK /\ ChildType
  BY DEF IInv
<1>b. Content \in [Boxes -> Seq(Messages)] /\ Content' \in [Boxes -> Seq(Messages)]
  <2>1. TypeOK'
    BY <1>a, StepType
  <2>2. (TypeOK => Content \in [Boxes -> Seq(Messages)])'
    BY ContentType, PTL
  <2>3. Boxes' = Boxes
    BY DEF Boxes
  <2> QED
    BY <1>a, <2>1, <2>2, <2>3, ContentType
<1>h. Holding /\ Holding'
  BY Contents, PTL
<1>i. ASSUME UNCHANGED <<parent, buffer>>
      PROVE  \A d \in Clients : Content'[<<"parent", d>>] = Content[<<"parent", d>>]
  <2> TAKE d \in Clients
  <2>1. Content[<<"parent", d>>] = IF parent[d] = "send" THEN <<buffer[d]>> ELSE <<>>
    BY <1>h DEF Holding
  <2>2. Content'[<<"parent", d>>] = IF parent'[d] = "send" THEN <<buffer'[d]>> ELSE <<>>
    BY <1>h DEF Holding
  <2> QED
    BY <1>i, <2>1, <2>2
<1>j. \A d \in Clients : /\ Content[<<"printed", d>>] = received[d]
                         /\ Content'[<<"printed", d>>] = received'[d]
  BY <1>h DEF Holding
<1>k. \A u \in Types : /\ Content[<<"queue", u>>] = queue[u]
                       /\ Content'[<<"queue", u>>] = queue'[u]
  BY <1>h DEF Holding
<1>l. /\ Content[<<"server", 1>>] = IF server = "send" THEN <<sendbuffer>> ELSE <<>>
      /\ Content'[<<"server", 1>>] = IF server' = "send" THEN <<sendbuffer'>> ELSE <<>>
  BY <1>h DEF Holding
<1>c. ASSUME UNCHANGED <<queue, received, typed, lost>>,
             \A c \in Clients : /\ (parent'[c] = "send") = (parent[c] = "send")
                                /\ parent[c] = "send" => buffer'[c] = buffer[c],
             (server' = "send") = (server = "send"),
             server = "send" => sendbuffer' = sendbuffer
      PROVE  Placed'
  <2>1. Content' = Content
    <3>1. /\ \A c \in Clients : /\ Content'[<<"parent", c>>] = Content[<<"parent", c>>]
                               /\ Content'[<<"printed", c>>] = Content[<<"printed", c>>]
          /\ \A t \in Types : Content'[<<"queue", t>>] = Content[<<"queue", t>>]
          /\ Content'[<<"server", 1>>] = Content[<<"server", 1>>]
      <4>1. ASSUME NEW c \in Clients
            PROVE  /\ Content'[<<"parent", c>>] = Content[<<"parent", c>>]
                   /\ Content'[<<"printed", c>>] = Content[<<"printed", c>>]
        <5>1. Content[<<"parent", c>>] = IF parent[c] = "send" THEN <<buffer[c]>> ELSE <<>>
          BY <1>h DEF Holding
        <5>2. Content'[<<"parent", c>>] = IF parent'[c] = "send" THEN <<buffer'[c]>> ELSE <<>>
          BY <1>h DEF Holding
        <5>3. Content'[<<"printed", c>>] = Content[<<"printed", c>>]
          BY <1>c, <1>h DEF Holding
        <5> QED
          BY <1>c, <5>1, <5>2, <5>3
      <4>2. ASSUME NEW t \in Types PROVE Content'[<<"queue", t>>] = Content[<<"queue", t>>]
        BY <1>c, <1>h DEF Holding
      <4>3. Content'[<<"server", 1>>] = Content[<<"server", 1>>]
        BY <1>c, <1>h DEF Holding
      <4> QED
        BY <4>1, <4>2, <4>3
    <3> QED
      BY <1>b, <3>1, SameContents
  <2> QED
    BY <1>c, <2>1, StayPut
<1>1. ASSUME NEW c \in Clients, NEW d \in Dests, Start(c, d) PROVE Placed'
  BY <1>1, <1>a, <1>c DEF Start, TypeOK
<1>2. ASSUME NEW c \in Clients, ParentExit(c) PROVE Placed'
  BY <1>2, <1>a, <1>c DEF ParentExit, TypeOK
<1>3. ASSUME NEW c \in Clients, ChildCall(c) PROVE Placed'
  BY <1>3, <1>c DEF ChildCall
<1>4. ASSUME ServerRestart PROVE Placed'
  BY <1>4, <1>c DEF ServerRestart
<1>5. CASE UNCHANGED vars
  BY <1>5, <1>c DEF vars
<1>6. ASSUME NEW c \in Clients, ClientSend(c) PROVE Placed'
  <2> DEFINE a == <<"parent", c>>
             b == <<"queue", 1>>
             m == buffer[c]
  <2>1. /\ parent[c] = "send" /\ parent' = [parent EXCEPT ![c] = "input"]
        /\ queue' = [queue EXCEPT ![1] = Append(@, m)]
        /\ \A d \in Clients : d # c => buffer'[d] = buffer[d]
        /\ UNCHANGED <<server, sendbuffer, received, typed, lost>>
    BY <1>6, <1>a DEF ClientSend, TypeOK
  <2>2. a \in Boxes /\ b \in Boxes /\ a # b /\ 1 \in Types
    BY <1>h, ClientTypes, Distinct DEF Holding
  <2>3. Content[a] = <<m>> /\ Content'[a] = <<>>
    BY <1>a, <1>h, <2>1 DEF Holding, TypeOK
  <2>4. Content[b] = queue[1] /\ Content'[b] = Append(queue[1], m)
    BY <1>a, <1>h, <2>1, <2>2 DEF Holding, TypeOK
  <2>5. \A d \in Clients : <<"parent", d>> \notin {a, b} => Content'[<<"parent", d>>] = Content[<<"parent", d>>]
    <3> SUFFICES ASSUME NEW d \in Clients, d # c
                 PROVE  Content'[<<"parent", d>>] = Content[<<"parent", d>>]
      OBVIOUS
    <3>1. parent'[d] = parent[d] /\ buffer'[d] = buffer[d]
      BY <1>a, <2>1 DEF TypeOK
    <3>2. /\ Content[<<"parent", d>>] = IF parent[d] = "send" THEN <<buffer[d]>> ELSE <<>>
          /\ Content'[<<"parent", d>>] = IF parent'[d] = "send" THEN <<buffer'[d]>> ELSE <<>>
      BY <1>h DEF Holding
    <3> QED
      BY <3>1, <3>2
  <2>6. \A d \in Clients : Content'[<<"printed", d>>] = Content[<<"printed", d>>]
    BY <1>j, <2>1
  <2>7. \A t \in Types : <<"queue", t>> \notin {a, b} => Content'[<<"queue", t>>] = Content[<<"queue", t>>]
    BY <1>a, <1>h, <2>1 DEF Holding, TypeOK
  <2>8. Content'[<<"server", 1>>] = Content[<<"server", 1>>]
    BY <1>h, <2>1 DEF Holding
  <2> HIDE DEF a, b, m
  <2>9. \A x \in Boxes : x # a /\ x # b => Content'[x] = Content[x]
    <3> SUFFICES ASSUME NEW x \in Boxes, x # a, x # b PROVE Content'[x] = Content[x]
      OBVIOUS
    <3> QED
      BY <2>5, <2>6, <2>7, <2>8, BoxKinds
  <2>10. Content[a] # <<>> /\ m = Head(Content[a])
    BY <2>3
  <2>11. m \in Faithful
    BY <2>2, <2>10, FirstFaithful
  <2>12. Content'[a] = Tail(Content[a]) /\ Content'[b] = Append(Content[b], m)
    BY <2>3, <2>4
  <2> QED
    BY <1>b, <2>1, <2>2, <2>9, <2>10, <2>11, <2>12, Passed
<1>7. ASSUME NEW c \in Clients, ChildReceive(c) PROVE Placed'
  <2> DEFINE t0 == child[c]
             a == <<"queue", t0>>
             b == <<"printed", c>>
             m == Head(queue[t0])
  <2>1. /\ t0 \in Types /\ queue[t0] \in Seq(Messages) /\ queue[t0] # <<>>
        /\ queue' = [queue EXCEPT ![t0] = Tail(@)]
        /\ received' = [received EXCEPT ![c] = Append(@, m)]
        /\ UNCHANGED <<server, sendbuffer, parent, buffer, typed, lost>>
    BY <1>7, <1>a DEF ChildReceive, TypeOK
  <2>2. a \in Boxes /\ b \in Boxes /\ a # b
    BY <1>h, <2>1, Distinct DEF Holding
  <2>3. Content[a] = queue[t0] /\ Content'[a] = Tail(queue[t0])
    BY <1>a, <1>h, <2>1 DEF Holding, TypeOK
  <2>4. Content[b] = received[c] /\ Content'[b] = Append(received[c], m)
    BY <1>a, <1>j, <2>1 DEF TypeOK
  <2>5. \A d \in Clients : Content'[<<"parent", d>>] = Content[<<"parent", d>>]
    BY <1>i, <2>1
  <2>6. \A d \in Clients : <<"printed", d>> \notin {a, b} => Content'[<<"printed", d>>] = Content[<<"printed", d>>]
    BY <1>a, <1>j, <2>1 DEF TypeOK
  <2>7. \A t \in Types : <<"queue", t>> \notin {a, b} => Content'[<<"queue", t>>] = Content[<<"queue", t>>]
    BY <1>a, <1>h, <2>1 DEF Holding, TypeOK
  <2>8. Content'[<<"server", 1>>] = Content[<<"server", 1>>]
    BY <1>h, <2>1 DEF Holding
  <2> HIDE DEF t0, a, b, m
  <2>9. \A x \in Boxes : x # a /\ x # b => Content'[x] = Content[x]
    <3> SUFFICES ASSUME NEW x \in Boxes, x # a, x # b PROVE Content'[x] = Content[x]
      OBVIOUS
    <3> QED
      BY <2>5, <2>6, <2>7, <2>8, BoxKinds
  <2>10. Content[a] # <<>> /\ m = Head(Content[a])
    BY <2>1, <2>3 DEF m
  <2>11. m \in Faithful
    BY <2>2, <2>10, FirstFaithful
  <2>12. Content'[a] = Tail(Content[a]) /\ Content'[b] = Append(Content[b], m)
    BY <2>3, <2>4
  <2> QED
    BY <1>b, <2>1, <2>2, <2>9, <2>10, <2>11, <2>12, Passed
<1>8. ASSUME ServerReceive PROVE Placed'
  <2> DEFINE a == <<"queue", 1>>
             b == <<"server", 1>>
             h == Head(queue[1])
             m == [h EXCEPT !.mtext = Copy(sendbuffer.mtext, @)]
  <2>1. /\ 1 \in Types /\ queue[1] \in Seq(Messages) /\ queue[1] # <<>>
        /\ queue' = [queue EXCEPT ![1] = Tail(@)]
        /\ server = "recv" /\ server' = "send" /\ sendbuffer' = m
        /\ UNCHANGED <<parent, buffer, received, typed, lost>>
    BY <1>8, <1>a, ClientTypes DEF ServerReceive, TypeOK
  <2>2. a \in Boxes /\ b \in Boxes /\ a # b
    BY <1>h, <2>1, Distinct DEF Holding
  <2>3. Content[a] = queue[1] /\ Content'[a] = Tail(queue[1])
    BY <1>a, <1>h, <2>1 DEF Holding, TypeOK
  <2>4. Content[b] = <<>> /\ Content'[b] = <<m>>
    <3>1. /\ Content[b] = IF server = "send" THEN <<sendbuffer>> ELSE <<>>
          /\ Content'[b] = IF server' = "send" THEN <<sendbuffer'>> ELSE <<>>
      BY <1>h DEF Holding
    <3> QED
      BY <2>1, <3>1
  <2>5. \A d \in Clients : Content'[<<"parent", d>>] = Content[<<"parent", d>>]
    BY <1>i, <2>1
  <2>6. \A d \in Clients : Content'[<<"printed", d>>] = Content[<<"printed", d>>]
    BY <1>j, <2>1
  <2>7. \A t \in Types : <<"queue", t>> \notin {a, b} => Content'[<<"queue", t>>] = Content[<<"queue", t>>]
    BY <1>a, <1>h, <2>1 DEF Holding, TypeOK
  <2>8. Content[a] # <<>> /\ h = Head(Content[a])
    BY <2>1, <2>3
  <2>9. h \in Faithful
    BY <2>2, <2>8, FirstFaithful
  <2>10. m \in Faithful /\ m.line = h.line
    <3>1. /\ h \in Messages /\ h.line \in DOMAIN typed /\ h.dpid = typed[h.line].dpid
          /\ Starts(h.mtext, typed[h.line].mtext)
      BY <2>9 DEF Faithful
    <3>2. typed[h.line].mtext \in Texts /\ h.mtext \in Texts /\ sendbuffer.mtext \in Texts
      <4>1. typed[h.line] \in Messages /\ sendbuffer \in Messages
        BY <1>a, <3>1 DEF TypeOK
      <4> QED
        BY <3>1, <4>1 DEF Messages
    <3>3. /\ Starts(Copy(sendbuffer.mtext, h.mtext), typed[h.line].mtext)
          /\ Copy(sendbuffer.mtext, h.mtext) \in Texts
      BY <3>1, <3>2, CopyStarts, CopyType
    <3>4. /\ m \in Messages /\ m.line = h.line /\ m.dpid = h.dpid
          /\ m.mtext = Copy(sendbuffer.mtext, h.mtext)
      <4> HIDE DEF h
      <4> QED
        BY <3>1, <3>3 DEF Messages
    <3> HIDE DEF m, h
    <3> QED
      BY <3>1, <3>3, <3>4 DEF Faithful
  <2> HIDE DEF a, b, h, m
  <2>11. \A x \in Boxes : x # a /\ x # b => Content'[x] = Content[x]
    <3> SUFFICES ASSUME NEW x \in Boxes, x # a, x # b PROVE Content'[x] = Content[x]
      OBVIOUS
    <3>1. x # <<"server", 1>>
      BY DEF b
    <3> QED
      BY <2>5, <2>6, <2>7, <3>1, BoxKinds
  <2>12. Content'[a] = Tail(Content[a]) /\ Content'[b] = Append(Content[b], m)
    BY <2>3, <2>4
  <2> QED
    BY <1>b, <2>1, <2>2, <2>8, <2>10, <2>11, <2>12, Passed
<1>9. ASSUME ServerSend PROVE Placed'
  <2> DEFINE t0 == sendbuffer.dpid
             a == <<"server", 1>>
             b == <<"queue", t0>>
             m == sendbuffer
  <2>1. /\ server = "send" /\ server' = "recv"
        /\ queue' = [queue EXCEPT ![t0] = Append(@, m)]
        /\ UNCHANGED <<parent, buffer, received, typed, lost>>
    BY <1>9 DEF ServerSend
  <2>2. t0 \in Types
    <3>1. t0 \in Dests \cup {0} /\ t0 > 0
      BY <1>9, <1>a DEF ServerSend, TypeOK, Messages
    <3> QED
      BY <3>1, ClientTypes
  <2>3. a \in Boxes /\ b \in Boxes /\ a # b
    BY <1>h, <2>2, Distinct DEF Holding
  <2>4. Content[a] = <<m>> /\ Content'[a] = <<>>
    <3>1. /\ Content[a] = IF server = "send" THEN <<sendbuffer>> ELSE <<>>
          /\ Content'[a] = IF server' = "send" THEN <<sendbuffer'>> ELSE <<>>
      BY <1>h DEF Holding
    <3> QED
      BY <2>1, <3>1
  <2>5. \A d \in Clients : Content'[<<"parent", d>>] = Content[<<"parent", d>>]
    BY <1>i, <2>1
  <2>6. \A d \in Clients : Content'[<<"printed", d>>] = Content[<<"printed", d>>]
    BY <1>j, <2>1
  <2> HIDE DEF t0, m
  <2>7. /\ Content[b] = queue[t0] /\ Content'[b] = Append(queue[t0], m)
        /\ \A t \in Types : <<"queue", t>> \notin {a, b} => Content'[<<"queue", t>>] = Content[<<"queue", t>>]
    <3>1. \A t \in Types : Content[<<"queue", t>>] = queue[t] /\ Content'[<<"queue", t>>] = queue'[t]
      BY <1>h DEF Holding
    <3> QED
      BY <1>a, <2>1, <2>2, <3>1 DEF TypeOK
  <2>8. Content[a] # <<>> /\ m = Head(Content[a])
    BY <2>4
  <2> HIDE DEF a, b
  <2>9. \A x \in Boxes : x # a /\ x # b => Content'[x] = Content[x]
    <3> SUFFICES ASSUME NEW x \in Boxes, x # a, x # b PROVE Content'[x] = Content[x]
      OBVIOUS
    <3>1. x # <<"server", 1>>
      BY DEF a
    <3> QED
      BY <2>5, <2>6, <2>7, <3>1, BoxKinds
  <2>10. m \in Faithful
    BY <2>3, <2>8, FirstFaithful
  <2>11. Content'[a] = Tail(Content[a]) /\ Content'[b] = Append(Content[b], m)
    BY <2>4, <2>7
  <2> QED
    BY <1>b, <2>1, <2>3, <2>8, <2>9, <2>10, <2>11, Passed
<1>10. ASSUME ServerEnds, server = "send" PROVE Placed'
  <2> DEFINE a == <<"server", 1>>
  <2>1. /\ server = "send" /\ server' = "dead" /\ lost' = lost \cup {sendbuffer.line}
        /\ UNCHANGED <<queue, parent, buffer, received, typed>>
    BY <1>10 DEF ServerEnds
  <2>2. a \in Boxes
    BY <1>h DEF Holding
  <2>3. Content[a] = <<sendbuffer>> /\ Content'[a] = <<>>
    <3>1. /\ Content[a] = IF server = "send" THEN <<sendbuffer>> ELSE <<>>
          /\ Content'[a] = IF server' = "send" THEN <<sendbuffer'>> ELSE <<>>
      BY <1>h DEF Holding
    <3> QED
      BY <2>1, <3>1
  <2>4. ASSUME NEW x \in Boxes, x # a PROVE Content'[x] = Content[x]
    <3>1. \A t \in Types : Content'[<<"queue", t>>] = Content[<<"queue", t>>]
      BY <1>h, <2>1 DEF Holding
    <3> QED
      BY <1>i, <1>j, <2>1, <2>4, <3>1, BoxKinds
  <2>5. Content[a] # <<>> /\ Head(Content[a]) = sendbuffer /\ Content'[a] = Tail(Content[a])
    BY <2>3
  <2> HIDE DEF a
  <2>6. Content' = Without(Content, a)
    BY <1>b, <2>2, <2>4, <2>5 DEF Without
  <2> QED
    BY <2>1, <2>2, <2>5, <2>6, Dropped
<1>12. ASSUME ServerEnds, server # "send" PROVE Placed'
  <2>1. UNCHANGED <<queue, received, typed, lost, parent, buffer>> /\ server' # "send"
    BY <1>12 DEF ServerEnds
  <2> QED
    BY <1>c, <1>12, <2>1
<1>11. ASSUME NEW c \in Clients, NEW n \in 0..MaxLength, TypeLine(c, n) PROVE Placed'
  <2> DEFINE b == <<"parent", c>>
             k == Len(typed) + 1
             text == [i \in 1..MAXSIZE |-> IF i <= n THEN k ELSE NUL]
             m == [buffer[c] EXCEPT !.line = k, !.mtext = text]
             t == [dpid |-> buffer[c].dpid, spid |-> c, line |-> k, mtext |-> text]
  <2>0. k \in Nat /\ n \in Nat /\ typed \in Seq(Messages)
    BY <1>a, MaxSizeAssumption, MaxLengthAssumption DEF TypeOK
  <2>1. text \in Texts
    BY <2>0, FreshTypes
  <2>2. /\ parent[c] = "input" /\ parent' = [parent EXCEPT ![c] = "send"]
        /\ buffer' = [buffer EXCEPT ![c] = m]
        /\ typed' = Append(typed, t)
        /\ UNCHANGED <<queue, server, sendbuffer, received, lost>>
    <3>1. buffer' = [buffer EXCEPT ![c].line = k, ![c].mtext = text]
      BY <1>11 DEF TypeLine
    <3> HIDE DEF k, text
    <3>2. buffer' = [buffer EXCEPT ![c] = m]
      BY <3>1
    <3> QED
      BY <1>11, <3>2 DEF TypeLine, k, text
  <2> HIDE DEF text, k
  <2>3. m \in Messages /\ t \in Messages /\ m.line = k /\ t.dpid = m.dpid /\ t.mtext = m.mtext
    BY <1>a, <2>0, <2>1 DEF TypeOK, Messages
  <2> HIDE DEF m, t
  <2>4. b \in Boxes
    BY <1>h DEF Holding
  <2>5. Content[b] = <<>> /\ Content'[b] = <<m>>
    <3>1. /\ Content[b] = IF parent[c] = "send" THEN <<buffer[c]>> ELSE <<>>
          /\ Content'[b] = IF parent'[c] = "send" THEN <<buffer'[c]>> ELSE <<>>
      BY <1>h DEF Holding
    <3>2. parent'[c] = "send" /\ buffer'[c] = m
      BY <1>a, <2>2 DEF TypeOK
    <3> QED
      BY <2>2, <3>1, <3>2
  <2>6. ASSUME NEW d \in Clients, d # c PROVE Content'[<<"parent", d>>] = Content[<<"parent", d>>]
    <3>1. /\ Content[<<"parent", d>>] = IF parent[d] = "send" THEN <<buffer[d]>> ELSE <<>>
          /\ Content'[<<"parent", d>>] = IF parent'[d] = "send" THEN <<buffer'[d]>> ELSE <<>>
      BY <1>h DEF Holding
    <3>2. parent'[d] = parent[d] /\ buffer'[d] = buffer[d]
      BY <1>a, <2>2, <2>6 DEF TypeOK
    <3> QED
      BY <3>1, <3>2
  <2>7. ASSUME NEW x \in Boxes, x # b PROVE Content'[x] = Content[x]
    <3>1. \A u \in Types : Content'[<<"queue", u>>] = Content[<<"queue", u>>]
      BY <1>k, <2>2
    <3>2. Content'[<<"server", 1>>] = Content[<<"server", 1>>]
      BY <1>l, <2>2
    <3>3. \A d \in Clients : Content'[<<"printed", d>>] = Content[<<"printed", d>>]
      BY <1>j, <2>2
    <3>4. CASE \E d \in Clients : x = <<"parent", d>>
      BY <2>6, <2>7, <3>4 DEF b
    <3>5. CASE \E d \in Clients : x = <<"printed", d>>
      BY <3>3, <3>5
    <3> QED
      BY <3>1, <3>2, <3>4, <3>5, BoxKinds
  <2>8. Content'[b] = Append(Content[b], m)
    BY <2>5
  <2> HIDE DEF b
  <2>9. Content' = With(Content, b, m)
    BY <1>b, <2>4, <2>7, <2>8 DEF With
  <2> QED
    BY <2>0, <2>2, <2>3, <2>4, <2>9, Added DEF k
<1> QED
  BY <1>1, <1>2, <1>3, <1>4, <1>5, <1>6, <1>7, <1>8, <1>9, <1>10, <1>11, <1>12
  DEF Next, ServerFail, ServerKilled

LEMMA PlacedInvariance == Spec => []Placed
<1>1. IInv /\ Placed /\ [Next]_vars => Placed'
  BY StepPlaced
<1> QED
  BY InitPlaced, Invariance, <1>1, PTL DEF Spec

\* The text of a line is printed undamaged at the beginning of a message,
\* although the server's copy() leaves what it finds behind it (the client's
\* and the server's buffers, copy(), mtext[0] = '\0').
THEOREM TextArrives == Spec => []TextPrefix
<1>1. TypeOK /\ Placed => TextPrefix
  <2> SUFFICES ASSUME TypeOK, Placed, NEW c \in Clients, NEW i \in DOMAIN received[c],
                      NEW j \in 1..Strlen(typed[received[c][i].line].mtext)
               PROVE  received[c][i].mtext[j] = typed[received[c][i].line].mtext[j]
    BY DEF TextPrefix
  <2>1. <<"printed", c>> \in Boxes /\ Content[<<"printed", c>>] = received[c]
    BY Contents DEF Holding
  <2>2. received[c] \in Seq(Faithful)
    BY <2>1 DEF Placed
  <2>3. received[c][i] \in Faithful
    BY <2>2
  <2> QED
    BY <2>3 DEF Faithful, Starts
<1> QED
  BY <1>1, TypeCorrect, PlacedInvariance, PTL

\* No line is lost or printed twice, for any clients and any capacity, however
\* the msgsnd and msgrcv calls of all processes interleave and however often
\* the server ends and is started again: only the line it has in hand then,
\* between its msgrcv and its msgsnd, is lost, and that line stays lost.
THEOREM NothingLost == Spec => []ExactlyOnce
<1>1. TypeOK /\ Placed => ExactlyOnce
  <2> SUFFICES ASSUME TypeOK, Placed, NEW k \in DOMAIN typed
               PROVE  IF k \in lost THEN Copies(k) = {} ELSE Cardinality(Copies(k)) = 1
    BY DEF ExactlyOnce
  <2>1. DOMAIN Content = Boxes
    BY DEF Content
  <2>2. \A p : p \in Copies(k) <=>
              \E b \in Boxes : \E i \in DOMAIN Content[b] : p = <<b, i>> /\ Content[b][i].line = k
    BY DEF Copies
  <2>3. CASE Somewhere(Content, k)
    <3>1. PICK b \in Boxes : \E i \in DOMAIN Content[b] : Content[b][i].line = k
      BY <2>1, <2>3 DEF Somewhere
    <3>2. PICK i \in DOMAIN Content[b] : Content[b][i].line = k
      BY <3>1
    <3>3. \A p : p \in Copies(k) <=> p = <<b, i>>
      BY <2>1, <2>2, <3>2 DEF Placed, Single
    <3>4. Copies(k) = {<<b, i>>}
      BY <3>3
    <3>5. k \notin lost
      BY <2>3 DEF Placed
    <3> QED
      BY <3>4, <3>5, FS_Singleton
  <2>4. CASE ~Somewhere(Content, k)
    <3>1. k \in lost
      BY <2>4 DEF Placed
    <3>2. \A p : p \notin Copies(k)
      BY <2>1, <2>2, <2>4 DEF Somewhere
    <3> QED
      BY <3>1, <3>2
  <2> QED
    BY <2>3, <2>4
<1> QED
  BY <1>1, TypeCorrect, PlacedInvariance, PTL

-----------------------------------------------------------------------------
(***************************************************************************)
(* The relay keeps its promise: MsgqRelay implements RelayPromise, for any *)
(* clients, destinations and capacity.  What is on its way to a client are *)
(* three sequences, and a step of the relay takes a message out at the     *)
(* head of one and puts it at the end of the next.                         *)
(***************************************************************************)

Parts == 1..3

\* The lines for client c in the parts below s, and in the others.
Lower(F, c, s) == {LineAt(F, p) : p \in {p \in PlacesFor(F, c) : p[1] < s}}
Upper(F, c, s) == {LineAt(F, p) : p \in {p \in PlacesFor(F, c) : p[1] >= s}}

\* Line l's pairs when it stands between these.
Between(F, c, s, l) == (Lower(F, c, s) \X {l}) \cup ({l} \X Upper(F, c, s))

\* Parts F and G hold the same lines for client c, in the same order.
Alike(F, G, c) == Waiting(G, c) = Waiting(F, c) /\ Ahead(G, c) = Ahead(F, c)

\* For client c, parts G hold what parts F hold and message m between the
\* parts below s and the others.
Adds(F, G, c, s, m) ==
    /\ m.dpid = c => /\ Waiting(G, c) = Waiting(F, c) \cup {m.line}
                     /\ Ahead(G, c) = Ahead(F, c) \cup Between(F, c, s, m.line)
    /\ m.dpid # c => Waiting(G, c) = Waiting(F, c) /\ Ahead(G, c) = Ahead(F, c)

-----------------------------------------------------------------------------
\* The sets in terms of parts and indices

LEMMA PlaceIs ==
    ASSUME NEW F, NEW c, NEW t \in Parts, NEW i \in DOMAIN F[t], F[t][i].dpid = c
    PROVE  <<t, i>> \in PlacesFor(F, c) /\ LineAt(F, <<t, i>>) = F[t][i].line
BY DEF PlacesFor, LineAt, Parts

LEMMA IsPlace ==
    ASSUME NEW F, NEW c, NEW p \in PlacesFor(F, c)
    PROVE  /\ p = <<p[1], p[2]>> /\ p[1] \in Parts /\ p[2] \in DOMAIN F[p[1]]
           /\ F[p[1]][p[2]].dpid = c /\ LineAt(F, p) = F[p[1]][p[2]].line
BY DEF PlacesFor, LineAt, Parts

LEMMA WaitingIs ==
    ASSUME NEW F, NEW c, NEW k
    PROVE  k \in Waiting(F, c) <=>
               \E t \in Parts : \E i \in DOMAIN F[t] : F[t][i].dpid = c /\ F[t][i].line = k
<1>1. ASSUME NEW t \in Parts, NEW i \in DOMAIN F[t], F[t][i].dpid = c, F[t][i].line = k
      PROVE  k \in Waiting(F, c)
  <2>1. <<t, i>> \in PlacesFor(F, c) /\ LineAt(F, <<t, i>>) = k
    BY <1>1, PlaceIs
  <2> QED
    BY <2>1 DEF Waiting
<1>2. ASSUME k \in Waiting(F, c)
      PROVE  \E t \in Parts : \E i \in DOMAIN F[t] : F[t][i].dpid = c /\ F[t][i].line = k
  <2>1. PICK p \in PlacesFor(F, c) : k = LineAt(F, p)
    BY <1>2 DEF Waiting
  <2> QED
    BY <2>1, IsPlace
<1> QED
  BY <1>1, <1>2

LEMMA BoundsIs ==
    ASSUME NEW F, NEW c, NEW s, NEW k
    PROVE  /\ k \in Lower(F, c, s) <=>
                 \E t \in Parts : \E i \in DOMAIN F[t] :
                     t < s /\ F[t][i].dpid = c /\ F[t][i].line = k
           /\ k \in Upper(F, c, s) <=>
                 \E t \in Parts : \E i \in DOMAIN F[t] :
                     t >= s /\ F[t][i].dpid = c /\ F[t][i].line = k
<1>1. ASSUME NEW t \in Parts, NEW i \in DOMAIN F[t], F[t][i].dpid = c, F[t][i].line = k
      PROVE  /\ t < s => k \in Lower(F, c, s)
             /\ t >= s => k \in Upper(F, c, s)
  <2>1. <<t, i>> \in PlacesFor(F, c) /\ LineAt(F, <<t, i>>) = k /\ <<t, i>>[1] = t
    BY <1>1, PlaceIs
  <2> QED
    BY <2>1 DEF Lower, Upper
<1>2. ASSUME k \in Lower(F, c, s)
      PROVE  \E t \in Parts : \E i \in DOMAIN F[t] : t < s /\ F[t][i].dpid = c /\ F[t][i].line = k
  <2>1. PICK p \in PlacesFor(F, c) : p[1] < s /\ k = LineAt(F, p)
    BY <1>2 DEF Lower
  <2> QED
    BY <2>1, IsPlace
<1>3. ASSUME k \in Upper(F, c, s)
      PROVE  \E t \in Parts : \E i \in DOMAIN F[t] : t >= s /\ F[t][i].dpid = c /\ F[t][i].line = k
  <2>1. PICK p \in PlacesFor(F, c) : p[1] >= s /\ k = LineAt(F, p)
    BY <1>3 DEF Upper
  <2> QED
    BY <2>1, IsPlace
<1> QED
  BY <1>1, <1>2, <1>3

\* The message at j of part u was posted after the one at i of part t.
Later(t, i, u, j) == t < u \/ (t = u /\ i < j)

LEMMA AheadOf ==
    ASSUME NEW F, NEW c, NEW t \in Parts, NEW u \in Parts,
           NEW i \in DOMAIN F[t], NEW j \in DOMAIN F[u],
           F[t][i].dpid = c, F[u][j].dpid = c, Later(t, i, u, j)
    PROVE  <<F[t][i].line, F[u][j].line>> \in Ahead(F, c)
<1> DEFINE p == <<t, i>>
           q == <<u, j>>
           x == <<p, q>>
<1>1. /\ p \in PlacesFor(F, c) /\ LineAt(F, p) = F[t][i].line
      /\ q \in PlacesFor(F, c) /\ LineAt(F, q) = F[u][j].line
  BY PlaceIs
<1>2. Before(p, q)
  BY DEF Before, Later
<1> HIDE DEF p, q
<1>3. x \in PlacesFor(F, c) \X PlacesFor(F, c) /\ x[1] = p /\ x[2] = q
  BY <1>1
<1> HIDE DEF x
<1>4. x \in {y \in PlacesFor(F, c) \X PlacesFor(F, c) : Before(y[1], y[2])}
  BY <1>2, <1>3
<1>5. <<LineAt(F, x[1]), LineAt(F, x[2])>> \in Ahead(F, c)
  BY <1>4 DEF Ahead
<1> QED
  BY <1>1, <1>3, <1>5

LEMMA AheadIs ==
    ASSUME NEW F, NEW c, NEW y \in Ahead(F, c)
    PROVE  \E t \in Parts, u \in Parts : \E i \in DOMAIN F[t], j \in DOMAIN F[u] :
               /\ F[t][i].dpid = c /\ F[u][j].dpid = c /\ Later(t, i, u, j)
               /\ y = <<F[t][i].line, F[u][j].line>>
<1>1. PICK x \in {z \in PlacesFor(F, c) \X PlacesFor(F, c) : Before(z[1], z[2])} :
        y = <<LineAt(F, x[1]), LineAt(F, x[2])>>
  BY DEF Ahead
<1> DEFINE p == x[1]
           q == x[2]
<1>2. p \in PlacesFor(F, c) /\ q \in PlacesFor(F, c) /\ Before(p, q)
  BY <1>1
<1> HIDE DEF p, q
<1>3. /\ p[1] \in Parts /\ p[2] \in DOMAIN F[p[1]]
      /\ F[p[1]][p[2]].dpid = c /\ LineAt(F, p) = F[p[1]][p[2]].line
      /\ q[1] \in Parts /\ q[2] \in DOMAIN F[q[1]]
      /\ F[q[1]][q[2]].dpid = c /\ LineAt(F, q) = F[q[1]][q[2]].line
  BY <1>2, IsPlace
<1>4. Later(p[1], p[2], q[1], q[2])
  BY <1>2 DEF Before, Later
<1>5. y = <<LineAt(F, p), LineAt(F, q)>>
  BY <1>1 DEF p, q
<1> QED
  BY <1>3, <1>4, <1>5

-----------------------------------------------------------------------------
\* What is taken out and put in

\* Nothing but a line at the head of a part leaves.
LEMMA TakenFor ==
    ASSUME NEW M, NEW F \in [Parts -> Seq(M)], NEW c, NEW s \in Parts, F[s] # <<>>
    PROVE  Adds(Without(F, s), F, c, s, Head(F[s]))
<1> DEFINE G == Without(F, s)
           h == Head(F[s])
<1>1. 1 \in DOMAIN F[s] /\ F[s][1] = h
  BY HeadIsFirst, Zenon
<1>2. ASSUME NEW t \in Parts, NEW i \in DOMAIN G[t]
      PROVE  /\ i \in Nat \ {0} /\ i + Shift(s, t) \in DOMAIN F[t]
             /\ G[t][i] = F[t][i + Shift(s, t)]
  BY Shifted
<1>3. ASSUME NEW t \in Parts, NEW i \in DOMAIN F[t]
      PROVE  \/ t = s /\ i = 1 /\ F[t][i] = h
             \/ /\ i \in Nat \ {0} /\ i - Shift(s, t) \in DOMAIN G[t]
                /\ G[t][i - Shift(s, t)] = F[t][i]
  BY Shifted
<1> HIDE DEF G, h
<1>4. Waiting(G, c) \subseteq Waiting(F, c)
  <2> SUFFICES ASSUME NEW k \in Waiting(G, c) PROVE k \in Waiting(F, c)
    OBVIOUS
  <2>1. PICK t \in Parts : \E i \in DOMAIN G[t] : G[t][i].dpid = c /\ G[t][i].line = k
    BY WaitingIs
  <2>2. PICK i \in DOMAIN G[t] : G[t][i].dpid = c /\ G[t][i].line = k
    BY <2>1
  <2>3. PICK j \in DOMAIN F[t] : F[t][j].dpid = c /\ F[t][j].line = k
    BY <1>2, <2>2
  <2> QED
    BY <2>3, WaitingIs
<1>5. ASSUME NEW k \in Waiting(F, c) PROVE k \in Waiting(G, c) \/ (h.dpid = c /\ k = h.line)
  <2>1. PICK t \in Parts : \E i \in DOMAIN F[t] : F[t][i].dpid = c /\ F[t][i].line = k
    BY WaitingIs
  <2>2. PICK i \in DOMAIN F[t] : F[t][i].dpid = c /\ F[t][i].line = k
    BY <2>1
  <2>3. CASE t = s /\ i = 1 /\ F[t][i] = h
    BY <2>2, <2>3
  <2>4. CASE i - Shift(s, t) \in DOMAIN G[t] /\ G[t][i - Shift(s, t)] = F[t][i]
    <3> DEFINE i1 == i - Shift(s, t)
    <3>1. i1 \in DOMAIN G[t] /\ G[t][i1].dpid = c /\ G[t][i1].line = k
      BY <2>2, <2>4
    <3> HIDE DEF i1
    <3> QED
      BY <3>1, WaitingIs
  <2> QED
    BY <1>3, <2>3, <2>4
<1>6. Ahead(G, c) \subseteq Ahead(F, c)
  <2> SUFFICES ASSUME NEW y \in Ahead(G, c) PROVE y \in Ahead(F, c)
    OBVIOUS
  <2>1. PICK t \in Parts, u \in Parts : \E i \in DOMAIN G[t], j \in DOMAIN G[u] :
               /\ G[t][i].dpid = c /\ G[u][j].dpid = c /\ Later(t, i, u, j)
               /\ y = <<G[t][i].line, G[u][j].line>>
    BY AheadIs
  <2>2. PICK i \in DOMAIN G[t], j \in DOMAIN G[u] :
               /\ G[t][i].dpid = c /\ G[u][j].dpid = c /\ Later(t, i, u, j)
               /\ y = <<G[t][i].line, G[u][j].line>>
    BY <2>1
  <2> DEFINE i1 == i + Shift(s, t)
             j1 == j + Shift(s, u)
  <2>3. i1 \in DOMAIN F[t] /\ G[t][i] = F[t][i1] /\ j1 \in DOMAIN F[u] /\ G[u][j] = F[u][j1]
    BY <1>2
  <2>4. Later(t, i1, u, j1)
    BY <1>2, <2>2 DEF Later, Shift
  <2> HIDE DEF i1, j1
  <2>5. <<F[t][i1].line, F[u][j1].line>> \in Ahead(F, c)
    BY <2>2, <2>3, <2>4, AheadOf
  <2> QED
    BY <2>2, <2>3, <2>5
<1>7. ASSUME NEW y \in Ahead(F, c)
      PROVE  \/ y \in Ahead(G, c)
             \/ (h.dpid = c /\ y \in {h.line} \X Upper(G, c, s))
             \/ (h.dpid = c /\ y \in Lower(G, c, s) \X {h.line})
  <2>1. PICK t \in Parts, u \in Parts : \E i \in DOMAIN F[t], j \in DOMAIN F[u] :
               /\ F[t][i].dpid = c /\ F[u][j].dpid = c /\ Later(t, i, u, j)
               /\ y = <<F[t][i].line, F[u][j].line>>
    BY AheadIs
  <2>2. PICK i \in DOMAIN F[t], j \in DOMAIN F[u] :
               /\ F[t][i].dpid = c /\ F[u][j].dpid = c /\ Later(t, i, u, j)
               /\ y = <<F[t][i].line, F[u][j].line>>
    BY <2>1
  <2> DEFINE i1 == i - Shift(s, t)
             j1 == j - Shift(s, u)
             First(v, k) == v = s /\ k = 1 /\ F[v][k] = h
  <2>3. /\ First(t, i) \/ (i \in Nat \ {0} /\ i1 \in DOMAIN G[t] /\ G[t][i1] = F[t][i])
        /\ First(u, j) \/ (j \in Nat \ {0} /\ j1 \in DOMAIN G[u] /\ G[u][j1] = F[u][j])
    BY <1>3
  <2>4. CASE First(t, i) /\ ~First(u, j)
    <3>1. u >= s
      BY <2>2, <2>4 DEF Later, Parts
    <3>2. F[u][j].line \in Upper(G, c, s)
      <4>1. j1 \in DOMAIN G[u] /\ G[u][j1].dpid = c /\ G[u][j1].line = F[u][j].line
        BY <2>2, <2>3, <2>4
      <4> HIDE DEF j1
      <4> QED
        BY <3>1, <4>1, BoundsIs
    <3> QED
      BY <2>2, <2>4, <3>2
  <2>5. CASE First(u, j) /\ ~First(t, i)
    <3>1. t < s
      <4>1. t # s
        <5> SUFFICES ASSUME t = s PROVE FALSE
          OBVIOUS
        <5>1. i \in Nat \ {0} /\ i < 1
          BY <2>2, <2>3, <2>5 DEF Later, Parts
        <5> QED
          BY <5>1
      <4> QED
        BY <2>2, <2>5, <4>1 DEF Later
    <3>2. F[t][i].line \in Lower(G, c, s)
      <4>1. i1 \in DOMAIN G[t] /\ G[t][i1].dpid = c /\ G[t][i1].line = F[t][i].line
        BY <2>2, <2>3, <2>5
      <4> HIDE DEF i1
      <4> QED
        BY <3>1, <4>1, BoundsIs
    <3> QED
      BY <2>2, <2>5, <3>2
  <2>6. CASE ~First(t, i) /\ ~First(u, j)
    <3>1. /\ i1 \in DOMAIN G[t] /\ G[t][i1] = F[t][i]
          /\ j1 \in DOMAIN G[u] /\ G[u][j1] = F[u][j]
          /\ i \in Nat /\ j \in Nat
      BY <2>3, <2>6
    <3>2. Later(t, i1, u, j1)
      BY <2>2, <3>1 DEF Later, Shift
    <3> HIDE DEF i1, j1
    <3>3. <<G[t][i1].line, G[u][j1].line>> \in Ahead(G, c)
      BY <2>2, <3>1, <3>2, AheadOf
    <3> QED
      BY <2>2, <3>1, <3>3
  <2>7. CASE First(t, i) /\ First(u, j)
    BY <2>2, <2>7 DEF Later, Parts
  <2> QED
    BY <2>4, <2>5, <2>6, <2>7
<1>8. ASSUME h.dpid = c PROVE h.line \in Waiting(F, c)
  BY <1>1, <1>8, WaitingIs
<1>9. ASSUME h.dpid = c, NEW k \in Upper(G, c, s) PROVE <<h.line, k>> \in Ahead(F, c)
  <2>1. PICK u \in Parts : \E j \in DOMAIN G[u] : u >= s /\ G[u][j].dpid = c /\ G[u][j].line = k
    BY BoundsIs
  <2>2. PICK j \in DOMAIN G[u] : u >= s /\ G[u][j].dpid = c /\ G[u][j].line = k
    BY <2>1
  <2> DEFINE j1 == j + Shift(s, u)
  <2>3. j1 \in DOMAIN F[u] /\ G[u][j] = F[u][j1]
    BY <1>2
  <2>4. Later(s, 1, u, j1)
    BY <1>2, <2>2 DEF Later, Parts, Shift
  <2> HIDE DEF j1
  <2>5. <<F[s][1].line, F[u][j1].line>> \in Ahead(F, c)
    BY <1>1, <1>9, <2>2, <2>3, <2>4, AheadOf
  <2> QED
    BY <1>1, <2>2, <2>3, <2>5
<1>10. ASSUME h.dpid = c, NEW k \in Lower(G, c, s) PROVE <<k, h.line>> \in Ahead(F, c)
  <2>1. PICK u \in Parts : \E j \in DOMAIN G[u] : u < s /\ G[u][j].dpid = c /\ G[u][j].line = k
    BY BoundsIs
  <2>2. PICK j \in DOMAIN G[u] : u < s /\ G[u][j].dpid = c /\ G[u][j].line = k
    BY <2>1
  <2> DEFINE j1 == j + Shift(s, u)
  <2>3. j1 \in DOMAIN F[u] /\ G[u][j] = F[u][j1]
    BY <1>2
  <2>4. Later(u, j1, s, 1)
    BY <2>2 DEF Later
  <2> HIDE DEF j1
  <2>5. <<F[u][j1].line, F[s][1].line>> \in Ahead(F, c)
    BY <1>1, <1>10, <2>2, <2>3, <2>4, AheadOf
  <2> QED
    BY <1>1, <2>2, <2>3, <2>5
<1>11. CASE h.dpid = c
  <2>1. Waiting(F, c) = Waiting(G, c) \cup {h.line}
    BY <1>4, <1>5, <1>8, <1>11
  <2>2. Ahead(F, c) = Ahead(G, c) \cup Between(G, c, s, h.line)
    BY <1>6, <1>7, <1>9, <1>10, <1>11 DEF Between
  <2> QED
    BY <1>11, <2>1, <2>2 DEF G, h, Adds
<1>12. CASE h.dpid # c
  <2>1. Waiting(F, c) = Waiting(G, c) /\ Ahead(F, c) = Ahead(G, c)
    BY <1>4, <1>5, <1>6, <1>7, <1>12
  <2> QED
    BY <1>12, <2>1 DEF G, h, Adds
<1> QED
  BY <1>11, <1>12

\* A message put at the end of part s comes after what is in the parts up to
\* s and before what is in the others.
LEMMA PutFor ==
    ASSUME NEW M, NEW F \in [Parts -> Seq(M)], NEW c, NEW s \in Parts, NEW m
    PROVE  Adds(F, With(F, s, m), c, s + 1, m)
<1> DEFINE G == With(F, s, m)
           n == Len(F[s]) + 1
<1>1. n \in DOMAIN G[s] /\ G[s][n] = m
  <2>1. G[s] = Append(F[s], m) /\ F[s] \in Seq(M)
    BY DEF With
  <2> QED
    BY <2>1
<1>2. ASSUME NEW t \in Parts, NEW i \in DOMAIN F[t]
      PROVE  i \in DOMAIN G[t] /\ G[t][i] = F[t][i]
  BY Appended
<1>3. ASSUME NEW t \in Parts, NEW i \in DOMAIN G[t]
      PROVE  \/ i \in DOMAIN F[t] /\ G[t][i] = F[t][i]
             \/ t = s /\ i = n /\ G[t][i] = m
  BY Appended
<1>4. \A i \in DOMAIN F[s] : i < n
  <2>1. F[s] \in Seq(M)
    OBVIOUS
  <2> QED
    BY <2>1
<1>5. n \in Nat /\ \A t \in Parts : DOMAIN F[t] \subseteq Nat
  <2>1. \A t \in Parts : F[t] \in Seq(M)
    OBVIOUS
  <2> QED
    BY <2>1
<1> HIDE DEF G, n
<1>6. Waiting(F, c) \subseteq Waiting(G, c)
  <2> SUFFICES ASSUME NEW k \in Waiting(F, c) PROVE k \in Waiting(G, c)
    OBVIOUS
  <2>1. PICK t \in Parts : \E i \in DOMAIN F[t] : F[t][i].dpid = c /\ F[t][i].line = k
    BY WaitingIs
  <2>2. PICK i \in DOMAIN F[t] : F[t][i].dpid = c /\ F[t][i].line = k
    BY <2>1
  <2>3. i \in DOMAIN G[t] /\ G[t][i].dpid = c /\ G[t][i].line = k
    BY <1>2, <2>2
  <2> QED
    BY <2>3, WaitingIs
<1>7. ASSUME NEW k \in Waiting(G, c) PROVE k \in Waiting(F, c) \/ (m.dpid = c /\ k = m.line)
  <2>1. PICK t \in Parts : \E i \in DOMAIN G[t] : G[t][i].dpid = c /\ G[t][i].line = k
    BY WaitingIs
  <2>2. PICK i \in DOMAIN G[t] : G[t][i].dpid = c /\ G[t][i].line = k
    BY <2>1
  <2>3. CASE G[t][i] = m
    BY <2>2, <2>3
  <2>4. CASE i \in DOMAIN F[t] /\ G[t][i] = F[t][i]
    <3>1. F[t][i].dpid = c /\ F[t][i].line = k
      BY <2>2, <2>4
    <3>2. k \in Waiting(F, c)
      BY <2>4, <3>1, WaitingIs
    <3> QED
      BY <3>2
  <2> QED
    BY <1>3, <2>3, <2>4
<1>8. Ahead(F, c) \subseteq Ahead(G, c)
  <2> SUFFICES ASSUME NEW y \in Ahead(F, c) PROVE y \in Ahead(G, c)
    OBVIOUS
  <2>1. PICK t \in Parts, u \in Parts : \E i \in DOMAIN F[t], j \in DOMAIN F[u] :
               /\ F[t][i].dpid = c /\ F[u][j].dpid = c /\ Later(t, i, u, j)
               /\ y = <<F[t][i].line, F[u][j].line>>
    BY AheadIs
  <2>2. PICK i \in DOMAIN F[t], j \in DOMAIN F[u] :
               /\ F[t][i].dpid = c /\ F[u][j].dpid = c /\ Later(t, i, u, j)
               /\ y = <<F[t][i].line, F[u][j].line>>
    BY <2>1
  <2>3. i \in DOMAIN G[t] /\ G[t][i] = F[t][i] /\ j \in DOMAIN G[u] /\ G[u][j] = F[u][j]
    BY <1>2
  <2>4. <<G[t][i].line, G[u][j].line>> \in Ahead(G, c)
    BY <2>2, <2>3, AheadOf
  <2> QED
    BY <2>2, <2>3, <2>4
<1>9. ASSUME NEW y \in Ahead(G, c)
      PROVE  \/ y \in Ahead(F, c)
             \/ (m.dpid = c /\ y \in {m.line} \X Upper(F, c, s + 1))
             \/ (m.dpid = c /\ y \in Lower(F, c, s + 1) \X {m.line})
  <2>1. PICK t \in Parts, u \in Parts : \E i \in DOMAIN G[t], j \in DOMAIN G[u] :
               /\ G[t][i].dpid = c /\ G[u][j].dpid = c /\ Later(t, i, u, j)
               /\ y = <<G[t][i].line, G[u][j].line>>
    BY AheadIs
  <2>2. PICK i \in DOMAIN G[t], j \in DOMAIN G[u] :
               /\ G[t][i].dpid = c /\ G[u][j].dpid = c /\ Later(t, i, u, j)
               /\ y = <<G[t][i].line, G[u][j].line>>
    BY <2>1
  <2> DEFINE Old(v, k) == k \in DOMAIN F[v] /\ G[v][k] = F[v][k]
             Last(v, k) == v = s /\ k = n /\ G[v][k] = m
  <2>3. /\ Old(t, i) \/ Last(t, i)
        /\ Old(u, j) \/ Last(u, j)
    BY <1>3
  <2>4. CASE Last(t, i) /\ Old(u, j)
    <3>1. u >= s + 1
      <4>1. j < n \/ u # s
        BY <1>4, <2>4
      <4>2. j \in Nat
        BY <1>5, <2>4
      <4>3. t < u \/ (t = u /\ i < j)
        BY <2>2 DEF Later
      <4> QED
        BY <1>5, <2>4, <4>1, <4>2, <4>3 DEF Parts
    <3>2. F[u][j].line \in Upper(F, c, s + 1)
      BY <2>2, <2>4, <3>1, BoundsIs
    <3> QED
      BY <2>2, <2>4, <3>2
  <2>5. CASE Last(u, j) /\ Old(t, i)
    <3>1. t < s + 1
      BY <2>2, <2>5 DEF Later, Parts
    <3>2. F[t][i].line \in Lower(F, c, s + 1)
      BY <2>2, <2>5, <3>1, BoundsIs
    <3> QED
      BY <2>2, <2>5, <3>2
  <2>6. CASE Old(t, i) /\ Old(u, j)
    <3>1. <<F[t][i].line, F[u][j].line>> \in Ahead(F, c)
      BY <2>2, <2>6, AheadOf
    <3> QED
      BY <2>2, <2>6, <3>1
  <2>7. CASE Last(t, i) /\ Last(u, j)
    BY <1>5, <2>2, <2>7 DEF Later, Parts
  <2> QED
    BY <2>3, <2>4, <2>5, <2>6, <2>7
<1>10. ASSUME m.dpid = c PROVE m.line \in Waiting(G, c)
  BY <1>1, <1>10, WaitingIs
<1>11. ASSUME m.dpid = c, NEW k \in Upper(F, c, s + 1) PROVE <<m.line, k>> \in Ahead(G, c)
  <2>1. PICK u \in Parts : \E j \in DOMAIN F[u] : u >= s + 1 /\ F[u][j].dpid = c /\ F[u][j].line = k
    BY BoundsIs
  <2>2. PICK j \in DOMAIN F[u] : u >= s + 1 /\ F[u][j].dpid = c /\ F[u][j].line = k
    BY <2>1
  <2>3. j \in DOMAIN G[u] /\ G[u][j] = F[u][j]
    BY <1>2
  <2>4. Later(s, n, u, j)
    BY <2>2 DEF Later, Parts
  <2>5. <<G[s][n].line, G[u][j].line>> \in Ahead(G, c)
    BY <1>1, <1>11, <2>2, <2>3, <2>4, AheadOf
  <2> QED
    BY <1>1, <2>2, <2>3, <2>5
<1>12. ASSUME m.dpid = c, NEW k \in Lower(F, c, s + 1) PROVE <<k, m.line>> \in Ahead(G, c)
  <2>1. PICK u \in Parts : \E j \in DOMAIN F[u] : u < s + 1 /\ F[u][j].dpid = c /\ F[u][j].line = k
    BY BoundsIs
  <2>2. PICK j \in DOMAIN F[u] : u < s + 1 /\ F[u][j].dpid = c /\ F[u][j].line = k
    BY <2>1
  <2>3. j \in DOMAIN G[u] /\ G[u][j] = F[u][j]
    BY <1>2
  <2>4. Later(u, j, s, n)
    BY <1>4, <2>2 DEF Later, Parts
  <2>5. <<G[u][j].line, G[s][n].line>> \in Ahead(G, c)
    BY <1>1, <1>12, <2>2, <2>3, <2>4, AheadOf
  <2> QED
    BY <1>1, <2>2, <2>3, <2>5
<1>13. CASE m.dpid = c
  <2>1. Waiting(G, c) = Waiting(F, c) \cup {m.line}
    BY <1>6, <1>7, <1>10, <1>13
  <2>2. Ahead(G, c) = Ahead(F, c) \cup Between(F, c, s + 1, m.line)
    BY <1>8, <1>9, <1>11, <1>12, <1>13 DEF Between
  <2> QED
    BY <1>13, <2>1, <2>2 DEF G, Adds
<1>14. CASE m.dpid # c
  <2>1. Waiting(G, c) = Waiting(F, c) /\ Ahead(G, c) = Ahead(F, c)
    BY <1>6, <1>7, <1>8, <1>9, <1>14
  <2> QED
    BY <1>14, <2>1 DEF G, Adds
<1> QED
  BY <1>13, <1>14


\* Lines that are in order are waiting; below the first part and above the
\* last there is none.
LEMMA Within ==
    ASSUME NEW F, NEW c
    PROVE  /\ \A x \in Ahead(F, c) :
                 x = <<x[1], x[2]>> /\ x[1] \in Waiting(F, c) /\ x[2] \in Waiting(F, c)
           /\ \A s : Lower(F, c, s) \subseteq Waiting(F, c) /\ Upper(F, c, s) \subseteq Waiting(F, c)
           /\ Lower(F, c, 1) = {}
           /\ Lower(F, c, 4) = Waiting(F, c) /\ Upper(F, c, 4) = {}
<1>1. ASSUME NEW x \in Ahead(F, c)
      PROVE  x = <<x[1], x[2]>> /\ x[1] \in Waiting(F, c) /\ x[2] \in Waiting(F, c)
  BY DEF Ahead, Waiting
<1>2. ASSUME NEW s
      PROVE  Lower(F, c, s) \subseteq Waiting(F, c) /\ Upper(F, c, s) \subseteq Waiting(F, c)
  BY DEF Lower, Upper, Waiting
<1>3. \A p \in PlacesFor(F, c) : p[1] \in 1..3
  BY DEF PlacesFor
<1>4. Lower(F, c, 1) = {} /\ Upper(F, c, 4) = {}
  BY <1>3 DEF Lower, Upper
<1>5. Lower(F, c, 4) = Waiting(F, c)
  BY <1>3 DEF Lower, Waiting
<1> QED
  BY <1>1, <1>2, <1>4, <1>5

\* A message that goes on to the next part stays where it is among the lines
\* for its client.
LEMMA Relayed ==
    ASSUME NEW M, NEW F \in [Parts -> Seq(M)], NEW c, NEW s \in Parts, s + 1 \in Parts,
           F[s + 1] # <<>>, NEW m,
           m.line = Head(F[s + 1]).line, m.dpid = Head(F[s + 1]).dpid
    PROVE  Alike(F, With(Without(F, s + 1), s, m), c)
<1> DEFINE E == Without(F, s + 1)
           G == With(E, s, m)
<1>1. E \in [Parts -> Seq(M)]
  BY DEF Without
<1>2. Adds(E, F, c, s + 1, Head(F[s + 1]))
  BY TakenFor
<1> HIDE DEF E
<1>3. Adds(E, G, c, s + 1, m)
  BY <1>1, PutFor
<1>4. Alike(F, G, c)
  BY <1>2, <1>3 DEF Adds, Alike
<1> QED
  BY <1>4 DEF E

\* Parts G hold for client c what parts F hold, but for line l.
Removes(F, G, c, l) ==
    /\ l \in Waiting(F, c)
    /\ Waiting(G, c) = Waiting(F, c) \ {l}
    /\ Ahead(G, c) = {x \in Ahead(F, c) : x[1] # l /\ x[2] # l}

\* Nothing for client c is ahead of line l.
Leads(F, c, l) == \A k : <<k, l>> \notin Ahead(F, c)

\* The first message of a part is taken out of the lines for its client, and
\* the first one of part 1 has nothing ahead of it.
LEMMA TakenOut ==
    ASSUME NEW M, NEW F \in [Parts -> Seq(M)], Single(F), NEW s \in Parts, F[s] # <<>>
    PROVE  /\ Removes(F, Without(F, s), Head(F[s]).dpid, Head(F[s]).line)
           /\ s = 1 => Leads(F, Head(F[s]).dpid, Head(F[s]).line)
<1> DEFINE G == Without(F, s)
           l == Head(F[s]).line
           c == Head(F[s]).dpid
<1>1. /\ Waiting(F, c) = Waiting(G, c) \cup {l}
      /\ Ahead(F, c) = Ahead(G, c) \cup Between(G, c, s, l)
  <2>1. Adds(G, F, c, s, Head(F[s]))
    BY TakenFor
  <2> QED
    BY <2>1 DEF Adds
<1>2. ~Somewhere(G, l) /\ DOMAIN G = Parts
  <2>1. G \in [Parts -> Seq(M)] /\ ~Somewhere(G, l)
    BY TakeOne
  <2> QED
    BY <2>1
<1> HIDE DEF G, l, c
<1>3. l \notin Waiting(G, c)
  BY <1>2, WaitingIs DEF Somewhere
<1>4. /\ \A x \in Ahead(G, c) : x = <<x[1], x[2]>> /\ x[1] # l /\ x[2] # l
      /\ Upper(G, c, s) \subseteq Waiting(G, c)
      /\ s = 1 => Lower(G, c, s) = {}
  BY <1>3, Within
<1>5. Ahead(G, c) = {x \in Ahead(F, c) : x[1] # l /\ x[2] # l}
  BY <1>1, <1>4 DEF Between
<1>6. s = 1 => \A k : <<k, l>> \notin Ahead(F, c)
  BY <1>1, <1>3, <1>4 DEF Between
<1> QED
  BY <1>1, <1>3, <1>5, <1>6 DEF G, l, c, Removes, Leads

\* A message put into part 3 comes after every line that waits.
LEMMA Accepted ==
    ASSUME NEW M, NEW F \in [Parts -> Seq(M)], NEW m
    PROVE  LET G == With(F, 3, m)
               c == m.dpid
           IN  /\ Waiting(G, c) = Waiting(F, c) \cup {m.line}
               /\ Ahead(G, c) = Ahead(F, c) \cup (Waiting(F, c) \X {m.line})
<1> DEFINE G == With(F, 3, m)
           c == m.dpid
<1>1. 3 \in Parts /\ 3 + 1 = 4
  BY DEF Parts
<1>2. /\ Waiting(G, c) = Waiting(F, c) \cup {m.line}
      /\ Ahead(G, c) = Ahead(F, c) \cup Between(F, c, 3 + 1, m.line)
  <2>1. Adds(F, G, c, 3 + 1, m)
    BY <1>1, PutFor
  <2> QED
    BY <2>1 DEF Adds
<1> HIDE DEF G, c
<1>3. Between(F, c, 3 + 1, m.line) = Waiting(F, c) \X {m.line}
  BY Within DEF Between
<1> QED
  BY <1>2, <1>3 DEF G, c

-----------------------------------------------------------------------------
\* The parts of a state of the relay

\* What each part holds.
Flow ==
    \A c \in Clients :
        /\ Passing(c) \in [Parts -> Seq(Messages)]
        /\ Passing(c)[1] = queue[c]
        /\ Passing(c)[2] = IF server = "send" THEN <<sendbuffer>> ELSE <<>>
        /\ Passing(c)[3] = queue[1]

LEMMA Flows == TypeOK => Flow
<1> SUFFICES ASSUME TypeOK, NEW c \in Clients
             PROVE  /\ Passing(c) \in [Parts -> Seq(Messages)]
                    /\ Passing(c)[1] = queue[c]
                    /\ Passing(c)[2] = IF server = "send" THEN <<sendbuffer>> ELSE <<>>
                    /\ Passing(c)[3] = queue[1]
  BY DEF Flow
<1>1. /\ Passing(c)[1] = queue[c]
      /\ Passing(c)[2] = IF server = "send" THEN <<sendbuffer>> ELSE <<>>
      /\ Passing(c)[3] = queue[1]
  BY DEF Passing
<1>2. queue[c] \in Seq(Messages) /\ queue[1] \in Seq(Messages)
  BY ClientTypes DEF TypeOK
<1>3. <<sendbuffer>> \in Seq(Messages) /\ <<>> \in Seq(Messages)
  BY DEF TypeOK
<1>4. ASSUME NEW t \in Parts PROVE Passing(c)[t] \in Seq(Messages)
  <2>1. Passing(c)[2] \in Seq(Messages)
    BY <1>1, <1>3
  <2>2. t = 1 \/ t = 2 \/ t = 3
    BY DEF Parts
  <2> QED
    BY <1>1, <1>2, <2>1, <2>2
<1>5. Passing(c) = [t \in Parts |-> Passing(c)[t]]
  BY DEF Passing, Parts
<1> QED
  BY <1>1, <1>4, <1>5

LEMMA SameParts ==
    ASSUME NEW V, NEW F \in [Parts -> V], NEW G \in [Parts -> V],
           F[1] = G[1], F[2] = G[2], F[3] = G[3]
    PROVE  F = G
<1>1. \A t \in Parts : F[t] = G[t]
  BY DEF Parts
<1> QED
  BY <1>1

\* The box that part t of the way to client c is.
PartBox(c, t) == IF t = 2 THEN <<"server", 1>> ELSE <<"queue", IF t = 1 THEN c ELSE 1>>

LEMMA PartBoxes ==
    ASSUME TypeOK, NEW c \in Clients, NEW t \in Parts
    PROVE  /\ PartBox(c, t) \in Boxes /\ Content[PartBox(c, t)] = Passing(c)[t]
           /\ \A u \in Parts : PartBox(c, t) = PartBox(c, u) => t = u
<1>1. Flow /\ Holding
  BY Flows, Contents
<1>2. PartBox(c, t) \in Boxes /\ Content[PartBox(c, t)] = Passing(c)[t]
  BY <1>1, ClientTypes DEF Flow, Holding, PartBox, Parts
<1>3. \A u \in Parts : PartBox(c, t) = PartBox(c, u) => t = u
  BY ClientTypes DEF PartBox, Parts
<1> QED
  BY <1>2, <1>3

LEMMA SingleParts ==
    ASSUME TypeOK, Placed, NEW c \in Clients
    PROVE  Single(Passing(c))
<1>1. DOMAIN Passing(c) = Parts
  BY Flows DEF Flow
<1>2. DOMAIN Content = Boxes /\ Single(Content)
  BY DEF Content, Placed
<1> SUFFICES ASSUME NEW t \in Parts, NEW u \in Parts,
                    NEW i \in DOMAIN Passing(c)[t], NEW j \in DOMAIN Passing(c)[u],
                    Passing(c)[t][i].line = Passing(c)[u][j].line
             PROVE  t = u /\ i = j
  BY <1>1 DEF Single
<1>3. PartBox(c, t) = PartBox(c, u) /\ i = j
  BY <1>2, PartBoxes DEF Single
<1> QED
  BY <1>3, PartBoxes

\* The lines of messages, in order.
LinesOf(r) == [i \in DOMAIN r |-> r[i].line]

LEMMA LinesAppend ==
    ASSUME NEW r \in Seq(Messages), NEW m \in Messages
    PROVE  LinesOf(Append(r, m)) = Append(LinesOf(r), m.line)
<1> DEFINE n == Len(r) + 1
<1>1. /\ DOMAIN Append(r, m) = 1..n /\ Append(r, m)[n] = m
      /\ \A i \in 1..Len(r) : Append(r, m)[i] = r[i]
      /\ DOMAIN r = 1..Len(r) /\ Len(r) \in Nat
  OBVIOUS
<1>2. LinesOf(r) \in Seq(Nat) /\ Len(LinesOf(r)) = Len(r)
  <2>1. \A i \in 1..Len(r) : r[i].line \in Nat
    <3>1. \A i \in 1..Len(r) : r[i] \in Messages
      OBVIOUS
    <3> QED
      BY <3>1 DEF Messages
  <2>2. LinesOf(r) = [i \in 1..Len(r) |-> r[i].line]
    BY <1>1 DEF LinesOf
  <2> QED
    BY <1>1, <2>1, <2>2
<1>3. /\ DOMAIN Append(LinesOf(r), m.line) = 1..n /\ Append(LinesOf(r), m.line)[n] = m.line
      /\ \A i \in 1..Len(r) : Append(LinesOf(r), m.line)[i] = r[i].line
  <2>1. \A i \in 1..Len(r) : LinesOf(r)[i] = r[i].line
    BY <1>1 DEF LinesOf
  <2>2. m.line \in Nat
    BY DEF Messages
  <2> HIDE DEF n
  <2> QED
    BY <1>1, <1>2, <2>1, <2>2 DEF n
<1>4. Append(LinesOf(r), m.line) = [i \in 1..n |-> Append(LinesOf(r), m.line)[i]]
  BY <1>1, <1>2, <1>3 DEF Messages
<1>5. \A i \in 1..n : i = n \/ i \in 1..Len(r)
  BY <1>1
<1>6. LinesOf(Append(r, m)) = [i \in 1..n |-> Append(r, m)[i].line]
  BY <1>1 DEF LinesOf
<1> HIDE DEF n
<1>7. \A i \in 1..n : Append(r, m)[i].line = Append(LinesOf(r), m.line)[i]
  BY <1>1, <1>3, <1>5
<1> QED
  BY <1>4, <1>6, <1>7


-----------------------------------------------------------------------------
\* The promise's variables in a state of the relay

Waits == [c \in Clients |-> Waiting(Passing(c), c)]
Order == [c \in Clients |-> Ahead(Passing(c), c)]
Shown == [c \in Clients |-> LinesOf(received[c])]
Gone == {c \in Clients : parent[c] = "exited"}

\* The lines for client c are waiting as before, in the same order.
SameFor(c) == Alike(Passing(c), Passing(c)', c)

LEMMA Stutter ==
    ASSUME \A c \in Clients : SameFor(c), received' = received, Gone' = Gone,
           (server' # "dead") = (server # "dead")
    PROVE  UNCHANGED Promise!vars
BY DEF Promise!vars, SameFor, Alike, Gone

LEMMA Shows ==
    ASSUME TypeOK, NEW c \in Clients, NEW m \in Messages,
           received' = [received EXCEPT ![c] = Append(@, m)]
    PROVE  Promise!Show(c, m.line)
<1>1. Shown' = [Shown EXCEPT ![c] = Append(@, m.line)]
  <2>1. received'[c] = Append(received[c], m) /\ \A d \in Clients : d # c => received'[d] = received[d]
    BY DEF TypeOK
  <2>2. LinesOf(Append(received[c], m)) = Append(LinesOf(received[c]), m.line)
    BY LinesAppend DEF TypeOK
  <2>3. Shown' = [d \in Clients |-> LinesOf(received'[d])]
    BY DEF Shown
  <2>4. ASSUME NEW d \in Clients
        PROVE  LinesOf(received'[d]) = [Shown EXCEPT ![c] = Append(@, m.line)][d]
    <3>1. Shown[d] = LinesOf(received[d]) /\ Shown[c] = LinesOf(received[c])
      BY DEF Shown
    <3>2. DOMAIN Shown = Clients
      BY DEF Shown
    <3> HIDE DEF Shown
    <3>3. CASE d = c
      <4>1. LinesOf(received'[d]) = Append(Shown[c], m.line)
        BY <2>1, <2>2, <3>1, <3>3, Zenon
      <4> QED
        BY <3>2, <3>3, <4>1
    <3>4. CASE d # c
      <4>1. LinesOf(received'[d]) = Shown[d]
        BY <2>1, <3>1, <3>4, Zenon
      <4> QED
        BY <3>2, <3>4, <4>1
    <3> QED
      BY <3>3, <3>4
  <2> QED
    BY <2>3, <2>4 DEF Shown
<1> QED
  BY <1>1 DEF Promise!Show, Shown, LinesOf

\* A line is fresh for the promise when its message is in a box on the way to
\* no client, or is not addressed to one, and has not been printed.
LEMMA FreshLine ==
    ASSUME TypeOK, Placed, NEW b \in Boxes, NEW j \in DOMAIN Content[b],
           \A c \in Clients : b # <<"printed", c>>,
           \/ \A c \in Clients, t \in Parts : b # PartBox(c, t)
           \/ Content[b][j].dpid \notin Clients
    PROVE  Promise!Fresh(Content[b][j].line)
<1> DEFINE l == Content[b][j].line
<1>1. DOMAIN Content = Boxes /\ Single(Content)
  BY DEF Content, Placed
<1>2. ASSUME NEW c \in Clients, l \in Waits[c] PROVE FALSE
  <2>1. l \in Waiting(Passing(c), c)
    BY <1>2 DEF Waits
  <2>2. PICK t \in Parts : \E i \in DOMAIN Passing(c)[t] :
           Passing(c)[t][i].dpid = c /\ Passing(c)[t][i].line = l
    BY <2>1, WaitingIs
  <2>3. PICK i \in DOMAIN Passing(c)[t] : Passing(c)[t][i].dpid = c /\ Passing(c)[t][i].line = l
    BY <2>2
  <2>4. PartBox(c, t) \in Boxes /\ Content[PartBox(c, t)] = Passing(c)[t]
    BY PartBoxes
  <2>5. b = PartBox(c, t) /\ j = i
    BY <1>1, <2>3, <2>4 DEF Single
  <2> QED
    BY <2>3, <2>4, <2>5
<1>3. ASSUME NEW c \in Clients, NEW i \in DOMAIN Shown[c], Shown[c][i] = l PROVE FALSE
  <2>1. i \in DOMAIN received[c] /\ received[c][i].line = l
    BY <1>3 DEF Shown, LinesOf
  <2>2. <<"printed", c>> \in Boxes /\ Content[<<"printed", c>>] = received[c]
    BY Contents DEF Holding
  <2>3. b = <<"printed", c>>
    BY <1>1, <2>1, <2>2 DEF Single
  <2> QED
    BY <2>3
<1> HIDE DEF l
<1>4. \A c \in Clients : l \notin Waits[c] /\ \A i \in DOMAIN Shown[c] : Shown[c][i] # l
  BY <1>2, <1>3
<1> QED
  BY <1>4 DEF Promise!Fresh, Waits, Shown, LinesOf, l

\* The first message of a part, addressed to client v, is taken away.
LEMMA TakesOut ==
    ASSUME TypeOK, Placed, NEW v \in Clients, NEW s \in Parts, Passing(v)[s] # <<>>,
           Head(Passing(v)[s]).dpid = v, Passing(v)' = Without(Passing(v), s),
           \A c \in Clients : c # v => SameFor(c)
    PROVE  LET l == Head(Passing(v)[s]).line
           IN  /\ l \in Waits[v] /\ Promise!TakeOut(v, l)
               /\ s = 1 => \A k : <<k, l>> \notin Order[v]
<1> DEFINE l == Head(Passing(v)[s]).line
           F == Passing(v)
<1>1. F \in [Parts -> Seq(Messages)] /\ Single(F)
  BY Flows, SingleParts DEF Flow
<1>2. /\ l \in Waiting(F, v)
      /\ Waiting(Without(F, s), v) = Waiting(F, v) \ {l}
      /\ Ahead(Without(F, s), v) = {x \in Ahead(F, v) : x[1] # l /\ x[2] # l}
      /\ s = 1 => \A k : <<k, l>> \notin Ahead(F, v)
  <2>1. Removes(F, Without(F, s), v, l) /\ (s = 1 => Leads(F, v, l))
    BY <1>1, TakenOut, Zenon
  <2> QED
    BY <2>1 DEF Removes, Leads
<1> HIDE DEF l
<1>3. Waiting(Passing(v)', v) = Waiting(F, v) \ {l}
  BY <1>2
<1>4. Ahead(Passing(v)', v) = {x \in Ahead(F, v) : x[1] # l /\ x[2] # l}
  BY <1>2
<1>5. /\ Waits' = [Waits EXCEPT ![v] = @ \ {l}]
      /\ Order' = [Order EXCEPT ![v] = {x \in @ : x[1] # l /\ x[2] # l}]
  BY <1>3, <1>4 DEF Waits, Order, SameFor, Alike
<1>6. Promise!TakeOut(v, l)
  BY <1>5 DEF Promise!TakeOut, Waits, Order
<1> QED
  BY <1>2, <1>6 DEF Waits, Order, l


-----------------------------------------------------------------------------
\* The steps

\* The number of lines is bounded, so every line is one of the promise's.
Bounded == Len(typed) <= MaxLines

LEMMA StepBounded == TypeOK /\ Bounded /\ [Next]_vars => Bounded'
<1> SUFFICES ASSUME TypeOK, Bounded, [Next]_vars PROVE Bounded'
  OBVIOUS
<1>1. ASSUME NEW c \in Clients, NEW n \in 0..MaxLength, TypeLine(c, n) PROVE Bounded'
  <2>1. PICK t : typed' = Append(typed, t)
    BY <1>1 DEF TypeLine
  <2>2. Len(typed) < MaxLines /\ typed \in Seq(Messages)
    BY <1>1 DEF TypeLine, TypeOK
  <2>3. Len(typed') = Len(typed) + 1
    BY <2>1, <2>2
  <2> QED
    BY <2>2, <2>3, MaxLinesAssumption DEF Bounded
<1>2. CASE typed' = typed
  BY <1>2 DEF Bounded
<1> QED
  BY <1>1, <1>2
  DEF Next, vars, Start, ClientSend, ParentExit, ChildCall, ChildReceive, ServerReceive,
      ServerSend, ServerFail, ServerKilled, ServerEnds,
      ServerRestart

LEMMA InitBounded == Init => Bounded
BY MaxLinesAssumption DEF Init, Bounded

\* The line of a message in a box is one of the promise's.
LEMMA LineBound ==
    ASSUME TypeOK, Placed, Bounded, NEW b \in Boxes, Content[b] # <<>>
    PROVE  Head(Content[b]).line \in 1..MaxLines
<1>1. Head(Content[b]) \in Faithful
  BY FirstFaithful
<1>2. Head(Content[b]).line \in 1..Len(typed)
  BY <1>1 DEF Faithful, TypeOK
<1>3. Len(typed) \in Nat
  BY DEF TypeOK
<1> QED
  BY <1>2, <1>3, MaxLinesAssumption DEF Bounded

\* What each part holds when no part changes.
LEMMA SameFlow ==
    ASSUME TypeOK, Flow, Flow', UNCHANGED queue, (server' = "send") = (server = "send"),
           server = "send" => sendbuffer' = sendbuffer
    PROVE  \A c \in Clients : SameFor(c)
<1> SUFFICES ASSUME NEW c \in Clients PROVE SameFor(c)
  OBVIOUS
<1>1. Passing(c)'[1] = Passing(c)[1] /\ Passing(c)'[3] = Passing(c)[3]
  BY DEF Flow
<1>2. /\ Passing(c)[2] = IF server = "send" THEN <<sendbuffer>> ELSE <<>>
      /\ Passing(c)'[2] = IF server' = "send" THEN <<sendbuffer'>> ELSE <<>>
  BY DEF Flow
<1>3. Passing(c)'[2] = Passing(c)[2]
  BY <1>2
<1>4. Passing(c) \in [Parts -> Seq(Messages)] /\ Passing(c)' \in [Parts -> Seq(Messages)]
  BY DEF Flow
<1>5. Passing(c)' = Passing(c)
  BY <1>1, <1>3, <1>4, SameParts
<1> QED
  BY <1>5 DEF SameFor, Alike

\* The server takes a request: for every client the line stays in its place.
LEMMA ReceiveKeeps ==
    ASSUME TypeOK, Flow, Flow', ServerReceive
    PROVE  \A c \in Clients : SameFor(c)
<1> SUFFICES ASSUME NEW c \in Clients PROVE SameFor(c)
  OBVIOUS
<1> DEFINE P == Passing(c)
           Q == Passing(c)'
           h == Head(queue[1])
           m == [h EXCEPT !.mtext = Copy(sendbuffer.mtext, @)]
<1>1. /\ queue[1] # <<>> /\ queue' = [queue EXCEPT ![1] = Tail(@)]
      /\ server = "recv" /\ server' = "send" /\ sendbuffer' = m
      /\ 1 \in Types /\ c \in Types /\ c # 1 /\ queue \in [Types -> Seq(Messages)]
  BY ClientTypes DEF ServerReceive, TypeOK
<1>2. h \in Messages /\ m.line = h.line /\ m.dpid = h.dpid
  <2>1. h \in Messages
    BY <1>1
  <2> HIDE DEF h
  <2> QED
    BY <2>1 DEF Messages
<1> HIDE DEF m
<1>3. P \in [Parts -> Seq(Messages)] /\ P[1] = queue[c] /\ P[2] = <<>> /\ P[3] = queue[1]
  <2>1. P[2] = IF server = "send" THEN <<sendbuffer>> ELSE <<>>
    BY DEF Flow
  <2> QED
    BY <1>1, <2>1 DEF Flow
<1>4. /\ Q \in [Parts -> Seq(Messages)]
      /\ Q[1] = queue[c] /\ Q[2] = <<m>> /\ Q[3] = Tail(queue[1])
  <2>1. Q[2] = IF server' = "send" THEN <<sendbuffer'>> ELSE <<>>
    BY DEF Flow
  <2> QED
    BY <1>1, <2>1 DEF Flow
<1> HIDE DEF P, Q, h
<1>a. P \in [Parts -> Seq(Messages)] /\ Q \in [Parts -> Seq(Messages)]
  BY <1>3, <1>4
<1>5. Q = With(Without(P, 2 + 1), 2, m)
  <2>1. /\ Q[3] = Tail(P[3]) /\ Q[2] = Append(P[2], m)
        /\ \A p \in Parts : p # 3 /\ p # 2 => Q[p] = P[p]
    BY <1>3, <1>4 DEF Parts
  <2>2. 3 \in Parts /\ 2 \in Parts /\ 3 # 2 /\ 2 + 1 = 3
    BY DEF Parts
  <2>3. Q = With(Without(P, 3), 2, m)
    BY <1>a, <2>1, <2>2 DEF With, Without
  <2> QED
    BY <2>2, <2>3
<1>6. Alike(P, With(Without(P, 2 + 1), 2, m), c)
  <2>1. P[2 + 1] # <<>> /\ m.line = Head(P[2 + 1]).line /\ m.dpid = Head(P[2 + 1]).dpid
    BY <1>1, <1>2, <1>3 DEF h
  <2>2. 2 \in Parts /\ 2 + 1 \in Parts
    BY DEF Parts
  <2> QED
    BY <1>3, <2>1, <2>2, Relayed, Zenon
<1> QED
  BY <1>5, <1>6 DEF SameFor, P, Q

\* The server posts a message: for every client the line stays in its place,
\* and a message for no client is among nobody's lines.
LEMMA SendKeeps ==
    ASSUME TypeOK, Flow, Flow', ServerSend
    PROVE  \A c \in Clients : SameFor(c)
<1> SUFFICES ASSUME NEW c \in Clients PROVE SameFor(c)
  OBVIOUS
<1> DEFINE P == Passing(c)
           Q == Passing(c)'
           m == sendbuffer
           t == m.dpid
<1>1. /\ server = "send" /\ server' = "recv" /\ t > 0
      /\ queue' = [queue EXCEPT ![t] = Append(@, m)]
      /\ 1 \in Types /\ c \in Types /\ c # 1 /\ queue \in [Types -> Seq(Messages)]
  BY ClientTypes DEF ServerSend, TypeOK
<1>2. t \in Types
  <2>1. t \in Dests \cup {0}
    BY DEF TypeOK, Messages
  <2> QED
    BY <1>1, <2>1, ClientTypes
<1> HIDE DEF t
<1>3. P \in [Parts -> Seq(Messages)] /\ P[1] = queue[c] /\ P[2] = <<m>> /\ P[3] = queue[1]
  <2>1. P[2] = IF server = "send" THEN <<sendbuffer>> ELSE <<>>
    BY DEF Flow
  <2> QED
    BY <1>1, <2>1 DEF Flow
<1>4. /\ Q \in [Parts -> Seq(Messages)]
      /\ Q[1] = queue'[c] /\ Q[2] = <<>> /\ Q[3] = queue'[1]
  <2>1. Q[2] = IF server' = "send" THEN <<sendbuffer'>> ELSE <<>>
    BY DEF Flow
  <2> QED
    BY <1>1, <2>1 DEF Flow
<1>5. t = m.dpid
  BY DEF t
<1> HIDE DEF P, Q, m
<1>a. P \in [Parts -> Seq(Messages)] /\ Q \in [Parts -> Seq(Messages)]
  BY <1>3, <1>4
<1>6. 1 \in Parts /\ 2 \in Parts /\ 3 \in Parts /\ 1 + 1 = 2
  BY DEF Parts
<1>7. P[2] # <<>> /\ Head(P[2]) = m /\ Q[2] = Tail(P[2])
  BY <1>3, <1>4
<1>8. CASE t = c
  <2>1. /\ Q[1] = Append(P[1], m)
        /\ \A p \in Parts : p # 2 /\ p # 1 => Q[p] = P[p]
    BY <1>1, <1>2, <1>3, <1>4, <1>8 DEF Parts
  <2>2. Q = With(Without(P, 2), 1, m)
    BY <1>a, <1>6, <1>7, <2>1 DEF With, Without
  <2>3. P[1 + 1] # <<>> /\ m.line = Head(P[1 + 1]).line /\ m.dpid = Head(P[1 + 1]).dpid
    BY <1>6, <1>7
  <2>4. 1 + 1 \in Parts
    BY <1>6
  <2>5. Alike(P, With(Without(P, 1 + 1), 1, m), c)
    BY <1>3, <1>6, <2>3, <2>4, Relayed, Zenon
  <2> QED
    BY <1>6, <2>2, <2>5 DEF SameFor, P, Q
<1>9. CASE t # c
  <2>1. Adds(Without(P, 2), P, c, 2, m)
    BY <1>3, <1>6, <1>7, TakenFor
  <2>2. Without(P, 2) \in [Parts -> Seq(Messages)]
    BY <1>3, <1>6, <1>7 DEF Without
  <2>3. CASE t = 1
    <3>1. /\ Q[3] = Append(P[3], m)
          /\ \A p \in Parts : p # 2 /\ p # 3 => Q[p] = P[p]
      BY <1>1, <1>2, <1>3, <1>4, <2>3 DEF Parts
    <3>2. Q = With(Without(P, 2), 3, m)
      BY <1>a, <1>6, <1>7, <3>1 DEF With, Without
    <3>3. Adds(Without(P, 2), Q, c, 3 + 1, m)
      BY <1>6, <2>2, <3>2, PutFor
    <3> QED
      BY <1>5, <1>9, <2>1, <3>3 DEF Adds, Alike, SameFor, P, Q
  <2>4. CASE t # 1
    <3>1. \A p \in Parts : p # 2 => Q[p] = P[p]
      BY <1>1, <1>2, <1>3, <1>4, <1>9, <2>4 DEF Parts
    <3>2. Q = Without(P, 2)
      BY <1>a, <1>6, <1>7, <3>1 DEF Without
    <3> QED
      BY <1>5, <1>9, <2>1, <3>2 DEF Adds, Alike, SameFor, P, Q
  <2> QED
    BY <2>3, <2>4
<1> QED
  BY <1>8, <1>9

\* A server that ends while it has a message in hand takes it out of part 2.
LEMMA EndTakes ==
    ASSUME TypeOK, Flow, Flow', ServerEnds, server = "send", NEW c \in Clients
    PROVE  /\ Passing(c)[2] # <<>> /\ Head(Passing(c)[2]) = sendbuffer
           /\ Passing(c)' = Without(Passing(c), 2)
           /\ sendbuffer.dpid # c => SameFor(c)
<1> DEFINE P == Passing(c)
           Q == Passing(c)'
<1>1. /\ P \in [Parts -> Seq(Messages)] /\ Q \in [Parts -> Seq(Messages)]
      /\ P[1] = Q[1] /\ P[2] = <<sendbuffer>> /\ Q[2] = <<>> /\ P[3] = Q[3]
  <2>1. /\ P[2] = IF server = "send" THEN <<sendbuffer>> ELSE <<>>
        /\ Q[2] = IF server' = "send" THEN <<sendbuffer'>> ELSE <<>>
    BY DEF Flow
  <2>2. server = "send" /\ server' = "dead" /\ queue' = queue
    BY DEF ServerEnds
  <2> QED
    BY <2>1, <2>2 DEF Flow
<1> HIDE DEF P, Q
<1>2. 2 \in Parts /\ P[2] # <<>> /\ Head(P[2]) = sendbuffer /\ Q[2] = Tail(P[2])
  BY <1>1 DEF Parts
<1>3. Adds(Without(P, 2), P, c, 2, sendbuffer)
  BY <1>1, <1>2, TakenFor
<1>4. \A p \in Parts : p # 2 => Q[p] = P[p]
  BY <1>1 DEF Parts
<1>5. Q = Without(P, 2)
  BY <1>1, <1>2, <1>4 DEF Without
<1> QED
  BY <1>2, <1>3, <1>5 DEF Adds, Alike, SameFor, P, Q

\* The server ends: the promise's relay goes down, with the line the server
\* has in hand when that is for a client.
LEMMA EndGoesDown ==
    ASSUME TypeOK, Placed, Flow, Flow', ServerEnds, server # "dead"
    PROVE  Promise!GoDown
<1>1. server' = "dead" /\ Gone' = Gone /\ Shown' = Shown
  BY DEF ServerEnds, Gone, Shown
<1>2. ASSUME \A c \in Clients : SameFor(c) PROVE Promise!GoDown
  <2>1. Waits' = Waits /\ Order' = Order
    BY <1>2 DEF Waits, Order, SameFor, Alike
  <2> QED
    BY <1>1, <2>1 DEF Promise!GoDown, Waits, Order, Shown, LinesOf, Gone
<1>3. CASE server # "send"
  <2>1. queue' = queue /\ server' # "send"
    BY <1>1 DEF ServerEnds
  <2>2. \A c \in Clients : SameFor(c)
    BY <1>3, <2>1, SameFlow
  <2> QED
    BY <1>2, <2>2
<1>4. CASE server = "send" /\ sendbuffer.dpid \notin Clients
  <2>1. \A c \in Clients : SameFor(c)
    BY <1>4, EndTakes
  <2> QED
    BY <1>2, <2>1
<1>5. CASE server = "send" /\ sendbuffer.dpid \in Clients
  <2>1. PICK v \in Clients : v = sendbuffer.dpid
    BY <1>5
  <2>2. 2 \in Parts
    BY DEF Parts
  <2>3. /\ Passing(v)[2] # <<>> /\ Head(Passing(v)[2]) = sendbuffer
        /\ Passing(v)' = Without(Passing(v), 2)
        /\ \A c \in Clients : c # v => SameFor(c)
    BY <1>5, <2>1, EndTakes
  <2>4. LET k0 == Head(Passing(v)[2]).line
        IN  k0 \in Waits[v] /\ Promise!TakeOut(v, k0)
    BY <2>1, <2>2, <2>3, TakesOut
  <2>5. \E l \in Waits[v] : Promise!TakeOut(v, l)
    BY <2>4
  <2> QED
    BY <1>1, <2>5 DEF Promise!GoDown, Waits, Shown, LinesOf, Gone
<1> QED
  BY <1>3, <1>4, <1>5

\* A request enters the queue: the promise's relay accepts a line, unless it is
\* for no client.
LEMMA SendAccepts ==
    ASSUME TypeOK, Placed, Bounded, Flow, Flow', NEW c \in Clients, ClientSend(c)
    PROVE  \/ \E u \in Clients : Promise!Accept(u)
           \/ UNCHANGED Promise!vars
<1>0. PICK m \in Messages : m = buffer[c]
  BY DEF TypeOK
<1> DEFINE l == m.line
           u == m.dpid
<1>1. /\ parent[c] = "send" /\ parent' = [parent EXCEPT ![c] = "input"]
      /\ queue' = [queue EXCEPT ![1] = Append(@, m)]
      /\ UNCHANGED <<server, sendbuffer, received>>
      /\ 1 \in Types /\ queue \in [Types -> Seq(Messages)]
  BY <1>0, ClientTypes DEF ClientSend, TypeOK
<1>2. Gone' = Gone /\ Shown' = Shown
  BY <1>1 DEF Gone, Shown, TypeOK
<1>3. Content[<<"parent", c>>] = <<m>> /\ <<"parent", c>> \in Boxes
  BY <1>0, <1>1, Contents DEF Holding
<1>4. l \in 1..MaxLines
  BY <1>3, LineBound
<1>5. Promise!Fresh(l)
  <2> DEFINE b == <<"parent", c>>
  <2>1. 1 \in DOMAIN Content[b] /\ Content[b][1] = m
    BY <1>3
  <2>2. \A d \in Clients : b # <<"printed", d>>
    OBVIOUS
  <2>3. b \in Boxes /\ \A d \in Clients, t \in Parts : b # PartBox(d, t)
    BY <1>3 DEF PartBox
  <2> HIDE DEF b
  <2>4. Promise!Fresh(Content[b][1].line)
    BY <2>1, <2>2, <2>3, FreshLine
  <2> QED
    BY <2>1, <2>4
<1>6. ASSUME NEW d \in Clients PROVE Adds(Passing(d), Passing(d)', d, 3 + 1, m)
  <2> DEFINE P == Passing(d)
             Q == Passing(d)'
  <2>1. /\ P \in [Parts -> Seq(Messages)] /\ Q \in [Parts -> Seq(Messages)]
        /\ P[1] = Q[1] /\ Q[3] = Append(P[3], m)
    BY <1>1, ClientTypes DEF Flow
  <2>2. Q[2] = P[2]
    <3>1. /\ P[2] = IF server = "send" THEN <<sendbuffer>> ELSE <<>>
          /\ Q[2] = IF server' = "send" THEN <<sendbuffer'>> ELSE <<>>
      BY DEF Flow
    <3> QED
      BY <1>1, <3>1
  <2> HIDE DEF P, Q
  <2>3. 3 \in Parts /\ \A p \in Parts : p # 3 => Q[p] = P[p]
    BY <2>1, <2>2 DEF Parts
  <2>4. Q = With(P, 3, m)
    BY <2>1, <2>3 DEF With
  <2>5. Adds(P, With(P, 3, m), d, 3 + 1, m)
    BY <2>1, <2>3, PutFor
  <2> QED
    BY <2>4, <2>5 DEF P, Q
<1>7. CASE u \in Clients
  <2>1. \A d \in Clients : d # u => SameFor(d)
    BY <1>6 DEF Adds, SameFor, Alike
  <2>2. /\ Waiting(Passing(u)', u) = Waiting(Passing(u), u) \cup {l}
        /\ Ahead(Passing(u)', u) = Ahead(Passing(u), u) \cup Between(Passing(u), u, 3 + 1, l)
    <3>1. Adds(Passing(u), Passing(u)', u, 3 + 1, m)
      BY <1>6, <1>7
    <3> QED
      BY <3>1 DEF Adds
  <2>3. Between(Passing(u), u, 3 + 1, l) = Waiting(Passing(u), u) \X {l}
    BY Within DEF Between
  <2> HIDE DEF l, u
  <2>4. Waits' = [Waits EXCEPT ![u] = @ \cup {l}]
    BY <2>1, <2>2, <1>7 DEF Waits, SameFor, Alike
  <2>5. Order' = [Order EXCEPT ![u] = @ \cup (Waits[u] \X {l})]
    <3>1. Ahead(Passing(u)', u) = Ahead(Passing(u), u) \cup (Waits[u] \X {l})
      BY <2>2, <2>3, <1>7 DEF Waits
    <3> HIDE DEF Waits
    <3> QED
      BY <2>1, <3>1, <1>7 DEF Order, SameFor, Alike
  <2>6. Promise!Accept(u)
    BY <1>1, <1>2, <1>4, <1>5, <2>4, <2>5 DEF Promise!Accept, Waits, Order, Shown, Gone, LinesOf
  <2> QED
    BY <2>6, <1>7
<1>8. CASE u \notin Clients
  <2>1. \A d \in Clients : SameFor(d)
    BY <1>6, <1>8 DEF Adds, SameFor, Alike
  <2> QED
    BY <1>1, <1>2, <2>1, Stutter
<1> QED
  BY <1>7, <1>8


\* A child reads a message: the promise's reader reads the first line of its
\* client, or a reader left behind takes what it finds.
LEMMA ReceiveReads ==
    ASSUME IInv, Placed, Bounded, Flow, Flow', NEW c \in Clients, ChildReceive(c)
    PROVE  Promise!Read(c) \/ Promise!Stray(c)
<1>a. TypeOK /\ Routed /\ ChildType
  BY DEF IInv
<1>0. PICK t \in Types : t = child[c] /\ queue[t] # <<>>
  BY <1>a DEF ChildReceive, TypeOK
<1>1. PICK h \in Messages : h = Head(queue[t])
  <2>1. queue[t] \in Seq(Messages)
    BY <1>a DEF TypeOK
  <2> QED
    BY <1>0, <2>1
<1> DEFINE l == h.line
<1>2. /\ received' = [received EXCEPT ![c] = Append(@, h)]
      /\ queue' = [queue EXCEPT ![t] = Tail(@)]
      /\ UNCHANGED <<server, sendbuffer, parent>>
      /\ \A d \in Clients : d \in Types /\ d # 1
      /\ 1 \in Types /\ queue \in [Types -> Seq(Messages)]
  BY <1>a, <1>0, <1>1, ClientTypes DEF ChildReceive, TypeOK
<1>3. Promise!Show(c, l)
  BY <1>a, <1>2, Shows
<1>4. Gone' = Gone
  BY <1>2 DEF Gone
<1>5. <<"queue", t>> \in Boxes /\ Content[<<"queue", t>>] = queue[t]
  BY Contents DEF Holding
<1>6. l \in 1..MaxLines
  BY <1>a, <1>0, <1>1, <1>5, LineBound
<1>7. ASSUME (\A d \in Clients, p \in Parts : <<"queue", t>> # PartBox(d, p)) \/ h.dpid \notin Clients
      PROVE  Promise!Fresh(l)
  <2> DEFINE b == <<"queue", t>>
  <2>1. 1 \in DOMAIN Content[b] /\ Content[b][1] = h
    <3>1. Content[b] \in Seq(Messages) /\ Content[b] # <<>> /\ h = Head(Content[b])
      BY <1>0, <1>1, <1>2, <1>5
    <3> HIDE DEF b
    <3> QED
      BY <3>1
  <2>2. \A d \in Clients : b # <<"printed", d>>
    OBVIOUS
  <2>3. b \in Boxes /\ ((\A d \in Clients, p \in Parts : b # PartBox(d, p)) \/ h.dpid \notin Clients)
    BY <1>5, <1>7
  <2> HIDE DEF b
  <2>4. Promise!Fresh(Content[b][1].line)
    BY <1>a, <2>1, <2>2, <2>3, FreshLine
  <2> QED
    BY <2>1, <2>4
\* The parts of the other clients when their queues are not read from.
<1>8. ASSUME NEW d \in Clients, d # t, t # 1 PROVE SameFor(d)
  <2> DEFINE P == Passing(d)
             Q == Passing(d)'
  <2>1. /\ P \in [Parts -> Seq(Messages)] /\ Q \in [Parts -> Seq(Messages)]
        /\ P[1] = Q[1] /\ P[3] = Q[3]
    BY <1>2, <1>8 DEF Flow
  <2>2. Q[2] = P[2]
    <3>1. /\ P[2] = IF server = "send" THEN <<sendbuffer>> ELSE <<>>
          /\ Q[2] = IF server' = "send" THEN <<sendbuffer'>> ELSE <<>>
      BY DEF Flow
    <3> QED
      BY <1>2, <3>1
  <2> HIDE DEF P, Q
  <2>3. Q = P
    BY <2>1, <2>2, SameParts
  <2> QED
    BY <2>3 DEF SameFor, Alike, P, Q
<1>9. CASE t = c
  <2>1. Passing(c)[1] = queue[c] /\ Passing(c)[1] # <<>> /\ Head(Passing(c)[1]) = h
    BY <1>0, <1>1, <1>9 DEF Flow
  <2>2. h.dpid = c
    <3>1. queue[c] \in Seq(Messages) /\ queue[c] # <<>> /\ h = Head(queue[c])
      BY <1>0, <1>1, <1>2, <1>9
    <3>2. 1 \in DOMAIN queue[c] /\ queue[c][1] = h
      BY <3>1
    <3> QED
      BY <1>a, <3>2 DEF Routed
  <2>3. Passing(c)' = Without(Passing(c), 1)
    <3> DEFINE P == Passing(c)
               Q == Passing(c)'
    <3>1. /\ P \in [Parts -> Seq(Messages)] /\ Q \in [Parts -> Seq(Messages)]
          /\ Q[1] = Tail(P[1]) /\ P[3] = Q[3]
      BY <1>2, <1>9 DEF Flow
    <3>2. Q[2] = P[2]
      <4>1. /\ P[2] = IF server = "send" THEN <<sendbuffer>> ELSE <<>>
            /\ Q[2] = IF server' = "send" THEN <<sendbuffer'>> ELSE <<>>
        BY DEF Flow
      <4> QED
        BY <1>2, <4>1
    <3> HIDE DEF P, Q
    <3>3. 1 \in Parts /\ \A p \in Parts : p # 1 => Q[p] = P[p]
      BY <3>1, <3>2 DEF Parts
    <3>4. Q = Without(P, 1)
      BY <3>1, <3>3 DEF Without
    <3> QED
      BY <3>4 DEF P, Q
  <2>4. \A d \in Clients : d # c => SameFor(d)
    BY <1>2, <1>8, <1>9
  <2>5. 1 \in Parts
    BY DEF Parts
  <2>6. /\ l \in Waits[c] /\ Promise!TakeOut(c, l)
        /\ \A k : <<k, l>> \notin Order[c]
    <3>1. LET k0 == Head(Passing(c)[1]).line
          IN  /\ k0 \in Waits[c] /\ Promise!TakeOut(c, k0)
              /\ 1 = 1 => \A k : <<k, k0>> \notin Order[c]
      BY <1>a, <2>1, <2>2, <2>3, <2>4, <2>5, TakesOut
    <3> QED
      BY <2>1, <3>1
  <2>7. Promise!Read(c)
    BY <1>2, <1>3, <1>4, <2>6 DEF Promise!Read, Waits, Order, Gone
  <2> QED
    BY <2>7
<1>10. CASE t = AdoptivePid /\ parent[c] = "exited" /\ t # 1
  <2>1. \A d \in Clients : SameFor(d)
    BY <1>8, <1>10, ClientTypes
  <2>2. Promise!Fresh(l)
    <3>1. \A d \in Clients, p \in Parts : <<"queue", t>> # PartBox(d, p)
      BY <1>10, ClientTypes DEF PartBox
    <3> QED
      BY <1>7, <3>1
  <2>3. Waits' = Waits /\ Order' = Order
    BY <2>1 DEF Waits, Order, SameFor, Alike
  <2>4. Promise!Stray(c)
    BY <1>2, <1>3, <1>4, <1>6, <1>10, <2>2, <2>3 DEF Promise!Stray, Waits, Order, Gone
  <2> QED
    BY <2>4
<1>11. CASE t = AdoptivePid /\ parent[c] = "exited" /\ t = 1
  <2>1. ASSUME NEW d \in Clients
        PROVE  /\ Passing(d)' = Without(Passing(d), 3)
               /\ Passing(d)[3] # <<>> /\ Head(Passing(d)[3]) = h
               /\ h.dpid # d => SameFor(d)
    <3> DEFINE P == Passing(d)
               Q == Passing(d)'
    <3>1. /\ P \in [Parts -> Seq(Messages)] /\ Q \in [Parts -> Seq(Messages)]
          /\ P[1] = Q[1] /\ Q[3] = Tail(P[3]) /\ P[3] = queue[1]
      <4>1. queue'[d] = queue[d] /\ queue'[1] = Tail(queue[1])
        BY <1>2, <1>11
      <4> QED
        BY <4>1 DEF Flow
    <3>2. Q[2] = P[2]
      <4>1. /\ P[2] = IF server = "send" THEN <<sendbuffer>> ELSE <<>>
            /\ Q[2] = IF server' = "send" THEN <<sendbuffer'>> ELSE <<>>
        BY DEF Flow
      <4> QED
        BY <1>2, <4>1
    <3> HIDE DEF P, Q
    <3>3. 3 \in Parts /\ \A p \in Parts : p # 3 => Q[p] = P[p]
      BY <3>1, <3>2 DEF Parts
    <3>4. Q = Without(P, 3)
      BY <3>1, <3>3 DEF Without
    <3>5. P[3] # <<>> /\ Head(P[3]) = h
      BY <1>0, <1>1, <1>11, <3>1
    <3>6. Adds(Without(P, 3), P, d, 3, h)
      BY <3>1, <3>3, <3>5, TakenFor
    <3> QED
      BY <3>4, <3>5, <3>6 DEF Adds, Alike, SameFor, P, Q
  <2>2. CASE h.dpid \in Clients
    <3>1. PICK v \in Clients : v = h.dpid
      BY <2>2
    <3>2. l \in Waits[v] /\ Promise!TakeOut(v, l)
      <4>1. 3 \in Parts
        BY DEF Parts
      <4>2. \A d \in Clients : d # v => SameFor(d)
        BY <2>1, <3>1
      <4>3. Passing(v)' = Without(Passing(v), 3) /\ Passing(v)[3] # <<>> /\ Head(Passing(v)[3]) = h
        BY <2>1
      <4>4. LET k0 == Head(Passing(v)[3]).line
            IN  k0 \in Waits[v] /\ Promise!TakeOut(v, k0)
        BY <1>a, <3>1, <4>1, <4>2, <4>3, TakesOut
      <4> QED
        BY <4>3, <4>4
    <3>3. Promise!Stray(c)
      BY <1>2, <1>3, <1>4, <1>11, <3>2 DEF Promise!Stray, Waits, Gone
    <3> QED
      BY <3>3
  <2>3. CASE h.dpid \notin Clients
    <3>1. Promise!Fresh(l)
      BY <1>7, <2>3
    <3>2. \A d \in Clients : SameFor(d)
      BY <2>1, <2>3
    <3>3. Waits' = Waits /\ Order' = Order
      BY <3>2 DEF Waits, Order, SameFor, Alike
    <3>4. Promise!Stray(c)
      BY <1>2, <1>3, <1>4, <1>6, <1>11, <3>1, <3>3 DEF Promise!Stray, Waits, Order, Gone
    <3> QED
      BY <3>4
  <2> QED
    BY <2>2, <2>3
<1> QED
  <2>1. child[c] # None
    BY DEF ChildReceive
  <2>2. t = c \/ (t = AdoptivePid /\ parent[c] = "exited")
    BY <1>a, <1>0, <2>1 DEF ChildType
  <2> QED
    BY <1>9, <1>10, <1>11, <2>2


LEMMA InitPromise == Init => Promise!Init
<1> SUFFICES ASSUME Init PROVE Promise!Init
  OBVIOUS
<1>1. ASSUME NEW c \in Clients
      PROVE  Waiting(Passing(c), c) = {} /\ Ahead(Passing(c), c) = {}
  <2>1. Passing(c)[1] = <<>> /\ Passing(c)[2] = <<>> /\ Passing(c)[3] = <<>>
    BY ClientTypes DEF Init, Passing
  <2>2. PlacesFor(Passing(c), c) = {}
    BY <2>1 DEF PlacesFor
  <2> QED
    BY <2>2 DEF Waiting, Ahead
<1>2. Waits = [c \in Clients |-> {}] /\ Order = [c \in Clients |-> {}]
  BY <1>1 DEF Waits, Order
<1>3. Shown = [c \in Clients |-> <<>>]
  BY DEF Init, Shown, LinesOf
<1>4. Gone = {}
  BY DEF Init, Gone
<1> QED
  BY <1>2, <1>3, <1>4 DEF Init, Promise!Init, Waits, Order, Shown, LinesOf, Gone

\* Every step of the relay is one of the promise, or none.
LEMMA StepPromise == IInv /\ Placed /\ Bounded /\ [Next]_vars => [Promise!Next]_(Promise!vars)
<1> SUFFICES ASSUME IInv, Placed, Bounded, [Next]_vars
             PROVE  Promise!Next \/ UNCHANGED Promise!vars
  OBVIOUS
<1>a. TypeOK /\ TypeOK'
  BY StepType DEF IInv
<1>b. Flow
  BY <1>a, Flows
<1>c. Flow'
  <2>1. (TypeOK => Flow)'
    BY Flows, PTL
  <2> QED
    BY <1>a, <2>1
<1>1. ASSUME NEW c \in Clients, ClientSend(c) PROVE Promise!Next \/ UNCHANGED Promise!vars
  BY <1>1, <1>a, <1>b, <1>c, SendAccepts DEF Promise!Next
<1>2. ASSUME NEW c \in Clients, ChildReceive(c) PROVE Promise!Next
  BY <1>2, <1>b, <1>c, ReceiveReads DEF Promise!Next
<1>3. CASE ServerReceive
  <2>1. \A c \in Clients : SameFor(c)
    BY <1>3, <1>a, <1>b, <1>c, ReceiveKeeps
  <2> QED
    BY <1>3, <2>1, Stutter DEF ServerReceive, Gone
<1>4. CASE ServerSend
  <2>1. \A c \in Clients : SameFor(c)
    BY <1>4, <1>a, <1>b, <1>c, SendKeeps
  <2> QED
    BY <1>4, <2>1, Stutter DEF ServerSend, Gone
<1>5. ASSUME ServerEnds, server # "dead" PROVE Promise!Next
  BY <1>5, <1>a, <1>b, <1>c, EndGoesDown DEF Promise!Next
<1>6. ASSUME UNCHANGED queue, (server' = "send") = (server = "send"),
             server = "send" => sendbuffer' = sendbuffer, UNCHANGED received
      PROVE  \A c \in Clients : SameFor(c)
  BY <1>6, <1>a, <1>b, <1>c, SameFlow
<1>7. ASSUME ServerRestart PROVE Promise!Next
  <2>1. /\ UNCHANGED <<queue, received, parent>> /\ server = "dead" /\ server' = "recv"
    BY <1>7 DEF ServerRestart
  <2>2. \A d \in Clients : SameFor(d)
    BY <1>6, <2>1
  <2>3. Waits' = Waits /\ Order' = Order /\ Shown' = Shown /\ Gone' = Gone
    BY <2>1, <2>2 DEF Waits, Order, Shown, SameFor, Alike, Gone
  <2>4. Promise!ComeUp
    BY <2>1, <2>3 DEF Promise!ComeUp, Waits, Order, Shown, LinesOf, Gone
  <2> QED
    BY <2>4 DEF Promise!Next
<1>8. ASSUME NEW c \in Clients, ParentExit(c) PROVE Promise!Next
  <2>1. UNCHANGED <<queue, server, sendbuffer, received>> /\ parent' = [parent EXCEPT ![c] = "exited"]
    BY <1>8 DEF ParentExit
  <2>2. Gone' = Gone \cup {c}
    BY <1>a, <2>1 DEF Gone, TypeOK
  <2>3. \A d \in Clients : SameFor(d)
    BY <1>6, <2>1
  <2>4. Waits' = Waits /\ Order' = Order /\ Shown' = Shown
    BY <2>1, <2>3 DEF Waits, Order, Shown, SameFor, Alike
  <2>5. Promise!Leave(c)
    BY <2>1, <2>2, <2>4 DEF Promise!Leave, Waits, Order, Shown, LinesOf, Gone
  <2> QED
    BY <2>5 DEF Promise!Next
<1>9. ASSUME NEW c \in Clients, NEW s \in {"input", "send"},
             UNCHANGED <<queue, server, sendbuffer, received>>,
             parent[c] # "exited", parent' = [parent EXCEPT ![c] = s]
      PROVE  UNCHANGED Promise!vars
  <2>1. Gone' = Gone
    BY <1>9, <1>a DEF Gone, TypeOK
  <2> QED
    BY <1>6, <1>9, <2>1, Stutter
<1>10. ASSUME NEW c \in Clients, NEW d \in Dests, Start(c, d) PROVE UNCHANGED Promise!vars
  BY <1>9, <1>10 DEF Start
<1>11. ASSUME NEW c \in Clients, NEW n \in 0..MaxLength, TypeLine(c, n)
       PROVE  UNCHANGED Promise!vars
  <2>1. /\ UNCHANGED <<queue, server, sendbuffer, received>>
        /\ parent[c] = "input" /\ parent' = [parent EXCEPT ![c] = "send"]
    BY <1>11 DEF TypeLine
  <2> QED
    BY <1>9, <2>1
<1>12. ASSUME NEW c \in Clients, ChildCall(c) PROVE UNCHANGED Promise!vars
  BY <1>6, <1>12, Stutter DEF ChildCall, Gone
<1>13. CASE UNCHANGED vars
  BY <1>6, <1>13, Stutter DEF vars, Gone
<1> QED
  BY <1>1, <1>2, <1>3, <1>4, <1>5, <1>7, <1>8, <1>10, <1>11, <1>12, <1>13
  DEF Next, ServerFail, ServerKilled

\* The message-queue relay keeps the promise, for any clients and destinations,
\* any capacity of the queue and however often the server ends and is started
\* again: a line is printed at most once, by the client it is for unless that
\* client's reader was left behind or one left behind took it, in the order in
\* which the requests entered the queue, and at most one line goes with each
\* server that ends (the two msgsnd and msgrcv calls a line passes).
THEOREM PromiseKept == Spec => KeepsPromise
<1>1. Init => Promise!Init
  BY InitPromise
<1>2. IInv /\ Placed /\ Bounded /\ [Next]_vars => [Promise!Next]_(Promise!vars)
  BY StepPromise
<1>3. Spec => []Bounded
  <2>1. TypeOK /\ Bounded /\ [Next]_vars => Bounded'
    BY StepBounded
  <2> QED
    BY <2>1, InitBounded, TypeCorrect, PTL DEF Spec
<1> QED
  BY <1>1, <1>2, <1>3, Invariance, PlacedInvariance, PTL DEF Spec, KeepsPromise, Promise!Spec

=============================================================================
