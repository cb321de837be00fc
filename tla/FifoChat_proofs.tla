--------------------------- MODULE FifoChat_proofs ---------------------------
(***************************************************************************)
(* Type correctness, UnreadAccounted and ShownInOrder of FifoChat, for     *)
(* every set of clients and any number of messages.                        *)
(***************************************************************************)
EXTENDS FifoChat, TLAPS

\* A client that has not started has received nothing.
OffIsFresh ==
    \A c \in Clients : pc[c] = "off" =>
        /\ fifoq[c] = <<>>
        /\ ~sig[c] /\ ~handling[c]
        /\ skipped[c] = 0 /\ phantom[c] = 0

\* The server has a FIFO open only of a client that has started.
OpenedStarted ==
    (server \in {"write", "kill"} /\ fd1) => cur.dpid \in Clients /\ pc[cur.dpid] # "off"

IInv == TypeOK /\ OffIsFresh /\ OpenedStarted /\ UnreadAccounted

-----------------------------------------------------------------------------

LEMMA SeqFacts ==
    ASSUME NEW M, NEW s \in Seq(M)
    PROVE  /\ s # <<>> => Head(s) \in M /\ Tail(s) \in Seq(M)
           /\ \A m \in M : Append(s, m) \in Seq(M)
  OBVIOUS

LEMMA TailLen ==
    ASSUME NEW M, NEW s \in Seq(M), s # <<>>
    PROVE  Len(Tail(s)) + 1 = Len(s) /\ Len(Tail(s)) \in Nat
  OBVIOUS

LEMMA MessageFacts ==
    ASSUME NEW m \in Messages
    PROVE  m.spid \in Clients /\ m.dpid \in Clients \cup {0, Junk}
  BY DEF Messages

LEMMA BumpType ==
    ASSUME NEW f \in [Clients -> Nat], NEW d \in Clients
    PROVE  [f EXCEPT ![d] = f[d] + 1] \in [Clients -> Nat]
  OBVIOUS

\* A cur with a client as destination is a message.
LEMMA CurFacts ==
    ASSUME cur \in Messages \cup {NoMessage}, cur.dpid \in Clients
    PROVE  cur \in Messages
  BY JunkAssumption DEF NoMessage

LEMMA InitIInv == Init => IInv
<1> SUFFICES ASSUME Init PROVE IInv
  OBVIOUS
<1> USE DEF Init
<1>1. TypeOK
  <2>1. sent \in 0..MaxMsgs
    BY MaxMsgsAssumption
  <2>2. fd1 \in BOOLEAN
    OBVIOUS
  <2> QED
    BY <2>1, <2>2 DEF TypeOK
<1>2. OffIsFresh /\ OpenedStarted /\ UnreadAccounted
  BY DEF OffIsFresh, OpenedStarted, UnreadAccounted, Alive
<1> QED
  BY <1>1, <1>2 DEF IInv

-----------------------------------------------------------------------------

LEMMA PostType ==
    ASSUME TypeOK, NEW c \in Clients, NEW d \in Clients \cup {0, Junk}, Post(c, d)
    PROVE  sent' \in 0..MaxMsgs /\ srvq' \in Seq(Messages)
<1>0. sent \in 0..MaxMsgs /\ srvq \in Seq(Messages)
  BY DEF TypeOK
<1>1. CASE fd1c[c]
  <2> DEFINE m == [dpid |-> d, spid |-> c, n |-> sent + 1]
  <2>1. sent' = sent + 1 /\ sent + 1 \in 1..MaxMsgs /\ srvq' = Append(srvq, m)
    BY <1>0, <1>1, MaxMsgsAssumption DEF Post
  <2>2. m \in Messages
    BY <2>1 DEF Messages
  <2> HIDE DEF m
  <2>3. Append(srvq, m) \in Seq(Messages)
    BY <1>0, <2>2, SeqFacts
  <2>4. sent' \in 0..MaxMsgs
    BY <2>1, MaxMsgsAssumption
  <2> QED
    BY <2>1, <2>3, <2>4
<1>2. CASE ~fd1c[c]
  BY <1>0, <1>2 DEF Post
<1> QED
  BY <1>1, <1>2

LEMMA StepType == TypeOK /\ [Next]_vars => TypeOK'
<1> SUFFICES ASSUME TypeOK, [Next]_vars PROVE TypeOK'
  OBVIOUS
<1> USE DEF TypeOK, serverVars, clientVars
<1>1. CASE ServerMkfifo
  BY <1>1 DEF ServerMkfifo
<1>2. CASE ServerOpen
  BY <1>2 DEF ServerOpen
<1>3. CASE ServerRead
  <2>1. CASE srvq # <<>>
    <3>1. Head(srvq) \in Messages /\ Tail(srvq) \in Seq(Messages)
      BY <2>1, SeqFacts
    <3> QED
      BY <2>1, <3>1, <1>3 DEF ServerRead
  <2>2. CASE srvq = <<>>
    BY <2>2, <1>3 DEF ServerRead
  <2> QED
    BY <2>1, <2>2
<1>4. CASE ServerOpenDest
  BY <1>4 DEF ServerOpenDest
<1>5. CASE ServerWrite
  <2>2. fifoq' \in [Clients -> Seq(Messages)]
    <3>1. CASE fifoq' = fifoq
      BY <3>1
    <3>2. CASE fifoq' = [fifoq EXCEPT ![cur.dpid] = Append(@, cur)]
      <4>1. CASE cur.dpid \in Clients
        <5>1. cur \in Messages
          BY <4>1, CurFacts
        <5>2. Append(fifoq[cur.dpid], cur) \in Seq(Messages)
          BY <4>1, <5>1, SeqFacts
        <5> QED
          BY <3>2, <5>2
      <4>2. CASE cur.dpid \notin Clients
        BY <3>2, <4>2
      <4> QED
        BY <4>1, <4>2
    <3> QED
      BY <3>1, <3>2, <1>5 DEF ServerWrite
  <2> QED
    BY <2>2, <1>5 DEF ServerWrite
<1>6. CASE ServerKill
  <2>1. sig' \in [Clients -> BOOLEAN]
    BY <1>6 DEF ServerKill
  <2>3. skipped' \in [Clients -> Nat]
    <3>1. \/ skipped' = skipped
          \/ cur.dpid \in Clients /\ skipped' = [skipped EXCEPT ![cur.dpid] = skipped[cur.dpid] + 1]
      <4>1. CASE sig[cur.dpid]
        BY <4>1, <1>6 DEF ServerKill
      <4>2. CASE ~sig[cur.dpid]
        BY <4>2, <1>6 DEF ServerKill
      <4> QED
        BY <4>1, <4>2
    <3>2. skipped \in [Clients -> Nat]
      OBVIOUS
    <3> HIDE DEF TypeOK
    <3>3. CASE cur.dpid \in Clients /\ skipped' = [skipped EXCEPT ![cur.dpid] = skipped[cur.dpid] + 1]
      BY <3>2, <3>3, BumpType, Zenon
    <3> QED
      BY <3>1, <3>2, <3>3
  <2>4. phantom' \in [Clients -> Nat]
    <3>1. \/ phantom' = phantom
          \/ cur.dpid \in Clients /\ phantom' = [phantom EXCEPT ![cur.dpid] = phantom[cur.dpid] + 1]
      <4>1. CASE fd1
        BY <4>1, <1>6 DEF ServerKill
      <4>2. CASE ~fd1
        BY <4>2, <1>6 DEF ServerKill
      <4> QED
        BY <4>1, <4>2
    <3>2. phantom \in [Clients -> Nat]
      OBVIOUS
    <3> HIDE DEF TypeOK
    <3>3. CASE cur.dpid \in Clients /\ phantom' = [phantom EXCEPT ![cur.dpid] = phantom[cur.dpid] + 1]
      BY <3>2, <3>3, BumpType, Zenon
    <3> QED
      BY <3>1, <3>2, <3>3
  <2>5. /\ server' \in {"read", "ended"}
        /\ UNCHANGED <<cur, fd1, opened, srvq, fifoq, pc, fd1c, handling, incoming, shown, sent>>
    BY <1>6 DEF ServerKill
  <2> QED
    BY <2>1, <2>3, <2>4, <2>5
<1>7. ASSUME NEW c \in Clients, ClientStart(c) PROVE TypeOK'
  <2>1. fd1c' \in [Clients -> BOOLEAN]
    BY <1>7 DEF ClientStart
  <2> QED
    BY <2>1, <1>7 DEF ClientStart
<1>9. ASSUME NEW c \in Clients, NEW d \in Dests, FirstMessage(c, d) PROVE TypeOK'
  <2>1. sent' \in 0..MaxMsgs /\ srvq' \in Seq(Messages)
    BY <1>9, DestsAssumption, PostType DEF FirstMessage
  <2> QED
    BY <2>1, <1>9 DEF FirstMessage
<1>10. ASSUME NEW c \in Clients, SendReply(c) PROVE TypeOK'
  <2>1. sent' \in 0..MaxMsgs /\ srvq' \in Seq(Messages)
    BY <1>10, PostType DEF SendReply
  <2> QED
    BY <2>1, <1>10 DEF SendReply
<1>11. ASSUME NEW c \in Clients, OpenReturns(c) \/ AssignFd(c) \/ ChooseReply(c) \/ ClientExit(c)
       PROVE  TypeOK'
  BY <1>11 DEF OpenReturns, AssignFd, ChooseReply, ClientExit
<1>12. ASSUME NEW c \in Clients, HandlerStart(c) PROVE TypeOK'
  <2>1. sig' \in [Clients -> BOOLEAN] /\ handling' \in [Clients -> BOOLEAN]
    BY <1>12 DEF HandlerStart
  <2> QED
    BY <2>1, <1>12 DEF HandlerStart
<1>13. ASSUME NEW c \in Clients, HandlerRead(c) PROVE TypeOK'
  <2>1. handling' \in [Clients -> BOOLEAN]
    BY <1>13 DEF HandlerRead
  <2>2. /\ incoming' \in [Clients -> Clients \cup {0, Junk}]
        /\ shown' \in [Clients -> Seq(Messages)]
        /\ fifoq' \in [Clients -> Seq(Messages)]
        /\ skipped' \in [Clients -> Nat]
    <3>1. CASE FdSet(c) /\ fifoq[c] # <<>>
      <4> DEFINE m == Head(fifoq[c])
      <4>1. m \in Messages /\ Tail(fifoq[c]) \in Seq(Messages)
        BY <3>1, SeqFacts
      <4>2. m.spid \in Clients
        BY <4>1, MessageFacts
      <4>3. Append(shown[c], m) \in Seq(Messages)
        BY <4>1, SeqFacts
      <4>4. /\ incoming' = [incoming EXCEPT ![c] = m.spid]
            /\ shown' = [shown EXCEPT ![c] = Append(shown[c], m)]
            /\ fifoq' = [fifoq EXCEPT ![c] = Tail(fifoq[c])]
            /\ skipped' = skipped
        BY <1>13, <3>1 DEF HandlerRead
      <4> HIDE DEF m
      <4> QED
        BY <4>1, <4>2, <4>3, <4>4
    <3>2. CASE FdSet(c) /\ fifoq[c] = <<>>
      <4>1. UNCHANGED <<incoming, shown, fifoq, skipped>>
        BY <1>13, <3>2 DEF HandlerRead
      <4> QED
        BY <4>1
    <3>3. CASE ~FdSet(c)
      <4>1. skipped' = [skipped EXCEPT ![c] = skipped[c] + 1] /\ UNCHANGED <<shown, fifoq>>
        BY <1>13, <3>3 DEF HandlerRead
      <4>2. PICK spid \in {incoming[c], Junk} : incoming' = [incoming EXCEPT ![c] = spid]
        BY <1>13, <3>3 DEF HandlerRead
      <4>3. spid \in Clients \cup {0, Junk}
        BY <4>2
      <4>4. incoming' \in [Clients -> Clients \cup {0, Junk}]
        BY <4>2, <4>3
      <4>5. skipped[c] + 1 \in Nat
        OBVIOUS
      <4>6. skipped' \in [Clients -> Nat]
        BY <4>1, <4>5
      <4> QED
        BY <4>1, <4>4, <4>6
    <3> QED
      BY <3>1, <3>2, <3>3
  <2> QED
    BY <2>1, <2>2, <1>13 DEF HandlerRead
<1>14. CASE UNCHANGED vars
  BY <1>14 DEF vars
<1> QED
  BY <1>1, <1>2, <1>3, <1>4, <1>5, <1>6, <1>7, <1>9, <1>10, <1>11, <1>12, <1>13, <1>14
  DEF Next, ServerStep

-----------------------------------------------------------------------------

\* pc never gets back to "off".
LEMMA StepOpenedStarted == IInv /\ [Next]_vars => OpenedStarted'
<1> SUFFICES ASSUME IInv, [Next]_vars, (server \in {"write", "kill"} /\ fd1)'
             PROVE  cur'.dpid \in Clients /\ pc'[cur'.dpid] # "off"
  BY DEF OpenedStarted
<1> USE DEF serverVars, clientVars
<1>0. pc \in [Clients -> {"off", "prompt", "open", "assign", "menu", "reply", "gone"}]
  BY DEF IInv, TypeOK
<1>1. CASE ServerOpenDest
  BY <1>1 DEF ServerOpenDest, IsReader
<1>2. CASE ServerMkfifo \/ ServerOpen \/ ServerRead \/ ServerKill
  BY <1>2 DEF ServerMkfifo, ServerOpen, ServerRead, ServerKill
<1>3. CASE ServerWrite
  BY <1>3 DEF ServerWrite, IInv, OpenedStarted
<1>4. ASSUME NEW c \in Clients, UNCHANGED serverVars, pc'[c] # "off" \/ pc' = pc,
             \A b \in Clients \ {c} : pc'[b] = pc[b]
      PROVE  cur'.dpid \in Clients /\ pc'[cur'.dpid] # "off"
  BY <1>4 DEF IInv, OpenedStarted
<1>5. ASSUME NEW c \in Clients, ClientStart(c)
      PROVE  cur'.dpid \in Clients /\ pc'[cur'.dpid] # "off"
  BY <1>0, <1>4, <1>5 DEF ClientStart
<1>6. ASSUME NEW c \in Clients, NEW d \in Dests, FirstMessage(c, d)
      PROVE  cur'.dpid \in Clients /\ pc'[cur'.dpid] # "off"
  BY <1>0, <1>4, <1>6 DEF FirstMessage
<1>7. ASSUME NEW c \in Clients, OpenReturns(c) \/ AssignFd(c) \/ ChooseReply(c) \/ ClientExit(c)
      PROVE  cur'.dpid \in Clients /\ pc'[cur'.dpid] # "off"
  BY <1>0, <1>4, <1>7 DEF OpenReturns, AssignFd, ChooseReply, ClientExit
<1>8. ASSUME NEW c \in Clients, SendReply(c) \/ HandlerStart(c) \/ HandlerRead(c)
      PROVE  cur'.dpid \in Clients /\ pc'[cur'.dpid] # "off"
  BY <1>0, <1>4, <1>8 DEF SendReply, HandlerStart, HandlerRead
<1>9. CASE UNCHANGED vars
  BY <1>9 DEF vars, IInv, OpenedStarted
<1> QED
  BY <1>1, <1>2, <1>3, <1>5, <1>6, <1>7, <1>8, <1>9 DEF Next, ServerStep

\* What a client that is not off has received is not looked at by OffIsFresh.
LEMMA StepOffIsFresh == IInv /\ [Next]_vars => OffIsFresh'
<1> SUFFICES ASSUME IInv, [Next]_vars, NEW b \in Clients, pc'[b] = "off"
             PROVE  /\ fifoq'[b] = <<>>
                    /\ ~sig'[b] /\ ~handling'[b]
                    /\ skipped'[b] = 0 /\ phantom'[b] = 0
  BY DEF OffIsFresh
<1> DEFINE Fresh == /\ fifoq[b] = <<>>
                    /\ ~sig[b] /\ ~handling[b]
                    /\ skipped[b] = 0 /\ phantom[b] = 0
<1> USE DEF serverVars, clientVars
<1>0. /\ pc \in [Clients -> {"off", "prompt", "open", "assign", "menu", "reply", "gone"}]
      /\ fifoq \in [Clients -> Seq(Messages)]
      /\ sig \in [Clients -> BOOLEAN] /\ handling \in [Clients -> BOOLEAN]
      /\ skipped \in [Clients -> Nat] /\ phantom \in [Clients -> Nat]
  BY DEF IInv, TypeOK
<1>a. pc[b] = "off" => Fresh
  BY DEF IInv, OffIsFresh
<1>1. CASE ServerMkfifo \/ ServerOpen \/ ServerRead \/ ServerOpenDest
  BY <1>1, <1>a DEF ServerMkfifo, ServerOpen, ServerRead, ServerOpenDest
<1>2. CASE ServerWrite
  <2>1. pc[b] = "off" /\ UNCHANGED <<sig, handling, skipped, phantom>>
    BY <1>2 DEF ServerWrite
  <2>2. fifoq'[b] = fifoq[b]
    BY <1>0, <1>2, <2>1 DEF ServerWrite, IsReader
  <2> QED
    BY <2>1, <2>2, <1>a
<1>3. CASE ServerKill
  <2>1. pc[b] = "off" /\ UNCHANGED <<fifoq, handling>>
    BY <1>3 DEF ServerKill
  <2>2. sig'[b] = sig[b] /\ skipped'[b] = skipped[b] /\ phantom'[b] = phantom[b]
    BY <1>0, <1>3, <2>1 DEF ServerKill, Alive
  <2> QED
    BY <2>1, <2>2, <1>a
<1>4. ASSUME NEW c \in Clients, UNCHANGED <<fifoq, sig, handling, skipped, phantom>>,
             pc[b] = "off"
      PROVE  Fresh'
  BY <1>4, <1>a
<1>5. ASSUME NEW c \in Clients, ClientStart(c) PROVE Fresh'
  BY <1>0, <1>4, <1>5 DEF ClientStart
<1>6. ASSUME NEW c \in Clients, NEW d \in Dests, FirstMessage(c, d) PROVE Fresh'
  BY <1>0, <1>4, <1>6 DEF FirstMessage
<1>7. ASSUME NEW c \in Clients,
             OpenReturns(c) \/ AssignFd(c) \/ ChooseReply(c) \/ ClientExit(c) \/ SendReply(c)
      PROVE  Fresh'
  BY <1>0, <1>4, <1>7 DEF OpenReturns, AssignFd, ChooseReply, ClientExit, SendReply
<1>8. ASSUME NEW c \in Clients, HandlerStart(c) \/ HandlerRead(c) PROVE Fresh'
  <2>1. pc[b] = "off" /\ c # b /\ UNCHANGED phantom
    BY <1>8 DEF HandlerStart, HandlerRead, Alive
  <2>2. sig'[b] = sig[b] /\ handling'[b] = handling[b]
    BY <1>0, <1>8, <2>1 DEF HandlerStart, HandlerRead
  <2>3. fifoq'[b] = fifoq[b] /\ skipped'[b] = skipped[b]
    BY <1>0, <1>8, <2>1 DEF HandlerStart, HandlerRead
  <2> QED
    BY <2>1, <2>2, <2>3, <1>a
<1>9. CASE UNCHANGED vars
  BY <1>9, <1>a DEF vars
<1> QED
  BY <1>1, <1>2, <1>3, <1>5, <1>6, <1>7, <1>8, <1>9 DEF Next, ServerStep

-----------------------------------------------------------------------------

InKill(c) == server = "kill" /\ fd1 /\ cur.dpid = c

Unread(c) == Len(fifoq[c])

Balance(c) == Unread(c) + phantom[c] = Owed(c) + skipped[c]

\* A step that leaves all terms of the balance of b alone.
LEMMA Untouched ==
    ASSUME NEW b \in Clients, Balance(b),
           fifoq'[b] = fifoq[b], phantom'[b] = phantom[b], skipped'[b] = skipped[b],
           sig'[b] = sig[b], handling'[b] = handling[b], InKill(b)' = InKill(b)
    PROVE  Balance(b)'
  BY DEF Balance, Unread, Owed, One, InKill

\* A step that changes both sides by the same amount.
LEMMA MoveBalance ==
    ASSUME NEW b \in Clients, Balance(b),
           Unread(b) \in Nat, phantom[b] \in Nat, skipped[b] \in Nat, Owed(b) \in Nat,
           Unread(b)' \in Nat, phantom'[b] \in Nat, skipped'[b] \in Nat, Owed(b)' \in Nat,
           Unread(b)' + phantom'[b] + Owed(b) + skipped[b]
               = Owed(b)' + skipped'[b] + Unread(b) + phantom[b]
    PROVE  Balance(b)'
  BY DEF Balance

\* The terms of the balance.
LEMMA Terms ==
    ASSUME TypeOK, NEW b \in Clients
    PROVE  /\ Unread(b) \in Nat /\ phantom[b] \in Nat /\ skipped[b] \in Nat
           /\ One(sig[b]) \in Nat /\ One(handling[b]) \in Nat /\ One(InKill(b)) \in Nat
           /\ Owed(b) = One(sig[b]) + One(handling[b]) + One(InKill(b))
<1>1. Unread(b) \in Nat /\ phantom[b] \in Nat /\ skipped[b] \in Nat
  BY DEF TypeOK, Unread
<1>2. One(sig[b]) \in Nat /\ One(handling[b]) \in Nat /\ One(InKill(b)) \in Nat
  BY DEF One
<1>3. Owed(b) = One(sig[b]) + One(handling[b]) + One(InKill(b))
  BY DEF Owed, InKill
<1> QED
  BY <1>1, <1>2, <1>3

\* The balance of every client is kept by every step after which it counts.
LEMMA StepUnreadAccounted ==
    IInv /\ TypeOK' /\ [Next]_vars => UnreadAccounted'
<1> SUFFICES ASSUME IInv, TypeOK', [Next]_vars, NEW b \in Clients,
                    Alive(b)', server' # "ended"
             PROVE  Balance(b)'
  BY DEF UnreadAccounted, Balance, Unread
<1>0. TypeOK /\ OffIsFresh /\ OpenedStarted /\ TypeOK'
  BY DEF IInv
<1>b. Alive(b) /\ server # "ended" => Balance(b)
  BY DEF IInv, UnreadAccounted, Balance, Unread
<1> USE DEF serverVars, clientVars
<1>1. CASE ServerMkfifo \/ ServerOpen \/ ServerRead \/ ServerOpenDest
  <2>1. /\ Alive(b) /\ server # "ended"
        /\ UNCHANGED <<fifoq, phantom, skipped, sig, handling>>
    BY <1>1 DEF ServerMkfifo, ServerOpen, ServerRead, ServerOpenDest, Alive
  <2>2. InKill(b)' = InKill(b)
    BY <1>1 DEF ServerMkfifo, ServerOpen, ServerRead, ServerOpenDest, InKill
  <2> QED
    BY <2>1, <2>2, <1>b, Untouched
<1>2. CASE ServerWrite
  <2>1. /\ Alive(b) /\ server # "ended" /\ server' = "kill" /\ ~InKill(b)
        /\ UNCHANGED <<phantom, skipped, sig, handling, cur, fd1>>
    BY <1>2 DEF ServerWrite, Alive, InKill
  <2>2. CASE fd1 /\ cur.dpid = b
    <3>1. fifoq'[b] = Append(fifoq[b], cur)
      BY <1>0, <1>2, <2>1, <2>2 DEF ServerWrite, TypeOK
    <3>2. fifoq[b] \in Seq(Messages) /\ cur \in Messages
      BY <1>0, <2>2, CurFacts DEF TypeOK
    <3>3. Unread(b)' = Unread(b) + 1
      BY <3>1, <3>2 DEF Unread
    <3>4. One(InKill(b))' = 1 /\ One(InKill(b)) = 0
      BY <2>1, <2>2 DEF One, InKill
    <3>5. One(sig[b])' = One(sig[b]) /\ One(handling[b])' = One(handling[b])
      BY <2>1 DEF One
    <3>6. Balance(b)
      BY <2>1, <1>b
    <3>7. Owed(b) = One(sig[b]) + One(handling[b]) + One(InKill(b))
      BY <1>0, Terms
    <3>8. Owed(b)' = One(sig[b]) + One(handling[b]) + One(InKill(b))'
      BY <3>5 DEF Owed, InKill
    <3>9. /\ Unread(b) \in Nat /\ phantom[b] \in Nat /\ skipped[b] \in Nat
          /\ One(sig[b]) \in Nat /\ One(handling[b]) \in Nat
      BY <1>0, Terms
    <3>10. Owed(b)' = Owed(b) + 1 /\ Owed(b) \in Nat
      BY <3>4, <3>7, <3>8, <3>9
    <3> QED
      BY <2>1, <3>3, <3>6, <3>9, <3>10, MoveBalance
  <2>3. CASE ~(fd1 /\ cur.dpid = b)
    <3>1. fifoq'[b] = fifoq[b]
      BY <1>0, <1>2, <2>3 DEF ServerWrite, TypeOK
    <3>2. InKill(b)' = InKill(b)
      BY <2>1, <2>3 DEF InKill
    <3> QED
      BY <2>1, <3>1, <3>2, <1>b, Untouched
  <2> QED
    BY <2>2, <2>3
<1>3. CASE ServerKill
  <2>1. /\ Alive(b) /\ server = "kill" /\ server' = "read" /\ ~InKill(b)'
        /\ UNCHANGED <<fifoq, handling, cur, fd1>>
    BY <1>3 DEF ServerKill, Alive, InKill
  <2>2. CASE cur.dpid # b
    <3>1. sig'[b] = sig[b] /\ skipped'[b] = skipped[b] /\ phantom'[b] = phantom[b]
      <4>1. /\ UNCHANGED sig \/ sig' = [sig EXCEPT ![cur.dpid] = TRUE]
            /\ UNCHANGED skipped \/ skipped' = [skipped EXCEPT ![cur.dpid] = @ + 1]
            /\ UNCHANGED phantom \/ phantom' = [phantom EXCEPT ![cur.dpid] = @ + 1]
        BY <1>3, Zenon DEF ServerKill
      <4>2. DOMAIN sig = Clients /\ DOMAIN skipped = Clients /\ DOMAIN phantom = Clients
        BY <1>0 DEF TypeOK
      <4>3. sig'[b] = sig[b]
        BY <2>2, <4>1, <4>2
      <4>4. skipped'[b] = skipped[b]
        BY <2>2, <4>1, <4>2
      <4>5. phantom'[b] = phantom[b]
        BY <2>2, <4>1, <4>2
      <4> QED
        BY <4>3, <4>4, <4>5
    <3>2. InKill(b)' = InKill(b)
      BY <2>1, <2>2 DEF InKill
    <3> QED
      BY <2>1, <3>1, <3>2, <1>b, Untouched
  <2>3. CASE cur.dpid = b
    <3>0. b # Junk /\ b # 0
      BY JunkAssumption, ClientsAssumption
    <3>1. /\ sig' = [sig EXCEPT ![b] = TRUE]
          /\ skipped' = IF sig[b] THEN [skipped EXCEPT ![b] = @ + 1] ELSE skipped
          /\ phantom' = IF fd1 THEN phantom ELSE [phantom EXCEPT ![b] = @ + 1]
      BY <1>3, <2>1, <2>3, <3>0 DEF ServerKill
    <3>2. sig'[b] = TRUE
      BY <1>0, <3>1 DEF TypeOK
    <3>3. skipped'[b] = skipped[b] + One(sig[b])
      BY <1>0, <3>1 DEF TypeOK, One
    <3>4. phantom'[b] = phantom[b] + 1 - One(InKill(b))
      <4>1. CASE fd1
        BY <1>0, <2>1, <2>3, <3>1, <4>1 DEF TypeOK, One, InKill
      <4>2. CASE ~fd1
        BY <1>0, <2>1, <2>3, <3>1, <4>2 DEF TypeOK, One, InKill
      <4> QED
        BY <4>1, <4>2
    <3>5. Owed(b)' = 1 + One(handling[b]) + 0
      <4>1. One(sig[b])' = 1 /\ One(InKill(b))' = 0 /\ One(handling[b])' = One(handling[b])
        BY <2>1, <3>2 DEF One
      <4> QED
        BY <4>1 DEF Owed, InKill
    <3>6. /\ Unread(b) \in Nat /\ phantom[b] \in Nat /\ skipped[b] \in Nat
          /\ One(sig[b]) \in Nat /\ One(handling[b]) \in Nat /\ One(InKill(b)) \in Nat
          /\ Owed(b) = One(sig[b]) + One(handling[b]) + One(InKill(b))
      BY <1>0, Terms
    <3>7. Balance(b)
      BY <2>1, <1>b
    <3>8. Unread(b)' = Unread(b)
      BY <2>1 DEF Unread
    <3>9. Owed(b)' + One(sig[b]) + One(InKill(b)) = Owed(b) + 1 /\ Owed(b)' \in Nat /\ Owed(b) \in Nat
      BY <3>5, <3>6
    <3> QED
      <4> DEFINE merged == One(sig[b])
                 sending == One(InKill(b))
      <4>0. merged \in 0..1 /\ sending \in 0..1
        BY DEF One
      <4>1. /\ skipped'[b] = skipped[b] + merged
            /\ phantom'[b] = phantom[b] + 1 - sending
            /\ Owed(b)' + merged + sending = Owed(b) + 1
        BY <3>3, <3>4, <3>9
      <4> HIDE DEF merged, sending
      <4>2. skipped'[b] \in Nat /\ phantom'[b] \in Nat
        BY <3>6, <4>0, <4>1
      <4>3. Unread(b)' + phantom'[b] + Owed(b) + skipped[b]
                = Owed(b)' + skipped'[b] + Unread(b) + phantom[b]
        BY <3>6, <3>9, <3>8, <4>0, <4>1
      <4> QED
        BY <3>6, <3>7, <3>9, <3>8, <4>2, <4>3, MoveBalance
  <2> QED
    BY <2>2, <2>3
<1>4. ASSUME UNCHANGED <<fifoq, phantom, skipped, sig, handling, server, cur, fd1>>, Alive(b)
      PROVE  Balance(b)'
  <2>1. InKill(b)' = InKill(b)
    BY <1>4 DEF InKill
  <2> QED
    BY <1>4, <1>b, <2>1, Untouched
<1>5. ASSUME NEW c \in Clients, ClientStart(c) PROVE Balance(b)'
  <2>1. UNCHANGED <<fifoq, phantom, skipped, sig, handling, server, cur, fd1>>
    BY <1>5 DEF ClientStart
  <2>2. CASE c = b
    <3>1. /\ pc[b] = "off" /\ fifoq[b] = <<>> /\ ~sig[b] /\ ~handling[b]
          /\ skipped[b] = 0 /\ phantom[b] = 0
      BY <1>0, <1>5, <2>2 DEF ClientStart, OffIsFresh
    <3>2. ~InKill(b)
      BY <1>0, <3>1 DEF OpenedStarted, InKill
    <3>3. One(sig[b]) = 0 /\ One(handling[b]) = 0 /\ One(InKill(b)) = 0
      BY <3>1, <3>2 DEF One
    <3>4. Balance(b)
      BY <1>0, <3>1, <3>3, Terms DEF Balance, Unread
    <3>5. InKill(b)' = InKill(b)
      BY <2>1 DEF InKill
    <3> QED
      BY <2>1, <3>4, <3>5, Untouched
  <2>3. CASE c # b
    <3>1. Alive(b)
      BY <1>0, <1>5, <2>3 DEF ClientStart, Alive, TypeOK
    <3> QED
      BY <1>4, <2>1, <3>1
  <2> QED
    BY <2>2, <2>3
<1>6. ASSUME NEW c \in Clients, NEW d \in Dests, FirstMessage(c, d) PROVE Balance(b)'
  <2>1. Alive(b)
    BY <1>0, <1>6 DEF FirstMessage, Alive, TypeOK
  <2> QED
    BY <1>4, <1>6, <2>1 DEF FirstMessage
<1>7. ASSUME NEW c \in Clients,
             OpenReturns(c) \/ AssignFd(c) \/ ChooseReply(c) \/ ClientExit(c) \/ SendReply(c)
      PROVE  Balance(b)'
  <2>1. Alive(b)
    BY <1>0, <1>7 DEF OpenReturns, AssignFd, ChooseReply, ClientExit, SendReply, Alive, TypeOK
  <2> QED
    BY <1>4, <1>7, <2>1 DEF OpenReturns, AssignFd, ChooseReply, ClientExit, SendReply
<1>8. ASSUME NEW c \in Clients, HandlerStart(c) PROVE Balance(b)'
  <2>1. Alive(b) /\ server # "ended" /\ UNCHANGED <<fifoq, phantom, skipped, server, cur, fd1>>
    BY <1>8 DEF HandlerStart, Alive
  <2>2. InKill(b)' = InKill(b)
    BY <2>1 DEF InKill
  <2>3. CASE c = b
    <3>1. sig[b] /\ ~handling[b] /\ ~sig'[b] /\ handling'[b]
      BY <1>0, <1>8, <2>3 DEF HandlerStart, TypeOK
    <3>2. /\ One(sig[b]) = 1 /\ One(handling[b]) = 0
          /\ One(sig[b])' = 0 /\ One(handling[b])' = 1
      BY <3>1 DEF One
    <3>3. One(InKill(b))' = One(InKill(b)) /\ One(InKill(b)) \in Nat
      BY <2>2 DEF One
    <3>4. Owed(b)' = Owed(b)
      BY <3>2, <3>3 DEF Owed, InKill
    <3> QED
      BY <2>1, <3>4, <1>b DEF Balance, Unread
  <2>4. CASE c # b
    <3>1. sig'[b] = sig[b] /\ handling'[b] = handling[b]
      BY <1>0, <1>8, <2>4 DEF HandlerStart, TypeOK
    <3> QED
      BY <2>1, <2>2, <3>1, <1>b, Untouched
  <2> QED
    BY <2>3, <2>4
<1>9. ASSUME NEW c \in Clients, HandlerRead(c) PROVE Balance(b)'
  <2>1. Alive(b) /\ server # "ended" /\ UNCHANGED <<phantom, sig, server, cur, fd1>>
    BY <1>9 DEF HandlerRead, Alive
  <2>2. InKill(b)' = InKill(b)
    BY <2>1 DEF InKill
  <2>3. CASE c = b
    <3>1. handling[b] /\ ~handling'[b]
      BY <1>0, <1>9, <2>3 DEF HandlerRead, TypeOK
    <3>2. /\ One(handling[b]) = 1 /\ One(handling[b])' = 0
          /\ One(sig[b])' = One(sig[b]) /\ One(InKill(b))' = One(InKill(b))
      BY <2>1, <2>2, <3>1 DEF One
    <3>3. /\ Unread(b) \in Nat /\ phantom[b] \in Nat /\ skipped[b] \in Nat
          /\ One(sig[b]) \in Nat /\ One(InKill(b)) \in Nat
      BY <1>0, Terms
    <3>4. Owed(b)' + 1 = Owed(b)
      BY <3>2, <3>3 DEF Owed, InKill
    <3>5. Owed(b) \in Nat /\ Owed(b)' \in Nat
      BY <3>2, <3>3 DEF Owed, InKill
    <3>6. CASE FdSet(b)
      <4>1. fifoq[b] # <<>> /\ fifoq' = [fifoq EXCEPT ![b] = Tail(fifoq[b])] /\ skipped' = skipped
        BY <1>9, <2>1, <2>3, <3>6 DEF HandlerRead
      <4>2. fifoq[b] \in Seq(Messages) /\ fifoq'[b] = Tail(fifoq[b])
        BY <1>0, <4>1 DEF TypeOK
      <4>3. Unread(b)' + 1 = Unread(b) /\ Unread(b)' \in Nat
        BY <4>1, <4>2, TailLen DEF Unread
      <4>4. Balance(b)
        BY <1>b, <2>1
      <4> QED
        <5>1. phantom'[b] = phantom[b] /\ skipped'[b] = skipped[b]
          BY <2>1, <4>1
        <5>2. Unread(b)' + phantom'[b] + Owed(b) + skipped[b]
                  = Owed(b)' + skipped'[b] + Unread(b) + phantom[b]
          BY <3>3, <3>4, <3>5, <4>3, <5>1
        <5> QED
          BY <3>3, <3>5, <4>3, <4>4, <5>1, <5>2, MoveBalance
    <3>7. CASE ~FdSet(b)
      <4>1. skipped' = [skipped EXCEPT ![b] = skipped[b] + 1] /\ fifoq' = fifoq
        BY <1>9, <2>3, <3>7 DEF HandlerRead
      <4>2. skipped'[b] = skipped[b] + 1
        BY <1>0, <4>1 DEF TypeOK
      <4>3. Unread(b)' = Unread(b)
        BY <4>1 DEF Unread
      <4> QED
        BY <1>b, <2>1, <3>3, <3>4, <3>5, <4>2, <4>3, MoveBalance
    <3> QED
      BY <3>6, <3>7
  <2>4. CASE c # b
    <3>1. handling'[b] = handling[b]
      BY <1>0, <1>9, <2>4 DEF HandlerRead, TypeOK
    <3>2. fifoq'[b] = fifoq[b] /\ skipped'[b] = skipped[b]
      BY <1>0, <1>9, <2>4 DEF HandlerRead, TypeOK
    <3> QED
      BY <2>1, <2>2, <3>1, <3>2, <1>b, Untouched
  <2> QED
    BY <2>3, <2>4
<1>10. CASE UNCHANGED vars
  <2>1. Alive(b)
    BY <1>10 DEF vars, Alive
  <2> QED
    BY <1>4, <1>10, <2>1 DEF vars
<1> QED
  BY <1>1, <1>2, <1>3, <1>5, <1>6, <1>7, <1>8, <1>9, <1>10 DEF Next, ServerStep

-----------------------------------------------------------------------------

\* Order: the messages are numbered as they are written, and every FIFO on
\* their way keeps that order.

Increasing(s) == \A i, j \in DOMAIN s : i < j => s[i].n < s[j].n

\* What waits in the server's FIFO is later than what the server has read.
Queued ==
    /\ Increasing(srvq)
    /\ \A i \in DOMAIN srvq : cur.n < srvq[i].n /\ srvq[i].n <= sent
    /\ cur.n <= sent

\* The server has yet to write cur.
ToWrite == server \in {"open", "write"}

\* The messages of s are for c, and are earlier than cur, or the last is cur.
For(c, s) ==
    \A i \in DOMAIN s : s[i].dpid = c /\ s[i].n <= cur.n /\ (ToWrite => s[i].n < cur.n)

\* What c has displayed is earlier than what waits in its FIFO.
Delivered(c) ==
    /\ Increasing(fifoq[c]) /\ For(c, fifoq[c])
    /\ Increasing(shown[c]) /\ For(c, shown[c])
    /\ \A i \in DOMAIN shown[c], j \in DOMAIN fifoq[c] : shown[c][i].n < fifoq[c][j].n

Order == Queued /\ \A c \in Clients : Delivered(c)

-----------------------------------------------------------------------------

\* An increasing sequence of messages stays so without its first, which is
\* before all others.
LEMMA IncreasingTail ==
    ASSUME NEW s \in Seq(Messages), s # <<>>, Increasing(s)
    PROVE  /\ Increasing(Tail(s)) /\ 1 \in DOMAIN s /\ Head(s) = s[1]
           /\ \A i \in DOMAIN Tail(s) :
                 i + 1 \in DOMAIN s /\ Tail(s)[i] = s[i + 1] /\ Head(s).n < Tail(s)[i].n
<1>1. /\ Len(s) \in Nat /\ Len(s) > 0 /\ DOMAIN s = 1..Len(s) /\ Head(s) = s[1]
      /\ DOMAIN Tail(s) = 1..(Len(s) - 1)
      /\ \A i \in 1..(Len(s) - 1) : Tail(s)[i] = s[i + 1]
  OBVIOUS
<1>2. \A i \in DOMAIN Tail(s) : i \in Int /\ i + 1 \in DOMAIN s /\ 1 < i + 1
  BY <1>1
<1>3. Increasing(Tail(s))
  BY <1>1, <1>2 DEF Increasing
<1> QED
  BY <1>1, <1>2, <1>3 DEF Increasing

\* It stays so with a later message behind it.
LEMMA IncreasingAppend ==
    ASSUME NEW s \in Seq(Messages), NEW m \in Messages, Increasing(s),
           \A i \in DOMAIN s : s[i].n < m.n
    PROVE  /\ Increasing(Append(s, m))
           /\ \A i \in DOMAIN Append(s, m) :
                 \/ i \in DOMAIN s /\ Append(s, m)[i] = s[i]
                 \/ Append(s, m)[i] = m
<1>1. /\ Len(s) \in Nat /\ DOMAIN s = 1..Len(s)
      /\ DOMAIN Append(s, m) = 1..(Len(s) + 1)
      /\ \A i \in 1..Len(s) : Append(s, m)[i] = s[i]
      /\ Append(s, m)[Len(s) + 1] = m
  OBVIOUS
<1>2. \A i \in DOMAIN Append(s, m) :
         \/ i \in DOMAIN s /\ Append(s, m)[i] = s[i]
         \/ i = Len(s) + 1 /\ Append(s, m)[i] = m
  BY <1>1
<1>3. ASSUME NEW i \in DOMAIN Append(s, m), NEW j \in DOMAIN Append(s, m), i < j
      PROVE  Append(s, m)[i].n < Append(s, m)[j].n
  <2>1. i \in DOMAIN s /\ Append(s, m)[i] = s[i]
    BY <1>1, <1>3
  <2>2. CASE j \in DOMAIN s
    BY <1>1, <1>3, <2>1, <2>2 DEF Increasing
  <2>3. CASE j = Len(s) + 1
    BY <1>1, <2>1, <2>3
  <2> QED
    BY <1>2, <2>2, <2>3
<1> QED
  BY <1>2, <1>3 DEF Increasing

\* The numbers of messages are numbers.
LEMMA Numbers ==
    ASSUME TypeOK
    PROVE  /\ cur.n \in Int /\ sent \in Int
           /\ \A i \in DOMAIN srvq : srvq[i] \in Messages /\ srvq[i].n \in Int
           /\ \A c \in Clients :
                 /\ fifoq[c] \in Seq(Messages) /\ shown[c] \in Seq(Messages)
                 /\ \A i \in DOMAIN fifoq[c] : fifoq[c][i] \in Messages /\ fifoq[c][i].n \in Int
                 /\ \A i \in DOMAIN shown[c] : shown[c][i] \in Messages /\ shown[c][i].n \in Int
<1>1. \A m \in Messages : m.n \in Int
  BY MaxMsgsAssumption DEF Messages
<1>2. \A s \in Seq(Messages) : \A i \in DOMAIN s : s[i] \in Messages
  OBVIOUS
<1>3. cur.n \in Int /\ sent \in Int
  BY <1>1, MaxMsgsAssumption DEF TypeOK, NoMessage
<1>4. /\ srvq \in Seq(Messages)
      /\ \A c \in Clients : fifoq[c] \in Seq(Messages) /\ shown[c] \in Seq(Messages)
  BY DEF TypeOK
<1> QED
  BY <1>1, <1>2, <1>3, <1>4

LEMMA StepQueued == TypeOK /\ TypeOK' /\ Order /\ [Next]_vars => Queued'
<1> SUFFICES ASSUME TypeOK, TypeOK', Order, [Next]_vars PROVE Queued'
  OBVIOUS
<1>0. Queued /\ srvq \in Seq(Messages)
  BY DEF Order, TypeOK
<1>1. CASE ServerRead
  <2>1. CASE srvq # <<>>
    <3>1. cur' = Head(srvq) /\ srvq' = Tail(srvq) /\ sent' = sent
      BY <1>1, <2>1 DEF ServerRead, clientVars
    <3>2. Increasing(srvq) /\ \A i \in DOMAIN srvq : srvq[i].n <= sent
      BY <1>0 DEF Queued
    <3>3. cur'.n <= sent /\ \A i \in DOMAIN srvq' : cur'.n < srvq'[i].n /\ srvq'[i].n <= sent
      BY <3>1, <3>2, <2>1, <1>0, IncreasingTail
    <3>4. Increasing(srvq')
      BY <3>1, <3>2, <2>1, <1>0, IncreasingTail
    <3> QED
      BY <3>1, <3>3, <3>4 DEF Queued, Increasing
  <2>2. CASE srvq = <<>>
    BY <1>0, <1>1, <2>2 DEF ServerRead, clientVars, Queued, Increasing
  <2> QED
    BY <2>1, <2>2
<1>2. ASSUME NEW c \in Clients, NEW d \in Clients \cup {0, Junk}, Post(c, d), cur' = cur
      PROVE  Queued'
  <2>1. CASE fd1c[c]
    <3> DEFINE m == [dpid |-> d, spid |-> c, n |-> sent + 1]
    <3>1. sent' = sent + 1 /\ srvq' = Append(srvq, m) /\ sent < MaxMsgs
      BY <1>2, <2>1 DEF Post
    <3>2. m \in Messages /\ m.n = sent + 1
      BY <3>1, MaxMsgsAssumption DEF Messages, TypeOK
    <3> HIDE DEF m
    <3>3. Increasing(srvq) /\ \A i \in DOMAIN srvq : srvq[i].n < m.n
      BY <3>2, <1>0, Numbers DEF Queued
    <3>4. /\ Increasing(srvq')
          /\ \A i \in DOMAIN srvq' : (i \in DOMAIN srvq /\ srvq'[i] = srvq[i]) \/ srvq'[i] = m
      BY <3>1, <3>2, <3>3, <1>0, IncreasingAppend
    <3>5. /\ \A i \in DOMAIN srvq' : cur'.n < srvq'[i].n /\ srvq'[i].n <= sent'
          /\ cur'.n <= sent'
      BY <3>1, <3>2, <3>4, <1>2, <1>0, Numbers DEF Queued
    <3> QED
      BY <3>4, <3>5 DEF Queued, Increasing
  <2>2. CASE ~fd1c[c]
    BY <1>0, <1>2, <2>2 DEF Post, Queued, Increasing
  <2> QED
    BY <2>1, <2>2
<1>3. ASSUME NEW c \in Clients, NEW d \in Dests, FirstMessage(c, d) PROVE Queued'
  BY <1>2, <1>3, DestsAssumption DEF FirstMessage, serverVars
<1>4. ASSUME NEW c \in Clients, SendReply(c) PROVE Queued'
  <2>1. incoming[c] \in Clients \cup {0, Junk}
    BY DEF TypeOK
  <2> QED
    BY <1>2, <1>4, <2>1 DEF SendReply, serverVars
<1>5. CASE UNCHANGED <<cur, srvq, sent>>
  BY <1>0, <1>5 DEF Queued, Increasing
<1>6. CASE ServerMkfifo \/ ServerOpen \/ ServerOpenDest \/ ServerWrite \/ ServerKill
  BY <1>5, <1>6
  DEF ServerMkfifo, ServerOpen, ServerOpenDest, ServerWrite, ServerKill, clientVars
<1>7. ASSUME NEW c \in Clients,
             \/ ClientStart(c) \/ OpenReturns(c) \/ AssignFd(c) \/ ChooseReply(c)
             \/ HandlerStart(c) \/ HandlerRead(c) \/ ClientExit(c)
      PROVE  Queued'
  BY <1>5, <1>7
  DEF ClientStart, OpenReturns, AssignFd, ChooseReply, HandlerStart, HandlerRead, ClientExit,
      serverVars
<1>8. CASE UNCHANGED vars
  BY <1>5, <1>8 DEF vars
<1> QED
  BY <1>1, <1>3, <1>4, <1>6, <1>7, <1>8 DEF Next, ServerStep

\* cur is written to the FIFO of its destination after it was read, and before
\* the next one is.
LEMMA StepDelivered ==
    ASSUME TypeOK, Order, [Next]_vars, NEW b \in Clients
    PROVE  Delivered(b)'
<1>0. Delivered(b) /\ Queued
  BY DEF Order
\* A step that leaves both sequences alone, and cur, unless it reads a later one.
<1>1. ASSUME fifoq'[b] = fifoq[b], shown'[b] = shown[b],
             \/ cur' = cur /\ (ToWrite' => ToWrite)
             \/ cur.n < cur'.n /\ cur'.n \in Int
      PROVE  Delivered(b)'
  <2>1. ASSUME NEW s \in Seq(Messages), For(b, s), \A i \in DOMAIN s : s[i].n \in Int
        PROVE  \A i \in DOMAIN s :
                  s[i].dpid = b /\ s[i].n <= cur'.n /\ (ToWrite' => s[i].n < cur'.n)
    BY <1>1, <2>1, Numbers DEF For
  <2>2. fifoq[b] \in Seq(Messages) /\ shown[b] \in Seq(Messages)
    BY Numbers
  <2>3. For(b, fifoq[b])' /\ For(b, shown[b])'
    BY <1>0, <1>1, <2>1, <2>2, Numbers DEF For, Delivered
  <2> QED
    BY <1>0, <1>1, <2>3 DEF Delivered, Increasing
<1>2. CASE ServerRead
  <2>1. UNCHANGED <<fifoq, shown>>
    BY <1>2 DEF ServerRead, clientVars
  <2>2. CASE srvq # <<>>
    <3>1. cur' = Head(srvq)
      BY <1>2, <2>2 DEF ServerRead
    <3>2. 1 \in DOMAIN srvq /\ Head(srvq) = srvq[1]
      BY <2>2 DEF TypeOK
    <3>3. cur.n < cur'.n /\ cur'.n \in Int
      BY <3>1, <3>2, <1>0, Numbers DEF Queued
    <3> QED
      BY <1>1, <2>1, <3>3
  <2>3. CASE srvq = <<>>
    <3>1. cur' = cur /\ ~ToWrite'
      BY <1>2, <2>3 DEF ServerRead, ToWrite
    <3> QED
      BY <1>1, <2>1, <3>1
  <2> QED
    BY <2>2, <2>3
<1>3. CASE ServerWrite
  <2>1. /\ server = "write" /\ ToWrite /\ ~ToWrite' /\ cur' = cur /\ shown' = shown
    BY <1>3 DEF ServerWrite, ToWrite, clientVars
  <2>2. CASE fifoq'[b] = fifoq[b]
    BY <1>1, <2>1, <2>2
  <2>3. CASE fifoq'[b] # fifoq[b]
    <3>1. /\ cur.dpid = b /\ fifoq' = [fifoq EXCEPT ![b] = Append(@, cur)]
      BY <1>3, <2>3 DEF ServerWrite, TypeOK
    <3>2. cur \in Messages /\ fifoq[b] \in Seq(Messages) /\ cur.n \in Int
      BY <3>1, CurFacts, Numbers DEF TypeOK
    <3>3. /\ Increasing(fifoq[b]) /\ \A i \in DOMAIN fifoq[b] : fifoq[b][i].n < cur.n
          /\ \A i \in DOMAIN shown[b] : shown[b][i].n < cur.n
      BY <1>0, <2>1 DEF Delivered, For
    <3>4. fifoq'[b] = Append(fifoq[b], cur)
      BY <3>1 DEF TypeOK
    <3>5. /\ Increasing(fifoq'[b])
          /\ \A i \in DOMAIN fifoq'[b] :
                (i \in DOMAIN fifoq[b] /\ fifoq'[b][i] = fifoq[b][i]) \/ fifoq'[b][i] = cur
      BY <3>2, <3>3, <3>4, IncreasingAppend
    <3>6. For(b, fifoq[b])' /\ For(b, shown[b])'
      BY <1>0, <2>1, <3>1, <3>2, <3>5 DEF For, Delivered
    <3>7. \A i \in DOMAIN shown[b], j \in DOMAIN fifoq'[b] : shown[b][i].n < fifoq'[b][j].n
      BY <1>0, <3>3, <3>5 DEF Delivered
    <3> QED
      BY <1>0, <2>1, <3>5, <3>6, <3>7 DEF Delivered, Increasing
  <2> QED
    BY <2>2, <2>3
<1>4. ASSUME NEW c \in Clients, HandlerRead(c) PROVE Delivered(b)'
  <2>1. cur' = cur /\ server' = server /\ (ToWrite' <=> ToWrite)
    BY <1>4 DEF HandlerRead, serverVars, ToWrite
  <2>2. CASE fifoq' = fifoq /\ shown' = shown
    BY <1>1, <2>1, <2>2
  <2>3. CASE ~(fifoq' = fifoq /\ shown' = shown)
    <3>1. /\ fifoq[c] # <<>>
          /\ shown' = [shown EXCEPT ![c] = Append(@, Head(fifoq[c]))]
          /\ fifoq' = [fifoq EXCEPT ![c] = Tail(@)]
      BY <1>4, <2>3 DEF HandlerRead
    <3>2. CASE c # b
      <4>1. fifoq'[b] = fifoq[b] /\ shown'[b] = shown[b]
        BY <3>1, <3>2 DEF TypeOK
      <4> QED
        BY <1>1, <2>1, <4>1
    <3>3. CASE c = b
      <4> DEFINE q == fifoq[b]
                 h == Head(fifoq[b])
                 w == shown[b]
      <4>1. /\ q # <<>> /\ q \in Seq(Messages) /\ w \in Seq(Messages)
            /\ shown'[b] = Append(w, h) /\ fifoq'[b] = Tail(q)
        BY <3>1, <3>3 DEF TypeOK
      <4>2. /\ Increasing(q) /\ For(b, q) /\ Increasing(w) /\ For(b, w)
            /\ \A i \in DOMAIN w, j \in DOMAIN q : w[i].n < q[j].n
        BY <1>0 DEF Delivered
      <4>3. h = Head(q)
        OBVIOUS
      <4> HIDE DEF q, h, w
      <4>4. /\ Increasing(Tail(q)) /\ 1 \in DOMAIN q /\ h = q[1]
            /\ \A i \in DOMAIN Tail(q) :
                  i + 1 \in DOMAIN q /\ Tail(q)[i] = q[i + 1] /\ h.n < Tail(q)[i].n
        BY <4>1, <4>2, <4>3, IncreasingTail
      <4>5. h \in Messages /\ \A i \in DOMAIN w : w[i].n < h.n
        BY <4>1, <4>2, <4>4
      <4>6. /\ Increasing(Append(w, h))
            /\ \A i \in DOMAIN Append(w, h) :
                  (i \in DOMAIN w /\ Append(w, h)[i] = w[i]) \/ Append(w, h)[i] = h
        BY <4>1, <4>2, <4>5, IncreasingAppend
      <4>7. For(b, Tail(q)) /\ For(b, Append(w, h))
        BY <4>2, <4>4, <4>6 DEF For
      <4>8. \A i \in DOMAIN Append(w, h), j \in DOMAIN Tail(q) : Append(w, h)[i].n < Tail(q)[j].n
        BY <4>2, <4>4, <4>6
      <4>9. For(b, fifoq[b])' /\ For(b, shown[b])'
        BY <2>1, <4>1, <4>7 DEF For
      <4> QED
        BY <4>1, <4>4, <4>6, <4>8, <4>9 DEF Delivered, Increasing
    <3> QED
      BY <3>2, <3>3
  <2> QED
    BY <2>2, <2>3
<1>5. CASE ServerMkfifo \/ ServerOpen \/ ServerOpenDest \/ ServerKill
  <2>1. UNCHANGED <<fifoq, shown, cur>> /\ (ToWrite' => ToWrite)
    BY <1>5 DEF ServerMkfifo, ServerOpen, ServerOpenDest, ServerKill, clientVars, ToWrite
  <2> QED
    BY <1>1, <2>1
<1>6. CASE UNCHANGED <<fifoq, shown, cur, server>>
  <2>1. ToWrite' <=> ToWrite
    BY <1>6 DEF ToWrite
  <2> QED
    BY <1>1, <1>6, <2>1
<1>7. ASSUME NEW c \in Clients,
             \/ ClientStart(c) \/ (\E d \in Dests : FirstMessage(c, d))
             \/ OpenReturns(c) \/ AssignFd(c) \/ ChooseReply(c) \/ SendReply(c)
             \/ HandlerStart(c) \/ ClientExit(c)
      PROVE  Delivered(b)'
  BY <1>6, <1>7
  DEF ClientStart, FirstMessage, OpenReturns, AssignFd, ChooseReply, SendReply, HandlerStart,
      ClientExit, serverVars
<1>8. CASE UNCHANGED vars
  BY <1>6, <1>8 DEF vars
<1> QED
  BY <1>2, <1>3, <1>4, <1>5, <1>7, <1>8 DEF Next, ServerStep

-----------------------------------------------------------------------------

LEMMA Invariance == Spec => []IInv
<1>1. IInv /\ [Next]_vars => IInv'
  BY StepType, StepOffIsFresh, StepOpenedStarted, StepUnreadAccounted DEF IInv
<1> QED
  BY InitIInv, <1>1, PTL DEF Spec

\* The variables keep their types, for every set of clients and destinations.
THEOREM TypeCorrect == Spec => []TypeOK
<1>1. IInv => TypeOK
  BY DEF IInv
<1> QED
  BY Invariance, <1>1, PTL

\* However signals merge, come early or without a message, the unread messages
\* of a client are accounted for: in chatfifo_client.c's handler every run takes
\* one message, so what stays in the FIFO is one message per signal lost.
THEOREM SignalsAccounted == Spec => []UnreadAccounted
<1>1. IInv => UnreadAccounted
  BY DEF IInv
<1> QED
  BY Invariance, <1>1, PTL

LEMMA OrderInvariance == Spec => []Order
<1>1. Init => Order
  BY MaxMsgsAssumption DEF Init, Order, Queued, Delivered, For, Increasing, NoMessage
<1>2. TypeOK /\ TypeOK' /\ Order /\ [Next]_vars => Order'
  BY StepQueued, StepDelivered DEF Order
<1> QED
  BY <1>1, <1>2, TypeCorrect, PTL DEF Spec

\* The server and the handlers keep the order of the FIFOs they read: every
\* message that is displayed is for the client that displays it, comes after
\* the earlier ones of its sender, and is displayed once.
THEOREM OrderKept == Spec => []ShownInOrder
<1>1. TypeOK /\ Order => ShownInOrder
  <2> SUFFICES ASSUME TypeOK, Order, NEW c \in Clients,
                      NEW j \in DOMAIN shown[c], NEW k \in DOMAIN shown[c]
               PROVE  shown[c][j].dpid = c /\ (j < k => shown[c][j].n < shown[c][k].n)
    BY DEF ShownInOrder
  <2> QED
    BY DEF Order, Delivered, For, Increasing
<1> QED
  BY <1>1, OrderInvariance, TypeCorrect, PTL

=============================================================================
