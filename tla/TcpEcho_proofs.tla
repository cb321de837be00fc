---------------------------- MODULE TcpEcho_proofs ----------------------------
(***************************************************************************)
(* Theorems about TcpEcho, for both servers, any set of clients of either  *)
(* kind, any of them killed, and every size of texts, pieces and backlog:  *)
(* type correctness, EchoConserved and RoundsInStep.                       *)
(***************************************************************************)
EXTENDS TcpEcho, SequenceTheorems, TLAPS

\* A connection waits in the backlog once, before it is accepted, and nobody
\* has closed it on the server's side.
Waiting ==
    /\ \A i \in DOMAIN backlog :
          /\ pc[backlog[i]] # "off"
          /\ handler[backlog[i]] = "none"
          /\ serverEnd[backlog[i]] = "open"
    /\ \A i, j \in DOMAIN backlog : backlog[i] = backlog[j] => i = j

\* Nothing has happened to a client that has not connected.
Unborn ==
    \A c \in Clients : pc[c] = "off" =>
        handler[c] = "none" /\ serverEnd[c] = "open" /\ sent[c] = <<>> /\ printed[c] = <<>>

\* A connection that is served is open on the server's side.
Attended ==
    \A c \in Clients : handler[c] \in {"recv", "send"} => serverEnd[c] = "open"

\* Whatever was lost on the way, what has come back to the client is the
\* beginning of what it has sent, whether it has read it or not.
Returning == \A c \in Clients : IsPrefix(printed[c] \o toClient[c], sent[c])

\* While both ends are open no byte is lost.
Complete ==
    \A c \in Clients : serverEnd[c] = "open" /\ clientEnd[c] = "open" =>
        sent[c] = printed[c] \o toClient[c] \o InBuffer(c) \o toServer[c]

\* A client that receives still lacks what totalBytesRcvd says; one that does
\* not receive, and is not dead, lacks nothing.
Counted ==
    \A c \in Clients :
        /\ pc[c] = "recv" =>
              /\ Len(sent[c]) + total[c] = Len(printed[c]) + Len(echoString[c])
              /\ total[c] <= Len(echoString[c])
        /\ pc[c] \in {"input", "done"} => printed[c] = sent[c]

IInv == TypeOK /\ Waiting /\ Unborn /\ Attended /\ Returning /\ Complete /\ Counted

-----------------------------------------------------------------------------
\* Sequences

\* A prefix is what can be continued to the whole.
LEMMA PrefixIff ==
    ASSUME NEW S, NEW s \in Seq(S), NEW t \in Seq(S)
    PROVE  IsPrefix(s, t) <=> \E u \in Seq(S) : t = s \o u
<1>1. ASSUME IsPrefix(s, t) PROVE \E u \in Seq(S) : t = s \o u
  <2> DEFINE u == SubSeq(t, Len(s) + 1, Len(t))
  <2>1. Len(s) \in 0..Len(t) /\ s = SubSeq(t, 1, Len(s))
    BY <1>1, SubSeqFull, LenProperties DEF IsPrefix
  <2>2. u \in Seq(S)
    BY <2>1, SubSeqProperties, LenProperties, ElementOfSeq
  <2>3. t = SubSeq(t, 1, Len(s)) \o u
    <3>1. /\ 1 \in 1..Len(t) + 1 /\ Len(s) \in (1 - 1)..Len(t)
          /\ Len(t) \in Len(s)..Len(t)
      BY <2>1, LenProperties
    <3>2. SubSeq(t, 1, Len(s)) \o u = SubSeq(t, 1, Len(t))
      BY <3>1, ConcatAdjacentSubSeq
    <3> QED
      BY <3>2, SubSeqFull
  <2> QED
    BY <2>1, <2>2, <2>3
<1>2. ASSUME NEW u \in Seq(S), t = s \o u PROVE IsPrefix(s, t)
  <2>1. /\ Len(t) = Len(s) + Len(u)
        /\ \A i \in 1..Len(s) : t[i] = s[i]
    BY <1>2, ConcatProperties
  <2>2. SubSeq(t, 1, Len(s)) = s
    <3>1. /\ SubSeq(t, 1, Len(s)) \in Seq(S) /\ Len(SubSeq(t, 1, Len(s))) = Len(s)
          /\ \A i \in 1..Len(s) : SubSeq(t, 1, Len(s))[i] = s[i]
      BY <2>1, SubSeqProperties, ElementOfSeq, LenProperties
    <3> QED
      BY <3>1, SeqEqual
  <2> QED
    BY <2>1, <2>2, SubSeqFull, LenProperties DEF IsPrefix
<1> QED
  BY <1>1, <1>2

\* A sequence is what recv takes of it and the rest.
LEMMA Pieces ==
    ASSUME NEW S, NEW s \in Seq(S), NEW n \in 1..Len(s)
    PROVE  /\ SubSeq(s, 1, n) \in Seq(S) /\ Len(SubSeq(s, 1, n)) = n
           /\ SubSeq(s, n + 1, Len(s)) \in Seq(S)
           /\ s = SubSeq(s, 1, n) \o SubSeq(s, n + 1, Len(s))
<1>1. /\ SubSeq(s, 1, n) \in Seq(S) /\ Len(SubSeq(s, 1, n)) = n
      /\ SubSeq(s, n + 1, Len(s)) \in Seq(S)
  BY SubSeqProperties, ElementOfSeq, LenProperties
<1>2. s = SubSeq(s, 1, n) \o SubSeq(s, n + 1, Len(s))
  BY ConcatAdjacentSubSeq, SubSeqFull, LenProperties
<1> QED
  BY <1>1, <1>2

-----------------------------------------------------------------------------
\* Types

Bytes == Seq(1..Rounds)

Places ==
    /\ server \in {"iterative", "concurrent", "dead"}
    /\ backlog \in Seq(Clients) /\ Len(backlog) <= MAXPENDING + 1
    /\ pc \in [Clients -> {"off", "input", "recv", "done", "dead"}]
    /\ round \in [Clients -> 0..Rounds]
    /\ total \in [Clients -> 0..MaxLen]
    /\ serverEnd \in [Clients -> {"open", "fin", "reset"}]
    /\ clientEnd \in [Clients -> {"open", "fin", "reset"}]
    /\ handler \in [Clients -> {"none", "recv", "send", "exited", "refused"}]

Streams ==
    /\ toServer \in [Clients -> Bytes] /\ toClient \in [Clients -> Bytes]
    /\ echoBuffer \in [Clients -> Bytes] /\ echoString \in [Clients -> Bytes]
    /\ sent \in [Clients -> Bytes] /\ printed \in [Clients -> Bytes]
    /\ \A c \in Clients : Len(echoString[c]) <= MaxLen /\ Len(echoBuffer[c]) <= Chunk

LEMMA TypeParts == (TypeOK <=> Places /\ Streams) /\ (TypeOK' <=> Places' /\ Streams')
BY DEF TypeOK, Places, Streams, Bytes

\* What the peer sees of a closed socket.
LEMMA ClosingType == \A b : Closing(b) \in {"fin", "reset"}
BY DEF Closing

\* The end of a handler keeps the types of what it sets.
LEMMA EndsType ==
    ASSUME TypeOK, NEW c \in Clients, NEW died \in BOOLEAN, HandlerEnds(c, died)
    PROVE  /\ server' \in {"iterative", "concurrent", "dead"}
           /\ backlog' \in Seq(Clients) /\ Len(backlog') <= MAXPENDING + 1
           /\ serverEnd' \in [Clients -> {"open", "fin", "reset"}]
           /\ handler' \in [Clients -> {"none", "recv", "send", "exited", "refused"}]
<1>1. backlog' = backlog \/ backlog' = <<>>
  BY DEF HandlerEnds
<1>2. backlog' \in Seq(Clients) /\ Len(backlog') <= MAXPENDING + 1
  <2>1. CASE backlog' = backlog
    BY <2>1 DEF TypeOK
  <2>2. CASE backlog' = <<>>
    BY <2>2, LimitsAssumption, EmptySeq
  <2> QED
    BY <1>1, <2>1, <2>2
<1>3. serverEnd' \in [Clients -> {"open", "fin", "reset"}]
  BY ClosingType DEF HandlerEnds, TypeOK
<1> QED
  BY <1>2, <1>3 DEF HandlerEnds, TypeOK

\* A client never receives more than it is owed.
LEMMA NoMoreThanOwed ==
    ASSUME TypeOK, Returning, Counted, NEW c \in Clients, pc[c] = "recv"
    PROVE  total[c] + Len(toClient[c]) <= Len(echoString[c])
<1>1. printed[c] \in Bytes /\ toClient[c] \in Bytes /\ sent[c] \in Bytes /\ echoString[c] \in Bytes
  BY DEF TypeOK, Bytes
<1> DEFINE P == Len(printed[c])
           T == Len(toClient[c])
           S == Len(sent[c])
           E == Len(echoString[c])
           R == total[c]
<1>2. Len(printed[c] \o toClient[c]) <= S
  BY DEF Returning, IsPrefix
<1>3. Len(printed[c] \o toClient[c]) = P + T
  BY <1>1, ConcatProperties DEF Bytes
<1>4. S + R = P + E
  BY DEF Counted
<1>5. P \in Nat /\ T \in Nat /\ S \in Nat /\ E \in Nat /\ R \in Nat
  BY <1>1, LenProperties, SizesAssumption DEF TypeOK, Bytes
<1> HIDE DEF P, T, S, E, R
<1>6. R + T <= E
  BY <1>2, <1>3, <1>4, <1>5
<1> QED
  BY <1>6 DEF R, T, E

LEMMA StepPlaces == TypeOK /\ Returning /\ Counted /\ [Next]_vars => Places'
<1> SUFFICES ASSUME TypeOK, Returning, Counted, [Next]_vars PROVE Places'
  OBVIOUS
<1>0. /\ Places
      /\ Chunk \in Nat /\ MaxLen \in Nat /\ Rounds \in Nat /\ MAXPENDING \in Nat
  BY SizesAssumption, LimitsAssumption, TypeParts
<1>a. ASSUME backlog # <<>>
      PROVE  /\ Head(backlog) \in Clients /\ Tail(backlog) \in Seq(Clients)
             /\ Len(Tail(backlog)) <= MAXPENDING + 1
  BY <1>0, <1>a, HeadTailProperties, LenProperties DEF Places
<1> USE DEF Places
<1>1. CASE Accept
  BY <1>0, <1>1, <1>a DEF Accept, clientVars
<1>2. CASE ForkFail
  BY <1>0, <1>2, <1>a, ClosingType DEF ForkFail, clientVars
<1>3. ASSUME NEW c \in Clients, Connect(c) PROVE Places'
  <2>1. CASE server = "dead"
    BY <1>0, <2>1, <1>3 DEF Connect, handlerVars
  <2>2. CASE server # "dead"
    <3>1. backlog' = Append(backlog, c) /\ Len(backlog) <= MAXPENDING
      BY <2>2, <1>3 DEF Connect
    <3>2. backlog' \in Seq(Clients) /\ Len(backlog') = Len(backlog) + 1
      BY <1>0, <3>1, AppendProperties
    <3>3. Len(backlog') <= MAXPENDING + 1
      BY <3>1, <3>2, <1>0, LenProperties
    <3> QED
      BY <1>0, <2>2, <3>2, <3>3, <1>3 DEF Connect, handlerVars
  <2> QED
    BY <2>1, <2>2
<1>4. ASSUME NEW c \in Clients, TypeAndSend(c) PROVE Places'
  <2>1. UNCHANGED <<server, backlog, serverEnd, handler>>
    BY <1>4 DEF TypeAndSend, handlerVars
  <2>2. CASE serverEnd[c] # "reset"
    <3>1. round[c] \in 0..Rounds /\ round[c] < Rounds /\ round[c] + 1 \in 0..Rounds
      BY <1>4, <1>0 DEF TypeAndSend
    <3>2. /\ round' = [round EXCEPT ![c] = @ + 1]
          /\ total' = [total EXCEPT ![c] = 0]
          /\ pc' = [pc EXCEPT ![c] = "recv"]
          /\ UNCHANGED clientEnd
      BY <1>4, <2>2 DEF TypeAndSend
    <3> QED
      BY <1>0, <2>1, <3>1, <3>2
  <2>3. CASE serverEnd[c] = "reset"
    <3>1. /\ pc' = [pc EXCEPT ![c] = "dead"]
          /\ clientEnd' = [clientEnd EXCEPT ![c] = Closing(toClient[c])]
          /\ UNCHANGED <<round, total>>
      BY <1>4, <2>3 DEF TypeAndSend
    <3> QED
      BY <1>0, <2>1, <3>1, ClosingType
  <2> QED
    BY <2>2, <2>3
<1>5. ASSUME NEW c \in Clients, RecvEcho(c) PROVE Places'
  <2>1. PICK n \in 1..Chunk : n <= Len(toClient[c]) /\ total' = [total EXCEPT ![c] = @ + n]
    BY <1>5 DEF RecvEcho
  <2>2. total[c] + n \in 0..MaxLen
    <3>1. total[c] + Len(toClient[c]) <= Len(echoString[c])
      BY <1>5, NoMoreThanOwed DEF RecvEcho
    <3>2. /\ total[c] \in Nat /\ Len(echoString[c]) \in Nat /\ Len(toClient[c]) \in Nat
          /\ Len(echoString[c]) <= MaxLen
      BY <1>0, TypeParts, LenProperties DEF Streams, Bytes
    <3>3. n \in Nat /\ n <= Len(toClient[c])
      BY <2>1
    <3>4. MaxLen \in Nat
      BY SizesAssumption
    <3> QED
      BY <3>1, <3>2, <3>3, <3>4
  <2>3. UNCHANGED <<server, backlog, pc, round, serverEnd, clientEnd, handler>>
    BY <1>5 DEF RecvEcho, handlerVars
  <2> QED
    BY <1>0, <2>1, <2>2, <2>3
<1>6. ASSUME NEW c \in Clients, RecvFails(c) PROVE Places'
  BY <1>0, <1>6, ClosingType DEF RecvFails, handlerVars
<1>7. ASSUME NEW c \in Clients, NextText(c) PROVE Places'
  <2>1. /\ pc' = [pc EXCEPT ![c] = "input"] \/ pc' = [pc EXCEPT ![c] = "done"]
        /\ UNCHANGED clientEnd \/ clientEnd' = [clientEnd EXCEPT ![c] = Closing(toClient[c])]
        /\ UNCHANGED <<server, backlog, round, total, serverEnd, handler>>
    BY <1>7, Zenon DEF NextText, handlerVars
  <2>2. pc' \in [Clients -> {"off", "input", "recv", "done", "dead"}]
    BY <1>0, <2>1
  <2>3. clientEnd' \in [Clients -> {"open", "fin", "reset"}]
    BY <1>0, <2>1, ClosingType
  <2> QED
    BY <1>0, <2>1, <2>2, <2>3
<1>8. ASSUME NEW c \in Clients, KillClient(c) PROVE Places'
  BY <1>0, <1>8, ClosingType DEF KillClient, handlerVars
<1>9. ASSUME NEW c \in Clients, HandlerRecv(c) PROVE Places'
  BY <1>0, <1>9 DEF HandlerRecv, clientVars
<1>10. ASSUME NEW c \in Clients, HandlerEof(c) \/ KillHandler(c) PROVE Places'
  <2>1. PICK died \in BOOLEAN : HandlerEnds(c, died)
    BY <1>10 DEF HandlerEof, KillHandler
  <2>2. UNCHANGED <<pc, round, total, clientEnd>>
    BY <1>10 DEF HandlerEof, KillHandler, clientVars
  <2> QED
    BY <1>0, <2>1, <2>2, EndsType
<1>11. ASSUME NEW c \in Clients, HandlerSend(c) PROVE Places'
  <2>0. UNCHANGED <<pc, round, total>>
    BY <1>11 DEF HandlerSend, clientVars
  <2>1. CASE clientEnd[c] # "reset"
    <3>1. handler' = [handler EXCEPT ![c] = "recv"] /\ UNCHANGED <<server, backlog, serverEnd>>
      BY <1>11, <2>1 DEF HandlerSend
    <3>2. clientEnd' \in [Clients -> {"open", "fin", "reset"}]
      BY <1>0, <1>11, <2>1 DEF HandlerSend
    <3> QED
      BY <1>0, <2>0, <3>1, <3>2
  <2>2. CASE clientEnd[c] = "reset"
    <3>1. HandlerEnds(c, TRUE) /\ UNCHANGED clientEnd
      BY <2>2, <1>11 DEF HandlerSend
    <3> QED
      BY <1>0, <2>0, <3>1, EndsType
  <2> QED
    BY <2>1, <2>2
<1>12. CASE UNCHANGED vars
  BY <1>0, <1>12 DEF vars, clientVars, handlerVars
<1> QED
  BY <1>1, <1>2, <1>3, <1>4, <1>5, <1>6, <1>7, <1>8, <1>9, <1>10, <1>11, <1>12
  DEF Next, ClientStep, HandlerStep

LEMMA StepStreams == TypeOK /\ [Next]_vars => Streams'
<1> SUFFICES ASSUME TypeOK, [Next]_vars PROVE Streams'
  OBVIOUS
<1>0. Streams /\ Chunk \in Nat /\ MaxLen \in Nat /\ Rounds \in Nat
  BY SizesAssumption, TypeParts
<1> USE DEF Streams
<1>1. ASSUME NEW c \in Clients, TypeAndSend(c) PROVE Streams'
  <2> DEFINE e == echoString'[c]
  <2>1. PICK n \in 0..MaxLen :
           echoString' = [echoString EXCEPT
                            ![c] = IF n = 0 THEN @ ELSE [i \in 1..n |-> round[c] + 1]]
    BY <1>1 DEF TypeAndSend
  <2>2. round[c] \in 0..Rounds /\ round[c] < Rounds /\ round[c] + 1 \in 1..Rounds
    <3>1. round[c] \in 0..Rounds
      BY TypeParts DEF Places
    <3>2. round[c] < Rounds
      BY <1>1 DEF TypeAndSend
    <3> QED
      BY <1>0, <3>1, <3>2
  <2>3. [i \in 1..n |-> round[c] + 1] \in Bytes /\ Len([i \in 1..n |-> round[c] + 1]) = n
    BY <2>2, <1>0 DEF Bytes
  <2>4. echoString' \in [Clients -> Bytes] /\ \A d \in Clients : Len(echoString'[d]) <= MaxLen
    <3>1. CASE n = 0
      BY <3>1, <2>1, <1>0
    <3>2. CASE n # 0
      BY <3>2, <2>1, <2>3, <1>0
    <3> QED
      BY <3>1, <3>2
  <2>5. sent[c] \o e \in Bytes /\ toServer[c] \o e \in Bytes
    BY <2>4, <1>0, ConcatProperties DEF Bytes
  <2> HIDE DEF e
  <2>6. /\ sent' = sent \/ sent' = [sent EXCEPT ![c] = @ \o e]
        /\ toServer' = toServer \/ toServer' = [toServer EXCEPT ![c] = @ \o e]
        /\ UNCHANGED <<toClient, echoBuffer, printed>>
    BY <1>1 DEF TypeAndSend, handlerVars, e
  <2>7. sent' \in [Clients -> Bytes]
    <3>1. CASE sent' = sent
      BY <3>1, <1>0
    <3>2. CASE sent' = [sent EXCEPT ![c] = @ \o e]
      BY <3>2, <2>5, <1>0
    <3> QED
      BY <3>1, <3>2, <2>6
  <2>8. toServer' \in [Clients -> Bytes]
    <3>1. CASE toServer' = toServer
      BY <3>1, <1>0
    <3>2. CASE toServer' = [toServer EXCEPT ![c] = @ \o e]
      BY <3>2, <2>5, <1>0
    <3> QED
      BY <3>1, <3>2, <2>6
  <2> QED
    BY <1>0, <2>4, <2>6, <2>7, <2>8
<1>2. ASSUME NEW c \in Clients, RecvEcho(c) PROVE Streams'
  <2>1. PICK n \in 1..Chunk :
           /\ n <= Len(toClient[c])
           /\ printed' = [printed EXCEPT ![c] = @ \o SubSeq(toClient[c], 1, n)]
           /\ toClient' = [toClient EXCEPT ![c] = SubSeq(@, n + 1, Len(@))]
    BY <1>2 DEF RecvEcho
  <2>2. toClient[c] \in Bytes /\ n \in 1..Len(toClient[c])
    BY <2>1, <1>0, LenProperties DEF Bytes
  <2>3. SubSeq(toClient[c], 1, n) \in Bytes /\ SubSeq(toClient[c], n + 1, Len(toClient[c])) \in Bytes
    BY <2>2, Pieces DEF Bytes
  <2>4. printed[c] \o SubSeq(toClient[c], 1, n) \in Bytes
    BY <2>3, <1>0, ConcatProperties DEF Bytes
  <2>5. UNCHANGED <<toServer, echoBuffer, echoString, sent>>
    BY <1>2 DEF RecvEcho, handlerVars
  <2> QED
    BY <1>0, <2>1, <2>3, <2>4, <2>5
<1>3. ASSUME NEW c \in Clients, HandlerRecv(c) PROVE Streams'
  <2>1. PICK n \in 1..Chunk :
           /\ n <= Len(toServer[c])
           /\ echoBuffer' = [echoBuffer EXCEPT ![c] = SubSeq(toServer[c], 1, n)]
           /\ toServer' = [toServer EXCEPT ![c] = SubSeq(@, n + 1, Len(@))]
    BY <1>3 DEF HandlerRecv
  <2>2. toServer[c] \in Bytes /\ n \in 1..Len(toServer[c]) /\ n <= Chunk
    BY <2>1, <1>0, LenProperties DEF Bytes
  <2>3. /\ SubSeq(toServer[c], 1, n) \in Bytes /\ Len(SubSeq(toServer[c], 1, n)) = n
        /\ SubSeq(toServer[c], n + 1, Len(toServer[c])) \in Bytes
    BY <2>2, Pieces DEF Bytes
  <2>4. UNCHANGED <<toClient, echoString, sent, printed>>
    BY <1>3 DEF HandlerRecv, clientVars
  <2> QED
    BY <1>0, <2>1, <2>2, <2>3, <2>4
<1>4. ASSUME NEW c \in Clients, HandlerSend(c) PROVE Streams'
  <2>1. toClient' = toClient \/ toClient' = [toClient EXCEPT ![c] = @ \o echoBuffer[c]]
    BY <1>4 DEF HandlerSend
  <2>2. toClient[c] \o echoBuffer[c] \in Bytes
    BY <1>0, ConcatProperties DEF Bytes
  <2>3. toClient' \in [Clients -> Bytes]
    <3>1. CASE toClient' = toClient
      BY <3>1, <1>0
    <3>2. CASE toClient' = [toClient EXCEPT ![c] = @ \o echoBuffer[c]]
      BY <3>2, <2>2, <1>0
    <3> QED
      BY <3>1, <3>2, <2>1
  <2>4. UNCHANGED <<toServer, echoBuffer, echoString, sent, printed>>
    BY <1>4 DEF HandlerSend, clientVars
  <2> QED
    BY <1>0, <2>3, <2>4
<1>5. CASE UNCHANGED <<toServer, toClient, echoBuffer, echoString, sent, printed>>
  BY <1>0, <1>5
<1> QED
  BY <1>1, <1>2, <1>3, <1>4, <1>5
  DEF Next, ClientStep, HandlerStep, vars, clientVars, handlerVars,
      Accept, ForkFail, Connect, RecvFails, NextText, KillClient, HandlerEof, KillHandler

LEMMA StepType == TypeOK /\ Returning /\ Counted /\ [Next]_vars => TypeOK'
BY StepPlaces, StepStreams, TypeParts

-----------------------------------------------------------------------------
\* Connections

Connections == Waiting /\ Unborn /\ Attended

\* What is left of the backlog after accept.
LEMMA TailOfBacklog ==
    ASSUME TypeOK, backlog # <<>>
    PROVE  /\ Head(backlog) \in Clients /\ 1 \in DOMAIN backlog /\ Head(backlog) = backlog[1]
           /\ \A i \in DOMAIN Tail(backlog) :
                 /\ i + 1 \in DOMAIN backlog /\ i + 1 # 1
                 /\ Tail(backlog)[i] = backlog[i + 1]
<1>1. backlog \in Seq(Clients)
  BY DEF TypeOK
<1>2. /\ Len(backlog) \in Nat /\ Len(backlog) > 0 /\ DOMAIN backlog = 1..Len(backlog)
      /\ Head(backlog) = backlog[1] /\ Head(backlog) \in Clients
  BY <1>1
<1>3. /\ DOMAIN Tail(backlog) = 1..(Len(backlog) - 1)
      /\ \A i \in 1..(Len(backlog) - 1) : Tail(backlog)[i] = backlog[i + 1]
  BY <1>1
<1> QED
  BY <1>2, <1>3

\* Everybody in the backlog is a client.
LEMMA BacklogOfClients ==
    ASSUME TypeOK PROVE \A i \in DOMAIN backlog : backlog[i] \in Clients
<1>1. backlog \in Seq(Clients)
  BY DEF TypeOK
<1> QED
  BY <1>1

\* When the first connection is taken from the backlog and only its own state
\* changes, the others wait as before.
LEMMA TakenFromBacklog ==
    ASSUME TypeOK, Waiting, backlog # <<>>, backlog' = Tail(backlog), pc' = pc,
           \A c \in Clients \ {Head(backlog)} :
              handler'[c] = handler[c] /\ serverEnd'[c] = serverEnd[c]
    PROVE  Waiting'
<1>1. \A i \in DOMAIN Tail(backlog) : Tail(backlog)[i] # Head(backlog)
  BY TailOfBacklog DEF Waiting
<1>2. \A i \in DOMAIN backlog' :
         /\ pc'[backlog'[i]] # "off" /\ handler'[backlog'[i]] = "none"
         /\ serverEnd'[backlog'[i]] = "open"
  BY <1>1, TailOfBacklog, BacklogOfClients DEF Waiting
<1>3. \A i, j \in DOMAIN backlog' : backlog'[i] = backlog'[j] => i = j
  <2> SUFFICES ASSUME NEW i \in DOMAIN backlog', NEW j \in DOMAIN backlog',
                      backlog'[i] = backlog'[j]
               PROVE  i = j
    OBVIOUS
  <2>1. i + 1 = j + 1
    BY TailOfBacklog DEF Waiting
  <2>2. i \in Int /\ j \in Int
    BY HeadTailProperties, LenProperties DEF TypeOK
  <2> QED
    BY <2>1, <2>2
<1> QED
  BY <1>2, <1>3 DEF Waiting

\* The end of a handler leaves the connections in order.
LEMMA EndsConnections ==
    ASSUME TypeOK, Connections, NEW c \in Clients, NEW died \in BOOLEAN,
           handler[c] \in {"recv", "send"}, HandlerEnds(c, died),
           UNCHANGED <<pc, sent, printed>>
    PROVE  Connections'
<1> DEFINE over == died /\ server = "iterative"
<1>1. \A i \in DOMAIN backlog : backlog[i] \in Clients /\ backlog[i] # c
  BY BacklogOfClients DEF Connections, Waiting
<1>2. /\ handler' = [handler EXCEPT ![c] = "exited"]
      /\ backlog' = IF over THEN <<>> ELSE backlog
      /\ serverEnd' = [d \in Clients |->
                         IF d = c THEN Closing(toServer[c])
                         ELSE IF over /\ Contains(backlog, d) THEN "reset"
                         ELSE serverEnd[d]]
  BY DEF HandlerEnds
<1>3. \A d \in Clients \ {c} : handler[d] # "none" \/ pc[d] = "off" => ~Contains(backlog, d)
  <2>1. backlog \in Seq(Clients)
    BY DEF TypeOK
  <2> QED
    BY <2>1 DEF Connections, Waiting, Contains
<1>4. Waiting'
  <2>1. CASE over
    BY <2>1, <1>2 DEF Waiting
  <2>2. CASE ~over
    <3>1. backlog' = backlog
      BY <2>2, <1>2
    <3>2. ASSUME NEW i \in DOMAIN backlog
          PROVE  handler'[backlog[i]] = "none" /\ serverEnd'[backlog[i]] = "open"
      BY <2>2, <1>1, <1>2 DEF Connections, Waiting, TypeOK
    <3> QED
      BY <3>1, <3>2 DEF Connections, Waiting
  <2> QED
    BY <2>1, <2>2
<1>5. Unborn'
  BY <1>2, <1>3 DEF Connections, Unborn, TypeOK
<1>6. Attended'
  BY <1>2, <1>3 DEF Connections, Attended, TypeOK
<1> QED
  BY <1>4, <1>5, <1>6 DEF Connections

LEMMA StepConnections == TypeOK /\ Connections /\ [Next]_vars => Connections'
<1> SUFFICES ASSUME TypeOK, Connections, [Next]_vars PROVE Connections'
  OBVIOUS
<1>0. Places /\ Waiting /\ Unborn /\ Attended
  BY TypeParts DEF Connections
<1>1. CASE Accept
  <2>1. /\ backlog # <<>> /\ backlog' = Tail(backlog)
        /\ handler' = [handler EXCEPT ![Head(backlog)] = "recv"]
        /\ UNCHANGED <<serverEnd, pc, sent, printed>>
    BY <1>1 DEF Accept, clientVars
  <2>3. Waiting'
    BY <2>1, <1>0, TakenFromBacklog DEF Places
  <2>4. Unborn' /\ Attended'
    BY <2>1, <1>0, TailOfBacklog DEF Unborn, Attended, Waiting, Places
  <2> QED
    BY <2>3, <2>4 DEF Connections
<1>2. CASE ForkFail
  <2> DEFINE h == Head(backlog)
  <2>1. /\ backlog # <<>> /\ backlog' = Tail(backlog)
        /\ handler' = [handler EXCEPT ![h] = "refused"]
        /\ serverEnd' = [serverEnd EXCEPT ![h] = Closing(toServer[h])]
        /\ UNCHANGED <<pc, sent, printed>>
    BY <1>2 DEF ForkFail, clientVars
  <2>3. Waiting'
    BY <2>1, <1>0, TakenFromBacklog DEF Places
  <2>4. Unborn' /\ Attended'
    BY <2>1, <1>0, TailOfBacklog DEF Unborn, Attended, Waiting, Places
  <2> QED
    BY <2>3, <2>4 DEF Connections
<1>3. ASSUME NEW c \in Clients, Connect(c) PROVE Connections'
  <2>1. CASE server = "dead"
    <3>1. /\ pc' = [pc EXCEPT ![c] = "dead"]
          /\ UNCHANGED <<backlog, handler, serverEnd, sent, printed>>
      BY <2>1, <1>3 DEF Connect, handlerVars
    <3> QED
      BY <3>1, <1>0, BacklogOfClients DEF Connections, Waiting, Unborn, Attended, Places
  <2>2. CASE server # "dead"
    <3>1. /\ pc[c] = "off" /\ pc' = [pc EXCEPT ![c] = "input"]
          /\ backlog' = Append(backlog, c)
          /\ UNCHANGED <<handler, serverEnd, sent, printed>>
      BY <2>2, <1>3 DEF Connect, handlerVars
    <3>2. /\ DOMAIN backlog = 1..Len(backlog) /\ Len(backlog) \in Nat
          /\ DOMAIN backlog' = 1..(Len(backlog) + 1)
          /\ \A i \in 1..Len(backlog) : backlog'[i] = backlog[i]
          /\ backlog'[Len(backlog) + 1] = c
      BY <3>1, <1>0, AppendProperties, LenProperties DEF Places
    <3>3. \A i \in DOMAIN backlog : backlog[i] # c
      BY <3>1, <1>0 DEF Waiting
    <3>4. Waiting'
      BY <3>1, <3>2, <3>3, <1>0, BacklogOfClients DEF Waiting, Unborn, Places
    <3>5. Unborn' /\ Attended'
      BY <3>1, <1>0 DEF Unborn, Attended, Places
    <3> QED
      BY <3>4, <3>5 DEF Connections
  <2> QED
    BY <2>1, <2>2
<1>4. ASSUME NEW c \in Clients,
             TypeAndSend(c) \/ RecvEcho(c) \/ RecvFails(c) \/ NextText(c) \/ KillClient(c)
      PROVE  Connections'
  <2>1. /\ pc[c] # "off" /\ UNCHANGED <<backlog, handler, serverEnd>>
        /\ \E l \in {"input", "recv", "done", "dead"} : pc' = [pc EXCEPT ![c] = l]
    <3>1. CASE TypeAndSend(c)
      BY <3>1, <1>0 DEF TypeAndSend, handlerVars
    <3>2. CASE RecvEcho(c)
      <4>1. pc[c] = "recv" /\ pc' = pc /\ UNCHANGED <<backlog, handler, serverEnd>>
        BY <3>2 DEF RecvEcho, handlerVars
      <4>2. pc' = [pc EXCEPT ![c] = "recv"]
        BY <4>1, <1>0 DEF Places
      <4> QED
        BY <4>1, <4>2
    <3>3. CASE RecvFails(c)
      BY <3>3 DEF RecvFails, handlerVars
    <3>4. CASE NextText(c)
      BY <3>4 DEF NextText, handlerVars
    <3>5. CASE KillClient(c)
      BY <3>5 DEF KillClient, handlerVars
    <3> QED
      BY <3>1, <3>2, <3>3, <3>4, <3>5, <1>4
  <2>2. \A d \in Clients : /\ pc'[d] = "off" <=> pc[d] = "off"
                           /\ pc[d] = "off" => sent'[d] = sent[d] /\ printed'[d] = printed[d]
    <3>1. \A d \in Clients : pc'[d] = "off" <=> pc[d] = "off"
      BY <2>1, <1>0 DEF Places
    <3>2. \A d \in Clients \ {c} : sent'[d] = sent[d] /\ printed'[d] = printed[d]
      BY <1>4, TypeParts DEF Streams, TypeAndSend, RecvEcho, RecvFails, NextText, KillClient
    <3> QED
      BY <2>1, <3>1, <3>2
  <2> QED
    BY <2>1, <2>2, <1>0, BacklogOfClients DEF Connections, Waiting, Unborn, Attended
<1>5. ASSUME NEW c \in Clients, HandlerRecv(c) PROVE Connections'
  <2>1. /\ handler[c] = "recv" /\ handler' = [handler EXCEPT ![c] = "send"]
        /\ UNCHANGED <<backlog, pc, serverEnd, sent, printed>>
    BY <1>5 DEF HandlerRecv, clientVars
  <2> QED
    BY <2>1, <1>0, BacklogOfClients DEF Connections, Waiting, Unborn, Attended, Places
<1>6. ASSUME NEW c \in Clients, HandlerEof(c) \/ KillHandler(c) PROVE Connections'
  <2>1. PICK died \in BOOLEAN : HandlerEnds(c, died)
    BY <1>6 DEF HandlerEof, KillHandler
  <2>2. handler[c] \in {"recv", "send"} /\ UNCHANGED <<pc, sent, printed>>
    BY <1>6 DEF HandlerEof, KillHandler, clientVars
  <2> QED
    BY <2>1, <2>2, EndsConnections
<1>7. ASSUME NEW c \in Clients, HandlerSend(c) PROVE Connections'
  <2>1. handler[c] = "send" /\ UNCHANGED <<pc, sent, printed>>
    BY <1>7 DEF HandlerSend, clientVars
  <2>2. CASE clientEnd[c] # "reset"
    <3>1. handler' = [handler EXCEPT ![c] = "recv"] /\ UNCHANGED <<backlog, serverEnd>>
      BY <2>2, <1>7 DEF HandlerSend
    <3> QED
      BY <2>1, <3>1, <1>0, BacklogOfClients DEF Connections, Waiting, Unborn, Attended, Places
  <2>3. CASE clientEnd[c] = "reset"
    <3>1. HandlerEnds(c, TRUE)
      BY <2>3, <1>7 DEF HandlerSend
    <3> QED
      BY <2>1, <3>1, EndsConnections
  <2> QED
    BY <2>2, <2>3
<1>8. CASE UNCHANGED vars
  BY <1>0, <1>8 DEF vars, clientVars, handlerVars, Connections, Waiting, Unborn, Attended
<1> QED
  BY <1>1, <1>2, <1>3, <1>4, <1>5, <1>6, <1>7, <1>8 DEF Next, ClientStep, HandlerStep

-----------------------------------------------------------------------------
\* Bytes

\* The part of Returning and Complete about one client.
Flow(c) ==
    /\ IsPrefix(printed[c] \o toClient[c], sent[c])
    /\ serverEnd[c] = "open" /\ clientEnd[c] = "open" =>
          sent[c] = printed[c] \o toClient[c] \o InBuffer(c) \o toServer[c]

LEMMA FlowParts ==
    /\ Returning /\ Complete <=> \A c \in Clients : Flow(c)
    /\ Returning' /\ Complete' <=> \A c \in Clients : Flow(c)'
BY DEF Returning, Complete, Flow

\* The streams of a client are sequences of bytes.
LEMMA StreamTypes ==
    ASSUME TypeOK, NEW c \in Clients
    PROVE  /\ sent[c] \in Bytes /\ printed[c] \in Bytes /\ toClient[c] \in Bytes
           /\ InBuffer(c) \in Bytes /\ toServer[c] \in Bytes /\ echoString[c] \in Bytes
BY TypeParts, EmptySeq DEF Streams, Bytes, InBuffer

\* The algebra of streams.
LEMMA BytesConcat == \A s, t \in Bytes : s \o t \in Bytes
BY ConcatProperties DEF Bytes

Regroup(s, t, v) == (s \o t) \o v = s \o (t \o v)

LEMMA BytesRegroup == \A s, t, v \in Bytes : Regroup(s, t, v)
<1>1. ASSUME NEW S, NEW s \in Seq(S), NEW t \in Seq(S), NEW v \in Seq(S)
      PROVE  (s \o t) \o v = s \o (t \o v)
  BY ConcatAssociative, SMTT(20)
<1> QED
  BY <1>1 DEF Bytes, Regroup

LEMMA BytesEmpty == <<>> \in Bytes /\ \A s \in Bytes : s \o <<>> = s
BY ConcatEmptySeq, EmptySeq DEF Bytes

LEMMA BytesPrefix == \A s, t \in Bytes : IsPrefix(s, t) <=> \E v \in Bytes : t = s \o v
BY PrefixIff DEF Bytes

LEMMA BytesPieces ==
    ASSUME NEW s \in Bytes, NEW n \in Nat \ {0}, n <= Len(s)
    PROVE  /\ SubSeq(s, 1, n) \in Bytes /\ SubSeq(s, n + 1, Len(s)) \in Bytes
           /\ Len(SubSeq(s, 1, n)) = n
           /\ s = SubSeq(s, 1, n) \o SubSeq(s, n + 1, Len(s))
<1>1. n \in 1..Len(s)
  BY LenProperties DEF Bytes
<1> QED
  BY <1>1, Pieces DEF Bytes

LEMMA StepFlow ==
    ASSUME TypeOK, TypeOK', Connections, [Next]_vars, NEW u \in Clients, Flow(u)
    PROVE  Flow(u)'
<1> DEFINE p == printed[u]
           t == toClient[u]
           b == InBuffer(u)
           q == toServer[u]
           x == sent[u]
<1>0. /\ p \in Bytes /\ t \in Bytes /\ b \in Bytes /\ q \in Bytes /\ x \in Bytes
      /\ p \o t \in Bytes /\ Places /\ Streams
  BY StreamTypes, BytesConcat, TypeParts
<1>1. /\ \E r \in Bytes : x = (p \o t) \o r
      /\ serverEnd[u] = "open" /\ clientEnd[u] = "open" => x = ((p \o t) \o b) \o q
  <2>1. IsPrefix(p \o t, x)
    BY DEF Flow
  <2>2. serverEnd[u] = "open" /\ clientEnd[u] = "open" => x = ((p \o t) \o b) \o q
    BY DEF Flow
  <2> QED
    BY <1>0, <2>1, <2>2, BytesPrefix
\* It is enough that the end of both streams is still there, and complete if
\* both ends are open.
<1>2. ASSUME \E r \in Bytes : x' = (p' \o t') \o r,
             serverEnd'[u] = "open" /\ clientEnd'[u] = "open" => x' = p' \o t' \o b' \o q'
      PROVE  Flow(u)'
  <2>1. p' \in Bytes /\ t' \in Bytes /\ x' \in Bytes /\ p' \o t' \in Bytes
    BY TypeParts, BytesConcat DEF Streams
  <2>2. IsPrefix(p' \o t', x')
    BY <1>2, <2>1, BytesPrefix
  <2> QED
    BY <1>2, <2>2 DEF Flow
\* Nothing of u moves.
<1>3. ASSUME p' = p, t' = t, q' = q, x' = x,
             \/ serverEnd'[u] # "open"
             \/ clientEnd'[u] # "open"
             \/ serverEnd[u] = "open" /\ clientEnd[u] = "open" /\ b' = b
      PROVE  Flow(u)'
  BY <1>1, <1>2, <1>3
<1> HIDE DEF p, t, b, q, x
<1>4. ASSUME NEW c \in Clients, TypeAndSend(c) PROVE Flow(u)'
  <2>1. p' = p /\ t' = t /\ b' = b /\ UNCHANGED serverEnd
    BY <1>4 DEF TypeAndSend, handlerVars, InBuffer, p, t, b
  <2>2. CASE u # c \/ serverEnd[c] = "reset"
    <3>1. x' = x /\ q' = q
      <4>1. CASE serverEnd[c] = "reset"
        BY <1>4, <4>1 DEF TypeAndSend, x, q
      <4>2. CASE u # c /\ serverEnd[c] # "reset"
        <5>1. /\ sent' = [sent EXCEPT ![c] = @ \o echoString'[c]]
              /\ toServer' = IF serverEnd[c] = "open"
                             THEN [toServer EXCEPT ![c] = @ \o echoString'[c]]
                             ELSE toServer
          BY <1>4, <4>2 DEF TypeAndSend
        <5>2. sent'[u] = sent[u] /\ toServer'[u] = toServer[u]
          BY <5>1, <4>2, <1>0 DEF Streams
        <5> QED
          BY <5>2 DEF x, q
      <4> QED
        BY <2>2, <4>1, <4>2
    <3>2. clientEnd'[u] = clientEnd[u] \/ clientEnd'[u] # "open"
      <4>1. clientEnd' = clientEnd \/ clientEnd' = [clientEnd EXCEPT ![c] = Closing(toClient[c])]
        BY <1>4 DEF TypeAndSend
      <4>2. CASE clientEnd' = clientEnd
        BY <4>2
      <4>3. CASE clientEnd' = [clientEnd EXCEPT ![c] = Closing(toClient[c])]
        BY <4>3, <1>0, ClosingType DEF Places
      <4> QED
        BY <4>1, <4>2, <4>3
    <3> QED
      BY <1>1, <1>2, <2>1, <3>1, <3>2
  <2>3. CASE u = c /\ serverEnd[c] # "reset"
    <3> DEFINE e == echoString'[u]
    <3>1. /\ x' = x \o e /\ e \in Bytes /\ UNCHANGED clientEnd
          /\ serverEnd[u] = "open" => q' = q \o e
      <4>1. /\ sent' = [sent EXCEPT ![u] = @ \o e]
            /\ toServer' = IF serverEnd[u] = "open"
                           THEN [toServer EXCEPT ![u] = @ \o e]
                           ELSE toServer
            /\ UNCHANGED clientEnd
        BY <1>4, <2>3 DEF TypeAndSend
      <4>2. e \in Bytes
        BY TypeParts DEF Streams
      <4> HIDE DEF e
      <4> QED
        BY <4>1, <4>2, <1>0 DEF Streams, x, q
    <3> HIDE DEF e
    <3>2. \E r \in Bytes : x' = (p' \o t') \o r
      <4>1. PICK r \in Bytes : x = (p \o t) \o r
        BY <1>1
      <4>2. ((p \o t) \o r) \o e = (p \o t) \o (r \o e)
        <5>1. Regroup(p \o t, r, e)
          BY <3>1, <1>0, BytesRegroup
        <5> QED
          BY <5>1 DEF Regroup
      <4>4. r \o e \in Bytes
        BY <3>1, BytesConcat
      <4>3. x' = (p \o t) \o (r \o e)
        BY <4>1, <4>2, <3>1
      <4> QED
        BY <4>3, <4>4, <2>1
    <3>3. ASSUME serverEnd[u] = "open", clientEnd[u] = "open"
          PROVE  x' = p' \o t' \o b' \o q'
      <4>1. x' = (((p \o t) \o b) \o q) \o e
        BY <3>1, <3>3, <1>1
      <4>2. (p \o t) \o b \in Bytes
        BY <1>0, BytesConcat
      <4>3. (((p \o t) \o b) \o q) \o e = ((p \o t) \o b) \o (q \o e)
        <5>1. Regroup((p \o t) \o b, q, e)
          BY <4>2, <3>1, <1>0, BytesRegroup
        <5> QED
          BY <5>1 DEF Regroup
      <4> QED
        BY <4>1, <4>3, <3>1, <3>3, <2>1
    <3> QED
      BY <1>2, <2>1, <3>1, <3>2, <3>3
  <2> QED
    BY <2>2, <2>3
<1>5. ASSUME NEW c \in Clients, RecvEcho(c) PROVE Flow(u)'
  <2>1. b' = b /\ q' = q /\ x' = x /\ UNCHANGED <<serverEnd, clientEnd>>
    BY <1>5 DEF RecvEcho, handlerVars, InBuffer, b, q, x
  <2>2. CASE u # c
    <3>1. p' = p /\ t' = t
      BY <1>5, <2>2, <1>0 DEF RecvEcho, Streams, p, t
    <3> QED
      BY <1>1, <1>2, <2>1, <3>1
  <2>3. CASE u = c
    <3>1. PICK n \in 1..Chunk :
             n <= Len(t) /\ p' = p \o SubSeq(t, 1, n) /\ t' = SubSeq(t, n + 1, Len(t))
      <4>1. PICK n \in 1..Chunk :
               /\ n <= Len(toClient[c])
               /\ printed' = [printed EXCEPT ![c] = @ \o SubSeq(toClient[c], 1, n)]
               /\ toClient' = [toClient EXCEPT ![c] = SubSeq(@, n + 1, Len(@))]
        BY <1>5 DEF RecvEcho
      <4> QED
        BY <4>1, <2>3, <1>0 DEF Streams, p, t
    <3>2. n \in Nat \ {0}
      BY SizesAssumption
    <3>3. /\ SubSeq(t, 1, n) \in Bytes /\ SubSeq(t, n + 1, Len(t)) \in Bytes
          /\ t = SubSeq(t, 1, n) \o SubSeq(t, n + 1, Len(t))
      BY <3>1, <3>2, <1>0, BytesPieces
    <3>4. PICK a \in Bytes, d \in Bytes : t = a \o d /\ p' = p \o a /\ t' = d
      BY <3>1, <3>3
    <3>5. (p \o a) \o d = p \o (a \o d)
      <4>1. Regroup(p, a, d)
        BY <1>0, BytesRegroup
      <4> QED
        BY <4>1 DEF Regroup
    <3>6. p' \o t' = p \o t
      BY <3>4, <3>5
    <3> QED
      BY <1>1, <1>2, <2>1, <3>6
  <2> QED
    BY <2>2, <2>3
<1>6. ASSUME NEW c \in Clients, HandlerRecv(c) PROVE Flow(u)'
  <2>1. p' = p /\ t' = t /\ x' = x /\ UNCHANGED <<serverEnd, clientEnd>>
    BY <1>6 DEF HandlerRecv, clientVars, p, t, x
  <2>2. CASE u # c
    <3>1. b' = b /\ q' = q
      BY <1>6, <2>2, <1>0 DEF HandlerRecv, Streams, Places, InBuffer, b, q
    <3> QED
      BY <1>1, <1>2, <2>1, <3>1
  <2>3. CASE u = c
    <3>1. PICK n \in 1..Chunk :
             n <= Len(q) /\ b' = SubSeq(q, 1, n) /\ q' = SubSeq(q, n + 1, Len(q))
      <4>1. PICK n \in 1..Chunk :
               /\ n <= Len(toServer[c])
               /\ echoBuffer' = [echoBuffer EXCEPT ![c] = SubSeq(toServer[c], 1, n)]
               /\ toServer' = [toServer EXCEPT ![c] = SubSeq(@, n + 1, Len(@))]
        BY <1>6 DEF HandlerRecv
      <4>2. handler' = [handler EXCEPT ![c] = "send"]
        BY <1>6 DEF HandlerRecv
      <4>3. InBuffer(u)' = SubSeq(q, 1, n)
        BY <4>1, <4>2, <2>3, <1>0 DEF InBuffer, Streams, Places, q
      <4> QED
        BY <4>1, <4>3, <2>3, <1>0 DEF Streams, b, q
    <3>2. n \in Nat \ {0} /\ b = <<>>
      BY SizesAssumption, <1>6, <2>3 DEF HandlerRecv, InBuffer, b
    <3>3. /\ SubSeq(q, 1, n) \in Bytes /\ SubSeq(q, n + 1, Len(q)) \in Bytes
          /\ q = SubSeq(q, 1, n) \o SubSeq(q, n + 1, Len(q))
      BY <3>1, <3>2, <1>0, BytesPieces
    <3>4. (p \o t) \o b = p \o t
      BY <3>2, <1>0, BytesEmpty
    <3>5. ((p' \o t') \o b') \o q' = (p \o t) \o q
      <4>1. PICK a \in Bytes, d \in Bytes : q = a \o d /\ b' = a /\ q' = d
        BY <3>1, <3>3
      <4>2. ((p \o t) \o a) \o d = (p \o t) \o (a \o d)
        <5>1. Regroup(p \o t, a, d)
          BY <1>0, BytesRegroup
        <5> QED
          BY <5>1 DEF Regroup
      <4> QED
        BY <2>1, <4>1, <4>2
    <3> QED
      BY <1>1, <1>2, <2>1, <3>4, <3>5
  <2> QED
    BY <2>2, <2>3
<1>7. ASSUME NEW c \in Clients, HandlerSend(c) PROVE Flow(u)'
  <2>1. p' = p /\ q' = q /\ x' = x
    BY <1>7 DEF HandlerSend, clientVars, p, q, x
  <2>2. CASE u = c /\ clientEnd[c] = "open"
    <3>1. /\ t' = t \o b /\ b' = <<>> /\ serverEnd[u] = "open"
          /\ UNCHANGED <<serverEnd, clientEnd>>
      BY <1>7, <2>2, <1>0 DEF HandlerSend, Streams, Places, InBuffer, Connections, Attended, t, b
    <3>2. p' \o t' = (p \o t) \o b /\ (p \o t) \o b \in Bytes
      <4>1. (p \o t) \o b = p \o (t \o b)
        <5>1. Regroup(p, t, b)
          BY <1>0, BytesRegroup
        <5> QED
          BY <5>1 DEF Regroup
      <4>2. (p \o t) \o b \in Bytes
        BY <1>0, BytesConcat
      <4> QED
        BY <2>1, <3>1, <4>1, <4>2
    <3>3. (p' \o t') \o b' = (p \o t) \o b
      BY <3>1, <3>2, BytesEmpty
    <3>4. x = ((p \o t) \o b) \o q
      BY <1>1, <2>2, <3>1
    <3> QED
      BY <1>0, <1>2, <2>1, <3>2, <3>3, <3>4
  <2>3. CASE u = c /\ clientEnd[c] # "open"
    <3>0. /\ DOMAIN clientEnd = Clients /\ toClient' = toClient
          /\ \/ \E e \in {"fin", "reset"} : clientEnd' = [clientEnd EXCEPT ![c] = e]
             \/ HandlerEnds(c, TRUE)
      BY <1>7, <2>3, <1>0 DEF HandlerSend, Places
    <3>1. t' = t /\ (clientEnd'[u] # "open" \/ serverEnd'[u] # "open")
      <4>1. HandlerEnds(c, TRUE) => serverEnd'[c] # "open"
        BY ClosingType DEF HandlerEnds
      <4>2. (\E e \in {"fin", "reset"} : clientEnd' = [clientEnd EXCEPT ![c] = e]) => clientEnd'[c] # "open"
        BY <3>0
      <4> QED
        BY <2>3, <3>0, <4>1, <4>2 DEF t
    <3> QED
      BY <1>1, <1>2, <2>1, <3>1
  <2>4. CASE u # c
    <3>0. t' = t /\ clientEnd'[u] = clientEnd[u]
      BY <1>7, <2>4, <1>0 DEF HandlerSend, Places, Streams, t
    <3>1. /\ t' = t /\ b' = b /\ clientEnd'[u] = clientEnd[u]
          /\ serverEnd'[u] = "open" => serverEnd[u] = "open"
      <4>1. \/ HandlerEnds(c, TRUE)
            \/ UNCHANGED serverEnd /\ handler' = [handler EXCEPT ![c] = "recv"]
        BY <1>7, Zenon DEF HandlerSend
      <4>2. handler'[u] = handler[u]
        BY <2>4, <4>1, <1>0 DEF HandlerEnds, Places
      <4>3. echoBuffer' = echoBuffer
        BY <1>7, Zenon DEF HandlerSend
      <4>4. serverEnd'[u] = "open" => serverEnd[u] = "open"
        BY <2>4, <4>1 DEF HandlerEnds
      <4> QED
        BY <3>0, <4>2, <4>3, <4>4 DEF InBuffer, b
    <3> QED
      BY <1>1, <1>2, <2>1, <3>1
  <2> QED
    BY <2>2, <2>3, <2>4
<1>8. ASSUME NEW c \in Clients, HandlerEof(c) \/ KillHandler(c) PROVE Flow(u)'
  <2>1. p' = p /\ t' = t /\ q' = q /\ x' = x /\ UNCHANGED clientEnd
    BY <1>8 DEF HandlerEof, KillHandler, clientVars, p, t, q, x
  <2>2. PICK died \in BOOLEAN : HandlerEnds(c, died)
    BY <1>8 DEF HandlerEof, KillHandler
  <2>3. \/ serverEnd'[u] # "open"
        \/ serverEnd[u] = "open" /\ u # c
    BY <2>2, ClosingType DEF HandlerEnds
  <2>4. u # c => b' = b
    BY <1>8, <2>2, <1>0 DEF HandlerEnds, InBuffer, Places, b, HandlerEof, KillHandler
  <2> QED
    BY <1>1, <1>2, <2>1, <2>3, <2>4
<1>9. CASE Accept
  <2>1. p' = p /\ t' = t /\ q' = q /\ x' = x /\ UNCHANGED <<serverEnd, clientEnd>>
    BY <1>9 DEF Accept, clientVars, p, t, q, x
  <2>2. handler[Head(backlog)] = "none" /\ handler' = [handler EXCEPT ![Head(backlog)] = "recv"]
    BY <1>9, TailOfBacklog DEF Accept, Connections, Waiting
  <2>3. b' = b
    BY <2>2, <1>9, <1>0 DEF Accept, InBuffer, Places, b
  <2> QED
    BY <1>1, <1>2, <2>1, <2>3
<1>10. CASE ForkFail
  <2>1. p' = p /\ t' = t /\ q' = q /\ x' = x /\ UNCHANGED clientEnd
    BY <1>10 DEF ForkFail, clientVars, p, t, q, x
  <2>2. serverEnd'[u] # "open" \/ (serverEnd'[u] = serverEnd[u] /\ b' = b)
    BY <1>10, <1>0, ClosingType DEF ForkFail, InBuffer, Places, b
  <2> QED
    BY <1>1, <1>2, <2>1, <2>2
<1>11. ASSUME NEW c \in Clients, RecvFails(c) \/ NextText(c) \/ KillClient(c) \/ Connect(c)
       PROVE  Flow(u)'
  <2>1. p' = p /\ t' = t /\ q' = q /\ x' = x /\ b' = b /\ UNCHANGED serverEnd
    BY <1>11 DEF RecvFails, NextText, KillClient, Connect, handlerVars, InBuffer, p, t, q, x, b
  <2>2. clientEnd'[u] = clientEnd[u] \/ clientEnd'[u] # "open"
    <3>1. \/ clientEnd' = clientEnd
          \/ clientEnd' = [clientEnd EXCEPT ![c] = Closing(toClient[c])]
      BY <1>11 DEF RecvFails, NextText, KillClient, Connect
    <3>2. CASE clientEnd' = clientEnd
      BY <3>2
    <3>3. CASE clientEnd' = [clientEnd EXCEPT ![c] = Closing(toClient[c])]
      BY <3>3, <1>0, ClosingType DEF Places
    <3> QED
      BY <3>1, <3>2, <3>3
  <2> QED
    BY <1>1, <1>2, <2>1, <2>2
<1>12. CASE UNCHANGED vars
  BY <1>12, <1>1, <1>2 DEF vars, clientVars, handlerVars, InBuffer, p, t, q, x, b
<1> QED
  BY <1>4, <1>5, <1>6, <1>7, <1>8, <1>9, <1>10, <1>11, <1>12 DEF Next, ClientStep, HandlerStep

LEMMA StepBytes ==
    TypeOK /\ TypeOK' /\ Connections /\ Returning /\ Complete /\ [Next]_vars
        => Returning' /\ Complete'
BY StepFlow, FlowParts

-----------------------------------------------------------------------------
\* Counts

\* What is as long as its own beginning has no rest.
LEMMA NoneLeft ==
    ASSUME NEW p \in Nat, NEW t \in Nat, NEW r \in Nat, NEW m, m = p + t, p = m + r
    PROVE  r = 0 /\ t = 0
OBVIOUS

LEMMA StepCounted ==
    TypeOK /\ TypeOK' /\ Connections /\ Returning /\ Counted /\ [Next]_vars => Counted'
<1> SUFFICES ASSUME TypeOK, TypeOK', Connections, Returning, Counted, [Next]_vars,
                    NEW u \in Clients
             PROVE  /\ pc'[u] = "recv" =>
                          /\ Len(sent'[u]) + total'[u] = Len(printed'[u]) + Len(echoString'[u])
                          /\ total'[u] <= Len(echoString'[u])
                    /\ pc'[u] \in {"input", "done"} => printed'[u] = sent'[u]
  BY DEF Counted
<1> DEFINE Kept == /\ pc'[u] = pc[u] \/ pc'[u] = "dead"
                   /\ sent'[u] = sent[u] /\ printed'[u] = printed[u]
                   /\ total'[u] = total[u] /\ echoString'[u] = echoString[u]
           Goal == /\ pc'[u] = "recv" =>
                          /\ Len(sent'[u]) + total'[u] = Len(printed'[u]) + Len(echoString'[u])
                          /\ total'[u] <= Len(echoString'[u])
                   /\ pc'[u] \in {"input", "done"} => printed'[u] = sent'[u]
<1> SUFFICES Goal
  OBVIOUS
<1>0. Places /\ Streams /\ Streams' /\ Unborn
  BY TypeParts DEF Connections
<1>1. ASSUME Kept PROVE Goal
  BY <1>1 DEF Counted
<1>2. ASSUME NEW c \in Clients, Connect(c) PROVE Goal
  <2>1. /\ pc[c] = "off" /\ UNCHANGED <<echoString, total, sent, printed>>
        /\ \E l \in {"input", "dead"} : pc' = [pc EXCEPT ![c] = l]
    BY <1>2 DEF Connect
  <2>2. CASE u = c
    BY <2>1, <2>2, <1>0 DEF Unborn, Places
  <2>3. CASE u # c
    BY <2>1, <2>3, <1>0, <1>1 DEF Places
  <2> QED
    BY <2>2, <2>3
<1>3. ASSUME NEW c \in Clients, TypeAndSend(c) PROVE Goal
  <2>0. printed' = printed /\ pc[c] = "input"
    BY <1>3 DEF TypeAndSend
  <2>1. CASE u # c
    <3>1. echoString'[u] = echoString[u]
      BY <1>3, <2>1, <1>0 DEF TypeAndSend, Streams
    <3>2. pc'[u] = pc[u] /\ total'[u] = total[u]
      BY <1>3, <2>1, <1>0 DEF TypeAndSend, Places
    <3>3. sent'[u] = sent[u]
      BY <1>3, <2>1, <1>0 DEF TypeAndSend, Streams
    <3> QED
      BY <2>0, <3>1, <3>2, <3>3, <1>1
  <2>2. CASE u = c /\ serverEnd[c] = "reset"
    BY <1>3, <2>2, <1>0 DEF TypeAndSend, Places
  <2>3. CASE u = c /\ serverEnd[c] # "reset"
    <3> DEFINE e == echoString'[u]
    <3>1. /\ sent' = [sent EXCEPT ![u] = @ \o e] /\ total' = [total EXCEPT ![u] = 0]
          /\ pc' = [pc EXCEPT ![u] = "recv"]
      BY <1>3, <2>3 DEF TypeAndSend
    <3>2. e \in Bytes /\ sent[u] \in Bytes /\ printed[u] = sent[u]
      BY <1>0, <2>0, <2>3 DEF Streams, Counted
    <3> HIDE DEF e
    <3>3. sent'[u] = sent[u] \o e /\ total'[u] = 0 /\ pc'[u] = "recv"
      BY <3>1, <1>0 DEF Streams, Places
    <3>4. Len(sent[u] \o e) = Len(sent[u]) + Len(e)
      BY <3>2, ConcatProperties DEF Bytes
    <3>5. Len(sent[u]) \in Nat /\ Len(e) \in Nat
      BY <3>2, LenProperties DEF Bytes
    <3>6. Len(sent'[u]) + total'[u] = Len(printed'[u]) + Len(e) /\ total'[u] <= Len(e)
      BY <2>0, <3>2, <3>3, <3>4, <3>5
    <3> QED
      BY <3>3, <3>6 DEF e
  <2> QED
    BY <2>1, <2>2, <2>3
<1>4. ASSUME NEW c \in Clients, RecvEcho(c) PROVE Goal
  <2>0. UNCHANGED <<pc, echoString, sent>> /\ pc[c] = "recv"
    BY <1>4 DEF RecvEcho
  <2>1. PICK n \in 1..Chunk :
           /\ n <= Len(toClient[c])
           /\ printed' = [printed EXCEPT ![c] = @ \o SubSeq(toClient[c], 1, n)]
           /\ total' = [total EXCEPT ![c] = @ + n]
    BY <1>4 DEF RecvEcho
  <2>2. CASE u # c
    BY <2>0, <2>1, <2>2, <1>0, <1>1 DEF Streams, Places
  <2>3. CASE u = c
    <3>1. /\ printed'[u] = printed[u] \o SubSeq(toClient[u], 1, n)
          /\ total'[u] = total[u] + n
      BY <2>1, <2>3, <1>0 DEF Streams, Places
    <3>2. /\ toClient[u] \in Bytes /\ printed[u] \in Bytes /\ sent[u] \in Bytes
          /\ echoString[u] \in Bytes
      BY <1>0 DEF Streams
    <3>3. /\ SubSeq(toClient[u], 1, n) \in Bytes /\ Len(SubSeq(toClient[u], 1, n)) = n
      <4>1. n \in Nat \ {0} /\ n <= Len(toClient[u])
        BY <2>1, <2>3, SizesAssumption
      <4> QED
        BY <4>1, <3>2, BytesPieces
    <3>4. Len(printed'[u]) = Len(printed[u]) + n
      BY <3>1, <3>2, <3>3, ConcatProperties DEF Bytes
    <3>5. total[u] + Len(toClient[u]) <= Len(echoString[u])
      BY <2>0, <2>3, NoMoreThanOwed
    <3> DEFINE P == Len(printed[u])
               Q == Len(printed'[u])
               T == Len(toClient[u])
               S == Len(sent[u])
               E == Len(echoString[u])
               R == total[u]
               Z == total'[u]
    <3>6. P \in Nat /\ T \in Nat /\ S \in Nat /\ E \in Nat /\ R \in Nat /\ n \in Nat
      BY <3>2, LenProperties, SizesAssumption, <1>0 DEF Bytes, Places
    <3>7. S + R = P + E /\ Q = P + n /\ Z = R + n /\ n <= T /\ R + T <= E
      BY <2>0, <2>1, <2>3, <3>1, <3>4, <3>5 DEF Counted
    <3> HIDE DEF P, Q, T, S, E, R, Z
    <3>8. S + Z = Q + E /\ Z <= E
      BY <3>6, <3>7
    <3> QED
      BY <2>0, <2>3, <3>8 DEF S, Z, Q, E
  <2> QED
    BY <2>2, <2>3
<1>5. ASSUME NEW c \in Clients, NextText(c) PROVE Goal
  <2>0. /\ UNCHANGED <<echoString, total, sent, printed>> /\ pc[c] = "recv"
        /\ total[c] >= Len(echoString[c])
    BY <1>5 DEF NextText
  <2>1. \E l \in {"input", "done"} : pc' = [pc EXCEPT ![c] = l]
    BY <1>5 DEF NextText
  <2>2. CASE u # c
    BY <2>0, <2>1, <2>2, <1>0, <1>1 DEF Places
  <2>3. CASE u = c
    <3>1. /\ toClient[u] \in Bytes /\ printed[u] \in Bytes /\ sent[u] \in Bytes
          /\ echoString[u] \in Bytes
      BY <1>0 DEF Streams
    <3> DEFINE P == Len(printed[u])
               S == Len(sent[u])
               E == Len(echoString[u])
               R == total[u]
    <3>2. P \in Nat /\ S \in Nat /\ E \in Nat /\ R \in Nat
      BY <3>1, LenProperties, <1>0, SizesAssumption DEF Bytes, Places
    <3>3. S + R = P + E /\ R <= E /\ R >= E
      BY <2>0, <2>3 DEF Counted
    <3> HIDE DEF P, S, E, R
    <3>4. S = P
      BY <3>2, <3>3
    \* As long as what it is the beginning of, it is all of it.
    <3>5. printed[u] = sent[u]
      <4>1. printed[u] \o toClient[u] \in Bytes
        BY <3>1, BytesConcat
      <4>2. PICK r \in Bytes : sent[u] = (printed[u] \o toClient[u]) \o r
        BY <4>1, <3>1, BytesPrefix DEF Returning
      <4>3. /\ Len(sent[u]) = Len(printed[u] \o toClient[u]) + Len(r)
            /\ Len(printed[u] \o toClient[u]) = Len(printed[u]) + Len(toClient[u])
        BY <4>1, <4>2, <3>1, ConcatProperties DEF Bytes
      <4>4. Len(r) = 0 /\ Len(toClient[u]) = 0
        <5>1. Len(r) \in Nat /\ Len(toClient[u]) \in Nat /\ Len(printed[u]) \in Nat
          BY <3>1, LenProperties DEF Bytes
        <5>2. Len(sent[u]) = Len(printed[u])
          BY <3>4 DEF S, P
        <5> QED
          BY <5>1, <5>2, <4>3, NoneLeft
      <4>5. r = <<>> /\ toClient[u] = <<>>
        BY <4>4, <3>1, EmptySeq DEF Bytes
      <4> QED
        BY <4>1, <4>2, <4>5, <3>1, BytesEmpty
    <3> QED
      BY <2>0, <2>1, <2>3, <3>5, <1>0 DEF Places
  <2> QED
    BY <2>2, <2>3
<1>6. ASSUME NEW c \in Clients, RecvFails(c) \/ KillClient(c) PROVE Goal
  <2>1. UNCHANGED <<echoString, total, sent, printed>> /\ pc' = [pc EXCEPT ![c] = "dead"]
    BY <1>6 DEF RecvFails, KillClient
  <2> QED
    BY <2>1, <1>0, <1>1 DEF Places
<1>7. CASE UNCHANGED <<pc, echoString, total, sent, printed>>
  BY <1>7, <1>1
<1>8. ASSUME Accept \/ ForkFail \/ \E c \in Clients : HandlerStep(c) \/ KillHandler(c)
      PROVE  UNCHANGED <<pc, echoString, total, sent, printed>>
  BY <1>8 DEF Accept, ForkFail, HandlerStep, HandlerRecv, HandlerEof, HandlerSend, KillHandler,
      clientVars
<1> HIDE DEF Kept, Goal
<1>9. CASE UNCHANGED vars
  BY <1>9, <1>7 DEF vars, clientVars
<1>10. CASE Next
  BY <1>2, <1>3, <1>4, <1>5, <1>6, <1>7, <1>8, <1>10 DEF Next, ClientStep
<1> QED
  BY <1>9, <1>10

-----------------------------------------------------------------------------

LEMMA InitIInv == Init => IInv
<1> SUFFICES ASSUME Init PROVE IInv
  OBVIOUS
<1>1. \A c \in Clients : /\ sent[c] = <<>> /\ printed[c] = <<>> /\ toClient[c] = <<>>
                         /\ toServer[c] = <<>> /\ InBuffer(c) = <<>> /\ pc[c] = "off"
  BY DEF Init, InBuffer
<1>2. <<>> \in Bytes /\ <<>> \o <<>> = <<>>
  BY BytesEmpty
<1>3. TypeOK
  <2>1. Places
    BY EmptySeq, SizesAssumption, LimitsAssumption DEF Init, Places
  <2>2. Streams
    BY <1>2, EmptySeq, SizesAssumption DEF Init, Streams
  <2> QED
    BY <2>1, <2>2, TypeParts
<1>4. Waiting /\ Unborn /\ Attended
  BY DEF Init, Waiting, Unborn, Attended
<1>5. Returning
  <2>1. IsPrefix(<<>>, <<>>)
    BY <1>2, BytesPrefix
  <2> QED
    BY <1>1, <1>2, <2>1 DEF Returning
<1>6. Complete
  BY <1>1, <1>2 DEF Complete
<1>7. Counted
  BY <1>1 DEF Counted
<1> QED
  BY <1>3, <1>4, <1>5, <1>6, <1>7 DEF IInv

LEMMA StepIInv == IInv /\ [Next]_vars => IInv'
BY StepType, StepConnections, StepBytes, StepCounted DEF IInv, Connections

LEMMA Invariance == Spec => []IInv
BY InitIInv, StepIInv, PTL DEF Spec

\* The variables have their types: no client ever counts more bytes than the
\* text it waits for has, and no recv of the server exceeds its buffer.
THEOREM TypeCorrect == Spec => []TypeOK
BY Invariance, PTL DEF IInv

\* However recv cuts the streams of HandleTCPClient and of the clients' loops
\* into pieces, and whoever is killed, a client prints the bytes it has sent in
\* their order; and none is missing on the way while both ends are open.
THEOREM EchoCorrect == Spec => []EchoConserved
<1>1. IInv => EchoConserved
  <2> SUFFICES ASSUME IInv, NEW c \in Clients PROVE IsPrefix(printed[c], sent[c])
    BY DEF IInv, Complete, EchoConserved
  <2>1. /\ printed[c] \in Bytes /\ toClient[c] \in Bytes /\ sent[c] \in Bytes
        /\ printed[c] \o toClient[c] \in Bytes
    BY StreamTypes, BytesConcat DEF IInv
  <2>2. PICK r \in Bytes : sent[c] = (printed[c] \o toClient[c]) \o r
    BY <2>1, BytesPrefix DEF IInv, Returning
  <2>3. (printed[c] \o toClient[c]) \o r = printed[c] \o (toClient[c] \o r)
    <3>1. Regroup(printed[c], toClient[c], r)
      BY <2>1, BytesRegroup
    <3> QED
      BY <3>1 DEF Regroup
  <2>4. toClient[c] \o r \in Bytes
    BY <2>1, BytesConcat
  <2> QED
    <3>1. sent[c] = printed[c] \o (toClient[c] \o r)
      BY <2>2, <2>3
    <3> QED
      BY <2>1, <2>4, <3>1, BytesPrefix
<1> QED
  BY <1>1, Invariance, PTL

\* The counter totalBytesRcvd keeps the rounds apart: when a client takes its
\* next text, or closes, it has printed the whole echo of the earlier ones.
THEOREM RoundsCorrect == Spec => []RoundsInStep
<1>1. IInv => RoundsInStep
  BY DEF IInv, Counted, RoundsInStep
<1> QED
  BY <1>1, Invariance, PTL

=============================================================================
