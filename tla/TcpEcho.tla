------------------------------- MODULE TcpEcho -------------------------------
(***************************************************************************)
(* TCP echo: EchoServer1.c, which serves one connection after the other,   *)
(* or EchoConcurrentServer1.c, which forks a child for each, with the      *)
(* clients Client1.c and EchoClient1.c.  A client sends a text and         *)
(* receives until as many bytes have come back; the server sends back      *)
(* whatever one recv returned.                                             *)
(*                                                                         *)
(* A client process makes one connection, which is named after it.  All    *)
(* bytes of the k-th text typed are written k.                             *)
(***************************************************************************)
EXTENDS Integers, Sequences, FiniteSets, SequencesExt

CONSTANTS
    Clients,
    Persistent,   \* those that run EchoClient1; the others run Client1
    Chunk,        \* RCVBUFSIZE - 1
    MaxLen,       \* longest text typed
    Rounds,       \* texts: 5 in Client1; EchoClient1 has no end, a bound here
    MAXPENDING,
    ProcLimit,    \* children the concurrent server may have, zombies included
    Killable      \* clients that may be killed, or whose child may be

ASSUME ClientsAssumption == IsFiniteSet(Clients)
ASSUME PersistentAssumption == Persistent \subseteq Clients
ASSUME SizesAssumption == Chunk \in Nat \ {0} /\ MaxLen \in Nat /\ Rounds \in Nat
ASSUME LimitsAssumption == MAXPENDING \in Nat /\ ProcLimit \in Nat
ASSUME KillableAssumption == Killable \subseteq Clients

VARIABLES
    server,       \* "iterative" or "concurrent" while it runs, or "dead"
    backlog,      \* connections that wait for accept
    pc,           \* where each client is
    echoString,   \* what each client sends next
    round,        \* texts each client has sent
    total,        \* totalBytesRcvd
    serverEnd,    \* the server's end of each connection, as the client sees it
    clientEnd,    \* the client's end, as the server sees it
    toServer,     \* bytes sent by the client, not yet received
    toClient,     \* bytes sent back, not yet received
    handler,      \* where HandleTCPClient is, for each connection
    echoBuffer,   \* what its last recv returned
    sent,         \* history: the bytes each client has sent
    printed       \* the bytes each client has printed

clientVars == <<pc, echoString, round, total, sent, printed>>
handlerVars == <<handler, echoBuffer>>
vars == <<server, backlog, clientVars, serverEnd, clientEnd, toServer, toClient, handlerVars>>

-----------------------------------------------------------------------------

Init ==
    /\ server \in {"iterative", "concurrent"}
    /\ backlog = <<>>
    /\ pc = [c \in Clients |-> "off"]
    /\ echoString = [c \in Clients |-> <<>>]
    /\ round = [c \in Clients |-> 0]
    /\ total = [c \in Clients |-> 0]
    /\ serverEnd = [c \in Clients |-> "open"]
    /\ clientEnd = [c \in Clients |-> "open"]
    /\ toServer = [c \in Clients |-> <<>>]
    /\ toClient = [c \in Clients |-> <<>>]
    /\ handler = [c \in Clients |-> "none"]
    /\ echoBuffer = [c \in Clients |-> <<>>]
    /\ sent = [c \in Clients |-> <<>>]
    /\ printed = [c \in Clients |-> <<>>]

\* What the peer sees of a socket closed by close or by the end of its
\* process: a reset if bytes that were received have not been read.
Closing(unread) == IF unread = <<>> THEN "fin" ELSE "reset"

\* connect succeeds as soon as there is room for the connection in the backlog.
Connect(c) ==
    /\ pc[c] = "off"
    /\ \/ /\ server # "dead" /\ Len(backlog) <= MAXPENDING
          /\ backlog' = Append(backlog, c)
          /\ pc' = [pc EXCEPT ![c] = "input"]
       \/ /\ server = "dead"
          /\ pc' = [pc EXCEPT ![c] = "dead"]
          /\ UNCHANGED backlog
    /\ UNCHANGED <<server, echoString, round, total, sent, printed, serverEnd,
                   clientEnd, toServer, toClient, handlerVars>>

\* scanf and send.  An empty line, or the end of the input, leaves echoString
\* as it was.  A socket the server has closed takes the bytes, and they are
\* lost; one that was reset ends the client, by -1 or by SIGPIPE.
TypeAndSend(c) ==
    /\ pc[c] = "input"
    /\ round[c] < Rounds
    /\ \E n \in 0..MaxLen :
          echoString' = [echoString EXCEPT
                           ![c] = IF n = 0 THEN @ ELSE [i \in 1..n |-> round[c] + 1]]
    /\ \/ /\ serverEnd[c] # "reset"
          /\ sent' = [sent EXCEPT ![c] = @ \o echoString'[c]]
          /\ toServer' = IF serverEnd[c] = "open"
                         THEN [toServer EXCEPT ![c] = @ \o echoString'[c]]
                         ELSE toServer
          /\ round' = [round EXCEPT ![c] = @ + 1]
          /\ total' = [total EXCEPT ![c] = 0]
          /\ pc' = [pc EXCEPT ![c] = "recv"]
          /\ UNCHANGED clientEnd
       \/ /\ serverEnd[c] = "reset"
          /\ pc' = [pc EXCEPT ![c] = "dead"]
          /\ clientEnd' = [clientEnd EXCEPT ![c] = Closing(toClient[c])]
          /\ UNCHANGED <<sent, toServer, round, total>>
    /\ UNCHANGED <<server, backlog, printed, serverEnd, toClient, handlerVars>>

\* Mutant: the client takes the next text after one recv.
RecvEcho_Once(c) ==
    /\ pc[c] = "recv" /\ total[c] < Len(echoString[c])
    /\ \E n \in 1..Chunk :
          /\ n <= Len(toClient[c])
          /\ printed' = [printed EXCEPT ![c] = @ \o SubSeq(toClient[c], 1, n)]
          /\ toClient' = [toClient EXCEPT ![c] = SubSeq(@, n + 1, Len(@))]
          /\ total' = [total EXCEPT ![c] = Len(echoString[c])]
    /\ UNCHANGED <<server, backlog, pc, echoString, round, sent, serverEnd,
                   clientEnd, toServer, handlerVars>>

\* recv of some of the bytes that have come.
RecvEcho(c) ==
    /\ pc[c] = "recv" /\ total[c] < Len(echoString[c])
    /\ \E n \in 1..Chunk :
          /\ n <= Len(toClient[c])
          /\ printed' = [printed EXCEPT ![c] = @ \o SubSeq(toClient[c], 1, n)]
          /\ toClient' = [toClient EXCEPT ![c] = SubSeq(@, n + 1, Len(@))]
          /\ total' = [total EXCEPT ![c] = @ + n]
    /\ UNCHANGED <<server, backlog, pc, echoString, round, sent, serverEnd,
                   clientEnd, toServer, handlerVars>>

\* recv of nothing: -1 after a reset, which may also have overtaken bytes, or 0
\* at the end of the connection.  EchoClient1 takes both for an error; to
\* Client1 0 is no error, and it calls recv again, for ever.
RecvFails(c) ==
    /\ pc[c] = "recv" /\ total[c] < Len(echoString[c])
    /\ \/ serverEnd[c] = "reset"
       \/ serverEnd[c] = "fin" /\ toClient[c] = <<>> /\ c \in Persistent
    /\ pc' = [pc EXCEPT ![c] = "dead"]
    /\ clientEnd' = [clientEnd EXCEPT ![c] = Closing(toClient[c])]
    /\ UNCHANGED <<server, backlog, echoString, round, total, sent, printed,
                   serverEnd, toServer, toClient, handlerVars>>

\* All bytes of this text are back.  Client1 closes after the last one.
NextText(c) ==
    /\ pc[c] = "recv" /\ total[c] >= Len(echoString[c])
    /\ \/ /\ c \in Persistent \/ round[c] < Rounds
          /\ pc' = [pc EXCEPT ![c] = "input"]
          /\ UNCHANGED clientEnd
       \/ /\ c \notin Persistent /\ round[c] = Rounds
          /\ pc' = [pc EXCEPT ![c] = "done"]
          /\ clientEnd' = [clientEnd EXCEPT ![c] = Closing(toClient[c])]
    /\ UNCHANGED <<server, backlog, echoString, round, total, sent, printed,
                   serverEnd, toServer, toClient, handlerVars>>

KillClient(c) ==
    /\ c \in Killable /\ pc[c] \in {"input", "recv"}
    /\ pc' = [pc EXCEPT ![c] = "dead"]
    /\ clientEnd' = [clientEnd EXCEPT ![c] = Closing(toClient[c])]
    /\ UNCHANGED <<server, backlog, echoString, round, total, sent, printed,
                   serverEnd, toServer, toClient, handlerVars>>

-----------------------------------------------------------------------------
\* The server

Serving == {c \in Clients : handler[c] \in {"recv", "send"}}

\* Children of the concurrent server: none is ever waited for.
Forked == {c \in Clients : handler[c] \in {"recv", "send", "exited"}}

\* accept; the iterative server then serves this connection itself, the
\* concurrent one forks.
Accept ==
    /\ backlog # <<>>
    /\ \/ server = "iterative" /\ Serving = {}
       \/ server = "concurrent" /\ Cardinality(Forked) < ProcLimit
    /\ backlog' = Tail(backlog)
    /\ handler' = [handler EXCEPT ![Head(backlog)] = "recv"]
    /\ UNCHANGED <<server, clientVars, serverEnd, clientEnd, toServer, toClient, echoBuffer>>

\* fork fails: the else branch closes the connection, without a word.
ForkFail ==
    /\ backlog # <<>>
    /\ server = "concurrent" /\ Cardinality(Forked) >= ProcLimit
    /\ backlog' = Tail(backlog)
    /\ handler' = [handler EXCEPT ![Head(backlog)] = "refused"]
    /\ serverEnd' = [serverEnd EXCEPT ![Head(backlog)] = Closing(toServer[Head(backlog)])]
    /\ UNCHANGED <<server, clientVars, clientEnd, toServer, toClient, echoBuffer>>

\* The end of HandleTCPClient for c.  If its process ends with it (died), the
\* iterative server is no more, and resets the connections that wait.
HandlerEnds(c, died) ==
    LET over == died /\ server = "iterative"
    IN  /\ handler' = [handler EXCEPT ![c] = "exited"]
        /\ server' = IF over THEN "dead" ELSE server
        /\ backlog' = IF over THEN <<>> ELSE backlog
        /\ serverEnd' = [d \in Clients |->
                           IF d = c THEN Closing(toServer[c])
                           ELSE IF over /\ Contains(backlog, d) THEN "reset"
                           ELSE serverEnd[d]]

\* Mutant: bytes are received into the buffer behind those already there.
HandlerRecv_Appends(c) ==
    /\ handler[c] = "recv"
    /\ \E n \in 1..Chunk :
          /\ n <= Len(toServer[c])
          /\ echoBuffer' = [echoBuffer EXCEPT ![c] = @ \o SubSeq(toServer[c], 1, n)]
          /\ toServer' = [toServer EXCEPT ![c] = SubSeq(@, n + 1, Len(@))]
    /\ handler' = [handler EXCEPT ![c] = "send"]
    /\ UNCHANGED <<server, backlog, clientVars, serverEnd, clientEnd, toClient>>

\* Mutant: MSG_WAITALL, recv waits for a full buffer.
HandlerRecv_WaitsForAll(c) ==
    /\ handler[c] = "recv"
    /\ Chunk <= Len(toServer[c])
    /\ echoBuffer' = [echoBuffer EXCEPT ![c] = SubSeq(toServer[c], 1, Chunk)]
    /\ toServer' = [toServer EXCEPT ![c] = SubSeq(@, Chunk + 1, Len(@))]
    /\ handler' = [handler EXCEPT ![c] = "send"]
    /\ UNCHANGED <<server, backlog, clientVars, serverEnd, clientEnd, toClient>>

\* recv of some of the bytes that have come.
HandlerRecv(c) ==
    /\ handler[c] = "recv"
    /\ \E n \in 1..Chunk :
          /\ n <= Len(toServer[c])
          /\ echoBuffer' = [echoBuffer EXCEPT ![c] = SubSeq(toServer[c], 1, n)]
          /\ toServer' = [toServer EXCEPT ![c] = SubSeq(@, n + 1, Len(@))]
    /\ handler' = [handler EXCEPT ![c] = "send"]
    /\ UNCHANGED <<server, backlog, clientVars, serverEnd, clientEnd, toClient>>

\* Mutant: the loop goes on after a recv of 0.
HandlerEof_Ignored(c) ==
    /\ handler[c] = "recv"
    /\ clientEnd[c] = "reset"
    /\ HandlerEnds(c, TRUE)
    /\ UNCHANGED <<clientVars, clientEnd, toServer, toClient, echoBuffer>>

\* recv of nothing: 0 when the client has closed, and the function returns; -1
\* after a reset, and the process ends.
HandlerEof(c) ==
    /\ handler[c] = "recv"
    /\ \/ clientEnd[c] = "fin" /\ toServer[c] = <<>> /\ HandlerEnds(c, FALSE)
       \/ clientEnd[c] = "reset" /\ HandlerEnds(c, TRUE)
    /\ UNCHANGED <<clientVars, clientEnd, toServer, toClient, echoBuffer>>

\* send of what recv returned.  To a client that has closed it succeeds, and a
\* reset may come back; after a reset it ends the process, by -1 or SIGPIPE.
HandlerSend(c) ==
    /\ handler[c] = "send"
    /\ \/ /\ clientEnd[c] = "open"
          /\ toClient' = [toClient EXCEPT ![c] = @ \o echoBuffer[c]]
          /\ handler' = [handler EXCEPT ![c] = "recv"]
          /\ UNCHANGED <<server, backlog, serverEnd, clientEnd>>
       \/ /\ clientEnd[c] = "fin"
          /\ \E e \in {"fin", "reset"} : clientEnd' = [clientEnd EXCEPT ![c] = e]
          /\ handler' = [handler EXCEPT ![c] = "recv"]
          /\ UNCHANGED <<server, backlog, serverEnd, toClient>>
       \/ /\ clientEnd[c] = "reset"
          /\ HandlerEnds(c, TRUE)
          /\ UNCHANGED <<clientEnd, toClient>>
    /\ UNCHANGED <<clientVars, toServer, echoBuffer>>

\* The process that serves c is killed.
KillHandler(c) ==
    /\ c \in Killable /\ handler[c] \in {"recv", "send"}
    /\ HandlerEnds(c, TRUE)
    /\ UNCHANGED <<clientVars, clientEnd, toServer, toClient, echoBuffer>>

ClientStep(c) == RecvEcho(c) \/ RecvFails(c) \/ NextText(c)

HandlerStep(c) == HandlerRecv(c) \/ HandlerEof(c) \/ HandlerSend(c)

Next ==
    \/ Accept \/ ForkFail
    \/ \E c \in Clients :
          \/ Connect(c) \/ TypeAndSend(c) \/ ClientStep(c) \/ KillClient(c)
          \/ HandlerStep(c) \/ KillHandler(c)

\* The processes run; nobody has to start a client, to type or to kill.
Fairness ==
    /\ WF_vars(Accept \/ ForkFail)
    /\ \A c \in Clients : WF_vars(ClientStep(c)) /\ WF_vars(HandlerStep(c))

Spec == Init /\ [][Next]_vars
FairSpec == Spec /\ Fairness

-----------------------------------------------------------------------------
\* Properties

\* Types of the variables.
TypeOK ==
    /\ server \in {"iterative", "concurrent", "dead"}
    /\ backlog \in Seq(Clients) /\ Len(backlog) <= MAXPENDING + 1
    /\ pc \in [Clients -> {"off", "input", "recv", "done", "dead"}]
    /\ round \in [Clients -> 0..Rounds]
    /\ total \in [Clients -> 0..MaxLen]
    /\ serverEnd \in [Clients -> {"open", "fin", "reset"}]
    /\ clientEnd \in [Clients -> {"open", "fin", "reset"}]
    /\ handler \in [Clients -> {"none", "recv", "send", "exited", "refused"}]
    /\ \A f \in {toServer, toClient, echoBuffer, echoString, sent, printed} :
          f \in [Clients -> Seq(1..Rounds)]
    /\ \A c \in Clients : Len(echoString[c]) <= MaxLen /\ Len(echoBuffer[c]) <= Chunk

\* The bytes the server holds between its recv and its send.
InBuffer(c) == IF handler[c] = "send" THEN echoBuffer[c] ELSE <<>>

\* However recv cuts the stream into pieces on both sides, a client prints the
\* bytes it has sent, in order; and while both ends of the connection are open
\* every byte that is not printed is in exactly one place on the way.
EchoConserved ==
    \A c \in Clients :
        /\ IsPrefix(printed[c], sent[c])
        /\ serverEnd[c] = "open" /\ clientEnd[c] = "open" =>
              sent[c] = printed[c] \o toClient[c] \o InBuffer(c) \o toServer[c]

\* When a client takes its next text, or closes, it has the whole echo of the
\* earlier ones: none of their bytes is taken for those of the next text.
RoundsInStep ==
    \A c \in Clients : pc[c] \in {"input", "done"} => printed[c] = sent[c]

\* The server ended its side before it was told to.
Abandoned(c) == handler[c] \in {"exited", "refused"} \/ serverEnd[c] = "reset"

\* The iterative server is busy with another client, or has died of one.
HeldUp(c) == server = "dead" \/ (server = "iterative" /\ Serving \ {c} # {})

\* A text that was sent comes back whole, unless the server abandons the
\* connection or, when it is the iterative one, is held up by another client.
TextEchoed ==
    \A c \in Clients :
        pc[c] = "recv" ~> (pc[c] # "recv" \/ Abandoned(c) \/ HeldUp(c))

\* The server does not keep serving a client that is gone, however that went.
HandlersEnd ==
    \A c \in Clients :
        (pc[c] \in {"done", "dead"} /\ handler[c] \in {"recv", "send"})
            ~> handler[c] = "exited"

\* A client whose connection the server closes ends: "recv() failed or
\* connection closed prematurely" (Client1.c).
ClosedEnds ==
    \A c \in Clients :
        (pc[c] = "recv" /\ total[c] < Len(echoString[c]) /\ serverEnd[c] # "open")
            ~> pc[c] # "recv"

=============================================================================
