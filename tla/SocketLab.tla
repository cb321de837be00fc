------------------------------ MODULE SocketLab -----------------------------
(***************************************************************************)
(* The small clients and servers of Lab6_mmap_shm_tcp (TCP) and of         *)
(* Lab8_tcp_udp_dns (UDP and Unix domain sockets).  A connection is a      *)
(* channel to the server and one back; connect and accept are the two      *)
(* sides of opening it.                                                    *)
(***************************************************************************)
EXTENDS UnixCalls

LOCAL INSTANCE SequencesExt

Connected(up, down) == <<Open({<<up, "w">>, <<down, "r">>})>>
Accepted(up, down) == <<Open({<<up, "r">>, <<down, "w">>})>>
Disconnected(up, down) == <<Close(up, "r"), Close(down, "w")>>

\* Whatever comes, piece by piece, goes back.
Bounce == {<<"x">>, <<"y">>, <<"x", "x">>, <<"x", "y">>, <<"y", "x">>, <<"y", "y">>}
Echoed(up, down) ==
    <<Loop(<<Recv(up, 2), If(<<>>, <<Break>>, <<Reply(down, [t \in Bounce |-> t])>>)>>)>>

\* HandleTcpClient.c and the loop of EchoServer.c, for two clients
HandleTCPClient(up, down) == Echoed(up, down) \o Disconnected(up, down)
EchoServer ==
    Accepted("a", "b") \o HandleTCPClient("a", "b")
    \o Accepted("c", "d") \o HandleTCPClient("c", "d")

\* EchoClient.c: sends a word, and receives until it has as many bytes.
EchoClient(up, down, word) ==
    Connected(up, down) \o <<Sleep, Send(up, word)>>
    \o Times(Len(word), <<Recv(down, 1), If(<<>>, <<Exit("1")>>, <<Tell>>)>>)

\* tcpserver.c and tcpclient.c; the loop of the client is endless.
TcpServer == Accepted("a", "b") \o <<Loop(<<Recv("a", 2), If(<<>>, <<Exit("0")>>, <<Tell>>)>>)>>
TcpClient == Connected("a", "b") \o Times(Rounds + 1, <<Send("a", <<"x">>), Sleep>>)

\* daytimetcpcli.c, and the server of the system that it reads from
DaytimeClient ==
    Connected("a", "b") \o <<Loop(<<Recv("b", 2), If(<<>>, <<Break>>, <<Tell>>)>>), Exit("0")>>
DaytimeServer == Accepted("a", "b") \o <<Send("b", <<"x", "y">>), Send("b", <<"x">>)>>

\* A server process that serves one client and may be killed meanwhile
OneServer == Accepted("a", "b") \o HandleTCPClient("a", "b")
Killer == <<Sleep, Either(<<Kill({1}, "KILL")>>, <<>>)>>

\* sigPipeClient.c sends each line twice, and receives once, into recvLine, which
\* it neither ends with a NUL nor clears: what it prints goes on after the bytes
\* received with what is left from an earlier line, or was never written, and
\* after a failed receive is nothing else.  recvLine has two bytes here.
NUL == "nul"
Kept(recvLine, t) == [i \in 1..2 |-> IF i <= Len(t) THEN t[i] ELSE recvLine[i]]
UpToNUL(recvLine) ==
    CHOOSE t \in {SubSeq(recvLine, 1, n) : n \in 0..2} :
        NUL \notin Range(t) /\ (Len(t) < 2 => recvLine[Len(t) + 1] = NUL)

\* A round with the line t, and after[l], what follows when it leaves recvLine = l.
RecvLines == [1..2 -> {NUL, "junk", "x", "y"}]
SigPipeRound(t, recvLine, after) ==
    LET puts(line) == <<Puts(UpToNUL(line))>> \o after[line]
        received(piece, other) == <<If(piece, puts(Kept(recvLine, piece)), other)>>
    IN  <<Send("a", <<t>>), Sleep, Send("a", <<t>>), Recv("b", 2)>>
        \o FoldRight(received, SetToSeq(Bounce), puts(recvLine))
SigPipeClient ==
    LET second == [l \in RecvLines |-> SigPipeRound("y", l, [m \in RecvLines |-> <<>>])]
        rounds(recvLine) == SigPipeRound("x", recvLine, second)
    IN  <<Signal("PIPE", <<>>)>> \o Connected("a", "b")
        \o <<Either(rounds(<<NUL, NUL>>), rounds(<<"junk", "junk">>))>>

\* A mutant: without the handler
SigPipeClient1_NoHandler ==
    LET round(t) == <<Send("a", <<t>>), Recv("b", 1), If(<<>>, <<Exit("1")>>, <<Tell>>)>>
    IN  Connected("a", "b") \o round("x") \o round("y")
\* sigPipeClient1.c receives until it has all bytes; the end of the connection
\* counts as no bytes, and only an error ends the program.
SigPipeClient1 ==
    LET round(t) ==
          <<Send("a", <<t>>), If(<<>>, <<Exit("1")>>, <<>>),
            Loop(<<Recv("b", 1), If(<<>>, <<Either(<<Exit("1")>>, <<>>)>>, <<Tell, Break>>)>>)>>
    IN  <<Signal("PIPE", <<>>)>> \o Connected("a", "b") \o round("x") \o round("y")

-----------------------------------------------------------------------------
(* Unix domain sockets                                                     *)

\* unixdomainserver.c: a process for each client, none of which is waited for
StrEcho(up, down) == Echoed(up, down)
UnixServer ==
    LET serve(up, down) == Accepted(up, down)
          \o <<Fork(StrEcho(up, down) \o <<Exit("0")>>)>> \o Disconnected(up, down)
    IN  <<Signal("CHLD", <<>>)>> \o serve("a", "b") \o serve("c", "d") \o <<Loop(<<Pause>>)>>

\* unixdomainclient.c
StrCli(up, down, text) ==
    <<Write(up, <<text>>), Read(down, 2), If(<<>>, <<Exit("0")>>, <<Tell>>)>>
UnixClient(up, down) ==
    Connected(up, down) \o StrCli(up, down, "x") \o StrCli(up, down, "y") \o <<Exit("0")>>

\* passfd.c with sockutil.c: the child opens the file, if it can, and sends the
\* descriptor; the parent copies what it reads there, and ends when a read or a
\* write fails, without a word to the child.
Die == <<Exit("1")>>
CopyData == Times(Rounds, <<Either(<<Puts(<<"block">>)>>, Die)>>) \o <<Either(<<>>, Die)>>
\* A mutant: succeeds though it could not open the file.
ChildProcess_HidesFailure == <<Either(<<Write("a", <<"name">>), Exit("0")>>, <<Exit("0")>>)>>
ChildProcess == <<Either(<<Write("a", <<"name">>), Exit("0")>>, <<Exit("1")>>)>>
ParentProcess == <<Read("a", 1), If(<<>>, <<>>, CopyData)>>
PassFd ==
    <<Pipe("a"), Fork(<<Close("a", "r")>> \o ChildProcess), Close("a", "w")>>
    \o ParentProcess \o <<Wait, If(<<"exit", "0">>, <<>>, <<Puts(<<"child failed">>)>>)>>

-----------------------------------------------------------------------------
(* UDP echo.  A datagram is its source and its text.                       *)

\* UDPEchoServer.c answers to the source of each datagram.
UdpWords == {<<"b", "x">>, <<"c", "y">>}
\* A mutant: every answer goes to the first client.
UdpServer_OneClient ==
    <<Loop(<<RecvFrom("a"),
             SendBack([d \in {<<w>> : w \in UdpWords} |-> <<"b", <<"a", d[1][2]>>>>])>>)>>
UdpServer ==
    <<Loop(<<RecvFrom("a"),
             SendBack([d \in {<<w>> : w \in UdpWords} |-> <<d[1][1], <<"a", d[1][2]>>>>])>>)>>

\* AddressUtility.c: SockAddrsEqual
SockAddrsEqual(addr1, addr2) == addr1 = addr2

\* UDPEchoClient.c takes one datagram and looks at its length and source; all
\* words here have one length.
UdpClient(own, word) ==
    LET known == {<<<<src, t>>>> : src \in {s \in {"a", "z"} : SockAddrsEqual("a", s)},
                                   t \in {"x", "y"}}
    IN  <<SendTo("a", <<own, word>>), RecvFrom(own), IfIn(known, <<Tell>>, <<Exit("1")>>)>>

\* Somebody else who sends to the first client
Stranger == <<SendTo("b", <<"z", "x">>)>>

-----------------------------------------------------------------------------
SocketScripts ==
    [echo    |-> <<EchoServer, EchoClient("a", "b", <<"x", "y">>), EchoClient("c", "d", <<"y">>)>>,
     hi      |-> <<TcpServer, TcpClient, Killer>>,
     daytime |-> <<DaytimeServer, DaytimeClient>>,
     sigpipe |-> <<OneServer, SigPipeClient, Killer>>,
     sigpipe1 |-> <<OneServer, SigPipeClient1, Killer>>,
     unix    |-> <<UnixServer, UnixClient("a", "b"), UnixClient("c", "d")>>,
     passfd  |-> <<PassFd>>,
     udp     |-> <<UdpServer, UdpClient("b", "x"), UdpClient("c", "y"), Stranger>>]

\* The lines that sigPipeClient.c prints begin with what it has received, in
\* order; what follows in a line has stood at its place in an earlier line, or
\* was in recvLine before anything was received.
Stale(lines, i, j) ==
    \/ lines[i][j] = "junk"
    \/ \E h \in 1..(i - 1) : j <= Len(lines[h]) /\ lines[h][j] = lines[i][j]

ReceivedThenStale(lines, sent) ==
    \E k \in [DOMAIN lines -> 0..2] :
        LET taken == FlattenSeq([i \in DOMAIN lines |-> SubSeq(lines[i], 1, k[i])])
        IN  /\ \A i \in DOMAIN lines : k[i] <= Len(lines[i])
            /\ taken = SubSeq(sent, 1, Len(taken))
            /\ \A i \in DOMAIN lines : \A j \in (k[i] + 1)..Len(lines[i]) : Stale(lines, i, j)

\* What a client prints is what it has sent, in its order and nobody else's,
\* whatever pieces the bytes come in (HandleTcpClient.c:14-25,
\* unixdomainserver.c:15-20, UDPEchoServer.c:49-60).  sigPipeClient.c alone adds
\* what was left in its buffer (sigPipeClient.c:68-72).
OwnEcho ==
    LET shown(p) == FlattenSeq(out[p])
        prefix(p, sent) == shown(p) = SubSeq(sent, 1, Len(shown(p)))
    IN  /\ program = "echo" => prefix(2, <<"x", "y">>) /\ prefix(3, <<"y">>)
        /\ program = "daytime" => prefix(2, <<"x", "y", "x">>)
        /\ program = "sigpipe" => ReceivedThenStale(out[2], <<"x", "x", "y", "y">>)
        /\ program \in {"sigpipe1", "unix"} => prefix(2, <<"x", "y">>)
        /\ program = "unix" => prefix(3, <<"x", "y">>)
        /\ program = "udp" => /\ out[2] \in {<<>>, <<<<<<"a", "x">>>>>>}
                              /\ out[3] \in {<<>>, <<<<<<"a", "y">>>>>>}

Killed(p) == proc[p].st = "gone" /\ proc[p].reg = <<>>
Succeeded(p) == proc[p].st = "gone" /\ proc[p].reg = <<"exit", "0">>

\* No client that handles SIGPIPE is killed when its server goes, tcpclient.c is
\* killed only after its server has gone, and sigPipeClient1.c ends without an
\* error only if it has got back all it sent: without its server it ends with an
\* error, or receives for ever (sigPipeClient.c:20, sigPipeClient1.c:29, 74-84,
\* tcpclient.c:27).
PipeSurvived ==
    /\ program \in {"sigpipe", "sigpipe1"} => ~Killed(2)
    /\ program = "hi" /\ Killed(2) => proc[1].st = "gone"
    /\ program = "sigpipe1" /\ Succeeded(2) => FlattenSeq(out[2]) = <<"x", "y">>

\* The parent never both prints of the file and says that the child has failed,
\* and it ends without an error only if it has printed the whole file or said
\* so (passfd.c:32-35, 95-104, 136-139, sockutil.c:20-27).
FilePassed ==
    program = "passfd" =>
        LET blocks == {i \in DOMAIN out[1] : out[1][i] = <<"block">>}
            failed == <<"child failed">> \in Range(out[1])
        IN  /\ ~(blocks # {} /\ failed)
            /\ Succeeded(1) => failed \/ Cardinality(blocks) = Rounds

\* A program that loses the process at the other end does not end as if nothing
\* had happened (tcpclient.c, sigPipeClient.c, sigPipeClient1.c, passfd.c).
LossNotHidden == PipeSurvived /\ FilePassed

\* The servers that go on for ever; clients that find no server any more, which
\* the system would turn away; clients that wait for a datagram that was lost;
\* and sigPipeClient1.c, which receives for ever when its server has gone.
StuckSocket ==
    \/ program = "unix" /\ {p \in Pids : proc[p].st = "run"} = {1}
    \/ At(2, "open") /\ proc[1].st = "gone"
    \/ program = "sigpipe1" /\ proc[1].st = "gone"
    \/ /\ program = "udp" /\ At(1, "recvfrom")
       /\ \A p \in 2..4 : proc[p].st # "gone" => At(p, "recvfrom") /\ chan[Now(p).c] = <<>>

=============================================================================
