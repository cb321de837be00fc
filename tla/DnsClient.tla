------------------------------ MODULE DnsClient -----------------------------
(***************************************************************************)
(* The DNS client of Lab8_tcp_udp_dns, client.c: how it encodes its query, *)
(* sends it in one datagram, and reads the answer.  Messages are sequences *)
(* of bytes, with the zeros left out that fill the query to 512.  The      *)
(* server is not part of the repository: it sends any of Replies, with the *)
(* names as the client expects them or compressed.                         *)
(***************************************************************************)
EXTENDS UnixCalls

LOCAL INSTANCE SequencesExt

CONSTANTS
    Hosts,    \* for each program, the name it asks for, in character codes
    Replies   \* replies of the server: for each section the sequence of its records

Dot == 46

-----------------------------------------------------------------------------
(* dg_cli: the query                                                       *)

\* The labels of a name, where each dot ends one, and the end of the name too.
RECURSIVE Labels(_, _)
Labels(host, temp) ==
    IF host = <<>> THEN <<temp>>
    ELSE IF Head(host) = Dot THEN <<temp>> \o Labels(Tail(host), <<>>)
    ELSE Labels(Tail(host), Append(temp, Head(host)))

\* A mutant: goes on behind an empty label.
Question_AllLabels(labels) ==
    FlattenSeq([i \in DOMAIN labels |-> <<Len(labels[i])>> \o labels[i]]) \o <<0>>
\* The question: labels with their lengths, up to the first empty one
Question(labels) ==
    LET full == {m \in 0..Len(labels) : \A i \in 1..m : labels[i] # <<>>}
        last == CHOOSE m \in full : \A i \in full : i <= m
    IN  FlattenSeq([i \in 1..last |-> <<Len(labels[i])>> \o labels[i]]) \o <<0>>

Type == <<0, 1>>
Class == <<0, 1>>
QueryHeader == <<0, 1, 1, 0, 0, 1, 0, 0, 0, 0, 0, 0>>
Query(host) == QueryHeader \o Question(Labels(host, <<>>)) \o Type \o Class
AnswerOffset(host) == Len(Query(host))

-----------------------------------------------------------------------------
(* parse and printfunc.  Offsets count from zero, as in C.                 *)

Byte(msg, i) == msg[i + 1]
Short(msg, i) == 256 * Byte(msg, i) + Byte(msg, i + 1)
Pointer(msg, i) == Byte(msg, i) >= 64

\* What printfunc prints of the name at i, and the loops over owner names too
RECURSIVE PrintFunc(_, _)
PrintFunc(msg, i) ==
    IF Byte(msg, i) = 0 THEN <<>>
    ELSE IF Pointer(msg, i) THEN PrintFunc(msg, Short(msg, i) % 16384)
    ELSE SubSeq(msg, i + 2, i + 1 + Byte(msg, i)) \o <<Dot>>
         \o PrintFunc(msg, i + 1 + Byte(msg, i))

\* Where the name at i ends
RECURSIVE AfterName(_, _)
AfterName(msg, i) ==
    IF Byte(msg, i) = 0 THEN i + 1
    ELSE IF Pointer(msg, i) THEN i + 2
    ELSE AfterName(msg, i + 1 + Byte(msg, i))

\* n records from i on: where they end, and what is printed of those of a type
\* in shown, with the owners except among the answers.  An address record has
\* four bytes of data whatever it says.
RECURSIVE Section(_, _, _, _)
Section(msg, i, n, shown) ==
    IF n = 0 THEN [at |-> i, said |-> <<>>]
    ELSE LET j == AfterName(msg, i)
             type == Short(msg, j)
             owner == IF shown = {1} THEN <<>> ELSE <<PrintFunc(msg, i)>>
             data == IF type \notin shown THEN <<>>
                     ELSE IF type = 1 THEN <<SubSeq(msg, j + 11, j + 14)>>
                     ELSE <<PrintFunc(msg, j + 10)>>
             next == IF type = 1 /\ 1 \in shown THEN j + 14 ELSE j + 10 + Short(msg, j + 8)
             rest == Section(msg, next, n - 1, shown)
         IN  [rest EXCEPT !.said = owner \o data \o @]

Answers(msg, i) == Section(msg, i, Short(msg, 6), {1})
Authority(msg, i) == Section(msg, i, Short(msg, 8), {2})
\* A mutant: knows addresses only.
Additional_OnlyAddresses(msg, i) == Section(msg, i, Short(msg, 10), {1})
Additional(msg, i) == Section(msg, i, Short(msg, 10), {1, 2})

Parse(msg, i) ==
    LET an == Answers(msg, i)
        au == Authority(msg, an.at)
    IN  an.said \o au.said \o Additional(msg, au.at).said

-----------------------------------------------------------------------------
(* The server.  A name is a sequence of labels, and "to" says where a      *)
(* compressed one goes on, so that the answer may repeat the question.     *)

\* client.c: main and dg_cli, one datagram each way
DnsMain(host) == <<SendTo("a", Query(host)), RecvFrom("b"), Tell>>

NameBytes(name) == FlattenSeq([i \in DOMAIN name |-> <<Len(name[i])>> \o name[i]])
Wire(n) == NameBytes(n.labels) \o (IF n.on THEN <<192, 12>> ELSE <<0>>)
RecordBytes(r) ==
    LET data == IF r.type \in {2, 5} THEN Wire(r.data) ELSE r.data
    IN  Wire(r.owner) \o <<0, r.type>> \o Class \o <<0, 0, 0, 9>> \o <<0, Len(data)>> \o data
Response(host, reply) ==
    <<0, 1, 133, 128, 0, 1>>
    \o <<0, Len(reply.an), 0, Len(reply.au), 0, Len(reply.ad)>>
    \o Question(Labels(host, <<>>)) \o Type \o Class
    \o FlattenSeq([i \in DOMAIN reply.an |-> RecordBytes(reply.an[i])])
    \o FlattenSeq([i \in DOMAIN reply.au |-> RecordBytes(reply.au[i])])
    \o FlattenSeq([i \in DOMAIN reply.ad |-> RecordBytes(reply.ad[i])])

\* The server answers every query it gets with any of the replies.
DnsServer(host) ==
    LET all == SetToSeq(Replies)
        pick[i \in DOMAIN all] ==
          LET send == <<SendTo("b", Response(host, all[i]))>>
          IN  IF i = Len(all) THEN send ELSE <<Either(send, pick[i + 1])>>
    IN  <<Loop(<<RecvFrom("a")>> \o pick[1])>>

DnsScripts == [h \in DOMAIN Hosts |-> <<DnsMain(Hosts[h]), DnsServer(Hosts[h])>>]

-----------------------------------------------------------------------------
\* The part of a name that a query carries: up to two dots in a row, or the end
Asked(host) ==
    LET end == CHOOSE i \in 1..Len(host) :
                 /\ i < Len(host) => host[i] = Dot /\ host[i + 1] = Dot
                 /\ \A k \in 1..i - 1 : host[k] # Dot \/ host[k + 1] # Dot
    IN  IF host[end] = Dot THEN SubSeq(host, 1, end) ELSE Append(host, Dot)

\* Every query on its way asks for the name that was given, as far as it has no
\* empty label, and has nothing between that name and its type (client.c:257-325).
QueryEncoded ==
    program \in DOMAIN Hosts =>
        \A i \in DOMAIN chan["a"] :
            LET q == chan["a"][i] IN
            /\ PrintFunc(q, 12) = Asked(Hosts[program])
            /\ AfterName(q, 12) + 4 = Len(q)

\* What a record says: a name is spelled out, an address is itself.
Spelled(host, n) ==
    FlattenSeq([i \in DOMAIN n.labels |-> Append(n.labels[i], Dot)])
    \o (IF n.on THEN Asked(host) ELSE <<>>)
Says(host, records, shown) ==
    FlattenSeq([i \in DOMAIN records |->
        LET r == records[i] IN
        (IF shown = {1} THEN <<>> ELSE <<Spelled(host, r.owner)>>)
        \o (IF r.type \notin shown THEN <<>>
            ELSE IF r.type = 1 THEN <<r.data>> ELSE <<Spelled(host, r.data)>>)])

\* The client prints what the reply says, section by section, whatever records
\* of other types come in between and however the names are compressed
\* (client.c:113-236).
AnswersParsed ==
    program \in DOMAIN Hosts /\ out[1] # <<>> =>
        LET host == Hosts[program]
            msg == out[1][1][1]
        IN  \E r \in Replies :
               /\ msg = Response(host, r)
               /\ Parse(msg, AnswerOffset(host)) =
                     Says(host, r.an, {1}) \o Says(host, r.au, {2}) \o Says(host, r.ad, {1, 2})

\* The client waits for ever when its query or the answer was lost, and the
\* server for more.
StuckDns ==
    /\ program \in DOMAIN Hosts /\ At(2, "recvfrom")
    /\ proc[1].st = "run" => At(1, "recvfrom") /\ chan["b"] = <<>>

=============================================================================
