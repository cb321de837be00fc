------------------------------ MODULE MsgqRelay ------------------------------
(***************************************************************************)
(* The message-queue chat: Client-server messagequeues/msq_client_app.c    *)
(* and msq_server_app.c.  Every process uses ONE System V queue in both    *)
(* directions.  A client's parent process posts the lines its user types   *)
(* as messages of type 1; the server takes messages of type 1 and posts    *)
(* them again with the destination's pid as the type; the client's child   *)
(* process receives messages whose type is getppid().                      *)
(*                                                                         *)
(* A client is named by the pid of its parent process.                     *)
(***************************************************************************)
EXTENDS Integers, Sequences, FiniteSets, Functions

CONSTANTS
    Clients,      \* the pids of the clients' parent processes
    Dests,        \* the numbers their users may type as destination pid
    AdoptivePid,  \* getppid() of a child whose parent has exited
    Capacity,     \* how many messages fit in the queue (msg_qbytes / size)
    MAXSIZE,      \* characters in mtext
    MaxLength,    \* bound: characters of a typed line
    MaxLines      \* bound: lines typed in a whole behaviour

ASSUME ClientsAssumption == Clients \subseteq Nat \ {0, 1}
ASSUME DestsAssumption == Dests \subseteq Int
ASSUME AdoptivePidAssumption == AdoptivePid \in Nat \ ({0} \cup Clients)
ASSUME CapacityAssumption == Capacity \in Nat \ {0}
ASSUME MaxSizeAssumption == MAXSIZE \in Nat \ {0}
ASSUME MaxLengthAssumption == MaxLength \in 0..MAXSIZE
ASSUME MaxLinesAssumption == MaxLines \in Nat

VARIABLES
    queue,        \* the queue, split by message type: per type it is FIFO
    server,       \* where the server is in its loop, or "dead"
    sendbuffer,   \* the server's outgoing struct msgbuff
    parent,       \* where each client's parent process is
    buffer,       \* each parent's struct msgbuff
    child,        \* the type each child process waits for in msgrcv, or None
    received,     \* what each child has printed, in order
    typed,        \* history: the lines typed so far, in order
    lost          \* history: the lines that were in a server when it ended

vars == <<queue, server, sendbuffer, parent, buffer, child, received, typed, lost>>

None == 0           \* the child is not inside msgrcv
NUL == 0
Garbage == -1       \* a character of an uninitialised buffer

Types == {1, AdoptivePid} \cup Clients \cup {d \in Dests : d > 0}

(***************************************************************************)
(* The characters of line k are all written k: a text is told apart by     *)
(* which line each of its characters comes from and by its length.         *)
(* "line" names the line a message carries; the code has no such field.    *)
(***************************************************************************)
Chars == Nat \cup {Garbage}
Texts == [1..MAXSIZE -> Chars]
Messages ==
    [dpid : Dests \cup {0}, spid : Clients \cup {0}, line : Nat, mtext : Texts]

EmptyText == [i \in 1..MAXSIZE |-> NUL]

\* strlen, stopping at the end of the array.
Strlen(t) ==
    CHOOSE n \in 0..MAXSIZE :
        /\ \A i \in 1..n : t[i] # NUL
        /\ n < MAXSIZE => t[n + 1] = NUL

\* Mutant: the loop of copy() stops one character early.
Copy_StopsEarly(dest, src) ==
    [i \in 1..MAXSIZE |-> IF i < Strlen(src) THEN src[i] ELSE dest[i]]

\* What copy() leaves in dest: it neither copies the NUL nor clears the rest.
Copy(dest, src) ==
    [i \in 1..MAXSIZE |-> IF i <= Strlen(src) THEN src[i] ELSE dest[i]]

Used == SumFunction([t \in Types |-> Len(queue[t])])

Getppid(c) == IF parent[c] = "exited" THEN AdoptivePid ELSE c

-----------------------------------------------------------------------------

Init ==
    /\ queue = [t \in Types |-> <<>>]
    /\ server = "recv"
    /\ \E g \in [1..MAXSIZE -> {NUL, Garbage}] :
          sendbuffer = [dpid |-> 0, spid |-> 0, line |-> 0, mtext |-> g]
    /\ parent = [c \in Clients |-> "start"]
    /\ buffer = [c \in Clients |->
                   [dpid |-> 0, spid |-> c, line |-> 0, mtext |-> EmptyText]]
    /\ child = [c \in Clients |-> None]
    /\ received = [c \in Clients |-> <<>>]
    /\ typed = <<>>
    /\ lost = {}

\* The user gives the destination once; then the process forks.
Start(c, d) ==
    /\ parent[c] = "start"
    /\ parent' = [parent EXCEPT ![c] = "input"]
    /\ buffer' = [buffer EXCEPT ![c].dpid = d]
    /\ UNCHANGED <<queue, server, sendbuffer, child, received, typed, lost>>

\* gets() returns a line of n characters.  It knows no limit, but a line longer
\* than the array runs past it, which has no defined outcome and is left out.
TypeLine(c, n) ==
    /\ parent[c] = "input"
    /\ Len(typed) < MaxLines
    /\ LET k == Len(typed) + 1
           text == [i \in 1..MAXSIZE |-> IF i <= n THEN k ELSE NUL]
       IN  /\ buffer' = [buffer EXCEPT ![c].line = k, ![c].mtext = text]
           /\ typed' = Append(typed, [dpid |-> buffer[c].dpid, spid |-> c,
                                      line |-> k, mtext |-> text])
    /\ parent' = [parent EXCEPT ![c] = "send"]
    /\ UNCHANGED <<queue, server, sendbuffer, child, received, lost>>

\* The parent's msgsnd returns: it blocks while the queue is full.
ClientSend(c) ==
    /\ parent[c] = "send"
    /\ Used < Capacity
    /\ queue' = [queue EXCEPT ![1] = Append(@, buffer[c])]
    /\ buffer' = [buffer EXCEPT ![c].line = 0, ![c].mtext = EmptyText]
    /\ parent' = [parent EXCEPT ![c] = "input"]
    /\ UNCHANGED <<server, sendbuffer, child, received, typed, lost>>

\* End of file on standard input: main returns, the child lives on.
ParentExit(c) ==
    /\ parent[c] = "input"
    /\ parent' = [parent EXCEPT ![c] = "exited"]
    /\ UNCHANGED <<queue, server, sendbuffer, buffer, child, received, typed, lost>>

\* Mutant: the child's loop is missing.
ChildCall_Once(c) ==
    /\ parent[c] # "start"
    /\ child[c] = None /\ received[c] = <<>>
    /\ child' = [child EXCEPT ![c] = Getppid(c)]
    /\ UNCHANGED <<queue, server, sendbuffer, parent, buffer, received, typed, lost>>

\* Mutant: -getppid() is given, so a message of any lower type is taken too.
ChildCall_Negative(c) ==
    /\ parent[c] # "start"
    /\ child[c] = None
    /\ \E t \in Types : t <= Getppid(c) /\ child' = [child EXCEPT ![c] = t]
    /\ UNCHANGED <<queue, server, sendbuffer, parent, buffer, received, typed, lost>>

\* The child evaluates getppid() and enters msgrcv.
ChildCall(c) ==
    /\ parent[c] # "start"
    /\ child[c] = None
    /\ child' = [child EXCEPT ![c] = Getppid(c)]
    /\ UNCHANGED <<queue, server, sendbuffer, parent, buffer, received, typed, lost>>

\* Its msgrcv returns the first message of that type; it prints the message.
ChildReceive(c) ==
    /\ child[c] # None
    /\ queue[child[c]] # <<>>
    /\ received' = [received EXCEPT ![c] = Append(@, Head(queue[child[c]]))]
    /\ queue' = [queue EXCEPT ![child[c]] = Tail(@)]
    /\ child' = [child EXCEPT ![c] = None]
    /\ UNCHANGED <<server, sendbuffer, parent, buffer, typed, lost>>

\* Mutant: the request is copied out of the queue and stays in it.
ServerReceive_Peeks ==
    /\ server = "recv"
    /\ queue[1] # <<>>
    /\ sendbuffer' = [Head(queue[1]) EXCEPT
                        !.mtext = Copy(sendbuffer.mtext, @)]
    /\ server' = "send"
    /\ UNCHANGED <<queue, parent, buffer, child, received, typed, lost>>

\* Mutant: sendbuffer gets the type of the request instead of its dpid.
ServerReceive_KeepsType ==
    /\ server = "recv"
    /\ queue[1] # <<>>
    /\ sendbuffer' = [Head(queue[1]) EXCEPT
                        !.dpid = 1, !.mtext = Copy(sendbuffer.mtext, @)]
    /\ queue' = [queue EXCEPT ![1] = Tail(@)]
    /\ server' = "send"
    /\ UNCHANGED <<parent, buffer, child, received, typed, lost>>

\* The server's msgrcv returns a request and it fills sendbuffer from it.
ServerReceive ==
    /\ server = "recv"
    /\ queue[1] # <<>>
    /\ sendbuffer' = [Head(queue[1]) EXCEPT
                        !.mtext = Copy(sendbuffer.mtext, @)]
    /\ queue' = [queue EXCEPT ![1] = Tail(@)]
    /\ server' = "send"
    /\ UNCHANGED <<parent, buffer, child, received, typed, lost>>

\* Mutant: the type of the relayed message is the sender's pid.
ServerSend_ToSender ==
    /\ server = "send"
    /\ sendbuffer.dpid > 0
    /\ Used < Capacity
    /\ queue' = [queue EXCEPT ![sendbuffer.spid] = Append(@, sendbuffer)]
    /\ sendbuffer' = [sendbuffer EXCEPT !.mtext[1] = NUL]
    /\ server' = "recv"
    /\ UNCHANGED <<parent, buffer, child, received, typed, lost>>

\* The server's msgsnd returns; it clears the first character only.
ServerSend ==
    /\ server = "send"
    /\ sendbuffer.dpid > 0
    /\ Used < Capacity
    /\ queue' = [queue EXCEPT ![sendbuffer.dpid] = Append(@, sendbuffer)]
    /\ sendbuffer' = [sendbuffer EXCEPT !.mtext[1] = NUL]
    /\ server' = "recv"
    /\ UNCHANGED <<parent, buffer, child, received, typed, lost>>

\* The server ends.  The line it has taken and not yet posted goes with it.
ServerEnds ==
    /\ server' = "dead"
    /\ lost' = lost \cup (IF server = "send" THEN {sendbuffer.line} ELSE {})
    /\ UNCHANGED <<queue, sendbuffer, parent, buffer, child, received, typed>>

\* msgsnd fails at once (EINVAL) when the type is not positive: exit(1).
ServerFail ==
    /\ server = "send"
    /\ sendbuffer.dpid <= 0
    /\ ServerEnds

\* Somebody ends the server with a signal, wherever it is in its loop: it
\* handles none.
ServerKilled ==
    /\ server # "dead"
    /\ ServerEnds

\* Somebody starts the server again; the queue has outlived it.
ServerRestart ==
    /\ server = "dead"
    /\ server' = "recv"
    /\ \E g \in [1..MAXSIZE -> {NUL, Garbage}] :
          sendbuffer' = [dpid |-> 0, spid |-> 0, line |-> 0, mtext |-> g]
    /\ UNCHANGED <<queue, parent, buffer, child, received, typed, lost>>

Next ==
    \/ \E c \in Clients :
          \/ \E d \in Dests : Start(c, d)
          \/ \E n \in 0..MaxLength : TypeLine(c, n)
          \/ ClientSend(c)
          \/ ParentExit(c)
          \/ ChildCall(c)
          \/ ChildReceive(c)
    \/ ServerReceive
    \/ ServerSend
    \/ ServerFail
    \/ ServerKilled
    \/ ServerRestart

(***************************************************************************)
(* The processes run; what the users do (start, type, close the input, end *)
(* the server with a signal, start it again) is under no fairness.         *)
(***************************************************************************)
Fairness ==
    /\ WF_vars(ServerReceive)
    /\ WF_vars(ServerSend)
    /\ WF_vars(ServerFail)
    /\ \A c \in Clients :
          WF_vars(ClientSend(c)) /\ WF_vars(ChildCall(c)) /\ WF_vars(ChildReceive(c))

Spec == Init /\ [][Next]_vars
FairSpec == Spec /\ Fairness

-----------------------------------------------------------------------------
\* Properties

\* Types of the variables.
TypeOK ==
    /\ queue \in [Types -> Seq(Messages)]
    /\ server \in {"recv", "send", "dead"}
    /\ sendbuffer \in Messages
    /\ parent \in [Clients -> {"start", "input", "send", "exited"}]
    /\ buffer \in [Clients -> Messages]
    /\ child \in [Clients -> Types \cup {None}]
    /\ received \in [Clients -> Seq(Messages)]
    /\ typed \in Seq(Messages)
    /\ lost \subseteq Nat

\* What holds messages: a parent's buffer until its msgsnd returns, the queue,
\* the server's buffer until its msgsnd returns, a child's output.
Boxes == ({"parent", "printed"} \X Clients) \cup ({"queue"} \X Types) \cup {<<"server", 1>>}

Held(b) ==
    CASE b[1] = "parent"  -> IF parent[b[2]] = "send" THEN <<buffer[b[2]]>> ELSE <<>>
      [] b[1] = "queue"   -> queue[b[2]]
      [] b[1] = "server"  -> IF server = "send" THEN <<sendbuffer>> ELSE <<>>
      [] b[1] = "printed" -> received[b[2]]

Content == [b \in Boxes |-> Held(b)]

\* Where line k is: in which box, at which index.
Copies(k) ==
    {p \in UNION {{b} \X DOMAIN Content[b] : b \in Boxes} : Content[p[1]][p[2]].line = k}

\* Every line typed is in exactly one place from then on: however the
\* processes interleave, no line is lost or printed twice.  The one exception
\* is a line the server had in hand when it ended, killed or because msgsnd
\* rejected the destination: that line is nowhere, even after a restart.
ExactlyOnce ==
    \A k \in DOMAIN typed :
        IF k \in lost THEN Copies(k) = {} ELSE Cardinality(Copies(k)) = 1

\* What a line passes on its way to client c, against its direction: the later
\* it has entered the queue, the higher is its part or its index in the part.
Passing(c) ==
    [s \in 1..3 |-> CASE s = 1 -> queue[c]
                      [] s = 2 -> IF server = "send" THEN <<sendbuffer>> ELSE <<>>
                      [] s = 3 -> queue[1]]

\* Where the lines for client c are in such parts F.
PlacesFor(F, c) ==
    {p \in UNION {{s} \X DOMAIN F[s] : s \in 1..3} : F[p[1]][p[2]].dpid = c}

Before(p, q) == p[1] < q[1] \/ (p[1] = q[1] /\ p[2] < q[2])

LineAt(F, p) == F[p[1]][p[2]].line

Waiting(F, c) == {LineAt(F, p) : p \in PlacesFor(F, c)}

Ahead(F, c) ==
    LET places == PlacesFor(F, c)
    IN  {<<LineAt(F, x[1]), LineAt(F, x[2])>> :
            x \in {x \in places \X places : Before(x[1], x[2])}}

Promise == INSTANCE RelayPromise WITH
    Users   <- Clients,
    Lines   <- 1..MaxLines,
    waiting <- [c \in Clients |-> Waiting(Passing(c), c)],
    ahead   <- [c \in Clients |-> Ahead(Passing(c), c)],
    shown   <- [c \in Clients |-> [i \in DOMAIN received[c] |-> received[c][i].line]],
    left    <- {c \in Clients : parent[c] = "exited"},
    up      <- server # "dead"

\* The relay keeps the promise: per destination the lines are printed once and
\* in the order the requests entered the queue, and the server takes at most
\* one line with it when it ends.
KeepsPromise == Promise!Spec

\* A client prints only lines addressed to it; one whose parent has exited
\* may also print what was left for the pid that adopted its child (type 1,
\* the server's own requests, when that is init).
RightReader ==
    \A c \in Clients : \A i \in DOMAIN received[c] :
        \/ received[c][i].dpid = c
        \/ parent[c] = "exited"

\* What is printed starts with what was typed: copy() and the single NUL at
\* mtext[0] never damage the text itself.
TextPrefix ==
    \A c \in Clients : \A i \in DOMAIN received[c] :
        LET m == received[c][i]
            sent == typed[m.line].mtext
        IN  \A j \in 1..Strlen(sent) : m.mtext[j] = sent[j]

\* Relaying a message passes on its own text: no character of another line is
\* in what is printed.
OwnTextOnly ==
    \A c \in Clients : \A i \in DOMAIN received[c] :
        LET m == received[c][i]
        IN  \A j \in 1..Strlen(m.mtext) : m.mtext[j] \in {m.line, Garbage}

\* A child about to wait, or waiting, for a type nobody has posted.
Idle(c) ==
    \/ parent[c] = "start"
    \/ queue[IF child[c] = None THEN Getppid(c) ELSE child[c]] = <<>>

\* The queue is full and nobody can take from it: no child's type is in it, and
\* the server is itself blocked in msgsnd, or waits for a request that no
\* client can post.
Wedged ==
    /\ Used = Capacity
    /\ \A c \in Clients : Idle(c)
    /\ \/ server = "send" /\ sendbuffer.dpid > 0
       \/ server = "recv" /\ queue[1] = <<>>

\* Once the relay is wedged no process of it can free a slot: only a user
\* can, by starting a client, by closing the input of one, or by ending the
\* server, which frees nothing but lets the next one take a request.
WedgeNeedsUser ==
    [][Wedged => \/ Wedged'
                 \/ \E c \in Clients : parent[c] = "start" /\ parent'[c] = "input"
                 \/ \E c \in Clients : parent[c] = "input" /\ parent'[c] = "exited"
                 \/ server' = "dead"
      ]_vars

\* Line k has been printed by client c.
PrintedBy(c, k) == \E i \in DOMAIN received[c] : received[c][i].line = k

\* The child of another client has taken line k, as a child may whose parent
\* has exited: the line never reaches d.
Stolen(d, k) == \E c \in Clients \ {d} : parent[c] = "exited" /\ PrintedBy(c, k)

\* A line for destination 1 is in the relay: type 1 is the server's own, so the
\* server takes its own message and posts it again, for ever.
Looping ==
    \/ server = "send" /\ sendbuffer.dpid = 1
    \/ \E i \in DOMAIN queue[1] : queue[1][i].dpid = 1

\* A line for client d is printed by d itself, unless d has no reader, a child
\* left behind by another client takes it, a server ends with it or is not
\* started again, the relay has wedged, or a message looping through the server
\* keeps taking the slot a blocked sender waits for.
LineArrives ==
    \A k \in 1..MaxLines : \A d \in Clients :
        (k \in DOMAIN typed /\ typed[k].dpid = d)
            ~> \/ PrintedBy(d, k)
               \/ Stolen(d, k)
               \/ parent[d] \in {"start", "exited"}
               \/ k \in lost
               \/ server = "dead"
               \/ Wedged
               \/ Looping

=============================================================================
