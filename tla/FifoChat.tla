------------------------------- MODULE FifoChat -------------------------------
(***************************************************************************)
(* The FIFO chat: fifo/chatfifo_server.c and the live half of              *)
(* fifo/chatfifo_client.c.  Clients write to the server's FIFO; the server *)
(* opens the FIFO of the destination, writes the message and sends the     *)
(* destination SIGUSR1, whose handler reads one message.  The server never *)
(* closes a client's FIFO and nobody removes one.                          *)
(***************************************************************************)
EXTENDS Integers, Sequences

CONSTANTS
    Clients,     \* pids of the clients
    Dests,       \* numbers a user may type as first destination
    Junk,        \* the spid in bytes that are no message
    FifoSize,    \* how many messages fit in a FIFO
    MaxMsgs      \* bound: messages written by clients in a behaviour

ASSUME ClientsAssumption == Clients \subseteq Nat \ {0}
ASSUME JunkAssumption == Junk \in Int \ (Clients \cup {0})
ASSUME DestsAssumption == Dests \subseteq Clients \cup {0, Junk}
ASSUME FifoSizeAssumption == FifoSize \in Nat \ {0}
ASSUME MaxMsgsAssumption == MaxMsgs \in Nat

VARIABLES
    server,     \* where the server is
    cur,        \* its struct incoming
    fd1,        \* whether its last open of a client's FIFO succeeded
    srvq,       \* the messages in the server's FIFO
    opened,     \* the clients whose FIFOs the server has open for writing
    pc,         \* where the main of each client is
    fd1c,       \* whether the client could open the server's FIFO
    fifoq,      \* the messages in each client's FIFO
    sig,        \* whether SIGUSR1 is pending for the client
    handling,   \* whether the client is in the handler
    incoming,   \* the spid of the client's struct incoming
    shown,      \* what each client has displayed
    sent,       \* number of messages clients have written
    skipped,    \* history: signals to each client that read no message, because
                \* they merged or the handler read stdin
    phantom     \* history: signals to each client that no message went with

vars == <<server, cur, fd1, srvq, opened, pc, fd1c, fifoq, sig, handling, incoming, shown,
          sent, skipped, phantom>>

serverVars == <<server, cur, fd1, opened>>
clientVars == <<pc, fd1c, handling, incoming, shown, sent>>

Messages == [dpid : Clients \cup {0, Junk}, spid : Clients, n : 1..MaxMsgs]
NoMessage == [dpid |-> Junk, spid |-> Junk, n |-> 0]

Alive(c) == pc[c] \notin {"off", "gone"}
Writers == {c \in Clients : Alive(c) /\ fd1c[c]}

\* The client has its FIFO open for reading, or is blocked opening it.  An open
\* that a signal interrupts before it has met a writer does not count: it is
\* started again only when the handler has returned.
IsReader(c) ==
    \/ pc[c] \in {"assign", "menu", "reply"}
    \/ pc[c] = "open" /\ (handling[c] => c \in opened)

\* The client's fd is the descriptor of its FIFO; before that it is 0, stdin.
FdSet(c) == pc[c] \in {"menu", "reply"}

-----------------------------------------------------------------------------

Init ==
    /\ server = "off"
    /\ cur = NoMessage
    /\ fd1 = FALSE
    /\ srvq = <<>>
    /\ opened = {}
    /\ pc = [c \in Clients |-> "off"]
    /\ fd1c = [c \in Clients |-> FALSE]
    /\ fifoq = [c \in Clients |-> <<>>]
    /\ sig = [c \in Clients |-> FALSE]
    /\ handling = [c \in Clients |-> FALSE]
    /\ incoming = [c \in Clients |-> 0]
    /\ shown = [c \in Clients |-> <<>>]
    /\ sent = 0
    /\ skipped = [c \in Clients |-> 0]
    /\ phantom = [c \in Clients |-> 0]

\* mkfifo; the server then blocks opening its FIFO for reading.
ServerMkfifo ==
    /\ server = "off"
    /\ server' = "opening"
    /\ UNCHANGED <<cur, fd1, opened, srvq, fifoq, sig, skipped, phantom, clientVars>>

\* open returns once a client has had the FIFO open for writing.
ServerOpen ==
    /\ server = "opening"
    /\ \E c \in Clients : fd1c[c]
    /\ server' = "read"
    /\ UNCHANGED <<cur, fd1, opened, srvq, fifoq, sig, skipped, phantom, clientVars>>

\* read returns a message, or 0 when the FIFO is empty and without writers.
ServerRead ==
    /\ server = "read"
    /\ \/ /\ srvq # <<>>
          /\ cur' = Head(srvq)
          /\ srvq' = Tail(srvq)
          /\ server' = "open"
       \/ /\ srvq = <<>> /\ Writers = {}
          /\ server' = "ended"
          /\ UNCHANGED <<cur, srvq>>
    /\ UNCHANGED <<fd1, opened, fifoq, sig, skipped, phantom, clientVars>>

\* Mutant: a missing FIFO is created and waited on.
ServerOpenDest_Waits ==
    /\ server = "open"
    /\ cur.dpid \in Clients
    /\ IsReader(cur.dpid)
    /\ fd1' = TRUE
    /\ opened' = opened \cup {cur.dpid}
    /\ server' = "write"
    /\ UNCHANGED <<cur, srvq, fifoq, sig, skipped, phantom, clientVars>>

\* open of the destination's FIFO: it fails if there is none, and blocks
\* until somebody has it open for reading.
ServerOpenDest ==
    /\ server = "open"
    /\ \/ /\ cur.dpid \in Clients => pc[cur.dpid] = "off"
          /\ fd1' = FALSE
          /\ UNCHANGED opened
       \/ /\ cur.dpid \in Clients
          /\ IsReader(cur.dpid)
          /\ fd1' = TRUE
          /\ opened' = opened \cup {cur.dpid}
    /\ server' = "write"
    /\ UNCHANGED <<cur, srvq, fifoq, sig, skipped, phantom, clientVars>>

\* Mutant: the message is written twice.
ServerWrite_Twice ==
    /\ server = "write"
    /\ \/ /\ fd1 /\ IsReader(cur.dpid)
          /\ Len(fifoq[cur.dpid]) < FifoSize
          /\ fifoq' = [fifoq EXCEPT ![cur.dpid] = @ \o <<cur, cur>>]
          /\ server' = "kill"
       \/ /\ fd1 /\ ~IsReader(cur.dpid)
          /\ server' = "ended"
          /\ UNCHANGED fifoq
       \/ /\ ~fd1
          /\ server' = "kill"
          /\ UNCHANGED fifoq
    /\ UNCHANGED <<cur, fd1, opened, srvq, sig, skipped, phantom, clientVars>>

\* write: it blocks while the FIFO is full, and SIGPIPE kills the server if the
\* reader has gone.
ServerWrite ==
    /\ server = "write"
    /\ \/ /\ fd1 /\ IsReader(cur.dpid)
          /\ Len(fifoq[cur.dpid]) < FifoSize
          /\ fifoq' = [fifoq EXCEPT ![cur.dpid] = Append(@, cur)]
          /\ server' = "kill"
       \/ /\ fd1 /\ ~IsReader(cur.dpid)
          /\ server' = "ended"
          /\ UNCHANGED fifoq
       \/ /\ ~fd1
          /\ server' = "kill"
          /\ UNCHANGED fifoq
    /\ UNCHANGED <<cur, fd1, opened, srvq, sig, skipped, phantom, clientVars>>

\* Mutant: the signal is not sent.
ServerKill_NoSignal ==
    /\ server = "kill"
    /\ server' = "read"
    /\ UNCHANGED <<cur, fd1, opened, srvq, fifoq, sig, skipped, phantom, clientVars>>

\* kill(dpid, SIGUSR1), whether or not anything was written.  kill(0) signals
\* the server's own process group, and the server has no handler.
ServerKill ==
    /\ server = "kill"
    /\ \/ /\ cur.dpid \in Clients /\ Alive(cur.dpid)
          /\ sig' = [sig EXCEPT ![cur.dpid] = TRUE]
          /\ skipped' = IF sig[cur.dpid] THEN [skipped EXCEPT ![cur.dpid] = @ + 1] ELSE skipped
          /\ phantom' = IF fd1 THEN phantom ELSE [phantom EXCEPT ![cur.dpid] = @ + 1]
          /\ server' = "read"
       \/ /\ cur.dpid = Junk \/ (cur.dpid \in Clients /\ ~Alive(cur.dpid))
          /\ server' = "read"
          /\ UNCHANGED <<sig, skipped, phantom>>
       \/ /\ cur.dpid = 0
          /\ server' = "ended"
          /\ UNCHANGED <<sig, skipped, phantom>>
    /\ UNCHANGED <<cur, fd1, opened, srvq, fifoq, clientVars>>

-----------------------------------------------------------------------------

\* signal, mkfifo and the two opens of the server's FIFO; dummyfd makes the
\* second one succeed without a server, but not without the FIFO.
ClientStart(c) ==
    /\ pc[c] = "off"
    /\ pc' = [pc EXCEPT ![c] = "prompt"]
    /\ fd1c' = [fd1c EXCEPT ![c] = server # "off"]
    /\ UNCHANGED <<serverVars, srvq, fifoq, sig, handling, incoming, shown, sent,
                   skipped, phantom>>

\* Mutant: outgoing.spid is never set.
Post_NoSpid(c, d) ==
    /\ sent < MaxMsgs
    /\ \/ /\ fd1c[c] /\ Len(srvq) < FifoSize
          /\ sent' = sent + 1
          /\ srvq' = Append(srvq, [dpid |-> d, spid |-> 0, n |-> sent + 1])
       \/ ~fd1c[c] /\ UNCHANGED <<sent, srvq>>

\* write(fd1, &outgoing): it blocks while the server's FIFO is full, and fails
\* unnoticed if fd1 is -1.
Post(c, d) ==
    /\ sent < MaxMsgs
    /\ \/ /\ fd1c[c] /\ Len(srvq) < FifoSize
          /\ sent' = sent + 1
          /\ srvq' = Append(srvq, [dpid |-> d, spid |-> c, n |-> sent + 1])
       \/ ~fd1c[c] /\ UNCHANGED <<sent, srvq>>

\* The first message; the client then blocks opening its own FIFO.
FirstMessage(c, d) ==
    /\ pc[c] = "prompt" /\ ~handling[c]
    /\ Post(c, d)
    /\ pc' = [pc EXCEPT ![c] = "open"]
    /\ UNCHANGED <<serverVars, fd1c, fifoq, sig, handling, incoming, shown,
                   skipped, phantom>>

\* open returns once the server has opened the FIFO for writing.
OpenReturns(c) ==
    /\ pc[c] = "open" /\ ~handling[c]
    /\ c \in opened /\ server # "ended"
    /\ pc' = [pc EXCEPT ![c] = "assign"]
    /\ UNCHANGED <<serverVars, srvq, fd1c, fifoq, sig, handling, incoming, shown, sent,
                   skipped, phantom>>

AssignFd(c) ==
    /\ pc[c] = "assign" /\ ~handling[c]
    /\ pc' = [pc EXCEPT ![c] = "menu"]
    /\ UNCHANGED <<serverVars, srvq, fd1c, fifoq, sig, handling, incoming, shown, sent,
                   skipped, phantom>>

\* The user chooses to reply and types the text.
ChooseReply(c) ==
    /\ pc[c] = "menu" /\ ~handling[c]
    /\ pc' = [pc EXCEPT ![c] = "reply"]
    /\ UNCHANGED <<serverVars, srvq, fd1c, fifoq, sig, handling, incoming, shown, sent,
                   skipped, phantom>>

\* The reply goes to the sender of whatever is in incoming by now.
SendReply(c) ==
    /\ pc[c] = "reply" /\ ~handling[c]
    /\ Post(c, incoming[c])
    /\ pc' = [pc EXCEPT ![c] = "menu"]
    /\ UNCHANGED <<serverVars, fd1c, fifoq, sig, handling, incoming, shown,
                   skipped, phantom>>

\* The handler interrupts main.
HandlerStart(c) ==
    /\ Alive(c) /\ sig[c] /\ ~handling[c]
    /\ sig' = [sig EXCEPT ![c] = FALSE]
    /\ handling' = [handling EXCEPT ![c] = TRUE]
    /\ UNCHANGED <<serverVars, srvq, pc, fd1c, fifoq, incoming, shown, sent,
                   skipped, phantom>>

\* Its read returns a message; without one it blocks while the server lives,
\* and returns 0 after that.  While fd is still 0 it takes a line the user types,
\* which reaches spid only if it is long enough.
HandlerRead(c) ==
    /\ handling[c] /\ Alive(c)
    /\ handling' = [handling EXCEPT ![c] = FALSE]
    /\ \/ /\ FdSet(c) /\ fifoq[c] # <<>>
          /\ incoming' = [incoming EXCEPT ![c] = Head(fifoq[c]).spid]
          /\ shown' = [shown EXCEPT ![c] = Append(@, Head(fifoq[c]))]
          /\ fifoq' = [fifoq EXCEPT ![c] = Tail(@)]
          /\ UNCHANGED skipped
       \/ /\ FdSet(c) /\ fifoq[c] = <<>> /\ server = "ended"
          /\ UNCHANGED <<incoming, shown, fifoq, skipped>>
       \/ /\ ~FdSet(c)
          /\ \E spid \in {incoming[c], Junk} : incoming' = [incoming EXCEPT ![c] = spid]
          /\ skipped' = [skipped EXCEPT ![c] = @ + 1]
          /\ UNCHANGED <<shown, fifoq>>
    /\ UNCHANGED <<serverVars, srvq, pc, fd1c, sig, sent, phantom>>

\* The user interrupts the client; its FIFO file stays.
ClientExit(c) ==
    /\ Alive(c)
    /\ pc' = [pc EXCEPT ![c] = "gone"]
    /\ UNCHANGED <<serverVars, srvq, fd1c, fifoq, sig, handling, incoming, shown, sent,
                   skipped, phantom>>

ServerStep ==
    \/ ServerOpen \/ ServerRead \/ ServerOpenDest \/ ServerWrite \/ ServerKill

Next ==
    \/ ServerMkfifo
    \/ ServerStep
    \/ \E c \in Clients :
          \/ ClientStart(c)
          \/ \E d \in Dests : FirstMessage(c, d)
          \/ OpenReturns(c) \/ AssignFd(c)
          \/ ChooseReply(c) \/ SendReply(c)
          \/ HandlerStart(c) \/ HandlerRead(c)
          \/ ClientExit(c)

\* The server runs, and a signalled client handles its signal; what users type
\* or start is under no fairness.
Fairness ==
    /\ WF_vars(ServerStep)
    /\ \A c \in Clients :
          /\ WF_vars(OpenReturns(c)) /\ WF_vars(AssignFd(c))
          /\ WF_vars(HandlerStart(c))
          /\ WF_vars(FdSet(c) /\ HandlerRead(c))

Spec == Init /\ [][Next]_vars
FairSpec == Spec /\ Fairness

-----------------------------------------------------------------------------
\* Properties

\* Types of the variables.
TypeOK ==
    /\ server \in {"off", "opening", "read", "open", "write", "kill", "ended"}
    /\ cur \in Messages \cup {NoMessage}
    /\ fd1 \in BOOLEAN
    /\ srvq \in Seq(Messages)
    /\ opened \subseteq Clients
    /\ pc \in [Clients -> {"off", "prompt", "open", "assign", "menu", "reply", "gone"}]
    /\ fd1c \in [Clients -> BOOLEAN]
    /\ fifoq \in [Clients -> Seq(Messages)]
    /\ sig \in [Clients -> BOOLEAN]
    /\ handling \in [Clients -> BOOLEAN]
    /\ incoming \in [Clients -> Clients \cup {0, Junk}]
    /\ shown \in [Clients -> Seq(Messages)]
    /\ sent \in 0..MaxMsgs
    /\ skipped \in [Clients -> Nat] /\ phantom \in [Clients -> Nat]

One(b) == IF b THEN 1 ELSE 0

\* Handler runs client c still owes: a pending signal, a running handler, a
\* message written whose signal is about to be sent.
Owed(c) ==
    One(sig[c]) + One(handling[c]) + One(server = "kill" /\ fd1 /\ cur.dpid = c)

\* A message stays unread in a client's FIFO only because two signals merged
\* or a handler ran before fd was assigned; and the handler's read blocks only
\* if the client started between the server's failed open and its kill.  So
\* nothing but one of these three ever separates signals from messages.
UnreadAccounted ==
    \A c \in Clients :
        (Alive(c) /\ server # "ended") =>
            Len(fifoq[c]) + phantom[c] = Owed(c) + skipped[c]

\* Each message is displayed by its destination only, at most once, and after
\* all earlier messages of the same sender to it that are displayed at all.
ShownInOrder ==
    \A c \in Clients : \A j, k \in DOMAIN shown[c] :
        /\ shown[c][j].dpid = c
        /\ j < k /\ shown[c][j].spid = shown[c][k].spid => shown[c][j].n < shown[c][k].n

InServerQueue(n) == \E j \in DOMAIN srvq : srvq[j].n = n

\* The server is blocked opening the FIFO of a client that has not sent its
\* first message (the write of which may itself block on the server's full
\* FIFO), has gone, or was interrupted in its own open and whose handler waits
\* for its user to type a line: it relays for nobody.
HeadOfLine ==
    /\ server = "open" /\ cur.dpid \in Clients
    /\ \/ pc[cur.dpid] \in {"prompt", "gone"}
       \/ pc[cur.dpid] = "open" /\ handling[cur.dpid]

\* The server is blocked writing into a full FIFO from which nobody will read:
\* the client has no signal left to make it read, because some of them merged
\* or came early, or its handler waits for its user to type a line.
Clogged ==
    /\ server = "write" /\ fd1 /\ cur.dpid \in Clients
    /\ Len(fifoq[cur.dpid]) = FifoSize
    /\ IF handling[cur.dpid] THEN ~FdSet(cur.dpid) ELSE ~sig[cur.dpid]

\* A message in the server's FIFO is taken out of it, unless the server has
\* ended or is blocked for the sake of one client, opening its FIFO or writing
\* into it.
RelayProgress ==
    \A n \in 1..MaxMsgs :
        (InServerQueue(n) /\ server \notin {"off", "opening"})
            ~> (~InServerQueue(n) \/ server = "ended" \/ HeadOfLine \/ Clogged)

=============================================================================
