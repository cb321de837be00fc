# TLA+ models of the NetProg course programs

The repository is a collection of C programs about processes, signals, IPC and sockets. Most are a
few dozen lines and independent of each other; what makes them worth modelling is that several
processes share a kernel object (a message queue, a semaphore set, a FIFO, a listening socket) or a
signal handler interrupts a program anywhere. Each group of programs that talk to each other is one
component here. The six largest have modules of their own; the small ones share a module of the system
calls they make, `UnixCalls`, and are written as sequences of these calls. No two programs of different
components ever meet, so no module composes two of them; inside a component one module composes all
of its processes, because it is their interleaving that the properties are about.

Contents: 1 inventory, 2 what is modelled and how, 3 runs and bounds, 4 findings, 5 fairness,
6 proofs, 7 what is only model-checked or not modelled, 8 plan.

## 1 Inventory

Modelled components first. "Hard" is what a test would hardly reach.

**Message-queue relay chat** (`Client-server messagequeues`, copied in Lab3). State: one System V
queue used in both directions; the server's `sendbuffer`; per client a parent (types and posts
requests of type 1) and a child (receives type `getppid()`). Operations: post a line, take a request,
relay it, print it; exits, kills of the server and restarts. Hard: one bounded queue for requests and answers,
so that server and clients can block each other for good; a child whose parent exits changes its type, and takes
what is not its own; a server that ends with a line in hand; a text buffer that is never cleared; destinations
that name nobody, the server, or an invalid type. Correct if: no line is doubled or lost but with a server that
ends, lines reach the right reader in order, a line arrives at its destination unless a named condition holds.

**Shared-memory exchange** (`Lab4/.../sharedmemory/shmserver.c`, `shmclient.c`, copied in Lab6).
State: a set of two semaphores, a segment, and the ids each process got for them. Operations:
create, SETALL, the semops of server and client, copy, print, remove. Hard: no return code is looked
at, the set is usable before SETALL, a removed set makes waiting calls fail, a killed process leaves
everything behind (no SEM_UNDO), and a client can pair a new set with an old segment. Correct if:
clients exclude each other, the server prints a whole text, everybody ends.

**FIFO chat** (`Lab3/.../fifo/chatfifo_server.c`, `chatfifo_client.c`). State: the server's FIFO, one
FIFO per client, pending SIGUSR1, the client's `fd` and `incoming`, both shared with its handler.
Operations: send, relay (open, write, kill), handler (read, display), reply. Hard: signals merge, a
signal can come before `fd` is set, without a message or inside `open`, opening a FIFO and writing into a
full one block, a reply may go to pid 0. Correct if: every unread message is explained by such an event, messages are shown once and in
order, the relay does not stop without a named reason.

**Forking web server** (`Lab8/TCP Webserver/webserver.c`). State: `childPIDs`, `ind`, the pending
SIGCHLD, the children. Operations: accept and fork, record the pid, a child's exit, the handler's scan.
Hard: SIGCHLDs merge, a child may exit before it is recorded, slots are never given back. Correct if:
zombies do not accumulate while the table has room.

**select/epoll benchmark** (`LAB_eval2/.../select_epoll_test.c`). State: connections, backlog,
accepted descriptors, packets unread, the count. Operations: fork, connect, send, accept, wait, read.
Hard: descriptors that stay readable after the end of file, blocking connect and write, a child that
dies in between, N that does not divide the number of descriptors. Correct if: each packet is counted
once and the measurement ends.

**TCP echo** (`Lab6/.../tcp`). State: the byte streams of each connection, the two ends, the server's
process for it. Operations: connect, send a text, receive a piece, echo a piece, close, reset, kill.
Hard: pieces of any size on both sides, ends and resets in the middle of a text, one process that
serves everybody, children never waited for. Correct if: bytes come back in order and in the right
round, nobody waits without a reason, no server process outlives its client.

**The small programs**, all run by `UnixCalls`, by the module that holds their scripts:

| Module, programs | State and operations | Hard part, and what makes it correct |
|---|---|---|
| ProcessLab: `sync.c`, `zombie.c`, `critical.c`, `signal.c`, `sleep.c`, `alarm.c`, `exec.c`, `execlp.c`, `TCP Webserver/signal.c` | handlers, masks, pending signals, an alarm, children | a signal between a check and `pause`, merged SIGCHLDs, a failed exec whose child goes on. Correct if blocked signals wait and are not lost, a handler never keeps main, the clock does not stop, commands run once but for failures |
| ProcessLab: `LAB1_eval/signal.c` | main, sons, grandsons, alarms, SIGUSR1 to the next pids | signals in the middle of `wait`. Correct if nobody of the family is left when main ends |
| PipeLab: `pipe.c`, `fifo.c`, `fiforead.c`, `filter.c` with `parent.c`, the coprocess and its two validators, `pipeline.c` | pipes of bounded size, who holds which end | full pipes and kept ends: everybody waits. Correct if words alternate, answers belong to their addresses, nothing is missing at the end |
| IpcLab: `producer.c`, `consumer.c`, `semopPC.c`, `seminit.c`, `binarySemaphores.c`, `sem_wait_post.c` | counters that outlive the processes | a second run over the first's semaphores, an interrupted run. Correct if the counter is the objects on the shelf, sections exclude each other, there is one token |
| IpcLab: `mq_notify.c`, `pmsg_send.c`, `pmsg_receive.c`, `msgq_server.c`, `msgq_client.c` | a bounded queue, a registration for its signal | messages between registering and reading, removal with unread lines. Correct if lines come in order and the reader does not sleep over one |
| IpcLab: `pshm_write.c`, `pshm_read.c`, `shmget.c` (Lab4), `shmgetC.c` and `mmap` (Lab4 and Lab6) | size and cells of a memory | a reader before the object has a size, truncation under a mapping, an index behind the end. Correct if readers see what was written |
| SocketLab: `EchoServer`, `EchoClient`, `tcpserver`, `tcpclient`, `daytimetcpcli`, `sigPipeClient`, `sigPipeClient1` | two byte streams per connection | short reads, a buffer that is never cleared, a server that goes between two sends. Correct if a client gets its own bytes in order, survives, and does not take the loss for success |
| SocketLab: `unixdomainserver.c`, `unixdomainclient.c`, `passfd.c`, `sockutil.c` | the same; a descriptor on its way | a child that cannot open the file, a file that cannot be read. Correct if the parent does not end as if it had copied the file |
| SocketLab: UDP echo | datagrams under way | loss, doubles, order, strangers. Correct if an answer goes to the source of its question |
| DnsClient: `client.c` | bytes of query and answer | empty labels, compressed names, records of unknown types. Correct if the query asks for the name and the output says what the answer says |

Not modelled: the shared libraries (Lab7), `checkPrime` in a loop and `dlopen`, without any state; and the
programs of section 7 that make one call and end.

## 2 Modules

An action is one system call with the code up to the next one that other processes can notice, or the
whole handler between two blocking calls. A client is named by the pid that the other programs know it
by. Every bound is a constant called `Max...`, or is named as one where it is declared.
Operators whose comment starts with "Mutant:" or "A mutant:" are seeded bugs, each the neighbouring definition
changed as a slip of the programmer would change it; no specification uses them. Each property of a
run has been seen to fail when one of them is put in place of the original (`mutants` in PROJECT.json).

**MsgqRelay** — the queue is a function from message type to a sequence (System V delivers per type in
order); `Used` is the total against `Capacity`. `ServerReceive` is `msgrcv` plus the copy into
`sendbuffer`; `ServerSend` is `msgsnd`, which blocks while the queue is full, plus the clearing of
`mtext[0]`; `ServerFail` is the exit on an invalid type, `ServerKilled` a signal at any point of the loop;
`ServerEnds` is what both do: the line in hand, if any, joins the history variable `lost`. `ServerRestart` starts
a new process, with a new `sendbuffer`, on the queue that is left. A client's processes end only at the end
of the input. `Copy` is `copy()`: it copies to the NUL and writes none. All characters of line k are written k,
so that a text's origin can be told. `TypeLine` takes lines of up to `MaxLength` characters, at most `MAXSIZE`, which
fill the array without a NUL (that of `gets` falls into the struct's padding); a longer one runs past the struct
and is left out, and so is what `%s` prints behind a full array. `ChildCall` evaluates `getppid()`, `ChildReceive` takes a
message of that type: the parent may exit in between. `sizeof(buffer)` as message size reaches 8 bytes
beyond the struct; gcc -O0 builds do not show it, so it is not modelled.
`Boxes` are the places where a message can be (a parent about to send, a type of the queue, the server, a
client's output), `Copies(k)` is where copies of line k are, and `ExactlyOnce` says that there is one, or none if
the line is in `lost`. `LineArrives` wants a line printed by the client it is for; that a child left behind has
taken it (`Stolen`) is one of the conditions it names.
**RelayPromise** — what users may rely on: lines for a user wait, the relation `ahead` says which was accepted
before which, and the user reads one that nothing is ahead of; the reader a user has left behind may take
anything. The relay may go down (`GoDown`), with one line at most, and come up again. `KeepsPromise` maps the relay onto it: the lines waiting for a client are those in the three
places a line passes on its way (`Passing`: the requests, the server, the client's own type), and one is ahead of
another if its place is further on or it is earlier in the same place.

**ShmExchange** — a set or segment is named after the server that made it. `Works(p)` says whether a
semop of p succeeds on the set it once found; when it does not the call fails at once and the program
goes on, as the code does. The copy is in progress while `pc[c] = "write"`; a read then may see any
prefix. `Kill` leaves semaphores and text as they are.

**FifoChat** — the server's turn is `ServerRead`, `ServerOpenDest`, `ServerWrite`, `ServerKill`. A
client's handler is two actions because its `read` blocks; main does not run in between. A signal may interrupt
the client's `open` of its own FIFO: `IsReader` says that such a client does not count as a reader before its
handler has returned, unless the server had already met it there, so the server's `open` blocks. FIFOs, the server's
included, hold `FifoSize` messages, and `write` blocks on a full one. `HeadOfLine` and `Clogged` are the two
states in which the server is blocked for one client. `skipped` and
`phantom` are history variables: signals that will read no message, and signals that no message went
with.

**Webserver** — main is `AcceptFork` then `Record`; the handler is a loop index `i`, `MAXCHILDS` when
it is not running. `HandlerScan` leaves the slot as it is, since the code assigns `childPIDs[-1]`
(padding in the -O0 and -O2 builds looked at). `RecordPastEnd` is the write behind the table, with the
outcomes such a build can show.

**SelectEpoll** — one measurement; `call` says which of `run_select` and `run_epoll` it is.
`Wait` returns all readable descriptors, `Scan` reads one packet from the next. Packets are written and read
whole, as the code takes them to be. A child's random
choice of the socket is `PickSocket`. **Collector** is the promise: each of a set of messages is sent,
counted once, and the collector is finished when all are counted. `Collects` maps a measurement onto it: the
messages are the pairs of a child and a number up to NO_OF_MESSAGES.

**TcpEcho** — `server` says which of the two servers runs. A connection is the two byte streams and,
for each side, how it sees the other end (open, closed or reset). `HandlerRecv`, `HandlerSend`
and `HandlerEof` are the loop of HandleTCPClient; `RecvEcho`, `RecvFails` and `NextText` the client's. In
the iterative server the handler is the server itself, so its end by `DieWithError` or SIGPIPE is the
end of the server (`HandlerEnds`). Bytes of the k-th text are written k.

**UnixCalls** — the calls that the small programs make. A program is data: `Scripts` gives for each
program the scripts of the processes that somebody starts, and a script is a sequence of calls, such as
`<<Pipe("a"), Fork(child), Close("a", "r"), Write("a", <<"how">>), Wait>>`. `proc[p].todo` is what process
p has still to do and `reg` what its last call has returned, which `If` tests and `Tell` prints; `Loop`,
`Break`, `If` and `Either` are the control flow of C, `Either` standing for what the model does not
decide (a random number, a failing exec, a parity). An action is one call with everything it does to
other processes: `DoExit` closes the descriptors, makes a zombie or reaps it, raises SIGCHLD and
orphans the children. A signal that can be delivered comes before the next call; `Deliver` puts the
handler's script in front of what is left, ends a sleep or a pause, restarts other calls, or ends the
process. `pause` and `sigsuspend` are two steps, so that a signal can come just before them. A pipe
without a writer ends, one without a reader raises SIGPIPE; a connection behaves the same but may swallow
what is sent first (`DoSend`). In SocketLab `sigPipeClient.c` keeps its `recvLine`, of two bytes, from round to
round (`Kept`) and prints it up to the first NUL (`UpToNUL`), so that what is left of an earlier line, or was there
before anything came, is printed too. `DoSendTo` loses or doubles datagrams and `DoRecvFrom` takes any.
**ProcessLab, PipeLab, IpcLab, SocketLab, DnsClient** — the scripts, the properties of these programs, and in
`Stuck...` the reasons for which some of them stop for good. A script has the calls of the C function it
is named after, in their order, with the checks that lead somewhere. Printing that no property is about,
and error checks of calls that cannot fail in the model, are left out of it. Loops of 10 to 5000
rounds run `Rounds` times. `Bystander`, `Typing`, `Killer`, `Stranger`, `RunTwice` and the like are the
environment: users, other programs, a shell. Each of these modules names what it assumes of `Scripts`
(`PipeAssumption`, `IpcAssumption` and so on): that its programs have these scripts wherever they are run.
`Calls` gives the calls a program's scripts consist of, those behind `If`, `Loop` and `Fork` and in handlers
included. `CallsAssumption` says that they are well formed (`WellFormed`): scripts inside a call consist
of the program's calls again, a semaphore is never set below zero, a memory never made longer than its page. TLC evaluates it
for the scripts of the labs.
**DnsClient** also has the two pure parts of the client. `Query` encodes a name as `dg_cli` does, byte by
byte, `Parse` reads an answer as `parse` and `printfunc` do, offsets and all. `AnswersParsed` compares it
with `Says`, which reads the records the server was asked to encode, and `QueryEncoded` decodes the query
again.
**Turns** — what `pipe.c` and `sem_wait_post.c` promise: two processes speak by turns. **LabTurns** maps the
output of these two programs onto it (`TakesTurns`). **Labs** puts all scripts together.

The `MC...` modules give the constants values; the `.cfg` files choose the instance.

## 3 Runs

| Run | Instance | Shows |
|---|---|---|
| relay_peers | 2 clients that write to one of them, queue of 2, 2 lines of up to 2 characters, arrays of 2, kills and restarts of the server | types; `RightReader`; `TextPrefix`: a text is never damaged; `KeepsPromise` |
| relay_odd | 2 clients, queue of 1, 2 lines, destinations 0, 1 and a client, kills and restarts of the server, fairness | `ExactlyOnce`, `WedgeNeedsUser`, `LineArrives` |
| shm_exchange | 2 servers, 2 clients, one of each may be killed | types; `WritersExclude`, `ReadsMessage`, `ClientEnds`, `ServerEnds` |
| fifo_relay | 2 clients, 5 messages, FIFOs of 2, first destinations 0 and the clients | types; `UnreadAccounted`, `ShownInOrder`, `RelayProgress` |
| web_reaping | 3 pids, 5 connections, 4 slots | types; `AtMostOneMissed`, `ZombiesReaped` |
| bench_measure | 2 children, 5 descriptors (4 used), 2 packets each, connections that hold 1, one child may die, both calls | types; `Collects`, `Finishes` |
| tcp_echo | both servers, one client of each kind, 2 texts of up to 3 bytes, pieces of 2, backlog of 1, 1 child at most, one connection with kills | types; `EchoConserved`, `RoundsInStep`, `TextEchoed`, `HandlersEnd` |
| lab_programs | 45 set-ups of the small programs, 5 pids, pipes and queues of 2 (6 for `fifo.c`), memories of 3 cells, 2 rounds, 3 host names, 3 answers | see below |

`lab_programs` starts in any of the set-ups: a program with its users, its partners and whoever may kill it. Its properties, by module: `TypeOK` (UnixCalls);
`SignalsKept` and `TreesComplete` (ProcessLab); `AnswersMatch` (PipeLab); `SemaphoresCount`,
`QueuesServed` and `MemoryRead` (IpcLab); `OwnEcho` and `LossNotHidden` (SocketLab); `QueryEncoded` and
`AnswersParsed` (DnsClient); `TakesTurns` (LabTurns) and `EndsUnless` (Labs). Several are conjunctions of parts that are
named and explained in the module, one for each group of programs, each with a mutant of its own. `EndsUnless` is the liveness of all of them at once: each program ends, or it stops
in a state that one of the `Stuck...` formulas names. Read the other way, these formulas list the programs
that hang and why: `sync.c` (the handler is never installed), `sleep.c` (the alarm before the pause), the
buffering coprocess, `pipeline.c` with a long list, a second run of `semopPC.c` or of an interrupted
`sem_wait_post.c`, `seminit.c` alone, the notifier with messages from before its registration, a message server
whose queue is gone, `sigPipeClient1.c` without its server, and every client of a lost datagram.

There are four more runs, that end in a counterexample, section 4.

Why the bounds are enough to meet the interesting cases:
- relay: two lines for one reader in a queue of two wait for it in each pair of places they can be in, so that
  `KeepsPromise` tests their order, and a server that ends takes one and leaves the other. A queue of one
  is full with one line: the second wedges the server in `msgsnd` or a client behind it, and a third would only queue
  up there. Two characters in arrays of two give a longer line before a shorter one and an array without a
  NUL; the run of section 4 has arrays of three, with a byte that is never written. Pids 0 and 1 are the two
  destinations the code treats differently from a client.
- exchange: two servers are needed for left-over sets and segments, two clients for exclusion. A lone
  server is the part of that run in which the second is never started.
- FIFO: two messages to one client merge their signals; a third one shows the lag. With FIFOs of two it takes
  five messages until a server is blocked by a client whose signals have merged and others wait behind it:
  with four, `RelayProgress` would hold without the part of `Clogged` about early handlers.
- web server: three pids are one being recorded, one missed before and one more; five connections
  go past four slots and reuse pids.
- benchmark: five descriptors for two children leaves one over; two packets on a connection that holds
  one make `write` block; a backlog of N+1 makes `connect` block.
- echo: three bytes in pieces of two give pieces that meet in the middle of a text on both sides; two
  texts let bytes of one be taken for the other's; one child at most makes the second fork fail.
- small programs: two rounds let a round meet the next one; a queue or pipe of two blocks a writer that
  is one ahead of what both sides take; `pipeline` runs once with a list that just fits and once with one
  line more; three processes around one counter are two producers and a consumer; three cells are a file
  of two and the index behind it. Three answers have every record type the client knows and two it does
  not, compressed owners, data and both.

`CHECK_DEADLOCK FALSE` in every cfg: users may stop typing, clients and servers come to their ends, and
the bounds stop the model. What must not stop is stated as liveness instead. `TcpEcho`'s Client1 that
calls `recv` for ever is a state without a step, since nothing changes.

## 4 Findings

| Run | Property | What the code does |
|---|---|---|
| relay_own_text | `OwnTextOnly` | The server prints and relays the end of an earlier, longer line after a shorter one: `copy` writes no NUL and only `mtext[0]` is cleared. |
| shm_server_alone | `ServerAlone` | The server raises semaphore 0 without waiting for it to be 0, and reads while a second client writes, although the comment calls the segment busy at 1. |
| web_maximum | `RoomForMaximum` | "Maximum 100 childs" is a maximum of connections ever: no slot is given back. |
| tcp_closed | `ClosedEnds` | Client1 has a message for "connection closed prematurely" but tests `recv` for `< 0` only; at the end of the connection it receives nothing for ever. EchoClient1 tests for `<= 0`. |

The wedge of the relay is no finding: the lab sheet names the deadlock of a single queue, and
`WedgeNeedsUser` and `LineArrives` say when it happens and what it stops. `SelectEpoll` prints the number of
descriptors asked for, not of those monitored, when N does not divide it.

## 5 Fairness

Weak fairness of the steps of processes that run: the kernel schedules a runnable process, and a
blocking call returns when what it waits for stays there. No step of a user is fair (starting a
program, typing, closing an input, killing or restarting a server), and failures never have to happen. Weak fairness is enough
for calls that two processes compete for (a slot of the queue, semaphore 0) only where the property
names the competition: `LineArrives` excludes a looping message that takes the slot each time,
`ClientEnds` holds because each client passes the semaphore once. In FifoChat the handler's read is fair
only when it reads the FIFO, since on standard input it waits for the user. In Webserver children
need not exit. For the small programs every process that can run does, signals are delivered and alarms
ring; which way an `Either` goes, and whether a datagram is lost, is never fair. In TcpEcho accept, the clients' receiving and the handlers are fair.

## 6 Proofs

For every value of the constants that meets the named assumptions of the module (pids are positive and
distinct from 1, capacities positive, the kinds of processes disjoint and so on):

| Module | Theorem | Statement |
|---|---|---|
| MsgqRelay_proofs | TypeCorrect | `Spec => []TypeOK` |
| | ReaderCorrect | `Spec => []RightReader` |
| | WedgeIsPermanent | `Spec => WedgeNeedsUser`, an action property |
| | TextArrives | `Spec => []TextPrefix` |
| | NothingLost | `Spec => []ExactlyOnce` |
| | PromiseKept | `Spec => KeepsPromise`: MsgqRelay implements RelayPromise |
| ShmExchange_proofs | TypeCorrect | `Spec => []TypeOK` |
| | Exclusion | `Spec => []WritersExclude` |
| | WholeMessage | `Spec => []ReadsMessage` |
| Webserver_proofs | TypeCorrect | `Spec => []TypeOK` |
| | ReapingCorrect | `Spec => []AtMostOneMissed` |
| FifoChat_proofs | TypeCorrect | `Spec => []TypeOK` |
| | SignalsAccounted | `Spec => []UnreadAccounted` |
| | OrderKept | `Spec => []ShownInOrder` |
| SelectEpoll_proofs | TypeCorrect | `Spec => []TypeOK` |
| | CollectsCorrect | `Spec => Collects`: SelectEpoll implements Collector |
| TcpEcho_proofs | TypeCorrect | `Spec => []TypeOK` |
| | EchoCorrect | `Spec => []EchoConserved` |
| | RoundsCorrect | `Spec => []RoundsInStep` |
| UnixCalls_proofs | TableCorrect | `Spec => []ProcessTable`, a conjunct of `TypeOK`, for all scripts |
| | TypeCorrect | `Spec => []TypeOK`, for all scripts of well-formed calls |
| Labs_proofs | TurnsKept | `Spec => TakesTurns`: `pipe.c` and `sem_wait_post.c` implement Turns |
| | SemaphoresRight | `Spec => []SemaphoresCount`: five programs with semaphores, for any number of rounds |

Each module proves `Init => IInv`, preservation with one step per action, and `IInv => property`. Where the
parts of an invariant do not need each other there is one lemma for each part.

- **RightReader** is not inductive: it says nothing of messages still queued. `Routed` adds that the
  messages queued under a client's type are addressed to it, `ChildType` that a child waits for its own
  parent's pid as long as the parent lives. The wedge is an action property: from a wedged state each
  action is either disabled or one of the three the property names.
- **ExactlyOnce, TextPrefix**. `Placed` is an invariant of the function `Content` from boxes to sequences of
  messages: all messages in it carry the text of their line in front (`Faithful`), no line is in two places, and
  what has been typed and is not in `lost` is somewhere. Every action then is one of four operations on `Content`,
  each with a lemma: a line is added, moves from the head of one box to the end of another, is dropped, or
  nothing happens. That `copy` keeps the front of a text needs the first NUL of a string, which exists
  because numbers are well-founded (`Least`).
- **KeepsPromise** uses `Placed`. Typing only prepares a line; the client's `msgsnd` is the step that accepts it
  (`SendAccepts`). What the server does then is a stutter of the promise, since the line keeps its place among those
  waiting (`Relayed`, `ReceiveKeeps`, `SendKeeps`). When the server ends, the line in hand, if it is for a
  client, is taken out and the rest keeps its order (`EndTakes`, `EndGoesDown`); a restart is `ComeUp`. A child takes the line that nothing is ahead of,
  because the client's own type is the last place on the way and each type is first in first out; a child left
  behind takes a request or a line that is for nobody, which are the two cases of `Stray`
  (`ReceiveReads`). That a line is fresh when it is accepted follows from its being in no other box.
- **WritersExclude** needs the value of semaphore 0 to cover the processes that rely on it:
  `Covered` says that on a set without left-over segments semaphore 0 is at least 1 when a client is
  inside, at least 2 when the server reads as well, and that two clients are not inside at once. `Bookkeeping` says
  whose set and segment each id can be and who has raised semaphore 0. SETALL is the hard step: it may reset
  the semaphore under a client that has entered, but a segment of the same server does not exist yet, so
  that client has a left-over one, which `Clean` excludes.
- **ReadsMessage** ties the text to semaphore 1. `Told` says of a lone server that a unit of the semaphore, or
  the semop that has taken one, means that its segment holds the whole text; `Written` says it of a client about
  to raise the semaphore. A text that a killed client left half written does no harm: nobody raises semaphore 1
  for it. A second copy over the first one keeps the text, and exclusion is not needed.
- **AtMostOneMissed** speaks of the time between scans. `Ahead` is what holds during one: a zombie for
  which no SIGCHLD is pending is in a slot still to be scanned, or is the child being recorded; when the scan
  is over only the latter can be left. `Complete` says that every child is in the table or being recorded,
  while the table has room.
- **UnreadAccounted** is an equation, and nearly inductive: it needs that a client not yet started has no
  messages, signals or counts (`OffIsFresh`), and that the server has opened only FIFOs of clients that
  have started (`OpenedStarted`).
- **ShownInOrder** speaks of what is displayed; the invariant says the same of the whole way of a message. Messages
  are numbered as they are written; in the server's FIFO, in the server's hands and behind it (`Queued`), in a
  client's FIFO and on its screen (`Delivered`) they are in order, those further on are earlier ones, and those
  for a client are addressed to it.
- **Collects** needs that the packets in the connections and the counted ones are together those sent
  (`Conserved`, a sum of cardinalities) and that the loops end only when `ct` has reached the total
  (`Ending`). `Unfinished` and `Places` keep every index inside its array.
- **EchoConserved, RoundsInStep**. `Complete` is the equation of the two streams: sent is printed, then what is
  on its way back, in the server's buffer, and on its way there. It is lost when an end closes, so `Returning`
  keeps what remains true: what has come back is a prefix of what was sent. `Counted` relates
  `totalBytesRcvd` to both, which makes the end of the receiving loop the end of the echo.
- **ProcessTable** holds whatever the scripts are: `Harmless` describes the calls that change no state and no parent,
  and nothing of a process that does not run; what is left are fork, wait and the end of a process, which must
  orphan its children and reap the zombies among them in the same step.
- **TypeOK** of UnixCalls. `TInv` adds to the process table that whatever a process has still to do, in its own
  script or in a handler it has installed, consists of its program's calls (`Coded`); a step only takes calls off
  the front, puts a script that a call contains in front, or repeats a loop. What a call does to a pipe, a
  semaphore or a memory is then bounded by what `WellFormed` says of it (`Channels`, `Semaphores`, `Memories`,
  `Output`).
- **TakesTurns**. The two processes are at places of their scripts, given by a round and a call in it, so the
  invariants (`WaitPostInv`, `PipeInv`) are about four or five numbers. What relates the two places is an equation
  on what they share: of `sem_wait_post.c`, that the token is in one of the semaphores or taken out (`Tokens`); of
  `pipe.c`, that a pipe holds what has been written to it and not read (`Flow`). A semaphore or a pipe that would go below
  zero is the place where a process waits, and from that follow both the order of the lines and that a
  read meets no end of file, a write no missing reader, and no `sem_unlink` a semaphore still needed: the
  other process cannot have ended yet. One lemma for each call (`OnWrite`, `OnSemOp`, ...) says what it does at a
  known place of a known script.
- **SemaphoresCount** is about several programs, each with an invariant of its own (`SemInv`). The places of any
  number of processes are counted instead of named: `Doing(C)` is the set of those about to make a call in C, and
  `Leads(s, X, Y)` says of a script that exactly what comes after a call in X is in Y. `Moving` then gives what a
  call does to the number of those in `Doing(Y)`, and each invariant is an equation between such numbers, a
  semaphore and what has been printed (`ShelfInv`, `SemopInv`, `Guarding`). Two things make it more than counting.
  `SETVAL` and the opening of a POSIX semaphore may take units away or bring one: `binarySemaphores.c` sets its
  semaphore while nobody else is there (`SettingUp`); the second run of `sem_wait_post.c` opens the first semaphore
  anew, if it was unlinked, when nobody who can still act holds a token (`Fresh`). And processes with a signal pending stay
  where they are until they take it, so a token in their hands is lost but not doubled: `Active` are the
  others. `TwiceInv` says where the two runs are: not begun, in the first (`WaitPostInv` of its two processes), or
  after it, interrupted or not (`Again`).

## 7 Model-checked only, or left out

Every invariant, action property and refinement of the relay, the exchange, the FIFO chat, the web server, the
benchmark and the echo is proved. With TLC stay:

- liveness under fairness (`LineArrives`, `ClientEnds`, `ServerEnds`, `RelayProgress`, `ZombiesReaped`, `Finishes`,
  `TextEchoed`, `HandlersEnd`, `EndsUnless`), which is out of the prover's reach;
- the other properties of the small programs (`SignalsKept`, `TreesComplete`, `AnswersMatch`,
  `QueuesServed`, `MemoryRead`, `OwnEcho`, `LossNotHidden`). Each is a conjunction over up to twelve programs, and each
  program would need an invariant of its own as those of TakesTurns and SemaphoresCount are. TLC covers all of what they say that
  the bound on the rounds does not cut off, since the scripts and the objects are given;
- the operators of DnsClient, which are recursive.

Not in the models:

- start-up failures (socket, bind, msgget, mkfifo, ...) that end a process before it has any state, except
  where a program goes on after one (ShmExchange; a client of FifoChat without the server's FIFO);
- relay: a client's process ended by a signal, lines longer than the array (`gets` knows no limit), and what is
  printed behind an array without a NUL;
- FIFO chat: a typed pid that is negative (a process group), pids given to other processes after a client
  has gone, a FIFO left by an earlier server, the descriptors the server never closes;
- the HTTP exchange inside a child of the web server;
- benchmark: packets that TCP cuts in two (`read` and `write` are taken to move one whole, as in the code); the six measurements in sequence and their averages; the value read behind `sockfd`, after
  which the child ends in any case; N = 0, which divides by zero;
- TCP: the moment in which parent and child both hold the accepted connection (accept, fork and the parent's
  `close` are one step, so it is the child's half of closing that `HandlersEnd` checks), connections lost by the network, buffers smaller than a text (a `send` never blocks: texts have at
  most 99 bytes), and `echoString` before the first text, which fresh memory leaves empty;
- small programs: time (a sleep is a step, an alarm rings whenever it likes), failures of calls but for
  exec, open, read and write of the file in `passfd.c`, and calls on what another process has removed; semaphore values
  beyond 32767; `mode` bits that `pshm_*.c` leave uninitialised;
- DNS: `resolv.conf`, names and answers longer than the client's arrays (20 labels, 63 characters, five
  addresses), answers that are no DNS messages: what the overflow does is undefined;
- programs without a state that two steps could disagree about: `environ.c`, `execl.c`, `inf.c`, `orphan.c`,
  `semget.c`, `shmget.c` of Lab6, `psem_create.c`, `shared_memory.c`, `pmsg_create.c`, `mkfifo.c`, `msgget.c`, `msggetwithkey.c`,
  `msgqconf.c`, `msgqstats.c`, `byteorder.c`, `bytemanipulate.c`, `gethostbyname.c`, and Lab7;
- `jump.c`, whose longjmp goes to a frame that is still there; `fpe.c` and `sigsegv.c`, which are undefined from
  their first statement on.

## 8 Plan

All components are modelled as far as section 7 says. What could still be proved:

1. More programs of the labs, starting with those whose invariant is short (`MemoryRead`), as theorems
   for any number of rounds, with the lemmas for single calls that UnixCalls_proofs has.
2. The parts of the liveness arguments that are invariants: that a step which the fairness promises stays
   enabled until it is taken.
