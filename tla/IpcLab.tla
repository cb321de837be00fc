-------------------------------- MODULE IpcLab ------------------------------
(***************************************************************************)
(* The semaphore, message queue and shared memory programs of              *)
(* Lab4_mmap_sema_shm, Lab6_mmap_shm_tcp and Lab3_pipe_msgq_fifo.          *)
(***************************************************************************)
EXTENDS UnixCalls

-----------------------------------------------------------------------------
(* System V semaphores                                                     *)

\* A mutant: does not wait for an empty shelf.
Producer_Piles == <<SemOpen("a", 0)>> \o Times(Rounds, <<SemOp("a", 1), Puts("added")>>)
\* producer.c waits for an empty shelf and puts one object there; both loops
\* of the programs are endless.
Producer == <<SemOpen("a", 0)>> \o Times(Rounds, <<SemRaise("a", 1), Puts("added")>>)
Consumer == <<SemOpen("a", 0)>> \o Times(2 * Rounds, <<SemOp("a", -1), Puts("got"), Sleep>>)

\* semopPC.c: the parent only releases and the child only acquires.
SemopChild == Times(Rounds, <<SemOp("a", -1), Puts("acquired"), Sleep>>)
SemopPC ==
    <<SemOpen("a", 0), SetVal("a", 0), Fork(SemopChild)>>
    \o Times(Rounds, <<Sleep, Puts("releasing"), SemOp("a", 1)>>)

\* seminit.c: sema waits for the semaphore it has just set to become zero.
Sema(v) == <<SemOpen("a", 0), GetVal("a"), SetVal("a", v), SemOp("a", 0)>>

\* binarySemaphores.c, used by two processes around a section each
InitSemAvailable == SetVal("b", 1)
ReserveSem == SemOp("b", -1)
ReleaseSem == SemOp("b", 1)
\* A mutant: releases before the end of the section.
Guarded_ReleasesEarly == <<ReserveSem, Puts("in"), ReleaseSem, Puts("out")>>
Guarded == <<ReserveSem, Puts("in"), Puts("out"), ReleaseSem>>
Sections == <<SemOpen("b", 0), InitSemAvailable, Fork(Guarded \o Guarded)>> \o Guarded \o Guarded

\* sem_wait_post.c: POSIX semaphores, and a shell that may interrupt the
\* processes of a first run before it starts a second one
Unlinked == <<SemUnlink("a"), SemUnlink("b")>>
WaitPostChild == Times(Rounds, <<SemOp("b", -1), Puts("child"), SemOp("a", 1)>>) \o Unlinked
\* A mutant: both semaphores are available at first.
WaitPost_BothAvailable ==
    <<SemOpen("a", 1), SemOpen("b", 1), Fork(WaitPostChild)>>
    \o Times(Rounds, <<SemOp("a", -1), Puts("parent"), SemOp("b", 1)>>)
    \o <<Wait>> \o Unlinked
WaitPost ==
    <<SemOpen("a", 1), SemOpen("b", 0), Fork(WaitPostChild)>>
    \o Times(Rounds, <<SemOp("a", -1), Puts("parent"), SemOp("b", 1)>>)
    \o <<Wait>> \o Unlinked
RunTwice ==
    <<Fork(WaitPost), Either(<<Kill({2, 3}, "INT")>>, <<>>), Wait, Fork(WaitPost), Wait>>

-----------------------------------------------------------------------------
(* Message queues                                                          *)

\* A mutant: reads first and registers then.
MqNotify_ReadsFirst ==
    <<Get("a"), Mask({"USR1"}), Signal("USR1", <<>>), Notify("a"),
      Loop(<<Suspend, Loop(<<TryTake("a"), If(<<>>, <<Break>>, <<Tell>>)>>),
             Notify("a")>>)>>
\* mq_notify.c: registers, and after each signal registers again and reads
\* until the queue is empty.
MqNotify ==
    <<Get("a"), Mask({"USR1"}), Signal("USR1", <<>>), Notify("a"),
      Loop(<<Suspend, Notify("a"),
             Loop(<<TryTake("a"), If(<<>>, <<Break>>, <<Tell>>)>>)>>)>>

\* pmsg_send.c and pmsg_receive.c: a user types two lines and exit.
Lines == <<"one", "two">>
PmsgSend == <<Get("a"), Put("a", Lines[1]), Put("a", Lines[2]), Put("a", "exit")>>
\* A mutant: opens the queue without waiting.
PmsgReceive_NoWait == <<Get("a"), Loop(<<TryTake("a"), If(<<"exit">>, <<Break>>, <<Tell>>)>>)>>
PmsgReceive == <<Get("a"), Loop(<<Take("a"), If(<<"exit">>, <<Break>>, <<Tell>>)>>)>>

\* msgq_server.c and msgq_client.c: at the end of its input the client removes
\* the queue.
MsgqServer == <<Get("b"), Loop(<<Take("b"), If(<<>>, <<Exit("1")>>, <<Tell>>)>>)>>
MsgqClient == <<Get("b"), Put("b", Lines[1]), Put("b", Lines[2]), RemoveQueue("b")>>

-----------------------------------------------------------------------------
(* Shared memory and mapped files of two cells                             *)

\* pshm_write.c: the object gets its size before its contents.
PshmWrite == <<Resize("m", 2), Store("m", 0, 1), Store("m", 1, 2)>>

\* A mutant: prints the text in the memory without asking for the size.
PshmRead_AsMapped == <<Load("m", 0), Tell, Load("m", 1), Tell>>
\* pshm_read.c writes as many bytes as the object has when it looks.
PshmRead == <<Size("m"), If(<<0>>, <<>>, <<Load("m", 0), Tell, Load("m", 1), Tell>>)>>

\* shmget.c: gets and printf on the segment
Shmget == <<Resize("m", 2), Store("m", 0, 1), Load("m", 0), Tell>>

\* shmgetC.c: child and parent print the text in the segment and write their
\* own; the parent waits for the child.
Text(v) == <<Load("m", 0), Tell, Load("m", 1), Tell, Store("m", 0, v), Store("m", 1, v)>>
\* A mutant: the parent does not wait.
ShmgetC_NoWait ==
    <<Resize("m", 2), Fork(Times(Rounds, Text(1)) \o <<Exit("0")>>)>> \o Times(Rounds, Text(2))
ShmgetC ==
    <<Resize("m", 2), Fork(Times(Rounds, Text(1)) \o <<Exit("0")>>), Wait>>
    \o Times(Rounds, Text(2))

\* shmgetC.c of Lab6 compares an unset pid with the result of fork: parent and
\* child go the way of the child at the same time, except for a lucky value.
ShmgetBoth ==
    LET loop == Times(Rounds, Text(1)) \o <<Exit("0")>>
    IN  <<Resize("m", 2), Fork(<<Either(loop, <<>>)>>), Either(loop, Times(Rounds, Text(2)))>>

\* write.c and read.c, with the first index of Lab4 and the first of Lab6,
\* which reaches one behind the end of the file
MapWrite(first) ==
    <<Resize("m", 0), Resize("m", 2), Store("m", first, 2 * first),
      Store("m", first + 1, 2 * (first + 1))>>
MapRead(first) == <<Load("m", first), Tell, Load("m", first + 1), Tell>>

-----------------------------------------------------------------------------
IpcScripts ==
    [shelf    |-> <<Producer, Consumer, Producer>>,
     semop    |-> <<SemopPC, SemopPC>>,
     seminit  |-> <<Sema(1), <<SemOpen("a", 0), SemOp("a", -1)>>>>,
     sections |-> <<Sections>>,
     waitpost |-> <<WaitPost>>,
     runtwice |-> <<RunTwice>>,
     notify   |-> <<MqNotify, PmsgSend>>,
     pmsg     |-> <<PmsgReceive, PmsgSend>>,
     msgq     |-> <<MsgqServer, MsgqClient>>,
     pshm     |-> <<PshmWrite, PshmRead>>,
     shmget   |-> <<Shmget>>,
     shmgetC  |-> <<ShmgetC>>,
     shmboth  |-> <<ShmgetBoth>>,
     mmap4    |-> <<<<Fork(MapWrite(0)), Wait>> \o MapRead(0)>>,
     mmap6    |-> <<<<Fork(MapWrite(1)), Wait>> \o MapRead(1)>>,
     mmaprace |-> <<MapRead(0), MapWrite(0)>>]

\* The scripts of these programs, wherever they are among those that run, and
\* what they need
ASSUME IpcAssumption ==
    /\ \A prog \in DOMAIN IpcScripts \cap DOMAIN Scripts : Scripts[prog] = IpcScripts[prog]
    /\ {"a", "b", "m"} \subseteq Objects
    /\ 1..5 \subseteq Pids

Said(v) == UNION {{p} \X {i \in DOMAIN out[p] : out[p][i] = v} : p \in Pids}
About(v) == {p \in Pids : At(p, "puts") /\ Now(p).val = v}

\* The semaphore is the number of objects on the shelf: never more than one,
\* and each was added and not got yet, whoever adds, gets and prints in what
\* order (producer.c:34-57, consumer.c:37-44).  The child of semopPC.c never
\* acquires what no parent has released (semopPC.c:31-106).
ObjectsAccounted ==
    LET count(v) == Cardinality(Said(v)) + Cardinality(About(v)) IN
    /\ program = "shelf" /\ sem["a"] # NoSem =>
           sem["a"] <= 1 /\ sem["a"] = count("added") - count("got")
    /\ program = "semop" => count("acquired") <= count("releasing")

\* Between reserving and releasing a binary semaphore a process is alone
\* (binarySemaphores.c:25-46).
Alone ==
    program = "sections" =>
        Cardinality(About("in") \cup About("out")
                    \cup {p \in Pids : At(p, "semop") /\ Now(p) = ReleaseSem}) <= 1

\* There is one token at most in the two semaphores and in the hands of the
\* processes between them, also in a run that finds the semaphores which an
\* interrupted run has left (sem_wait_post.c:24-55).
TokenUnique ==
    program \in {"waitpost", "runtwice"} =>
        LET held == {p \in Pids : \/ At(p, "puts")
                                  \/ At(p, "semop") /\ Now(p).by = 1}
            tokens(s) == IF sem[s] = NoSem THEN 0 ELSE sem[s]
        IN  tokens("a") + tokens("b") + Cardinality(held) <= 1

\* The notifier does not wait for a signal that will not come while messages
\* wait for it, unless there were messages before it registered first
\* (mq_notify.c:71-87).
NotifierAwake ==
    program = "notify" /\ At(1, "suspend") /\ chan["a"] # <<>> /\ proc[1].pending = {}
        => out[1] = <<>>

\* Queues lose and reorder nothing but what msgq_client.c removes with its
\* queue, and a receiver that ends on exit has shown all before it.
LinesKept ==
    /\ program \in {"notify", "pmsg", "msgq"} =>
           LET all == <<<<"one">>, <<"two">>, <<"exit">>>>
           IN  out[1] = SubSeq(all, 1, Len(out[1]))
    /\ program = "pmsg" /\ proc[1].st = "gone" => Len(out[1]) = 2

\* A reader of shared memory sees what the writer has put at that index, or
\* what was there before.  After the end of the writer it sees all of it, up
\* to the end of the file; and the parent of shmgetC.c sees whole texts
\* (pshm_read.c:42-43, read.c:33-35, shmgetC.c:30-44).
ReadsWritten ==
    LET seen(p, i) == out[p][i][1] IN
    /\ program = "pshm" => \A i \in DOMAIN out[2] : seen(2, i) \in {0, i}
    /\ program = "mmaprace" => \A i \in DOMAIN out[1] : seen(1, i) \in {0, 2 * (i - 1)}
    /\ program = "mmap4" => \A i \in DOMAIN out[1] : seen(1, i) = 2 * (i - 1)
    /\ program = "mmap6" => \A i \in DOMAIN out[1] : i = 1 => seen(1, i) = 2
    /\ program = "shmgetC" => \A i \in DOMAIN out[1] :
           i % 2 = 0 => seen(1, i) = seen(1, i - 1) /\ seen(1, i) # 0

\* No reader runs into the end of the shared memory, since it asks for the
\* size after the object was opened (pshm_read.c:29-43).
NoFault ==
    program \in {"pshm", "shmget", "shmgetC", "shmboth", "mmap4", "mmap6"} =>
        \A p \in Pids : proc[p].st \in {"zombie", "gone"} => proc[p].reg # <<>>

\* A semaphore counts what it stands for: objects, the right to be inside, a turn
\* (producer.c, semopPC.c, binarySemaphores.c, sem_wait_post.c).
SemaphoresCount == ObjectsAccounted /\ Alone /\ TokenUnique

\* What is in a queue is read, in its order, by a reader that is told of it
\* (mq_notify.c, pmsg_receive.c, msgq_server.c).
QueuesServed == NotifierAwake /\ LinesKept

\* Readers of shared memory and mapped files see what was written, and fall over
\* no end (pshm_read.c, read.c, shmgetC.c).
MemoryRead == ReadsWritten /\ NoFault

\* The programs that stop for good before they are over: two runs of semopPC.c,
\* the second of which takes away what the first has released; seminit.c, when
\* nobody else takes what it has set; a second run of sem_wait_post.c after the
\* first was interrupted with the token; the notifier, which never ends, and its
\* sender, when messages from before the first registration fill the queue; and
\* msgq_server.c, when the client had removed the queue before.
StuckIpc ==
    \/ program = "semop" /\ sem["a"] = 0 /\ \E p \in Pids : At(p, "semop") /\ Now(p).by = -1
    \/ program = "seminit" /\ sem["a"] = 1 /\ At(1, "semop")
    \/ program = "runtwice" /\ sem["a"] = 0 /\ sem["b"] = 0 /\ At(1, "wait")
    \/ /\ program = "notify" /\ At(1, "suspend")
       /\ At(2, "put") => out[1] = <<>>
    \/ program = "msgq" /\ At(1, "take") /\ out[1] = <<>> /\ proc[2].st = "gone"

=============================================================================
