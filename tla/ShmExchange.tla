----------------------------- MODULE ShmExchange -----------------------------
(***************************************************************************)
(* The shared-memory exchange of sharedmemory/shmserver.c and shmclient.c: *)
(* a server creates a set of two semaphores and a segment, waits for one   *)
(* text from a client and removes both.  Semaphore 0 is raised while the   *)
(* segment is busy; semaphore 1 counts the texts written.  No return code  *)
(* is ever looked at.                                                      *)
(*                                                                         *)
(* A set or a segment is named after the server that created it; NoId is   *)
(* the -1 a failed semget or shmget returns.                               *)
(***************************************************************************)
EXTENDS Integers

CONSTANTS
    Servers, Clients,   \* the processes started, ever
    Killable,           \* those a user may kill
    NoId

ASSUME ProcsAssumption == Servers \cap Clients = {}
ASSUME KillableAssumption == Killable \subseteq Servers \cup Clients
ASSUME NoIdAssumption == NoId \notin Servers

VARIABLES
    semkey,    \* the semaphore set the key leads to, or NoId
    sem0,      \* semaphore 0 of each set
    sem1,      \* semaphore 1 of each set
    shmkey,    \* the segment the key leads to, or NoId
    text,      \* what each segment holds
    pc,        \* where each process is: the call it makes next
    semid,     \* each process's semid
    shmid,     \* the segment each process has attached, or NoId
    held,      \* whether the process has raised semaphore 0 and not lowered it
    printed    \* what each server has printed

vars == <<semkey, sem0, sem1, shmkey, text, pc, semid, shmid, held, printed>>

Procs == Servers \cup Clients
Ids == Servers \cup {NoId}

\* A call on a set that was never found, or that has been removed, fails at
\* once; so does one that was waiting when the set is removed (EIDRM).
Works(p) == semid[p] # NoId /\ semid[p] = semkey

Goto(p, label) == pc' = [pc EXCEPT ![p] = label]

-----------------------------------------------------------------------------

Init ==
    /\ semkey = NoId
    /\ sem0 = [s \in Servers |-> 0]
    /\ sem1 = [s \in Servers |-> 0]
    /\ shmkey = NoId
    /\ text = [s \in Servers |-> "empty"]
    /\ pc = [p \in Procs |-> "start"]
    /\ semid = [p \in Procs |-> NoId]
    /\ shmid = [p \in Procs |-> NoId]
    /\ held = [p \in Procs |-> FALSE]
    /\ printed = [s \in Servers |-> "nothing"]

\* semget(IPC_CREAT | IPC_EXCL): a new set, of zeroes, or -1 if one exists.
SemCreate(s) ==
    /\ pc[s] = "start"
    /\ Goto(s, "setall")
    /\ \/ /\ semkey = NoId
          /\ semkey' = s
          /\ semid' = [semid EXCEPT ![s] = s]
       \/ /\ semkey # NoId
          /\ UNCHANGED <<semkey, semid>>
    /\ UNCHANGED <<sem0, sem1, shmkey, text, shmid, held, printed>>

\* semctl(SETALL) to 0, 0, whatever clients have done to the set so far.
SetAll(s) ==
    /\ pc[s] = "setall"
    /\ Goto(s, "shmget")
    /\ \/ /\ Works(s)
          /\ sem0' = [sem0 EXCEPT ![semid[s]] = 0]
          /\ sem1' = [sem1 EXCEPT ![semid[s]] = 0]
       \/ ~Works(s) /\ UNCHANGED <<sem0, sem1>>
    /\ UNCHANGED <<semkey, shmkey, text, semid, shmid, held, printed>>

\* shmget(IPC_CREAT | IPC_EXCL) and shmat.
ShmCreate(s) ==
    /\ pc[s] = "shmget"
    /\ Goto(s, "take")
    /\ \/ /\ shmkey = NoId
          /\ shmkey' = s
          /\ shmid' = [shmid EXCEPT ![s] = s]
       \/ /\ shmkey # NoId
          /\ UNCHANGED <<shmkey, shmid>>
    /\ UNCHANGED <<semkey, sem0, sem1, text, semid, held, printed>>

\* Mutant: IPC_NOWAIT on semaphore 1, the failure ignored.
Take_NoWait(s) ==
    /\ pc[s] = "take"
    /\ Goto(s, "read")
    /\ \/ /\ Works(s)
          /\ sem1[semid[s]] >= 1
          /\ sem1' = [sem1 EXCEPT ![semid[s]] = @ - 1]
          /\ sem0' = [sem0 EXCEPT ![semid[s]] = @ + 1]
          /\ held' = [held EXCEPT ![s] = TRUE]
       \/ /\ Works(s) => sem1[semid[s]] = 0
          /\ UNCHANGED <<sem0, sem1, held>>
    /\ UNCHANGED <<semkey, shmkey, text, semid, shmid, printed>>

\* semop: wait for semaphore 1 and lower it, and raise semaphore 0, at once.
Take(s) ==
    /\ pc[s] = "take"
    /\ Goto(s, "read")
    /\ \/ /\ Works(s)
          /\ sem1[semid[s]] >= 1
          /\ sem1' = [sem1 EXCEPT ![semid[s]] = @ - 1]
          /\ sem0' = [sem0 EXCEPT ![semid[s]] = @ + 1]
          /\ held' = [held EXCEPT ![s] = TRUE]
       \/ ~Works(s) /\ UNCHANGED <<sem0, sem1, held>>
    /\ UNCHANGED <<semkey, shmkey, text, semid, shmid, printed>>

\* What a read of segment g may return: a text half copied only if a client is
\* copying, for all clients copy the same text.
Visible(g) ==
    IF text[g] # "hello" /\ \E c \in Clients : pc[c] = "write" /\ shmid[c] = g
    THEN {"empty", "partial", "hello"}
    ELSE {text[g]}

\* printf of the segment; shm_address is (void *) -1 if there is none.
Read(s) ==
    /\ pc[s] = "read"
    /\ \/ /\ shmid[s] = NoId
          /\ Goto(s, "dead")
          /\ UNCHANGED printed
       \/ /\ shmid[s] # NoId
          /\ \E t \in Visible(shmid[s]) : printed' = [printed EXCEPT ![s] = t]
          /\ Goto(s, "release")
    /\ UNCHANGED <<semkey, sem0, sem1, shmkey, text, semid, shmid, held>>

\* semop: lower semaphore 0; with IPC_NOWAIT it fails when that is 0.
Release(s) ==
    /\ pc[s] = "release"
    /\ Goto(s, "rmsem")
    /\ \/ /\ Works(s)
          /\ sem0[semid[s]] >= 1
          /\ sem0' = [sem0 EXCEPT ![semid[s]] = @ - 1]
          /\ held' = [held EXCEPT ![s] = FALSE]
       \/ /\ Works(s) => sem0[semid[s]] = 0
          /\ UNCHANGED <<sem0, held>>
    /\ UNCHANGED <<semkey, sem1, shmkey, text, semid, shmid, printed>>

\* semctl(IPC_RMID).
RemoveSem(s) ==
    /\ pc[s] = "rmsem"
    /\ Goto(s, "rmshm")
    /\ semkey' = IF Works(s) THEN NoId ELSE semkey
    /\ UNCHANGED <<sem0, sem1, shmkey, text, semid, shmid, held, printed>>

\* shmdt and shmctl(IPC_RMID); a segment lives on for those attached to it.
RemoveShm(s) ==
    /\ pc[s] = "rmshm"
    /\ Goto(s, "done")
    /\ shmkey' = IF shmid[s] = shmkey THEN NoId ELSE shmkey
    /\ UNCHANGED <<semkey, sem0, sem1, text, semid, shmid, held, printed>>

\* The client's semget, without IPC_CREAT.
SemFind(c) ==
    /\ pc[c] = "start"
    /\ Goto(c, "shmget")
    /\ semid' = [semid EXCEPT ![c] = semkey]
    /\ UNCHANGED <<semkey, sem0, sem1, shmkey, text, shmid, held, printed>>

\* The client's shmget and shmat.
ShmFind(c) ==
    /\ pc[c] = "shmget"
    /\ Goto(c, "enter")
    /\ shmid' = [shmid EXCEPT ![c] = shmkey]
    /\ UNCHANGED <<semkey, sem0, sem1, shmkey, text, semid, held, printed>>

\* Mutant: the first of the two operations, the wait, is missing.
Enter_NoWait(c) ==
    /\ pc[c] = "enter"
    /\ Goto(c, "write")
    /\ \/ /\ Works(c)
          /\ sem0' = [sem0 EXCEPT ![semid[c]] = @ + 1]
          /\ held' = [held EXCEPT ![c] = TRUE]
       \/ ~Works(c) /\ UNCHANGED <<sem0, held>>
    /\ UNCHANGED <<semkey, sem1, shmkey, text, semid, shmid, printed>>

\* semop: wait for semaphore 0 to be 0 and raise it, at once.
Enter(c) ==
    /\ pc[c] = "enter"
    /\ Goto(c, "write")
    /\ \/ /\ Works(c)
          /\ sem0[semid[c]] = 0
          /\ sem0' = [sem0 EXCEPT ![semid[c]] = @ + 1]
          /\ held' = [held EXCEPT ![c] = TRUE]
       \/ ~Works(c) /\ UNCHANGED <<sem0, held>>
    /\ UNCHANGED <<semkey, sem1, shmkey, text, semid, shmid, printed>>

\* strcpy; it is under way while pc[c] = "write".
Write(c) ==
    /\ pc[c] = "write"
    /\ \/ /\ shmid[c] = NoId
          /\ Goto(c, "dead")
          /\ UNCHANGED text
       \/ /\ shmid[c] # NoId
          /\ text' = [text EXCEPT ![shmid[c]] = "hello"]
          /\ Goto(c, "leave")
    /\ UNCHANGED <<semkey, sem0, sem1, shmkey, semid, shmid, held, printed>>

\* Mutant: semaphore 0 is lowered without waiting for it to be positive.
Leave_NoWait(c) ==
    /\ pc[c] = "leave"
    /\ Goto(c, "done")
    /\ \/ /\ Works(c)
          /\ sem0' = [sem0 EXCEPT ![semid[c]] = @ - 1]
          /\ sem1' = [sem1 EXCEPT ![semid[c]] = @ + 1]
          /\ held' = [held EXCEPT ![c] = FALSE]
       \/ ~Works(c) /\ UNCHANGED <<sem0, sem1, held>>
    /\ UNCHANGED <<semkey, shmkey, text, semid, shmid, printed>>

\* Mutant: one operation only, semaphore 1 is not raised.
Leave_NoSignal(c) ==
    /\ pc[c] = "leave"
    /\ Goto(c, "done")
    /\ \/ /\ Works(c)
          /\ sem0[semid[c]] >= 1
          /\ sem0' = [sem0 EXCEPT ![semid[c]] = @ - 1]
          /\ held' = [held EXCEPT ![c] = FALSE]
       \/ ~Works(c) /\ UNCHANGED <<sem0, held>>
    /\ UNCHANGED <<semkey, sem1, shmkey, text, semid, shmid, printed>>

\* Mutant: one operation only, semaphore 0 is not lowered.
Leave_KeepsBusy(c) ==
    /\ pc[c] = "leave"
    /\ Goto(c, "done")
    /\ \/ /\ Works(c)
          /\ sem1' = [sem1 EXCEPT ![semid[c]] = @ + 1]
          /\ held' = [held EXCEPT ![c] = FALSE]
       \/ ~Works(c) /\ UNCHANGED <<sem1, held>>
    /\ UNCHANGED <<semkey, sem0, shmkey, text, semid, shmid, printed>>

\* semop: wait until semaphore 0 can be lowered, and raise semaphore 1.
Leave(c) ==
    /\ pc[c] = "leave"
    /\ Goto(c, "done")
    /\ \/ /\ Works(c)
          /\ sem0[semid[c]] >= 1
          /\ sem0' = [sem0 EXCEPT ![semid[c]] = @ - 1]
          /\ sem1' = [sem1 EXCEPT ![semid[c]] = @ + 1]
          /\ held' = [held EXCEPT ![c] = FALSE]
       \/ ~Works(c) /\ UNCHANGED <<sem0, sem1, held>>
    /\ UNCHANGED <<semkey, shmkey, text, semid, shmid, printed>>

\* A process is killed; what it created or raised stays (no SEM_UNDO).
Kill(p) ==
    /\ p \in Killable
    /\ pc[p] \notin {"start", "done", "dead"}
    /\ Goto(p, "dead")
    /\ \/ UNCHANGED text
       \/ /\ p \in Clients /\ pc[p] = "write" /\ shmid[p] # NoId
          /\ text[shmid[p]] = "empty"
          /\ text' = [text EXCEPT ![shmid[p]] = "partial"]
    /\ UNCHANGED <<semkey, sem0, sem1, shmkey, semid, shmid, held, printed>>

ServerStep(s) ==
    \/ SetAll(s) \/ ShmCreate(s) \/ Take(s) \/ Read(s)
    \/ Release(s) \/ RemoveSem(s) \/ RemoveShm(s)

ClientStep(c) == ShmFind(c) \/ Enter(c) \/ Write(c) \/ Leave(c)

Next ==
    \/ \E s \in Servers : SemCreate(s) \/ ServerStep(s)
    \/ \E c \in Clients : SemFind(c) \/ ClientStep(c)
    \/ \E p \in Procs : Kill(p)

\* A process once started runs; nobody has to start or kill one.
Fairness ==
    /\ \A s \in Servers : WF_vars(ServerStep(s))
    /\ \A c \in Clients : WF_vars(ClientStep(c))

Spec == Init /\ [][Next]_vars
FairSpec == Spec /\ Fairness

-----------------------------------------------------------------------------
\* Properties

\* Types of the variables.
TypeOK ==
    /\ semkey \in Ids /\ shmkey \in Ids
    /\ sem0 \in [Servers -> Nat] /\ sem1 \in [Servers -> Nat]
    /\ text \in [Servers -> {"empty", "partial", "hello"}]
    /\ pc \in [Procs -> {"start", "setall", "shmget", "take", "read", "release",
                         "rmsem", "rmshm", "enter", "write", "leave", "done", "dead"}]
    /\ semid \in [Procs -> Ids] /\ shmid \in [Procs -> Ids]
    /\ held \in [Procs -> BOOLEAN]
    /\ printed \in [Servers -> {"nothing", "empty", "partial", "hello"}]

\* Client c writes in, or is about to leave, the segment of server s, after a
\* successful semop on the set of the same server.
Inside(c, s) ==
    /\ pc[c] \in {"write", "leave"} /\ held[c]
    /\ semid[c] = s /\ shmid[c] = s

\* Client c has the set of one server and the segment another one left behind.
Mismatched(c) == shmid[c] # NoId /\ semid[c] # NoId /\ shmid[c] # semid[c]

\* No client on the set of s has a left-over segment.
Clean(s) == \A c \in Clients : ~(Mismatched(c) /\ semid[c] = s)

\* Two clients that synchronise on the set of a server are never both in the
\* segment of that server, however the start and the end of the servers fall
\* between their calls (shmclient.c: the first semop).  Only a client with a
\* left-over segment can spoil it: SETALL may forget that it is inside, and it
\* then lowers the semaphore another one has raised.
WritersExclude ==
    \A s \in Servers : Clean(s) =>
        \A c, d \in Clients : Inside(c, s) /\ Inside(d, s) => c = d

\* The server reads while no client writes: raising semaphore 0 makes the
\* segment busy (shmserver.c, comment on the first semop).
ServerAlone ==
    \A s \in Servers, c \in Clients :
        pc[s] = "read" /\ held[s] => ~(pc[c] = "write" /\ Inside(c, s))

\* No other server has been started, ever.
Lone(s) == \A t \in Servers \ {s} : pc[t] = "start"

\* A lone server prints the whole text of a client and nothing else, though
\* clients may come before its segment exists, write at the same time as it
\* reads, or be killed half way.
ReadsMessage == \A s \in Servers : Lone(s) => printed[s] \in {"nothing", "hello"}

\* A client once started ends, by itself or on SIGSEGV, unless a process died
\* between raising and lowering semaphore 0 of its set, or some client on that
\* set has a left-over segment.
ClientEnds ==
    \A c \in Clients :
        pc[c] # "start"
            ~> \/ pc[c] \in {"done", "dead"}
               \/ \E p \in Procs : pc[p] = "dead" /\ held[p] /\ semid[p] = semid[c]
               \/ semid[c] # NoId /\ ~Clean(semid[c])

\* A lone server ends once one client has left its segment properly.
ServerEnds ==
    \A s \in Servers, c \in Clients :
        (Lone(s) /\ pc[c] = "done" /\ semid[c] = s /\ shmid[c] = s)
            ~> (pc[s] \in {"done", "dead"} \/ ~Lone(s))

=============================================================================
