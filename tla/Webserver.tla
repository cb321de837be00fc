------------------------------ MODULE Webserver ------------------------------
(***************************************************************************)
(* The children of TCP Webserver/webserver.c.  main forks a child for each *)
(* connection and then writes its pid into childPIDs; the SIGCHLD handler, *)
(* which interrupts main anywhere, polls every pid of the table with       *)
(* waitpid(WNOHANG).  A SIGCHLD that arrives while one is pending is lost; *)
(* during the handler SIGCHLD is blocked, and accept is restarted after it *)
(* (the semantics of signal() in glibc).                                   *)
(***************************************************************************)
EXTENDS Integers, FiniteSets

CONSTANTS
    Pids,        \* the process ids the kernel can give; one is reused once reaped
    NoPid,       \* the -1 of an empty slot
    MAXCHILDS,   \* slots of childPIDs (100 in the code)
    MaxForks     \* bound: connections accepted in a behaviour

ASSUME NoPidAssumption == NoPid \notin Pids
ASSUME SlotsAssumption == MAXCHILDS \in Nat \ {0}
ASSUME MaxForksAssumption == MaxForks \in Nat

VARIABLES
    pc,          \* where main is: "accept", "record" (after fork) or "exited"
    pid,         \* main's pid: the child forked last
    childPIDs,   \* the table
    ind,         \* the slot main writes next
    i,           \* the slot the handler looks at; MAXCHILDS when it is not running
    sigchld,     \* SIGCHLD is pending
    child,       \* what each process id is to the server
    forks        \* connections accepted so far

vars == <<pc, pid, childPIDs, ind, i, sigchld, child, forks>>

Slots == 0..(MAXCHILDS - 1)
MainRuns == i = MAXCHILDS

-----------------------------------------------------------------------------

Init ==
    /\ pc = "accept"
    /\ pid = NoPid
    /\ childPIDs = [k \in Slots |-> NoPid]
    /\ ind = 0
    /\ i = MAXCHILDS
    /\ sigchld = FALSE
    /\ child = [p \in Pids |-> "none"]
    /\ forks = 0

\* accept returns and fork gives the child process id p.
AcceptFork(p) ==
    /\ pc = "accept" /\ MainRuns
    /\ forks < MaxForks
    /\ child[p] = "none"
    /\ child' = [child EXCEPT ![p] = "running"]
    /\ pid' = p
    /\ pc' = "record"
    /\ forks' = forks + 1
    /\ UNCHANGED <<childPIDs, ind, i, sigchld>>

\* accept returns but no process id is free: fork fails and the server exits.
ForkFail ==
    /\ pc = "accept" /\ MainRuns
    /\ forks < MaxForks
    /\ \A p \in Pids : child[p] # "none"
    /\ pc' = "exited"
    /\ UNCHANGED <<pid, childPIDs, ind, i, sigchld, child, forks>>

\* childPIDs[ind++] = pid
Record ==
    /\ pc = "record" /\ MainRuns
    /\ ind < MAXCHILDS
    /\ childPIDs' = [childPIDs EXCEPT ![ind] = pid]
    /\ ind' = ind + 1
    /\ pc' = "accept"
    /\ UNCHANGED <<pid, i, sigchld, child, forks>>

\* The same past the end of the table: no slot takes the pid, and what the
\* write hits depends on the build; gcc -O0 puts ind itself there, so that the
\* next write lands anywhere and the server may die.
RecordPastEnd ==
    /\ pc = "record" /\ MainRuns
    /\ ind >= MAXCHILDS
    /\ ind' = ind + 1
    /\ pc' \in {"accept", "exited"}
    /\ UNCHANGED <<pid, childPIDs, i, sigchld, child, forks>>

\* A child has answered its client and exits.
ChildExit(p) ==
    /\ pc # "exited"
    /\ child[p] = "running"
    /\ child' = [child EXCEPT ![p] = "zombie"]
    /\ sigchld' = TRUE
    /\ UNCHANGED <<pc, pid, childPIDs, ind, i, forks>>

\* Mutant: the loop of the handler starts at 1.
HandlerStart_FromOne ==
    /\ pc # "exited" /\ MainRuns
    /\ sigchld
    /\ sigchld' = FALSE
    /\ i' = 1
    /\ UNCHANGED <<pc, pid, childPIDs, ind, child, forks>>

\* The pending SIGCHLD interrupts main.
HandlerStart ==
    /\ pc # "exited" /\ MainRuns
    /\ sigchld
    /\ sigchld' = FALSE
    /\ i' = 0
    /\ UNCHANGED <<pc, pid, childPIDs, ind, child, forks>>

\* Mutant: a slot is cleared to 0 instead of -1.
HandlerScan_ClearsToZero ==
    /\ pc # "exited"
    /\ i < MAXCHILDS
    /\ child' = [p \in Pids |->
                   IF p = childPIDs[i] /\ child[p] = "zombie" THEN "none" ELSE child[p]]
    /\ childPIDs' = [childPIDs EXCEPT ![i] = 0]
    /\ i' = i + 1
    /\ UNCHANGED <<pc, pid, ind, sigchld, forks>>

\* Mutant: the handler returns as soon as it has reaped a child.
HandlerScan_ReapsOne ==
    /\ pc # "exited"
    /\ i < MAXCHILDS
    /\ child' = [p \in Pids |->
                   IF p = childPIDs[i] /\ child[p] = "zombie" THEN "none" ELSE child[p]]
    /\ i' = IF child' = child THEN i + 1 ELSE MAXCHILDS
    /\ UNCHANGED <<pc, pid, childPIDs, ind, sigchld, forks>>

\* One turn of the handler's loop.  A pid that is not a zombie child leaves
\* status at -1.  The slot is not cleared: childPIDs[-1] is assigned instead,
\* which is padding in the data segment of every build looked at.
HandlerScan ==
    /\ pc # "exited"
    /\ i < MAXCHILDS
    /\ child' = [p \in Pids |->
                   IF p = childPIDs[i] /\ child[p] = "zombie" THEN "none" ELSE child[p]]
    /\ i' = i + 1
    /\ UNCHANGED <<pc, pid, childPIDs, ind, sigchld, forks>>

Next ==
    \/ \E p \in Pids : AcceptFork(p) \/ ChildExit(p)
    \/ ForkFail
    \/ Record
    \/ RecordPastEnd
    \/ HandlerStart
    \/ HandlerScan

\* The server runs; clients need not come, and a child waits for its client.
Fairness == WF_vars(Record \/ RecordPastEnd) /\ WF_vars(HandlerStart) /\ WF_vars(HandlerScan)

Spec == Init /\ [][Next]_vars
FairSpec == Spec /\ Fairness

-----------------------------------------------------------------------------
\* Properties

\* Types of the variables.
TypeOK ==
    /\ pc \in {"accept", "record", "exited"}
    /\ pid \in Pids \cup {NoPid}
    /\ childPIDs \in [Slots -> Pids \cup {NoPid}]
    /\ ind \in Nat
    /\ i \in 0..MAXCHILDS
    /\ sigchld \in BOOLEAN
    /\ child \in [Pids -> {"none", "running", "zombie"}]
    /\ forks \in Nat

Zombie(p) == child[p] = "zombie"

\* A child may exit before its pid is in the table, and signals may be lost.
\* Still, while the table has room, at most one child is left a zombie when
\* the handler has run and no SIGCHLD is pending: a scan misses the child
\* being recorded only, and finds the one missed before it.
AtMostOneMissed ==
    (ind <= MAXCHILDS /\ MainRuns /\ ~sigchld) =>
        \A p, q \in Pids : Zombie(p) /\ Zombie(q) => p = q

\* Of two zombies one is reaped, without any further child exiting.
ZombiesReaped ==
    \A p, q \in Pids :
        (p # q /\ Zombie(p) /\ Zombie(q))
            ~> (~Zombie(p) \/ ~Zombie(q) \/ ind > MAXCHILDS \/ pc = "exited")

Slotted(p) == (\E k \in Slots : childPIDs[k] = p) \/ (pc = "record" /\ pid = p)

\* The table has room for MAXCHILDS children: as long as no more than that
\* many are alive or unreaped, each has its slot.
RoomForMaximum ==
    (pc # "exited" /\ Cardinality({p \in Pids : child[p] # "none"}) <= MAXCHILDS) =>
        \A p \in Pids : child[p] # "none" => Slotted(p)

=============================================================================
