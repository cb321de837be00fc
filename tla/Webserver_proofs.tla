--------------------------- MODULE Webserver_proofs ---------------------------
(***************************************************************************)
(* Type correctness and AtMostOneMissed of Webserver, for every set of     *)
(* process ids, every size of the table and any number of connections.     *)
(***************************************************************************)
EXTENDS Webserver, TLAPS

\* p is recorded in slot n or a later one, or it is the child main is about to
\* record.
From(p, n) == \E k \in Slots : k >= n /\ childPIDs[k] = p
Recording(p) == pc = "record" /\ pid = p

\* While the table has room every child is in it, or is being recorded.
Complete ==
    ind <= MAXCHILDS =>
        \A p \in Pids : child[p] # "none" =>
            Recording(p) \/ \E k \in Slots : k < ind /\ childPIDs[k] = p

\* A zombie the running handler has no signal for is in a slot ahead of it.
Ahead ==
    (ind <= MAXCHILDS /\ ~sigchld /\ i < MAXCHILDS) =>
        \A p \in Pids : Zombie(p) => Recording(p) \/ From(p, i)

IInv == TypeOK /\ Complete /\ Ahead /\ AtMostOneMissed

LEMMA InitIInv == Init => IInv
<1> SUFFICES ASSUME Init PROVE IInv
  OBVIOUS
<1> USE SlotsAssumption DEF Init
<1>1. TypeOK
  <2>1. sigchld \in BOOLEAN
    OBVIOUS
  <2>2. i \in 0..MAXCHILDS /\ ind \in Nat /\ forks \in Nat
    OBVIOUS
  <2> QED
    BY <2>1, <2>2 DEF TypeOK
<1>2. Complete /\ Ahead /\ AtMostOneMissed
  BY DEF Complete, Ahead, AtMostOneMissed, Zombie
<1> QED
  BY <1>1, <1>2 DEF IInv

LEMMA StepType == TypeOK /\ [Next]_vars => TypeOK'
<1> SUFFICES ASSUME TypeOK, [Next]_vars PROVE TypeOK'
  OBVIOUS
<1> USE SlotsAssumption DEF TypeOK, Slots, MainRuns
<1>1. ASSUME NEW p \in Pids, AcceptFork(p) PROVE TypeOK'
  BY <1>1, MaxForksAssumption DEF AcceptFork
<1>2. CASE ForkFail
  BY <1>2 DEF ForkFail
<1>3. CASE Record
  BY <1>3 DEF Record
<1>4. CASE RecordPastEnd
  BY <1>4 DEF RecordPastEnd
<1>5. ASSUME NEW p \in Pids, ChildExit(p) PROVE TypeOK'
  BY <1>5 DEF ChildExit
<1>6. CASE HandlerStart
  <2>1. sigchld' \in BOOLEAN
    BY <1>6 DEF HandlerStart
  <2>2. i' \in 0..MAXCHILDS
    BY <1>6 DEF HandlerStart
  <2> QED
    BY <1>6, <2>1, <2>2 DEF HandlerStart
<1>7. CASE HandlerScan
  <2>1. child' \in [Pids -> {"none", "running", "zombie"}]
    BY <1>7 DEF HandlerScan
  <2>2. i' \in 0..MAXCHILDS
    BY <1>7 DEF HandlerScan
  <2> QED
    BY <1>7, <2>1, <2>2 DEF HandlerScan
<1>8. CASE UNCHANGED vars
  BY <1>8 DEF vars
<1> QED
  BY <1>1, <1>2, <1>3, <1>4, <1>5, <1>6, <1>7, <1>8 DEF Next

\* main and the children keep the table complete; the handler only takes
\* zombies away.
LEMMA StepComplete == TypeOK /\ Complete /\ [Next]_vars => Complete'
<1> SUFFICES ASSUME TypeOK, Complete, [Next]_vars, ind' <= MAXCHILDS, NEW p \in Pids,
                    child'[p] # "none"
             PROVE  Recording(p)' \/ \E k \in Slots : k < ind' /\ childPIDs'[k] = p
  BY DEF Complete
<1> DEFINE Old(k) == k \in Slots /\ k < ind /\ childPIDs[k] = p
           New(k) == k \in Slots /\ k < ind' /\ childPIDs'[k] = p
<1>a. ind \in Nat /\ (ind <= MAXCHILDS => (child[p] = "none" \/ Recording(p) \/ \E k : Old(k)))
  BY DEF TypeOK, Complete
<1> USE SlotsAssumption
<1>1. ASSUME NEW q \in Pids, AcceptFork(q) PROVE Recording(p)' \/ \E k : New(k)
  BY <1>1, <1>a DEF AcceptFork, Recording, TypeOK
<1>2. CASE ForkFail
  BY <1>2, <1>a DEF ForkFail, Recording
<1>3. ASSUME Record PROVE \E k : New(k)
  <2>1. ind \in Slots /\ childPIDs'[ind] = pid /\ ind' = ind + 1
    BY <1>3, <1>a DEF Record, TypeOK, Slots
  <2>2. CASE Recording(p)
    BY <2>1, <2>2, <1>a DEF Recording
  <2>3. ASSUME NEW k, Old(k) PROVE New(k)
    BY <2>1, <2>3, <1>3, <1>a DEF Record, TypeOK, Slots
  <2>4. child[p] # "none" /\ ind <= MAXCHILDS
    BY <1>3, <1>a DEF Record
  <2> QED
    BY <2>2, <2>3, <2>4, <1>a
<1>4. ASSUME RecordPastEnd PROVE FALSE
  BY <1>4, <1>a DEF RecordPastEnd
<1>5. ASSUME NEW q \in Pids, ChildExit(q) PROVE Recording(p)' \/ \E k : New(k)
  BY <1>5, <1>a DEF ChildExit, Recording, TypeOK
<1>6. CASE HandlerStart
  BY <1>6, <1>a DEF HandlerStart, Recording
<1>7. CASE HandlerScan
  BY <1>7, <1>a DEF HandlerScan, Recording
<1>8. CASE UNCHANGED vars
  BY <1>8, <1>a DEF vars, Recording
<1> QED
  BY <1>1, <1>2, <1>3, <1>4, <1>5, <1>6, <1>7, <1>8 DEF Next

\* The scan: when the handler starts every slot is ahead of it; a slot it
\* passes holds no zombie any more.
LEMMA StepAhead == TypeOK /\ Complete /\ Ahead /\ [Next]_vars => Ahead'
<1> SUFFICES ASSUME TypeOK, Complete, Ahead, [Next]_vars,
                    ind' <= MAXCHILDS, ~sigchld', i' < MAXCHILDS, NEW p \in Pids, Zombie(p)'
             PROVE  (Recording(p) \/ From(p, i))'
  BY DEF Ahead
<1> USE SlotsAssumption
<1>1. ASSUME NEW q \in Pids, AcceptFork(q) PROVE FALSE
  BY <1>1 DEF AcceptFork, MainRuns
<1>2. ASSUME ForkFail \/ Record \/ RecordPastEnd PROVE FALSE
  BY <1>2 DEF ForkFail, Record, RecordPastEnd, MainRuns
<1>3. ASSUME NEW q \in Pids, ChildExit(q) PROVE FALSE
  BY <1>3 DEF ChildExit
<1>4. CASE HandlerStart
  <2>1. child[p] # "none" /\ ind <= MAXCHILDS /\ i' = 0
    BY <1>4 DEF HandlerStart, Zombie
  <2>2. Recording(p) \/ \E k \in Slots : k < ind /\ childPIDs[k] = p
    BY <2>1 DEF Complete
  <2> QED
    BY <1>4, <2>1, <2>2 DEF HandlerStart, Recording, From, Slots
<1>5. CASE HandlerScan
  <2>1. i < MAXCHILDS /\ ~sigchld /\ ind <= MAXCHILDS /\ i' = i + 1 /\ i \in Nat
    BY <1>5 DEF HandlerScan, TypeOK
  <2>2. Zombie(p) /\ p # childPIDs[i]
    BY <1>5 DEF HandlerScan, Zombie, TypeOK
  <2>3. Recording(p) \/ From(p, i)
    BY <2>1, <2>2 DEF Ahead
  <2>4. From(p, i) => From(p, i + 1)
    BY <2>1, <2>2 DEF From, Slots
  <2> QED
    BY <1>5, <2>1, <2>3, <2>4 DEF HandlerScan, Recording, From
<1>6. CASE UNCHANGED vars
  BY <1>6 DEF vars, Zombie, Recording, From, Ahead
<1> QED
  BY <1>1, <1>2, <1>3, <1>4, <1>5, <1>6 DEF Next

LEMMA StepMissed == TypeOK /\ Ahead /\ AtMostOneMissed /\ [Next]_vars => AtMostOneMissed'
<1> SUFFICES ASSUME TypeOK, Ahead, AtMostOneMissed, [Next]_vars,
                    ind' <= MAXCHILDS, i' = MAXCHILDS, ~sigchld',
                    NEW p \in Pids, NEW q \in Pids, Zombie(p)', Zombie(q)'
             PROVE  p = q
  BY DEF AtMostOneMissed, MainRuns
<1> USE SlotsAssumption
<1>1. ASSUME NEW r \in Pids, AcceptFork(r) PROVE p = q
  BY <1>1 DEF AcceptFork, AtMostOneMissed, Zombie, TypeOK
<1>2. CASE ForkFail
  BY <1>2 DEF ForkFail, AtMostOneMissed, Zombie
<1>3. CASE Record
  BY <1>3 DEF Record, AtMostOneMissed, Zombie, TypeOK
<1>4. ASSUME RecordPastEnd PROVE FALSE
  BY <1>4 DEF RecordPastEnd, TypeOK
<1>5. ASSUME NEW r \in Pids, ChildExit(r) PROVE FALSE
  BY <1>5 DEF ChildExit
<1>6. ASSUME HandlerStart PROVE FALSE
  BY <1>6 DEF HandlerStart
<1>7. CASE HandlerScan
  <2>1. ind <= MAXCHILDS /\ ~sigchld /\ i < MAXCHILDS /\ i = MAXCHILDS - 1
    BY <1>7 DEF HandlerScan, TypeOK
  <2>2. ASSUME NEW z \in Pids, Zombie(z)' PROVE pid = z
    <3>1. Zombie(z) /\ z # childPIDs[i]
      BY <1>7, <2>2 DEF HandlerScan, Zombie, TypeOK
    <3>2. Recording(z) \/ From(z, i)
      BY <2>1, <3>1 DEF Ahead
    <3>3. ~From(z, i)
      BY <2>1, <3>1 DEF From, Slots
    <3> QED
      BY <3>2, <3>3 DEF Recording
  <2> QED
    BY <2>2
<1>8. CASE UNCHANGED vars
  BY <1>8 DEF vars, AtMostOneMissed, Zombie, MainRuns
<1> QED
  BY <1>1, <1>2, <1>3, <1>4, <1>5, <1>6, <1>7, <1>8 DEF Next

LEMMA Invariance == Spec => []IInv
<1>1. IInv /\ [Next]_vars => IInv'
  BY StepType, StepComplete, StepAhead, StepMissed DEF IInv
<1> QED
  BY InitIInv, <1>1, PTL DEF Spec

\* Every variable keeps its type.
THEOREM TypeCorrect == Spec => []TypeOK
<1>1. IInv => TypeOK
  BY DEF IInv
<1> QED
  BY Invariance, <1>1, PTL

\* However fast children exit and however many SIGCHLDs merge, at most one
\* zombie is left over as long as the table has not overflowed.
THEOREM ReapingCorrect == Spec => []AtMostOneMissed
<1>1. IInv => AtMostOneMissed
  BY DEF IInv
<1> QED
  BY Invariance, <1>1, PTL

=============================================================================
