-------------------------- MODULE ShmExchange_proofs --------------------------
(***************************************************************************)
(* Type correctness, WritersExclude and ReadsMessage of ShmExchange, for   *)
(* any number of servers and clients, any of which may be killed.          *)
(***************************************************************************)
EXTENDS ShmExchange, TLAPS

\* Server s is between its two semops, on its own set.
Reading(s) == pc[s] \in {"read", "release"} /\ held[s] /\ semid[s] = s

\* A server uses its own set or none, and one that is found or is under the
\* key has been created.
SetsOwned ==
    /\ \A s \in Servers : semid[s] \in {NoId, s}
    /\ \A p \in Procs : semid[p] # NoId => pc[semid[p]] # "start"
    /\ semkey # NoId => pc[semkey] # "start"
    /\ \A p \in Procs : pc[p] = "start" => semid[p] = NoId

\* A segment that is attached or under the key was created after SETALL.
SegmentsOwned ==
    /\ \A p \in Procs : shmid[p] # NoId => pc[shmid[p]] \notin {"start", "setall", "shmget"}
    /\ shmkey # NoId => pc[shmkey] \notin {"start", "setall", "shmget"}
    /\ \A c \in Clients : pc[c] \in {"start", "shmget"} => shmid[c] = NoId

\* Nobody has raised semaphore 0 before the first semop; while the set exists,
\* whoever is past it has, and so will lower its own unit only.
UnitsOwned ==
    \A p \in Procs :
        /\ pc[p] \in {"start", "setall", "shmget", "take", "enter"} => ~held[p]
        /\ pc[p] \in {"write", "leave", "read", "release"} /\ Works(p) => held[p]

\* A client about to leave has a segment.
LeaveAttached == \A c \in Clients : pc[c] = "leave" => shmid[c] # NoId

\* Semaphore 0 of a set covers the client inside and the server reading.
CoveredAt(s) ==
    /\ Reading(s) => sem0[s] >= 1
    /\ \A c \in Clients : Inside(c, s) =>
          /\ sem0[s] >= 1
          /\ Reading(s) => sem0[s] >= 2
          /\ \A d \in Clients : Inside(d, s) => c = d

Covered == \A s \in Servers : Clean(s) => CoveredAt(s)

\* Servers make the server's calls, clients the client's.
Labels ==
    /\ \A s \in Servers : pc[s] \notin {"enter", "write", "leave"}
    /\ \A c \in Clients : pc[c] \notin {"setall", "take", "read", "release", "rmsem", "rmshm"}

Bookkeeping == SetsOwned /\ SegmentsOwned /\ UnitsOwned /\ LeaveAttached /\ Labels
IInv == TypeOK /\ Bookkeeping /\ Covered

LEMMA InitIInv == Init => IInv
<1> SUFFICES ASSUME Init PROVE IInv
  OBVIOUS
<1> USE DEF Init
<1>1. TypeOK
  BY DEF TypeOK, Procs, Ids
<1>2. Bookkeeping
  BY NoIdAssumption DEF Bookkeeping, SetsOwned, SegmentsOwned, UnitsOwned, LeaveAttached,
     Labels, Works, Procs
<1>3. Covered
  BY DEF Covered, CoveredAt, Reading, Inside, Procs
<1> QED
  BY <1>1, <1>2, <1>3 DEF IInv

LEMMA StepType == TypeOK /\ [Next]_vars => TypeOK'
<1> SUFFICES ASSUME TypeOK, [Next]_vars PROVE TypeOK'
  OBVIOUS
<1> USE DEF TypeOK, Procs, Ids, Goto, Works
<1>0. \A p \in Procs : Works(p) => semid[p] \in Servers
  OBVIOUS
<1>1. ASSUME NEW s \in Servers, SemCreate(s) PROVE TypeOK'
  BY <1>1 DEF SemCreate
<1>2. ASSUME NEW s \in Servers, SetAll(s) PROVE TypeOK'
  <2>1. CASE Works(s)
    BY <2>1, <1>0, <1>2 DEF SetAll
  <2>2. CASE ~Works(s)
    BY <2>2, <1>2 DEF SetAll
  <2> QED
    BY <2>1, <2>2
<1>3. ASSUME NEW s \in Servers, ShmCreate(s) PROVE TypeOK'
  BY <1>3 DEF ShmCreate
<1>4. ASSUME NEW s \in Servers, Take(s) PROVE TypeOK'
  <2>1. CASE Works(s)
    <3>1. /\ semid[s] \in Servers
          /\ sem0[semid[s]] \in Nat /\ sem1[semid[s]] \in Nat
      BY <2>1, <1>0
    <3>2. sem0' \in [Servers -> Nat] /\ sem1' \in [Servers -> Nat]
      BY <2>1, <3>1, <1>4 DEF Take
    <3> QED
      BY <3>2, <1>4 DEF Take
  <2>2. CASE ~Works(s)
    BY <2>2, <1>4 DEF Take
  <2> QED
    BY <2>1, <2>2
<1>5. ASSUME NEW s \in Servers, Read(s) PROVE TypeOK'
  <2>1. \A g \in Servers : Visible(g) \subseteq {"empty", "partial", "hello"}
    BY DEF Visible
  <2>2. shmid[s] # NoId => shmid[s] \in Servers
    OBVIOUS
  <2> QED
    BY <1>5, <2>1, <2>2 DEF Read
<1>6. ASSUME NEW s \in Servers, Release(s) PROVE TypeOK'
  <2>1. CASE Works(s)
    <3>1. /\ semid[s] \in Servers
          /\ sem0[semid[s]] \in Nat /\ sem1[semid[s]] \in Nat
      BY <2>1, <1>0
    <3>2. sem0' \in [Servers -> Nat] /\ sem1' \in [Servers -> Nat]
      BY <2>1, <3>1, <1>6 DEF Release
    <3> QED
      BY <3>2, <1>6 DEF Release
  <2>2. CASE ~Works(s)
    BY <2>2, <1>6 DEF Release
  <2> QED
    BY <2>1, <2>2
<1>7. ASSUME NEW s \in Servers, RemoveSem(s) PROVE TypeOK'
  BY <1>7 DEF RemoveSem
<1>8. ASSUME NEW s \in Servers, RemoveShm(s) PROVE TypeOK'
  BY <1>8 DEF RemoveShm
<1>9. ASSUME NEW c \in Clients, SemFind(c) PROVE TypeOK'
  BY <1>9 DEF SemFind
<1>10. ASSUME NEW c \in Clients, ShmFind(c) PROVE TypeOK'
  BY <1>10 DEF ShmFind
<1>11. ASSUME NEW c \in Clients, Enter(c) PROVE TypeOK'
  <2>1. CASE Works(c)
    <3>1. /\ semid[c] \in Servers
          /\ sem0[semid[c]] \in Nat /\ sem1[semid[c]] \in Nat
      BY <2>1, <1>0
    <3>2. sem0' \in [Servers -> Nat] /\ sem1' \in [Servers -> Nat]
      BY <2>1, <3>1, <1>11 DEF Enter
    <3> QED
      BY <3>2, <1>11 DEF Enter
  <2>2. CASE ~Works(c)
    BY <2>2, <1>11 DEF Enter
  <2> QED
    BY <2>1, <2>2
<1>12. ASSUME NEW c \in Clients, Write(c) PROVE TypeOK'
  BY <1>12 DEF Write
<1>13. ASSUME NEW c \in Clients, Leave(c) PROVE TypeOK'
  <2>1. CASE Works(c)
    <3>1. /\ semid[c] \in Servers
          /\ sem0[semid[c]] \in Nat /\ sem1[semid[c]] \in Nat
      BY <2>1, <1>0
    <3>2. sem0' \in [Servers -> Nat] /\ sem1' \in [Servers -> Nat]
      BY <2>1, <3>1, <1>13 DEF Leave
    <3> QED
      BY <3>2, <1>13 DEF Leave
  <2>2. CASE ~Works(c)
    BY <2>2, <1>13 DEF Leave
  <2> QED
    BY <2>1, <2>2
<1>14. ASSUME NEW p \in Procs, Kill(p) PROVE TypeOK'
  BY <1>14 DEF Kill
<1>15. CASE UNCHANGED vars
  BY <1>15 DEF vars
<1> QED
  BY <1>1, <1>2, <1>3, <1>4, <1>5, <1>6, <1>7, <1>8, <1>9, <1>10, <1>11, <1>12, <1>13,
     <1>14, <1>15 DEF Next, ServerStep, ClientStep

LEMMA StepBookkeeping == TypeOK /\ Bookkeeping /\ [Next]_vars => Bookkeeping'
<1> SUFFICES ASSUME TypeOK, Bookkeeping, [Next]_vars PROVE Bookkeeping'
  OBVIOUS
<1> USE ProcsAssumption, NoIdAssumption
    DEF TypeOK, Procs, Ids, Goto, Works, Bookkeeping, SetsOwned, SegmentsOwned, UnitsOwned,
        LeaveAttached, Labels
<1>1. ASSUME NEW s \in Servers, SemCreate(s) PROVE Bookkeeping'
  BY <1>1 DEF SemCreate
<1>2. ASSUME NEW s \in Servers, SetAll(s) PROVE Bookkeeping'
  BY <1>2 DEF SetAll
<1>3. ASSUME NEW s \in Servers, ShmCreate(s) PROVE Bookkeeping'
  BY <1>3 DEF ShmCreate
<1>4. ASSUME NEW s \in Servers, Take(s) PROVE Bookkeeping'
  BY <1>4 DEF Take
<1>5. ASSUME NEW s \in Servers, Read(s) PROVE Bookkeeping'
  BY <1>5 DEF Read
<1>6. ASSUME NEW s \in Servers, Release(s) PROVE Bookkeeping'
  BY <1>6 DEF Release
<1>7. ASSUME NEW s \in Servers, RemoveSem(s) PROVE Bookkeeping'
  BY <1>7 DEF RemoveSem
<1>8. ASSUME NEW s \in Servers, RemoveShm(s) PROVE Bookkeeping'
  BY <1>8 DEF RemoveShm
<1>9. ASSUME NEW c \in Clients, SemFind(c) PROVE Bookkeeping'
  BY <1>9 DEF SemFind
<1>10. ASSUME NEW c \in Clients, ShmFind(c) PROVE Bookkeeping'
  BY <1>10 DEF ShmFind
<1>11. ASSUME NEW c \in Clients, Enter(c) PROVE Bookkeeping'
  BY <1>11 DEF Enter
<1>12. ASSUME NEW c \in Clients, Write(c) PROVE Bookkeeping'
  BY <1>12 DEF Write
<1>13. ASSUME NEW c \in Clients, Leave(c) PROVE Bookkeeping'
  BY <1>13 DEF Leave
<1>14. ASSUME NEW p \in Procs, Kill(p) PROVE Bookkeeping'
  BY <1>14 DEF Kill
<1>15. CASE UNCHANGED vars
  BY <1>15 DEF vars
<1> QED
  BY <1>1, <1>2, <1>3, <1>4, <1>5, <1>6, <1>7, <1>8, <1>9, <1>10, <1>11, <1>12, <1>13,
     <1>14, <1>15 DEF Next, ServerStep, ClientStep

\* A set that is clean has always been.
LEMMA CleanBefore ==
    ASSUME TypeOK, Bookkeeping, [Next]_vars, NEW s \in Servers, Clean(s)'
    PROVE  Clean(s)
<1> SUFFICES ASSUME NEW c \in Clients, Mismatched(c), semid[c] = s
             PROVE  Mismatched(c)' /\ semid'[c] = s
  BY DEF Clean
<1>1. pc[c] \notin {"start", "shmget"}
  BY DEF Mismatched, Bookkeeping, SegmentsOwned
<1>2. semid'[c] = semid[c] /\ shmid'[c] = shmid[c]
  BY <1>1, ProcsAssumption
  DEF Next, ServerStep, ClientStep, SemCreate, SetAll, ShmCreate, Take, Read, Release,
      RemoveSem, RemoveShm, SemFind, ShmFind, Enter, Write, Leave, Kill, vars, TypeOK, Procs
<1> QED
  BY <1>2 DEF Mismatched

LEMMA StepCovered == IInv /\ [Next]_vars => Covered'
<1> SUFFICES ASSUME IInv, [Next]_vars, NEW s \in Servers, Clean(s)'
             PROVE  CoveredAt(s)'
  BY DEF Covered
<1>a. CoveredAt(s) /\ Clean(s)
  BY CleanBefore DEF IInv, Covered
<1>b. /\ sem0[s] \in Nat
      /\ \A c \in Clients : c \notin Servers /\ c \in Procs
      /\ s \in Procs /\ s # NoId
  BY ProcsAssumption, NoIdAssumption DEF IInv, TypeOK, Procs
<1>c. /\ \A r \in Servers : semid[r] = s => r = s
      /\ \A p \in Procs : Works(p) /\ semid[p] # s => semid[p] \in Servers
  BY NoIdAssumption DEF IInv, Bookkeeping, SetsOwned, TypeOK, Procs, Ids, Works
<1> DEFINE Same == sem0'[s] = sem0[s] /\ (Reading(s)' => Reading(s))
                   /\ \A c \in Clients : Inside(c, s)' => Inside(c, s)
<1>d. ASSUME Same PROVE CoveredAt(s)'
  BY <1>a, <1>d DEF CoveredAt
<1> USE DEF Goto
<1>1. ASSUME NEW r \in Servers, SemCreate(r) PROVE Same
  BY <1>1, <1>b DEF SemCreate, Reading, Inside, IInv, TypeOK, Bookkeeping, Labels, Procs
<1>2. ASSUME NEW r \in Servers, SetAll(r) PROVE CoveredAt(s)'
  <2>1. CASE r = s
    <3>1. pc[s] = "setall" /\ pc'[s] = "shmget" /\ shmid' = shmid
      BY <2>1, <1>2, <1>b DEF SetAll, IInv, TypeOK
    <3>2. \A c \in Clients : shmid[c] # s
      BY <3>1, <1>b DEF IInv, Bookkeeping, SegmentsOwned
    <3> QED
      BY <3>1, <3>2 DEF CoveredAt, Reading, Inside
  <2>2. CASE r # s
    <3>1. semid[r] # s
      BY <2>2, <1>c
    <3>2. Same
      BY <3>1, <1>2, <1>b, <2>2 DEF SetAll, Reading, Inside, IInv, TypeOK, Procs
    <3> QED
      BY <3>2, <1>d
  <2> QED
    BY <2>1, <2>2
<1>3. ASSUME NEW r \in Servers, ShmCreate(r) PROVE Same
  BY <1>3, <1>b DEF ShmCreate, Reading, Inside, IInv, TypeOK, Bookkeeping, Labels, Procs
<1>4. ASSUME NEW r \in Servers, Take(r) PROVE CoveredAt(s)'
  <2>1. CASE r = s /\ Works(s)
    <3>1. semid[s] = s
      BY <2>1, <1>b DEF Works, IInv, Bookkeeping, SetsOwned
    <3>2. ~Reading(s)
      BY <2>1, <1>4 DEF Take, Reading
    <3>3. sem0'[s] = sem0[s] + 1
      BY <2>1, <3>1, <1>4 DEF Take, IInv, TypeOK
    <3>4. \A c \in Clients : Inside(c, s)' => Inside(c, s)
      BY <2>1, <1>4, <1>b DEF Take, Inside, IInv, TypeOK, Procs
    <3> QED
      BY <1>a, <1>b, <3>3, <3>4 DEF CoveredAt
  <2>2. CASE ~(r = s /\ Works(s))
    <3>1. ~Works(r) \/ semid[r] # s
      BY <2>2, <1>c
    <3>2. Same
      BY <2>2, <3>1, <1>4, <1>b
      DEF Take, Reading, Inside, IInv, TypeOK, Procs, Bookkeeping, Labels, UnitsOwned, Works
    <3> QED
      BY <3>2, <1>d
  <2> QED
    BY <2>1, <2>2
<1>5. ASSUME NEW r \in Servers, Read(r) PROVE Same
  BY <1>5, <1>b DEF Read, Reading, Inside, IInv, TypeOK, Bookkeeping, Labels, Procs
<1>6. ASSUME NEW r \in Servers, Release(r) PROVE CoveredAt(s)'
  <2>1. \A c \in Clients : Inside(c, s)' => Inside(c, s)
    BY <1>6, <1>b DEF Release, Inside, IInv, TypeOK, Procs
  <2>2. CASE r = s /\ Works(s)
    <3>1. semid[s] = s /\ Reading(s)
      BY <1>6, <2>2, <1>b DEF Release, Reading, Works, IInv, Bookkeeping, SetsOwned, UnitsOwned
    <3>2. ~Reading(s)'
      BY <1>6, <2>2, <1>b DEF Release, Reading, IInv, TypeOK
    <3>3. sem0'[s] = sem0[s] - 1
      BY <1>6, <2>2, <3>1, <1>a, <1>b DEF Release, CoveredAt, IInv, TypeOK
    <3> QED
      BY <1>a, <1>b, <2>1, <3>1, <3>2, <3>3 DEF CoveredAt
  <2>3. CASE ~(r = s /\ Works(s))
    <3>1. ~Works(r) \/ semid[r] # s
      BY <2>3, <1>c
    <3>2. sem0'[s] = sem0[s]
      BY <3>1, <1>6, <1>b DEF Release, IInv, TypeOK
    <3>3. Reading(s)' => Reading(s)
      BY <1>6, <1>b, <2>3 DEF Release, Reading, IInv, TypeOK, Procs
    <3> QED
      BY <2>1, <3>2, <3>3, <1>d
  <2> QED
    BY <2>2, <2>3
<1>7. ASSUME NEW r \in Servers, RemoveSem(r) PROVE Same
  BY <1>7, <1>b DEF RemoveSem, Reading, Inside, IInv, TypeOK, Procs
<1>8. ASSUME NEW r \in Servers, RemoveShm(r) PROVE Same
  BY <1>8, <1>b DEF RemoveShm, Reading, Inside, IInv, TypeOK, Procs
<1>9. ASSUME NEW c \in Clients, SemFind(c) PROVE Same
  BY <1>9, <1>b DEF SemFind, Reading, Inside, IInv, TypeOK, Procs
<1>10. ASSUME NEW c \in Clients, ShmFind(c) PROVE Same
  BY <1>10, <1>b DEF ShmFind, Reading, Inside, IInv, TypeOK, Procs
<1>11. ASSUME NEW c \in Clients, Enter(c) PROVE CoveredAt(s)'
  <2>1. (Reading(s)' => Reading(s)) /\ \A d \in Clients \ {c} : Inside(d, s)' => Inside(d, s)
    BY <1>11, <1>b DEF Enter, Reading, Inside, IInv, TypeOK, Procs
  <2>2. CASE Works(c) /\ semid[c] = s
    <3>1. sem0[s] = 0 /\ sem0'[s] = 1
      BY <1>11, <2>2, <1>b DEF Enter, IInv, TypeOK
    <3>2. ~Reading(s) /\ \A d \in Clients : ~Inside(d, s)
      BY <3>1, <1>a DEF CoveredAt
    <3> QED
      BY <2>1, <3>1, <3>2 DEF CoveredAt
  <2>3. CASE ~Works(c) \/ semid[c] # s
    <3>1. sem0'[s] = sem0[s]
      BY <2>3, <1>11, <1>b, <1>c DEF Enter, IInv, TypeOK, Procs
    <3>2. ~Inside(c, s)'
      BY <2>3, <1>11, <1>b DEF Enter, Inside, IInv, TypeOK, Procs, Bookkeeping, UnitsOwned
    <3> QED
      BY <2>1, <3>1, <3>2, <1>d
  <2> QED
    BY <2>2, <2>3
<1>12. ASSUME NEW c \in Clients, Write(c) PROVE Same
  BY <1>12, <1>b DEF Write, Reading, Inside, IInv, TypeOK, Procs
<1>13. ASSUME NEW c \in Clients, Leave(c) PROVE CoveredAt(s)'
  <2>1. /\ Reading(s)' => Reading(s)
        /\ \A d \in Clients \ {c} : Inside(d, s)' => Inside(d, s)
        /\ ~Inside(c, s)'
    BY <1>13, <1>b DEF Leave, Reading, Inside, IInv, TypeOK, Procs
  <2>2. CASE Works(c) /\ semid[c] = s
    <3>1. sem0'[s] = sem0[s] - 1
      BY <1>13, <2>2, <1>b DEF Leave, IInv, TypeOK
    <3>2. held[c]
      BY <1>13, <2>2, <1>b DEF Leave, IInv, Bookkeeping, UnitsOwned
    <3>3. shmid[c] = s
      BY <1>13, <2>2, <1>a, <1>b DEF Leave, IInv, Bookkeeping, LeaveAttached, Clean, Mismatched
    <3>4. Inside(c, s)
      BY <1>13, <2>2, <3>2, <3>3 DEF Leave, Inside
    <3> QED
      BY <1>a, <1>b, <2>1, <3>1, <3>4 DEF CoveredAt
  <2>3. CASE ~Works(c) \/ semid[c] # s
    <3>1. sem0'[s] = sem0[s]
      BY <2>3, <1>13, <1>b, <1>c DEF Leave, IInv, TypeOK, Procs
    <3> QED
      BY <2>1, <3>1, <1>d
  <2> QED
    BY <2>2, <2>3
<1>14. ASSUME NEW p \in Procs, Kill(p) PROVE Same
  BY <1>14, <1>b DEF Kill, Reading, Inside, IInv, TypeOK, Procs
<1>15. CASE UNCHANGED vars
  BY <1>15, <1>d DEF vars, Reading, Inside
<1> QED
  BY <1>1, <1>2, <1>3, <1>4, <1>5, <1>6, <1>7, <1>8, <1>9, <1>10, <1>11, <1>12, <1>13,
     <1>14, <1>15, <1>d DEF Next, ServerStep, ClientStep

-----------------------------------------------------------------------------
\* What the server prints

\* A client about to leave has written its whole text.
Written == \A c \in Clients : pc[c] = "leave" => text[shmid[c]] = "hello"

\* A lone server has a set; and its semaphore 1, or the semop that has taken a
\* unit of it, says that the text is there.
Told(s) ==
    /\ pc[s] \in {"setall", "shmget", "take"} => Works(s)
    /\ sem1[s] >= 1 \/ pc[s] = "read" => text[s] = "hello"
    /\ printed[s] \in {"nothing", "hello"}

Informed == Written /\ \A s \in Servers : Lone(s) => Told(s)

\* A server that is alone now has always been.
LEMMA LoneBefore ==
    ASSUME TypeOK, [Next]_vars, NEW s \in Servers, Lone(s)'
    PROVE  Lone(s)
<1> SUFFICES ASSUME NEW t \in Servers, pc[t] # "start" PROVE pc'[t] # "start"
  BY DEF Lone
<1>1. pc \in [Procs -> {"start", "setall", "shmget", "take", "read", "release",
                         "rmsem", "rmshm", "enter", "write", "leave", "done", "dead"}]
  BY DEF TypeOK
<1> QED
  BY <1>1 DEF Next, ServerStep, ClientStep, SemCreate, SetAll, ShmCreate, Take, Read, Release,
      RemoveSem, RemoveShm, SemFind, ShmFind, Enter, Write, Leave, Kill, vars, Goto, Procs

\* All sets and segments are those of a lone server.
LEMMA OnlyOne ==
    ASSUME TypeOK, Bookkeeping, NEW s \in Servers, Lone(s)
    PROVE  /\ semkey \in {NoId, s} /\ shmkey \in {NoId, s}
           /\ \A p \in Procs : semid[p] \in {NoId, s} /\ shmid[p] \in {NoId, s}
           /\ pc[s] = "start" => semkey = NoId
  BY DEF TypeOK, Ids, Bookkeeping, SetsOwned, SegmentsOwned, Lone

\* A text that is there stays: all clients copy the same.
LEMMA TextStays ==
    ASSUME TypeOK, [Next]_vars, NEW g \in Servers, text[g] = "hello"
    PROVE  text'[g] = "hello"
<1>1. text' = text \/ \E h \in Servers, t \in {"partial", "hello"} :
         /\ text' = [text EXCEPT ![h] = t]
         /\ t = "hello" \/ text[h] = "empty"
  BY DEF Next, ServerStep, ClientStep, SemCreate, SetAll, ShmCreate, Take, Read, Release,
      RemoveSem, RemoveShm, SemFind, ShmFind, Enter, Write, Leave, Kill, vars, TypeOK, Procs, Ids
<1> QED
  BY <1>1 DEF TypeOK

LEMMA StepWritten ==
    ASSUME TypeOK, Bookkeeping, Written, [Next]_vars
    PROVE  Written'
<1> SUFFICES ASSUME NEW c \in Clients, pc'[c] = "leave" PROVE text'[shmid'[c]] = "hello"
  BY DEF Written
<1>0. c \in Procs /\ c \notin Servers
  BY ProcsAssumption DEF Procs
<1>1. CASE pc[c] = "leave"
  <2>1. shmid'[c] = shmid[c] /\ shmid[c] \in Servers
    BY <1>0, <1>1 DEF Next, ServerStep, ClientStep, SemCreate, SetAll, ShmCreate, Take, Read,
      Release, RemoveSem, RemoveShm, SemFind, ShmFind, Enter, Write, Leave, Kill, vars, TypeOK,
      Ids, Bookkeeping, LeaveAttached
  <2> QED
    BY <1>1, <2>1, TextStays DEF Written
<1>2. CASE pc[c] # "leave"
  <2>1. Write(c)
    BY <1>0, <1>2 DEF Next, ServerStep, ClientStep, SemCreate, SetAll, ShmCreate, Take, Read,
      Release, RemoveSem, RemoveShm, SemFind, ShmFind, Enter, Write, Leave, Kill, vars, TypeOK,
      Goto, Procs
  <2>2. shmid[c] # NoId /\ text' = [text EXCEPT ![shmid[c]] = "hello"] /\ shmid' = shmid
    BY <2>1, <1>0 DEF Write, TypeOK, Goto
  <2> QED
    BY <2>2, <1>0 DEF TypeOK, Ids
<1> QED
  BY <1>1, <1>2

LEMMA StepTold ==
    ASSUME TypeOK, Bookkeeping, Written, [Next]_vars,
           NEW s \in Servers, Lone(s)', Told(s)
    PROVE  Told(s)'
<1>0. /\ Lone(s) /\ s \in Procs /\ s # NoId /\ sem1[s] \in Nat
      /\ \A c \in Clients : c # s /\ c \in Procs
  BY LoneBefore, ProcsAssumption, NoIdAssumption DEF Procs, TypeOK
<1>a. ASSUME NEW r \in Servers, pc[r] # "start" PROVE r = s
  BY <1>0, <1>a DEF Lone
<1>h. text[s] = "hello" => text'[s] = "hello"
  BY TextStays
\* A step that adds no text to semaphore 1 and does not move the server.
<1>b. ASSUME pc'[s] = pc[s] \/ pc'[s] = "dead", sem1'[s] = sem1[s], printed' = printed,
             semkey' = semkey, semid'[s] = semid[s]
      PROVE  Told(s)'
  BY <1>b, <1>h DEF Told, Works
<1> USE DEF Goto
<1>1. ASSUME NEW r \in Servers, SemCreate(r) PROVE Told(s)'
  <2>1. CASE r = s
    <3>1. semkey = NoId
      BY <1>0, <1>1, <2>1, OnlyOne DEF SemCreate
    <3> QED
      BY <1>0, <1>1, <2>1, <1>h, <3>1 DEF SemCreate, Told, Works, TypeOK
  <2>2. CASE r # s
    <3>1. pc'[r] # "start"
      BY <1>1 DEF SemCreate, TypeOK, Procs
    <3> QED
      BY <2>2, <3>1 DEF Lone
  <2> QED
    BY <2>1, <2>2
<1>2. ASSUME NEW r \in Servers, SetAll(r) PROVE Told(s)'
  <2>1. r = s
    BY <1>2, <1>a DEF SetAll
  <2>2. /\ pc[s] = "setall" /\ pc'[s] = "shmget" /\ Works(s)
        /\ sem1' = [sem1 EXCEPT ![semid[s]] = 0]
        /\ UNCHANGED <<semkey, semid, printed>>
    BY <1>0, <1>2, <2>1 DEF SetAll, Told, TypeOK
  <2>3. semid[s] = s
    BY <1>0, <2>2, OnlyOne DEF Works
  <2>4. sem1'[s] = 0
    BY <2>2, <2>3 DEF TypeOK
  <2> QED
    BY <2>2, <2>4 DEF Told, Works
<1>3. ASSUME NEW r \in Servers, ShmCreate(r) PROVE Told(s)'
  <2>1. r = s
    BY <1>3, <1>a DEF ShmCreate
  <2> QED
    BY <1>0, <1>3, <2>1, <1>h DEF ShmCreate, Told, Works, TypeOK
<1>4. ASSUME NEW r \in Servers, Take(r) PROVE Told(s)'
  <2>1. r = s
    BY <1>4, <1>a DEF Take
  <2>2. /\ Works(s) /\ sem1[semid[s]] >= 1 /\ sem1' = [sem1 EXCEPT ![semid[s]] = @ - 1]
        /\ pc'[s] = "read" /\ UNCHANGED <<semkey, semid, text, printed>>
    BY <1>0, <1>4, <2>1 DEF Take, Told, TypeOK
  <2>3. semid[s] = s
    BY <1>0, <2>2, OnlyOne DEF Works
  <2>4. text[s] = "hello"
    BY <2>2, <2>3 DEF Told
  <2> QED
    BY <2>2, <2>4 DEF Told
<1>5. ASSUME NEW r \in Servers, Read(r) PROVE Told(s)'
  <2>1. r = s
    BY <1>5, <1>a DEF Read
  <2>2. text[s] = "hello" /\ pc'[s] \in {"dead", "release"} /\ UNCHANGED <<text, sem1>>
    BY <1>0, <1>5, <2>1 DEF Read, Told, TypeOK
  <2>3. printed'[s] \in {"nothing", "hello"}
    <3>1. CASE shmid[s] = NoId
      BY <1>5, <2>1, <3>1 DEF Read, Told
    <3>2. CASE shmid[s] # NoId
      <4>1. shmid[s] = s
        BY <1>0, <3>2, OnlyOne
      <4>2. Visible(shmid[s]) = {"hello"}
        BY <2>2, <4>1 DEF Visible
      <4> QED
        BY <1>5, <2>1, <3>2, <4>2 DEF Read, TypeOK
    <3> QED
      BY <3>1, <3>2
  <2> QED
    BY <2>2, <2>3 DEF Told
<1>6. ASSUME NEW r \in Servers, Release(r) \/ RemoveSem(r) \/ RemoveShm(r) PROVE Told(s)'
  <2>1. r = s
    BY <1>6, <1>a DEF Release, RemoveSem, RemoveShm
  <2>2. pc'[s] \in {"rmsem", "rmshm", "done"} /\ UNCHANGED <<sem1, text, printed>>
    BY <1>0, <1>6, <2>1 DEF Release, RemoveSem, RemoveShm, TypeOK
  <2> QED
    BY <2>2 DEF Told
<1>7. ASSUME NEW c \in Clients, SemFind(c) \/ ShmFind(c) \/ Enter(c) \/ Write(c) PROVE Told(s)'
  <2>1. /\ pc'[s] = pc[s] /\ semid'[s] = semid[s] /\ UNCHANGED <<semkey, sem1, printed>>
    BY <1>0, <1>7 DEF SemFind, ShmFind, Enter, Write, TypeOK
  <2> QED
    BY <2>1, <1>b
<1>8. ASSUME NEW c \in Clients, Leave(c) PROVE Told(s)'
  <2>0. /\ pc[c] = "leave" /\ pc'[s] = pc[s] /\ UNCHANGED <<semkey, semid, text, printed>>
    BY <1>0, <1>8 DEF Leave, TypeOK
  <2>1. text[s] = "hello"
    BY <1>0, <2>0, OnlyOne DEF Written, Bookkeeping, LeaveAttached
  <2> QED
    BY <2>0, <2>1 DEF Told, Works
<1>9. ASSUME NEW p \in Procs, Kill(p) PROVE Told(s)'
  <2>1. /\ pc'[s] = pc[s] \/ pc'[s] = "dead"
        /\ UNCHANGED <<semkey, semid, sem1, printed>>
    BY <1>0, <1>9 DEF Kill, TypeOK
  <2> QED
    BY <2>1, <1>b
<1>10. CASE UNCHANGED vars
  BY <1>10, <1>b DEF vars
<1> QED
  BY <1>1, <1>2, <1>3, <1>4, <1>5, <1>6, <1>7, <1>8, <1>9, <1>10 DEF Next, ServerStep, ClientStep

LEMMA StepInformed == IInv /\ Informed /\ [Next]_vars => Informed'
<1> SUFFICES ASSUME IInv, Informed, [Next]_vars PROVE Informed'
  OBVIOUS
<1>1. Written'
  BY StepWritten DEF IInv, Informed
<1>2. ASSUME NEW s \in Servers, Lone(s)' PROVE Told(s)'
  BY <1>2, LoneBefore, StepTold DEF IInv, Informed
<1> QED
  BY <1>1, <1>2 DEF Informed

-----------------------------------------------------------------------------

LEMMA Invariance == Spec => []IInv
<1>1. IInv /\ [Next]_vars => IInv'
  BY StepType, StepBookkeeping, StepCovered DEF IInv
<1> QED
  BY InitIInv, <1>1, PTL DEF Spec

\* Every variable keeps its type; the semaphores never go below zero.
THEOREM TypeCorrect == Spec => []TypeOK
<1>1. IInv => TypeOK
  BY DEF IInv
<1> QED
  BY Invariance, <1>1, PTL

\* However many clients and servers there are and whoever is killed, the
\* semaphores keep two clients out of the same segment.
THEOREM Exclusion == Spec => []WritersExclude
<1>1. IInv => WritersExclude
  BY DEF IInv, Covered, CoveredAt, WritersExclude
<1> QED
  BY Invariance, <1>1, PTL

\* Semaphore 1 tells a lone server of a whole text: it prints that or nothing,
\* although clients may find its set before the segment exists, write while it
\* reads or be killed half way through strcpy.
THEOREM WholeMessage == Spec => []ReadsMessage
<1>1. Init => Informed
  BY DEF Init, Informed, Written, Told, Procs
<1>2. Informed => ReadsMessage
  BY DEF Informed, Told, ReadsMessage
<1> QED
  BY <1>1, <1>2, StepInformed, Invariance, PTL DEF Spec

=============================================================================
