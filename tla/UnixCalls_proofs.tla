--------------------------- MODULE UnixCalls_proofs ---------------------------
(***************************************************************************)
(* Theorems about the system of UnixCalls, for all programs, that is for   *)
(* whatever calls the scripts consist of.                                  *)
(***************************************************************************)
EXTENDS UnixCalls, FiniteSetTheorems, SequenceTheorems, WellFoundedInduction, TLAPS

Fields == {"st", "todo", "reg", "ppid", "fds", "caught", "mask", "pending", "timer"}

\* t is a process table: one record for each process id.
Table(t) == DOMAIN t = Pids /\ \A q \in Pids : DOMAIN t[q] = Fields

\* In t everybody is as alive as now, has the same parent, and what does not run
\* has got nothing.
Harmless(t) ==
    /\ Table(t)
    /\ \A q \in Pids :
          /\ t[q].st = proc[q].st /\ t[q].ppid = proc[q].ppid
          /\ proc[q].st # "run" => t[q].todo = proc[q].todo /\ t[q].fds \subseteq proc[q].fds

IInv == Table(proc) /\ ProcessTable

-----------------------------------------------------------------------------
\* Tables

LEMMA PidsPositive == 0 \notin Pids /\ Pids \subseteq Nat
<1>1. Cardinality(Pids) \in Nat /\ Pids = 1..Cardinality(Pids)
  BY SystemAssumption, FS_CardinalityType
<1> QED
  BY <1>1

\* Every set of numbers but the empty one has a least element.
LEMMA Least == \A S \in SUBSET Nat : S # {} => \E x \in S : \A y \in S : x <= y
<1> SUFFICES ASSUME NEW S \in SUBSET Nat, S # {} PROVE \E x \in S : \A y \in S : x <= y
  OBVIOUS
<1> DEFINE R == OpToRel(<, Nat)
<1>1. IsWellFoundedOn(R, Nat)
  BY NatLessThanWellFounded
<1>2. ASSUME NEW x \in Nat, NEW y \in Nat, <<y, x>> \notin R PROVE x <= y
  <2>1. y < x => <<y, x>> \in R
    BY Zenon DEF OpToRel
  <2> HIDE DEF R
  <2> QED
    BY <1>2, <2>1, SMT
<1> HIDE DEF R
<1>3. PICK x \in S : \A y \in S : ~(<<y, x>> \in R)
  BY <1>1, WFMin, Zenon
<1>4. ASSUME NEW y \in S PROVE x <= y
  <2>1. x \in Nat /\ y \in Nat
    OBVIOUS
  <2> QED
    BY <1>2, <1>3, <2>1, Zenon
<1> QED
  BY <1>3, <1>4, Zenon

LEMMA Kept ==
    ASSUME IInv, Harmless(proc')
    PROVE  IInv'
BY DEF IInv, Table, ProcessTable, Harmless

\* A process that runs may set all of its entries but for its state and parent.
LEMMA OwnEntry ==
    ASSUME NEW p \in Pids, Table(proc), proc[p].st = "run", NEW t,
           DOMAIN t = Pids, \A q \in Pids \ {p} : t[q] = proc[q],
           DOMAIN t[p] = Fields, t[p].st = proc[p].st, t[p].ppid = proc[p].ppid
    PROVE  Harmless(t)
BY DEF Harmless, Table

LEMMA Tables ==
    ASSUME NEW p \in Pids, Table(proc), proc[p].st = "run", NEW v
    PROVE  Harmless(Returned(p, v)) /\ Harmless(Passed(p)) /\ Harmless(Becomes(p, v))
<1>1. Harmless(Returned(p, v))
  <2> DEFINE t == Returned(p, v)
  <2>1. /\ DOMAIN t = Pids /\ \A q \in Pids \ {p} : t[q] = proc[q]
        /\ DOMAIN t[p] = Fields /\ t[p].st = proc[p].st /\ t[p].ppid = proc[p].ppid
    BY DEF Returned, Table, Fields
  <2> QED
    BY <2>1, OwnEntry
<1>2. Harmless(Passed(p))
  <2> DEFINE t == Passed(p)
  <2>1. /\ DOMAIN t = Pids /\ \A q \in Pids \ {p} : t[q] = proc[q]
        /\ DOMAIN t[p] = Fields /\ t[p].st = proc[p].st /\ t[p].ppid = proc[p].ppid
    BY DEF Passed, Table, Fields
  <2> QED
    BY <2>1, OwnEntry
<1>3. Harmless(Becomes(p, v))
  <2> DEFINE t == Becomes(p, v)
  <2>1. /\ DOMAIN t = Pids /\ \A q \in Pids \ {p} : t[q] = proc[q]
        /\ DOMAIN t[p] = Fields /\ t[p].st = proc[p].st /\ t[p].ppid = proc[p].ppid
    BY DEF Becomes, Table, Fields
  <2> QED
    BY <2>1, OwnEntry
<1> QED
  BY <1>1, <1>2, <1>3

\* A change of entries of a running process that leave its state alone.
LEMMA Further ==
    ASSUME NEW p \in Pids, Table(proc), proc[p].st = "run", NEW t, Harmless(t), NEW v
    PROVE  /\ Harmless([t EXCEPT ![p].caught = v])
           /\ Harmless([t EXCEPT ![p].mask = v])
           /\ Harmless([t EXCEPT ![p].timer = v])
           /\ Harmless([t EXCEPT ![p].fds = v])
           /\ Harmless([t EXCEPT ![p].pending = v])
BY DEF Harmless, Table, Fields

\* DoExit and whatever else ends a process: its children lose their parent.
LEMMA Ending ==
    ASSUME IInv, NEW p \in Pids, proc[p].st = "run", NEW v, proc' = Ended(p, v)
    PROVE  IInv'
<1> DEFINE waited == proc[p].ppid \in Pids /\ proc[proc[p].ppid].st = "run"
<1>1. /\ proc'[p].st = (IF waited THEN "zombie" ELSE "gone")
      /\ proc'[p].ppid = proc[p].ppid /\ proc'[p].todo = <<>> /\ proc'[p].fds = {}
      /\ DOMAIN proc'[p] = Fields
  BY DEF Ended, IInv, Table, Fields
<1>2. \A q \in Pids \ {p} :
         /\ DOMAIN proc'[q] = Fields
         /\ proc'[q].todo = proc[q].todo /\ proc'[q].fds = proc[q].fds
  BY DEF Ended, IInv, Table, Fields
<1>3. \A q \in Pids \ {p} : proc[q].ppid = p =>
         /\ proc'[q].ppid = 0
         /\ proc'[q].st = IF proc[q].st = "zombie" THEN "gone" ELSE proc[q].st
  BY DEF Ended, IInv, Table, Fields
<1>4. \A q \in Pids \ {p} : proc[q].ppid # p =>
         proc'[q].ppid = proc[q].ppid /\ proc'[q].st = proc[q].st
  BY DEF Ended, IInv, Table, Fields
<1>5. Table(proc)'
  BY <1>1, <1>2 DEF Ended, Table
<1>6. proc'[p].st = "zombie" => proc[p].ppid # 0 /\ proc'[proc[p].ppid].st = "run"
  BY <1>1, <1>3, <1>4, PidsPositive DEF IInv, ProcessTable
<1>7. ASSUME NEW q \in Pids \ {p}, proc'[q].st = "zombie"
      PROVE  proc'[q].ppid # 0 /\ proc'[proc'[q].ppid].st = "run"
  <2>1. proc[q].ppid # p /\ proc[q].st = "zombie" /\ proc'[q].ppid = proc[q].ppid
    BY <1>3, <1>4, <1>7
  <2>2. proc[q].ppid \in Pids \ {p} /\ proc[proc[q].ppid].st = "run"
    BY <2>1 DEF IInv, ProcessTable
  <2>3. proc'[proc[q].ppid].st = "run"
    BY <1>3, <1>4, <2>2
  <2> QED
    BY <2>1, <2>2, <2>3, PidsPositive
<1>8. \A q \in Pids \ {p} :
         /\ proc'[q].st \in {"none", "run", "zombie", "gone"}
         /\ proc'[q].ppid \in Pids \cup {0} /\ proc'[q].ppid # q
         /\ proc'[q].st # "run" => proc'[q].todo = <<>> /\ proc'[q].fds = {}
  BY <1>2, <1>3, <1>4, PidsPositive DEF IInv, ProcessTable
<1>9. ProcessTable'
  BY <1>1, <1>6, <1>7, <1>8 DEF IInv, ProcessTable
<1> QED
  BY <1>5, <1>9 DEF IInv

-----------------------------------------------------------------------------
\* The actions

LEMMA ForkKeeps ==
    ASSUME IInv, NEW p \in Pids, proc[p].st = "run", DoFork(p)
    PROVE  IInv'
<1> DEFINE free == {q \in Pids : proc[q].st = "none"}
           r == CHOOSE q \in free : \A s \in free : q <= s
<1>1. Harmless(Passed(p))
  BY Tables DEF IInv
<1>2. CASE free = {}
  BY <1>1, <1>2, Kept DEF DoFork
<1>3. CASE free # {}
  <2>1. r \in free
    <3>1. \E q \in free : \A s \in free : q <= s
      BY <1>3, Least, PidsPositive
    <3> QED
      BY <3>1
  <2> HIDE DEF r
  <2>2. proc' = [Passed(p) EXCEPT
                   ![r] = [proc[p] EXCEPT !.todo = Now(p).code, !.ppid = p,
                             !.reg = <<>>, !.pending = {}, !.timer = FALSE]]
    BY <1>3 DEF DoFork, r
  <2>3. r # p /\ r \in Pids /\ proc[r].st = "none"
    BY <2>1
  <2>4. /\ DOMAIN proc'[r] = Fields
        /\ proc'[r].st = "run" /\ proc'[r].ppid = p
    BY <1>1, <2>2, <2>3 DEF Harmless, Table, IInv, Fields
  <2>5. \A q \in Pids \ {r} : proc'[q] = Passed(p)[q]
    BY <1>1, <2>2, <2>3 DEF Harmless, Table
  <2>6. Table(proc)'
    BY <1>1, <2>2, <2>4, <2>5 DEF Harmless, Table
  <2>7. ProcessTable'
    BY <1>1, <2>3, <2>4, <2>5 DEF Harmless, ProcessTable, IInv
  <2> QED
    BY <2>6, <2>7 DEF IInv
<1> QED
  BY <1>2, <1>3

LEMMA WaitKeeps ==
    ASSUME IInv, NEW p \in Pids, proc[p].st = "run", DoWait(p)
    PROVE  IInv'
<1>1. CASE proc' = Returned(p, <<>>)
  BY <1>1, Tables, Kept DEF IInv
<1>2. ASSUME NEW q \in Children(p), proc[q].st = "zombie",
             proc' = [Returned(p, proc[q].reg) EXCEPT ![q].st = "gone"]
      PROVE  IInv'
  <2>1. Harmless(Returned(p, proc[q].reg))
    BY Tables DEF IInv
  <2>2. q \in Pids /\ q # p
    BY <1>2 DEF Children
  <2>3. /\ DOMAIN proc'[q] = Fields
        /\ proc'[q].st = "gone" /\ proc'[q].ppid = proc[q].ppid
        /\ proc'[q].todo = proc[q].todo /\ proc'[q].fds \subseteq proc[q].fds
    BY <1>2, <2>1, <2>2 DEF Harmless, Table, Fields
  <2>4. \A r \in Pids \ {q} : proc'[r] = Returned(p, proc[q].reg)[r]
    BY <1>2, <2>1, <2>2 DEF Harmless, Table
  <2>5. Table(proc)'
    BY <1>2, <2>1, <2>3, <2>4 DEF Harmless, Table
  <2>6. \A r \in Pids \ {q} :
           /\ proc'[r].st = proc[r].st /\ proc'[r].ppid = proc[r].ppid
           /\ proc[r].st # "run" => proc'[r].todo = proc[r].todo /\ proc'[r].fds \subseteq proc[r].fds
    BY <2>1, <2>4 DEF Harmless
  <2>7. proc'[q].ppid \in Pids \cup {0} /\ proc'[q].ppid # q /\ proc'[q].todo = <<>> /\ proc'[q].fds = {}
    BY <1>2, <2>2, <2>3 DEF ProcessTable, IInv
  <2>8. \A r \in Pids \ {q} :
           /\ proc'[r].st \in {"none", "run", "zombie", "gone"}
           /\ proc'[r].ppid \in Pids \cup {0} /\ proc'[r].ppid # r
           /\ proc'[r].st # "run" => proc'[r].todo = <<>> /\ proc'[r].fds = {}
    BY <2>6 DEF ProcessTable, IInv
  <2>9. ASSUME NEW r \in Pids \ {q}, proc'[r].st = "zombie"
        PROVE  proc'[r].ppid # 0 /\ proc'[proc'[r].ppid].st = "run"
    <3>1. proc[r].ppid # 0 /\ proc[r].ppid \in Pids /\ proc[proc[r].ppid].st = "run"
      BY <2>6, <2>9 DEF ProcessTable, IInv
    <3> QED
      BY <1>2, <2>6, <3>1
  <2>10. ProcessTable'
    BY <2>3, <2>7, <2>8, <2>9 DEF ProcessTable
  <2> QED
    BY <2>5, <2>10 DEF IInv
<1> QED
  BY <1>1, <1>2 DEF DoWait

LEMMA KillKeeps ==
    ASSUME IInv, NEW p \in Pids, proc[p].st = "run", DoKill(p)
    PROVE  IInv'
<1>1. Harmless(Passed(p))
  BY Tables DEF IInv
<1>2. PICK hit : proc' = [q \in Pids |->
                       IF q \in hit /\ proc[q].st = "run"
                       THEN [Passed(p)[q] EXCEPT !.pending = @ \cup {Now(p).sig}]
                       ELSE Passed(p)[q]]
  BY DEF DoKill
<1>3. Harmless(proc')
  BY <1>1, <1>2 DEF Harmless, Table, Fields
<1> QED
  BY <1>3, Kept

LEMMA SignalKeeps ==
    ASSUME IInv, NEW p \in Pids, proc[p].st = "run", DoSignal(p)
    PROVE  IInv'
<1>1. /\ \A v : Harmless(Returned(p, v)) /\ Harmless(Passed(p)) /\ Harmless(Becomes(p, v))
      /\ \A t, v : Harmless(t) => /\ Harmless([t EXCEPT ![p].caught = v])
                                  /\ Harmless([t EXCEPT ![p].mask = v])
                                  /\ Harmless([t EXCEPT ![p].timer = v])
  BY Tables, Further DEF IInv
<1>2. ASSUME NEW t, Harmless(t), proc' = t PROVE IInv'
  BY <1>2, Kept
<1>3. ASSUME NEW v, proc' = [Passed(p) EXCEPT ![p].caught = v] PROVE IInv'
  BY <1>1, <1>2, <1>3, Zenon
<1>4. ASSUME NEW v, proc' = [Passed(p) EXCEPT ![p].mask = v] PROVE IInv'
  BY <1>1, <1>2, <1>4, Zenon
<1>5. ASSUME NEW v, proc' = [Passed(p) EXCEPT ![p].timer = v] PROVE IInv'
  BY <1>1, <1>2, <1>5, Zenon
<1>6. ASSUME NEW v, proc' = Returned(p, v) \/ proc' = Becomes(p, v) \/ proc' = Passed(p)
      PROVE  IInv'
  BY <1>1, <1>2, <1>6, Zenon
<1> QED
  BY <1>3, <1>4, <1>5, <1>6, Zenon DEF DoSignal

LEMMA RingKeeps ==
    ASSUME IInv, NEW p \in Pids, Ring(p)
    PROVE  IInv'
<1>1. Harmless(proc')
  BY DEF Harmless, Ring, IInv, Table, Fields
<1> QED
  BY <1>1, Kept

LEMMA DeliverKeeps ==
    ASSUME IInv, NEW p \in Pids, Deliver(p)
    PROVE  IInv'
<1>1. proc[p].st = "run"
  BY DEF Deliver
<1>2. PICK s, rest : proc' = Taken(p, s, rest, proc[p].mask)
  BY DEF Deliver
<1>3. CASE s \in DOMAIN proc[p].caught
  <2> DEFINE code == proc[p].caught[s] \o <<Mask(proc[p].mask)>> \o rest
             mask == proc[p].mask \cup {s}
             pend == proc[p].pending \ {s}
  <2>1. proc' = [proc EXCEPT ![p].todo = code, ![p].mask = mask, ![p].pending = @ \ {s}]
    BY <1>2, <1>3 DEF Taken
  <2> HIDE DEF code, mask
  <2>2. Harmless(proc')
    BY <1>1, <2>1 DEF Harmless, IInv, Table, Fields
  <2> QED
    BY <2>2, Kept
<1>4. CASE s \notin DOMAIN proc[p].caught
  BY <1>1, <1>2, <1>4, Ending DEF Taken
<1> QED
  BY <1>3, <1>4

LEMMA OpenKeeps ==
    ASSUME IInv, NEW p \in Pids, proc[p].st = "run", DoOpen(p)
    PROVE  IInv'
<1>1. \A q \in Pids : At(q, "open") => Harmless(Passed(q))
  BY Tables DEF IInv, At
<1>2. \A t, v : Harmless(t) => Harmless([t EXCEPT ![p].fds = v])
  BY Further DEF IInv
<1>3. Harmless(Passed(p))
  BY Tables DEF IInv
<1>4. CASE At(p, "pipe")
  <2> DEFINE fds == Passed(p)[p].fds \cup {<<Now(p).c, "r">>, <<Now(p).c, "w">>}
  <2>1. CASE proc' = [Passed(p) EXCEPT ![p].fds = fds]
    BY <1>2, <1>3, <2>1, Kept
  <2> QED
    BY <1>4, <2>1 DEF DoOpen, At
<1>5. CASE At(p, "close")
  <2> DEFINE fds == Passed(p)[p].fds \ {<<Now(p).c, Now(p).end>>}
  <2>1. CASE proc' = [Passed(p) EXCEPT ![p].fds = fds]
    BY <1>2, <1>3, <2>1, Kept
  <2> QED
    BY <1>5, <2>1 DEF DoOpen, At
<1>6. CASE At(p, "open")
  <2>1. PICK partners \in SUBSET Pids :
           /\ \A q \in partners : At(q, "open")
           /\ proc' = [q \in Pids |->
                       IF q \in partners \cup {p}
                       THEN [Passed(q)[q] EXCEPT !.fds = @ \cup Now(q).ends]
                       ELSE proc[q]]
    BY <1>6 DEF DoOpen, At
  <2>2. \A q \in partners \cup {p} : proc[q].st = "run" /\ Harmless(Passed(q))
    BY <1>1, <1>6, <2>1 DEF At
  <2>3. Harmless(proc')
    BY <2>1, <2>2 DEF Harmless, Table, Fields, IInv
  <2> QED
    BY <2>3, Kept
<1> QED
  BY <1>4, <1>5, <1>6 DEF DoOpen

\* The calls that read and write pipes, connections and datagrams.
LEMMA ChannelKeeps ==
    ASSUME IInv, NEW p \in Pids, proc[p].st = "run",
           DoWrite(p) \/ DoSend(p) \/ DoRead(p) \/ DoSendTo(p) \/ DoRecvFrom(p)
    PROVE  IInv'
<1>1. /\ \A v : Harmless(Returned(p, v))
      /\ Harmless(Passed(p))
      /\ \A t, v : Harmless(t) => Harmless([t EXCEPT ![p].fds = v]) /\ Harmless([t EXCEPT ![p].pending = v])
  BY Tables, Further DEF IInv
<1>2. CASE proc' = Broken(p)
  <2>1. CASE "PIPE" \in DOMAIN proc[p].caught
    BY <1>1, <1>2, <2>1, Kept DEF Broken
  <2> QED
    BY <1>2, <2>1, Ending DEF Broken
<1>3. CASE \/ \E v : proc' = Returned(p, v)
           \/ \E v, w : proc' = [Returned(p, v) EXCEPT ![p].fds = w]
           \/ proc' = Passed(p)
  <2>1. CASE \E v : proc' = Returned(p, v)
    BY <1>1, <2>1, Kept, Zenon
  <2>2. CASE \E v, w : proc' = [Returned(p, v) EXCEPT ![p].fds = w]
    <3>1. PICK v, w : proc' = [Returned(p, v) EXCEPT ![p].fds = w]
      BY <2>2
    <3>2. Harmless([Returned(p, v) EXCEPT ![p].fds = w])
      BY <1>1
    <3>3. Harmless(proc')
      BY <3>1, <3>2
    <3> QED
      BY <3>3, Kept
  <2>3. CASE proc' = Passed(p)
    BY <1>1, <2>3, Kept
  <2> QED
    BY <1>3, <2>1, <2>2, <2>3
<1>4. CASE DoWrite(p)
  BY <1>2, <1>3, <1>4 DEF DoWrite
<1>5. CASE DoSend(p)
  BY <1>2, <1>3, <1>5 DEF DoSend
<1>6. CASE DoRead(p)
  BY <1>3, <1>6 DEF DoRead
<1>7. CASE DoSendTo(p)
  BY <1>3, <1>7 DEF DoSendTo
<1>8. CASE DoRecvFrom(p)
  BY <1>3, <1>8 DEF DoRecvFrom
<1> QED
  BY <1>4, <1>5, <1>6, <1>7, <1>8

LEMMA QueueKeeps ==
    ASSUME IInv, NEW p \in Pids, proc[p].st = "run", DoQueue(p)
    PROVE  IInv'
<1>1. /\ \A v : Harmless(Returned(p, v))
      /\ Harmless(Passed(p))
      /\ \A t, v : Harmless(t) => Harmless([t EXCEPT ![p].fds = v])
  BY Tables, Further DEF IInv
<1>2. ASSUME NEW q, NEW t, Harmless(t), proc' = Notified(q, t)
      PROVE  IInv'
  <2>1. proc' = t \/ proc' = [r \in Pids |-> IF <<q, "notify">> \in t[r].fds
                         THEN [t[r] EXCEPT !.fds = @ \ {<<q, "notify">>},
                                           !.pending = @ \cup {"USR1"}]
                         ELSE t[r]]
    BY <1>2, Zenon DEF Notified
  <2>2. ASSUME proc' # t PROVE Harmless(proc')
    <3>1. ASSUME NEW r \in Pids
          PROVE  /\ DOMAIN proc'[r] = DOMAIN t[r] /\ proc'[r].st = t[r].st
                 /\ proc'[r].ppid = t[r].ppid /\ proc'[r].todo = t[r].todo
                 /\ proc'[r].fds \subseteq t[r].fds
      <4>1. \/ proc'[r] = t[r]
            \/ proc'[r] = [t[r] EXCEPT !.fds = @ \ {<<q, "notify">>},
                                      !.pending = @ \cup {"USR1"}]
        BY <2>1, <2>2
      <4>2. DOMAIN t[r] = Fields
        BY <1>2 DEF Harmless, Table
      <4>3. CASE proc'[r] = [t[r] EXCEPT !.fds = @ \ {<<q, "notify">>},
                                         !.pending = @ \cup {"USR1"}]
        <5> DEFINE fds == t[r].fds \ {<<q, "notify">>}
        <5>1. fds \subseteq t[r].fds
          OBVIOUS
        <5>2. \E w : proc'[r] = [t[r] EXCEPT !.fds = fds, !.pending = w]
          BY <4>3, Zenon
        <5> HIDE DEF fds
        <5> QED
          BY <4>2, <5>1, <5>2 DEF Fields
      <4> QED
        BY <4>1, <4>3
    <3>2. DOMAIN proc' = Pids
      BY <2>1, <2>2
    <3> QED
      BY <1>2, <3>1, <3>2 DEF Harmless, Table
  <2>3. Harmless(proc')
    BY <1>2, <2>2
  <2> QED
    BY <2>3, Kept
<1>3. ASSUME NEW q, proc' = [r \in Pids |-> [Passed(p)[r] EXCEPT !.fds = @ \ {<<q, "q">>}]]
      PROVE  IInv'
  <2>1. Harmless(proc')
    BY <1>1, <1>3 DEF Harmless, Table, Fields
  <2> QED
    BY <2>1, Kept
<1>4. CASE \/ \E v : proc' = Returned(p, v)
           \/ \E w : proc' = [Passed(p) EXCEPT ![p].fds = w]
  BY <1>1, <1>4, Kept
<1> QED
  BY <1>1, <1>2, <1>3, <1>4 DEF DoQueue

LEMMA StoreKeeps ==
    ASSUME IInv, NEW p \in Pids, proc[p].st = "run", DoSem(p) \/ DoMem(p)
    PROVE  IInv'
<1>1. /\ \A v : Harmless(Returned(p, v))
      /\ Harmless(Passed(p))
      /\ \A t, v : Harmless(t) => Harmless([t EXCEPT ![p].fds = v])
  BY Tables, Further DEF IInv
<1>2. CASE proc' = Ended(p, <<>>)
  BY <1>2, Ending
<1>3. CASE \/ \E v : proc' = Returned(p, v)
           \/ \E w : proc' = [Passed(p) EXCEPT ![p].fds = w]
           \/ proc' = Passed(p)
  BY <1>1, <1>3, Kept
<1>4. CASE DoSem(p)
  BY <1>3, <1>4 DEF DoSem
<1>5. CASE DoMem(p)
  BY <1>2, <1>3, <1>5 DEF DoMem
<1> QED
  BY <1>4, <1>5

LEMMA ControlKeeps ==
    ASSUME IInv, NEW p \in Pids, proc[p].st = "run", DoPrint(p) \/ DoControl(p)
    PROVE  IInv'
<1>1. Harmless(Passed(p)) /\ \A v : Harmless(Becomes(p, v))
  BY Tables DEF IInv
<1>2. CASE DoPrint(p)
  BY <1>1, <1>2, Kept DEF DoPrint
<1>3. CASE DoControl(p)
  <2>1. \E v : proc' = Becomes(p, v)
    BY <1>3 DEF DoControl
  <2> QED
    BY <1>1, <2>1, Kept
<1> QED
  BY <1>2, <1>3

LEMMA ExecKeeps ==
    ASSUME IInv, NEW p \in Pids, proc[p].st = "run", DoExec(p)
    PROVE  IInv'
<1>1. Harmless(proc')
  BY DEF DoExec, Harmless, IInv, Table, Fields
<1> QED
  BY <1>1, Kept

-----------------------------------------------------------------------------
LEMMA InitIInv == Init => IInv
<1> SUFFICES ASSUME Init PROVE IInv
  OBVIOUS
<1>1. \A p \in Pids :
         /\ DOMAIN proc[p] = Fields /\ proc[p].st \in {"none", "run"}
         /\ proc[p].ppid = 0 /\ proc[p].fds = {}
         /\ proc[p].st = "none" => proc[p].todo = <<>>
  BY DEF Init, NoProc, Fields
<1> QED
  BY <1>1, PidsPositive DEF Init, IInv, Table, ProcessTable

LEMMA StepIInv == IInv /\ [Next]_vars => IInv'
<1> SUFFICES ASSUME IInv, [Next]_vars PROVE IInv'
  OBVIOUS
<1>1. CASE UNCHANGED vars
  BY <1>1 DEF vars, IInv, Table, ProcessTable
<1>2. ASSUME NEW p \in Pids, Deliver(p) PROVE IInv'
  BY <1>2, DeliverKeeps
<1>3. ASSUME NEW p \in Pids, Ring(p) PROVE IInv'
  BY <1>3, RingKeeps
<1>4. ASSUME NEW p \in Pids, Turn(p) PROVE IInv'
  <2>1. proc[p].st = "run"
    BY <1>4 DEF Turn, At, DoFork, DoExec, DoExit, DoWait, DoKill, DoSignal, DoOpen, DoWrite,
       DoSend, DoRead, DoSendTo, DoRecvFrom, DoQueue, DoSem, DoMem, DoPrint, DoControl
  <2>2. CASE DoExit(p)
    BY <2>1, <2>2, Ending DEF DoExit
  <2> QED
    BY <1>4, <2>1, <2>2, ForkKeeps, ExecKeeps, WaitKeeps, KillKeeps, SignalKeeps, OpenKeeps,
       ChannelKeeps, QueueKeeps, StoreKeeps, ControlKeeps DEF Turn
<1> QED
  BY <1>1, <1>2, <1>3, <1>4 DEF Next

\* Whatever the programs call, the process table stays in order: only what runs
\* has calls to make or holds a pipe, semaphore or queue, and what has ended
\* stays a zombie only while its parent runs (fork, wait, exit, signals, exec).
THEOREM TableCorrect == Spec => []ProcessTable
<1>1. IInv => ProcessTable
  BY DEF IInv
<1> QED
  BY InitIInv, StepIInv, <1>1, PTL DEF Spec
-----------------------------------------------------------------------------
(* Types.  What a process has to do and the handlers it has set consist of *)
(* calls of its program, and of those that the system adds when a signal   *)
(* is delivered and when a process pauses.                                 *)

Known(call) == call \in Calls[program] \/ call.op \in {"mask", "paused"}

Code(s) == IsSeq(s) /\ \A i \in DOMAIN s : Known(s[i])

\* Everybody in table t has code to do and for handlers.
Coded(t) ==
    \A q \in Pids :
        /\ Code(t[q].todo)
        /\ \A s \in DOMAIN t[q].caught : Code(t[q].caught[s])

Channels == DOMAIN chan = Objects /\ \A c \in Objects : IsSeq(chan[c]) /\ Len(chan[c]) <= Capacity[c]

Semaphores == sem \in [Objects -> Int] /\ \A s \in Objects : sem[s] >= NoSem

Memories ==
    /\ DOMAIN mem = Objects
    /\ \A m \in Objects : /\ DOMAIN mem[m] = {"len", "cell"}
                          /\ mem[m].len \in 0..Cells /\ DOMAIN mem[m].cell = 0..Cells - 1

Output == DOMAIN out = Pids /\ \A p \in Pids : IsSeq(out[p])

TInv ==
    /\ IInv
    /\ program \in DOMAIN Scripts
    /\ Coded(proc) /\ Channels /\ Semaphores /\ Memories /\ Output

\* Sequences, whatever they are of

LEMMA SeqIs ==
    ASSUME NEW S, NEW s \in Seq(S)
    PROVE  IsSeq(s)
BY DEF IsSeq

LEMMA Singles ==
    /\ \A x : IsSeq(<<x>>) /\ Len(<<x>>) = 1
    /\ IsSeq(<<>>) /\ Len(<<>>) = 0 /\ DOMAIN <<>> = {}
<1>1. ASSUME NEW x PROVE IsSeq(<<x>>) /\ Len(<<x>>) = 1
  <2>1. <<x>> \in Seq({x})
    OBVIOUS
  <2> QED
    BY <2>1, SeqIs
<1>2. <<>> \in Seq({}) /\ Len(<<>>) = 0
  OBVIOUS
<1>3. IsSeq(<<>>)
  BY <1>2, SeqIs
<1>4. DOMAIN <<>> = 1..Len(<<>>)
  BY <1>2, LenProperties
<1>5. DOMAIN <<>> = {}
  BY <1>2, <1>4
<1> QED
  BY <1>1, <1>2, <1>3, <1>5

LEMMA Joined ==
    ASSUME NEW s, NEW t, IsSeq(s), IsSeq(t)
    PROVE  /\ IsSeq(s \o t) /\ Len(s \o t) = Len(s) + Len(t)
           /\ DOMAIN (s \o t) = 1..Len(s) + Len(t)
           /\ \A i \in 1..Len(s) : (s \o t)[i] = s[i]
           /\ \A i \in 1..Len(t) : (s \o t)[Len(s) + i] = t[i]
           /\ Len(s) \in Nat /\ Len(t) \in Nat /\ DOMAIN s = 1..Len(s) /\ DOMAIN t = 1..Len(t)
<1> DEFINE S == {s[i] : i \in DOMAIN s} \cup {t[i] : i \in DOMAIN t}
<1>1. s \in Seq(S) /\ t \in Seq(S)
  <2>1. s \in Seq({s[i] : i \in DOMAIN s}) /\ t \in Seq({t[i] : i \in DOMAIN t})
    BY DEF IsSeq
  <2>2. \A A, B : A \subseteq B => Seq(A) \subseteq Seq(B)
    OBVIOUS
  <2> QED
    BY <2>1, <2>2
<1> HIDE DEF S
<1>2. /\ s \o t \in Seq(S) /\ Len(s \o t) = Len(s) + Len(t)
      /\ \A i \in 1..Len(s) + Len(t) : (s \o t)[i] = IF i <= Len(s) THEN s[i] ELSE t[i - Len(s)]
  BY <1>1, ConcatProperties
<1>3. /\ Len(s) \in Nat /\ Len(t) \in Nat /\ DOMAIN s = 1..Len(s) /\ DOMAIN t = 1..Len(t)
      /\ DOMAIN (s \o t) = 1..Len(s \o t)
  BY <1>1, <1>2, LenProperties
<1>4. IsSeq(s \o t)
  BY <1>2, SeqIs
<1>5. \A i \in 1..Len(s) : (s \o t)[i] = s[i]
  BY <1>2, <1>3
<1>6. \A i \in 1..Len(t) : (s \o t)[Len(s) + i] = t[i]
  BY <1>2, <1>3
<1> QED
  BY <1>2, <1>3, <1>4, <1>5, <1>6

LEMMA Part ==
    ASSUME NEW s, IsSeq(s), NEW m \in Int, NEW n \in Int, 1 <= m, n <= Len(s), m <= n + 1
    PROVE  /\ IsSeq(SubSeq(s, m, n)) /\ Len(SubSeq(s, m, n)) = n - m + 1
           /\ DOMAIN SubSeq(s, m, n) = 1..n - m + 1
           /\ \A i \in 1..n - m + 1 : SubSeq(s, m, n)[i] = s[m + i - 1] /\ m + i - 1 \in DOMAIN s
<1>1. PICK S : s \in Seq(S)
  BY DEF IsSeq
<1>2. Len(s) \in Nat /\ DOMAIN s = 1..Len(s) /\ \A i \in 1..Len(s) : s[i] \in S
  BY <1>1, LenProperties, ElementOfSeq
<1>3. /\ SubSeq(s, m, n) \in Seq(S)
      /\ Len(SubSeq(s, m, n)) = IF m <= n THEN n - m + 1 ELSE 0
      /\ \A i \in 1..n - m + 1 : SubSeq(s, m, n)[i] = s[m + i - 1]
  BY <1>2, SubSeqProperties
<1>4. Len(SubSeq(s, m, n)) = n - m + 1
  BY <1>3
<1>5. IsSeq(SubSeq(s, m, n)) /\ DOMAIN SubSeq(s, m, n) = 1..n - m + 1
  BY <1>3, <1>4, SeqIs, LenProperties
<1> QED
  BY <1>2, <1>3, <1>4, <1>5

LEMMA Halves ==
    ASSUME NEW s, IsSeq(s), NEW k \in 0..Len(s)
    PROVE  /\ IsSeq(SubSeq(s, k + 1, Len(s))) /\ Len(SubSeq(s, k + 1, Len(s))) = Len(s) - k
           /\ IsSeq(SubSeq(s, 1, k)) /\ Len(SubSeq(s, 1, k)) = k
<1>1. Len(s) \in Nat
  BY Joined
<1>2. IsSeq(SubSeq(s, k + 1, Len(s))) /\ Len(SubSeq(s, k + 1, Len(s))) = Len(s) - k
  <2> DEFINE m == k + 1
  <2>1. m \in Int /\ 1 <= m /\ m <= Len(s) + 1 /\ Len(s) - m + 1 = Len(s) - k
    BY <1>1
  <2> HIDE DEF m
  <2>2. IsSeq(SubSeq(s, m, Len(s))) /\ Len(SubSeq(s, m, Len(s))) = Len(s) - m + 1
    BY <1>1, <2>1, Part
  <2> QED
    BY <2>1, <2>2 DEF m
<1>3. IsSeq(SubSeq(s, 1, k)) /\ Len(SubSeq(s, 1, k)) = k
  <2>1. IsSeq(SubSeq(s, 1, k)) /\ Len(SubSeq(s, 1, k)) = k - 1 + 1
    BY <1>1, Part
  <2> QED
    BY <2>1
<1> QED
  BY <1>2, <1>3

LEMMA Rest ==
    ASSUME NEW s, IsSeq(s), s # <<>>
    PROVE  /\ IsSeq(Tail(s)) /\ Len(Tail(s)) = Len(s) - 1 /\ Len(s) \in Nat /\ Len(s) > 0
           /\ Head(s) = s[1] /\ 1 \in DOMAIN s
           /\ \A i \in 1..Len(s) - 1 : Tail(s)[i] = s[i + 1] /\ i + 1 \in DOMAIN s
           /\ DOMAIN Tail(s) = 1..Len(s) - 1
<1>1. PICK S : s \in Seq(S)
  BY DEF IsSeq
<1>2. /\ Tail(s) \in Seq(S) /\ Len(Tail(s)) = Len(s) - 1
      /\ \A i \in 1..Len(Tail(s)) : Tail(s)[i] = s[i + 1]
  BY <1>1, HeadTailProperties
<1>3. Len(s) \in Nat \ {0} /\ DOMAIN s = 1..Len(s) /\ DOMAIN Tail(s) = 1..Len(Tail(s))
  BY <1>1, <1>2, LenProperties, EmptySeq
<1>4. IsSeq(Tail(s))
  BY <1>2, SeqIs, Zenon
<1>6. Head(s) = s[1]
  BY <1>1
<1>5. \A i \in 1..Len(s) - 1 : Tail(s)[i] = s[i + 1] /\ i + 1 \in DOMAIN s
  BY <1>2, <1>3
<1> QED
  BY <1>2, <1>3, <1>4, <1>5, <1>6

LEMMA CodeJoined ==
    ASSUME NEW s, NEW t, Code(s), Code(t)
    PROVE  Code(s \o t)
<1>1. IsSeq(s) /\ IsSeq(t)
  BY DEF Code
<1>2. ASSUME NEW i \in DOMAIN (s \o t) PROVE Known((s \o t)[i])
  <2>1. i \in 1..Len(s) \/ (i - Len(s) \in 1..Len(t) /\ i = Len(s) + (i - Len(s)))
    BY <1>1, Joined
  <2>2. CASE i \in 1..Len(s)
    BY <1>1, <2>2, Joined DEF Code
  <2>3. ASSUME NEW j \in 1..Len(t), i = Len(s) + j PROVE Known((s \o t)[i])
    BY <1>1, <2>3, Joined DEF Code
  <2> QED
    BY <2>1, <2>2, <2>3
<1> QED
  BY <1>1, <1>2, Joined DEF Code

LEMMA CodeRest ==
    ASSUME NEW s, Code(s), s # <<>>
    PROVE  Code(Tail(s)) /\ Known(Head(s))
BY Rest DEF Code

LEMMA CodeBasic ==
    /\ Code(<<>>)
    /\ \A S : Code(<<Mask(S)>>)
    /\ Code(<<Paused>>)
    /\ \A s \in Seq(Calls[program]) : Code(s)
<1>1. \A x : Known(x) => Code(<<x>>)
  BY Singles DEF Code
<1>2. Known(Paused) /\ \A S : Known(Mask(S))
  BY DEF Known, Paused, Mask
<1>3. Code(<<>>)
  BY Singles, Zenon DEF Code
<1>4. ASSUME NEW s \in Seq(Calls[program]) PROVE Code(s)
  BY SeqIs DEF Code, Known
<1> QED
  BY <1>1, <1>2, <1>3, <1>4

\* A call other than those the system adds is one of the program's.
LEMMA CallGiven ==
    ASSUME TInv, NEW p \in Pids, NEW op, At(p, op), op \notin {"mask", "paused"}
    PROVE  Now(p) \in Calls[program] /\ WellFormed(Now(p), Calls[program]) /\ Now(p).op = op
<1>1. Known(Now(p)) /\ Now(p).op = op
  BY CodeRest DEF TInv, Coded, At, Now
<1>2. Now(p) \in Calls[program]
  BY <1>1 DEF Known
<1> QED
  BY <1>1, <1>2, CallsAssumption DEF TInv

-----------------------------------------------------------------------------
\* What there is to do

LEMMA CodedLike ==
    ASSUME NEW t, NEW u, Coded(t),
           \A q \in Pids : /\ u[q].todo = t[q].todo \/ u[q].todo = <<>>
                           /\ u[q].caught = t[q].caught
    PROVE  Coded(u)
BY CodeBasic DEF Coded

LEMMA CodedNext ==
    ASSUME program' = program, Coded(proc')
    PROVE  Coded(proc)'
BY DEF Coded, Code, Known

LEMMA CodedTables ==
    ASSUME TInv, NEW p \in Pids, proc[p].todo # <<>>, NEW v
    PROVE  /\ Coded(Returned(p, v)) /\ Coded(Passed(p))
           /\ Code(v) => Coded(Becomes(p, v))
<1>1. Code(Tail(proc[p].todo))
  BY CodeRest DEF TInv, Coded
<1>2. Table(proc) /\ Coded(proc)
  BY DEF TInv, IInv
<1>3. Coded(Returned(p, v))
  <2>1. \A q \in Pids : /\ q # p => Returned(p, v)[q] = proc[q]
                        /\ Returned(p, v)[p].todo = Tail(proc[p].todo)
                        /\ Returned(p, v)[p].caught = proc[p].caught
    BY <1>2 DEF Returned, Table, Fields
  <2> QED
    BY <1>1, <1>2, <2>1 DEF Coded
<1>4. Coded(Passed(p))
  <2>1. \A q \in Pids : /\ q # p => Passed(p)[q] = proc[q]
                        /\ Passed(p)[p].todo = Tail(proc[p].todo)
                        /\ Passed(p)[p].caught = proc[p].caught
    BY <1>2 DEF Passed, Table, Fields
  <2> QED
    BY <1>1, <1>2, <2>1 DEF Coded
<1>5. ASSUME Code(v) PROVE Coded(Becomes(p, v))
  <2>1. \A q \in Pids : /\ q # p => Becomes(p, v)[q] = proc[q]
                        /\ Becomes(p, v)[p].todo = v
                        /\ Becomes(p, v)[p].caught = proc[p].caught
    BY <1>2 DEF Becomes, Table, Fields
  <2> QED
    BY <1>2, <1>5, <2>1 DEF Coded
<1> QED
  BY <1>3, <1>4, <1>5

\* A change of other entries
LEMMA CodedFurther ==
    ASSUME NEW p \in Pids, NEW t, Table(t), Coded(t), NEW v
    PROVE  /\ Coded([t EXCEPT ![p].mask = v])
           /\ Coded([t EXCEPT ![p].timer = v])
           /\ Coded([t EXCEPT ![p].fds = v])
           /\ Coded([t EXCEPT ![p].pending = v])
           /\ Coded([t EXCEPT ![p].st = v])
BY CodedLike DEF Table, Fields

LEMMA CodedEnding ==
    ASSUME TInv, NEW p \in Pids, NEW v
    PROVE  Coded(Ended(p, v))
<1>1. \A q \in Pids : /\ Ended(p, v)[q].todo = proc[q].todo \/ Ended(p, v)[q].todo = <<>>
                      /\ Ended(p, v)[q].caught = proc[q].caught
  BY DEF TInv, IInv, Table, Fields, Ended
<1> QED
  BY <1>1, CodedLike DEF TInv

LEMMA CodedFork ==
    ASSUME TInv, NEW p \in Pids, DoFork(p)
    PROVE  Coded(proc')
<1>1. At(p, "fork") /\ proc[p].todo # <<>>
  BY DEF DoFork, At
<1>2. Coded(Passed(p)) /\ Table(proc) /\ Table(Passed(p))
  BY <1>1, CodedTables, Tables DEF TInv, IInv, At, Harmless
<1>3. Code(Now(p).code)
  BY <1>1, CallGiven, CodeBasic DEF WellFormed
<1>4. CASE proc' = Passed(p)
  BY <1>2, <1>4
<1>5. ASSUME NEW q,
             proc' = [Passed(p) EXCEPT
                        ![q] = [proc[p] EXCEPT !.todo = Now(p).code, !.ppid = p,
                                  !.reg = <<>>, !.pending = {}, !.timer = FALSE]]
      PROVE  Coded(proc')
  <2>1. \A r \in Pids : r # q => proc'[r] = Passed(p)[r]
    BY <1>2, <1>5 DEF Table
  <2>2. q \in Pids => proc'[q].todo = Now(p).code /\ proc'[q].caught = proc[p].caught
    BY <1>2, <1>5 DEF Table, Fields
  <2> QED
    BY <1>2, <1>3, <2>1, <2>2 DEF Coded, TInv
<1> QED
  BY <1>4, <1>5 DEF DoFork

LEMMA CodedExec ==
    ASSUME TInv, NEW p \in Pids, DoExec(p)
    PROVE  Coded(proc')
<1>1. Code(Now(p).code)
  BY CallGiven, CodeBasic DEF WellFormed, DoExec
<1>2. /\ \A r \in Pids : r # p => proc'[r] = proc[r]
      /\ proc'[p].todo = Now(p).code /\ proc'[p].caught = <<>>
  BY DEF DoExec, TInv, IInv, Table, Fields
<1> QED
  BY <1>1, <1>2, Singles DEF Coded, TInv

LEMMA CodedWait ==
    ASSUME TInv, NEW p \in Pids, DoWait(p)
    PROVE  Coded(proc')
<1>1. proc[p].todo # <<>> /\ proc[p].st = "run"
  BY DEF DoWait, At
<1>2. \A v : Coded(Returned(p, v)) /\ Table(Returned(p, v))
  BY <1>1, CodedTables, Tables DEF TInv, IInv, Harmless
<1>3. ASSUME NEW q \in Pids, NEW v, proc' = [Returned(p, v) EXCEPT ![q].st = "gone"]
      PROVE  Coded(proc')
  BY <1>2, <1>3, CodedFurther
<1> QED
  BY <1>2, <1>3 DEF DoWait, Children

LEMMA CodedKill ==
    ASSUME TInv, NEW p \in Pids, DoKill(p)
    PROVE  Coded(proc')
<1>1. proc[p].todo # <<>> /\ proc[p].st = "run"
  BY DEF DoKill, At
<1>2. Coded(Passed(p)) /\ Table(Passed(p))
  BY <1>1, CodedTables, Tables DEF TInv, IInv, Harmless
<1>3. PICK hit : proc' = [q \in Pids |->
                       IF q \in hit /\ proc[q].st = "run"
                       THEN [Passed(p)[q] EXCEPT !.pending = @ \cup {Now(p).sig}]
                       ELSE Passed(p)[q]]
  BY DEF DoKill
<1>4. \A q \in Pids : proc'[q].todo = Passed(p)[q].todo /\ proc'[q].caught = Passed(p)[q].caught
  BY <1>2, <1>3 DEF Table, Fields
<1> QED
  BY <1>2, <1>4, CodedLike

LEMMA CodedSignal ==
    ASSUME TInv, NEW p \in Pids, DoSignal(p)
    PROVE  Coded(proc')
<1>1. proc[p].todo # <<>> /\ proc[p].st = "run"
  BY DEF DoSignal, At
<1>2. /\ Coded(Passed(p)) /\ Table(Passed(p)) /\ \A v : Coded(Returned(p, v))
      /\ \A v : Code(v) => Coded(Becomes(p, v))
  BY <1>1, CodedTables, Tables DEF TInv, IInv, Harmless
<1>3. Passed(p)[p].caught = proc[p].caught
  BY DEF TInv, IInv, Table, Fields, Passed
<1>4. ASSUME NEW caught, proc' = [Passed(p) EXCEPT ![p].caught = caught],
             \A s \in DOMAIN caught : Code(caught[s])
      PROVE  Coded(proc')
  <2>1. /\ \A r \in Pids : r # p => proc'[r] = Passed(p)[r]
        /\ proc'[p].todo = Passed(p)[p].todo /\ proc'[p].caught = caught
    BY <1>2, <1>4 DEF Table, Fields
  <2> QED
    BY <1>2, <1>4, <2>1 DEF Coded
<1>5. \A s \in DOMAIN proc[p].caught : Code(proc[p].caught[s])
  BY DEF TInv, Coded
<1>6. CASE At(p, "signal")
  <2> DEFINE caught == [s \in DOMAIN proc[p].caught \cup {Now(p).sig} |->
                          IF s = Now(p).sig THEN Now(p).code ELSE proc[p].caught[s]]
  <2>1. Code(Now(p).code)
    BY <1>6, CallGiven, CodeBasic DEF WellFormed
  <2>2. \A s \in DOMAIN caught : Code(caught[s])
    BY <1>5, <2>1
  <2>3. proc' = [Passed(p) EXCEPT ![p].caught = caught]
    BY <1>6 DEF DoSignal, At
  <2> HIDE DEF caught
  <2> QED
    BY <1>4, <2>2, <2>3
<1>7. CASE At(p, "default")
  <2> DEFINE caught == [s \in DOMAIN proc[p].caught \ {Now(p).sig} |-> proc[p].caught[s]]
  <2>1. \A s \in DOMAIN caught : Code(caught[s])
    BY <1>5
  <2>2. proc' = [Passed(p) EXCEPT ![p].caught = caught]
    BY <1>7 DEF DoSignal, At
  <2> HIDE DEF caught
  <2> QED
    BY <1>4, <2>1, <2>2
<1>8. CASE At(p, "pause")
  <2>1. Code(<<Paused>> \o Tail(proc[p].todo))
    BY <1>1, CodeRest, CodeJoined, CodeBasic DEF TInv, Coded
  <2>2. proc' = Becomes(p, <<Paused>> \o Tail(proc[p].todo))
    BY <1>8 DEF DoSignal, At
  <2> QED
    BY <1>2, <2>1, <2>2
<1>9. CASE \/ \E v : proc' = [Passed(p) EXCEPT ![p].mask = v]
           \/ \E v : proc' = [Passed(p) EXCEPT ![p].timer = v]
           \/ \E v : proc' = Returned(p, v)
           \/ proc' = Passed(p)
  <2>1. ASSUME NEW v, proc' = [Passed(p) EXCEPT ![p].mask = v] PROVE Coded(proc')
    BY <1>2, <2>1, CodedFurther, Zenon
  <2>2. ASSUME NEW v, proc' = [Passed(p) EXCEPT ![p].timer = v] PROVE Coded(proc')
    BY <1>2, <2>2, CodedFurther, Zenon
  <2> QED
    BY <1>2, <1>9, <2>1, <2>2, Zenon
<1> QED
  BY <1>6, <1>7, <1>8, <1>9 DEF DoSignal

LEMMA CodedDeliver ==
    ASSUME TInv, NEW p \in Pids, Deliver(p)
    PROVE  Coded(proc')
<1>1. PICK s : proc' = Taken(p, s, IF At(p, "paused") \/ At(p, "suspend") \/ At(p, "sleep")
                                   THEN Tail(proc[p].todo) ELSE proc[p].todo, proc[p].mask)
  BY DEF Deliver
<1> DEFINE rest == IF At(p, "paused") \/ At(p, "suspend") \/ At(p, "sleep")
                   THEN Tail(proc[p].todo) ELSE proc[p].todo
<1>2. Code(rest)
  BY CodeRest DEF TInv, Coded, At
<1> HIDE DEF rest
<1>3. proc' = Taken(p, s, rest, proc[p].mask)
  BY <1>1 DEF rest
<1>4. CASE s \in DOMAIN proc[p].caught
  <2> DEFINE code == proc[p].caught[s] \o <<Mask(proc[p].mask)>> \o rest
  <2>1. Code(code)
    BY <1>2, <1>4, CodeJoined, CodeBasic DEF TInv, Coded
  <2>2. proc' = [proc EXCEPT ![p].todo = code,
                             ![p].mask = proc[p].mask \cup {s}, ![p].pending = @ \ {s}]
    BY <1>3, <1>4 DEF Taken
  <2> HIDE DEF code
  <2>3. /\ \A r \in Pids : r # p => proc'[r] = proc[r]
        /\ proc'[p].todo = code /\ proc'[p].caught = proc[p].caught
    BY <2>2 DEF TInv, IInv, Table, Fields
  <2> QED
    BY <2>1, <2>3 DEF Coded, TInv
<1>5. CASE s \notin DOMAIN proc[p].caught
  BY <1>3, <1>5, CodedEnding DEF Taken
<1> QED
  BY <1>4, <1>5

LEMMA CodedOpen ==
    ASSUME TInv, NEW p \in Pids, DoOpen(p)
    PROVE  Coded(proc')
<1>1. \A q \in Pids : \A op : At(q, op) => Coded(Passed(q)) /\ Table(Passed(q))
  BY CodedTables, Tables DEF TInv, IInv, Harmless, At
<1>2. CASE At(p, "pipe") \/ At(p, "close")
  <2>1. \A v : Coded([Passed(p) EXCEPT ![p].fds = v])
    BY <1>1, <1>2, CodedFurther
  <2> QED
    BY <1>2, <2>1 DEF DoOpen, At
<1>3. CASE At(p, "open")
  <2>1. PICK partners \in SUBSET Pids :
           /\ \A q \in partners : At(q, "open")
           /\ proc' = [q \in Pids |->
                       IF q \in partners \cup {p}
                       THEN [Passed(q)[q] EXCEPT !.fds = @ \cup Now(q).ends]
                       ELSE proc[q]]
    BY <1>3 DEF DoOpen, At
  <2>2. ASSUME NEW q \in Pids
        PROVE  Code(proc'[q].todo) /\ \A s \in DOMAIN proc'[q].caught : Code(proc'[q].caught[s])
    <3>1. CASE q \in partners \cup {p}
      <4>1. Coded(Passed(q)) /\ Table(Passed(q))
        BY <1>1, <1>3, <2>1, <3>1
      <4>2. proc'[q].todo = Passed(q)[q].todo /\ proc'[q].caught = Passed(q)[q].caught
        BY <2>1, <3>1, <4>1 DEF Table, Fields
      <4> QED
        BY <4>1, <4>2 DEF Coded
    <3>2. CASE q \notin partners \cup {p}
      BY <2>1, <3>2 DEF TInv, Coded
    <3> QED
      BY <3>1, <3>2
  <2> QED
    BY <2>2 DEF Coded
<1> QED
  BY <1>2, <1>3 DEF DoOpen

LEMMA CodedBroken ==
    ASSUME TInv, NEW p \in Pids, proc[p].st = "run", proc[p].todo # <<>>
    PROVE  Coded(Broken(p))
<1>1. Coded(Returned(p, <<>>)) /\ Table(Returned(p, <<>>))
  BY CodedTables, Tables DEF TInv, IInv, Harmless
<1>2. \A v : Coded([Returned(p, <<>>) EXCEPT ![p].pending = v])
  BY <1>1, CodedFurther
<1> QED
  BY <1>2, CodedEnding DEF Broken

LEMMA CodedChannel ==
    ASSUME TInv, NEW p \in Pids,
           DoWrite(p) \/ DoSend(p) \/ DoRead(p) \/ DoSendTo(p) \/ DoRecvFrom(p)
    PROVE  Coded(proc')
<1>1. proc[p].todo # <<>> /\ proc[p].st = "run"
  BY DEF DoWrite, DoSend, DoRead, DoSendTo, DoRecvFrom, At
<1>2. /\ Coded(Passed(p)) /\ Coded(Broken(p))
      /\ \A v : Coded(Returned(p, v)) /\ Table(Returned(p, v))
  BY <1>1, CodedTables, CodedBroken, Tables DEF TInv, IInv, Harmless
<1>3. \A v, w : Coded([Returned(p, v) EXCEPT ![p].fds = w])
  BY <1>2, CodedFurther
<1>4. CASE DoWrite(p)
  <2>1. (\E v : proc' = Returned(p, v)) \/ proc' = Broken(p)
    BY <1>4, Zenon DEF DoWrite
  <2> QED
    BY <1>2, <2>1
<1>5. CASE DoSend(p)
  <2>1. \/ \E v : proc' = Returned(p, v)
        \/ proc' = Broken(p)
        \/ \E v, w : proc' = [Returned(p, v) EXCEPT ![p].fds = w]
    BY <1>5 DEF DoSend
  <2> QED
    BY <1>2, <1>3, <2>1
<1>6. CASE DoRead(p) \/ DoSendTo(p) \/ DoRecvFrom(p)
  BY <1>2, <1>6, Zenon DEF DoRead, DoSendTo, DoRecvFrom
<1> QED
  BY <1>4, <1>5, <1>6

LEMMA CodedQueue ==
    ASSUME TInv, NEW p \in Pids, DoQueue(p)
    PROVE  Coded(proc')
<1>1. proc[p].todo # <<>> /\ proc[p].st = "run"
  BY DEF DoQueue, At
<1>2. /\ Coded(Passed(p)) /\ Table(Passed(p))
      /\ \A v : Coded(Returned(p, v)) /\ Table(Returned(p, v))
  BY <1>1, CodedTables, Tables DEF TInv, IInv, Harmless
<1>3. ASSUME NEW q, NEW v, proc' = Notified(q, Returned(p, v))
      PROVE  Coded(proc')
  <2> DEFINE t == Returned(p, v)
  <2>1. Coded(t) /\ Table(t)
    BY <1>2
  <2> HIDE DEF t
  <2>2. proc' = t \/ proc' = [r \in Pids |-> IF <<q, "notify">> \in t[r].fds
                         THEN [t[r] EXCEPT !.fds = @ \ {<<q, "notify">>},
                                           !.pending = @ \cup {"USR1"}]
                         ELSE t[r]]
    BY <1>3, Zenon DEF Notified, t
  <2>3. \A r \in Pids : proc'[r].todo = t[r].todo /\ proc'[r].caught = t[r].caught
    BY <2>1, <2>2 DEF Table, Fields
  <2> QED
    BY <2>1, <2>3, CodedLike
<1>4. ASSUME NEW q, proc' = [r \in Pids |-> [Passed(p)[r] EXCEPT !.fds = @ \ {<<q, "q">>}]]
      PROVE  Coded(proc')
  <2>1. \A r \in Pids : proc'[r].todo = Passed(p)[r].todo /\ proc'[r].caught = Passed(p)[r].caught
    BY <1>2, <1>4 DEF Table, Fields
  <2> QED
    BY <1>2, <2>1, CodedLike
<1>5. \A v : Coded([Passed(p) EXCEPT ![p].fds = v])
  BY <1>2, CodedFurther
<1> QED
  BY <1>2, <1>3, <1>4, <1>5 DEF DoQueue

LEMMA CodedStore ==
    ASSUME TInv, NEW p \in Pids, DoSem(p) \/ DoMem(p)
    PROVE  Coded(proc')
<1>1. proc[p].todo # <<>> /\ proc[p].st = "run"
  BY DEF DoSem, DoMem, At
<1>2. /\ Coded(Passed(p)) /\ Table(Passed(p)) /\ \A v : Coded(Returned(p, v))
  BY <1>1, CodedTables, Tables DEF TInv, IInv, Harmless
<1>3. \A v : Coded([Passed(p) EXCEPT ![p].fds = v])
  BY <1>2, CodedFurther
<1>4. Coded(Ended(p, <<>>))
  BY CodedEnding
<1>5. CASE DoSem(p)
  BY <1>2, <1>3, <1>5 DEF DoSem
<1>6. CASE DoMem(p)
  BY <1>2, <1>4, <1>6 DEF DoMem
<1> QED
  BY <1>5, <1>6

LEMMA CodedControl ==
    ASSUME TInv, NEW p \in Pids, DoPrint(p) \/ DoControl(p)
    PROVE  Coded(proc')
<1> DEFINE todo == proc[p].todo
<1>1. todo # <<>> /\ Code(todo) /\ Code(Tail(todo)) /\ IsSeq(todo)
  BY CodeRest DEF TInv, Coded, Code, DoPrint, DoControl, At
<1>2. \A v : Coded(Passed(p)) /\ (Code(v) => Coded(Becomes(p, v)))
  BY <1>1, CodedTables
<1>3. CASE DoPrint(p)
  BY <1>2, <1>3 DEF DoPrint
<1>4. CASE At(p, "loop") /\ DoControl(p)
  <2>1. Code(Now(p).code)
    BY <1>4, CallGiven, CodeBasic DEF WellFormed
  <2>2. proc' = Becomes(p, Now(p).code \o todo)
    BY <1>4 DEF DoControl, At
  <2> QED
    BY <1>1, <1>2, <2>1, <2>2, CodeJoined
<1>5. CASE At(p, "if") /\ DoControl(p)
  <2>1. Code(Now(p).yes) /\ Code(Now(p).no)
    BY <1>5, CallGiven, CodeBasic DEF WellFormed
  <2>2. \/ proc' = Becomes(p, Now(p).yes \o Tail(todo))
        \/ proc' = Becomes(p, Now(p).no \o Tail(todo))
    BY <1>5 DEF DoControl, At
  <2> QED
    BY <1>1, <1>2, <2>1, <2>2, CodeJoined
<1>6. CASE At(p, "either") /\ DoControl(p)
  <2>1. Code(Now(p).one) /\ Code(Now(p).other)
    BY <1>6, CallGiven, CodeBasic DEF WellFormed
  <2>2. \/ proc' = Becomes(p, Now(p).one \o Tail(todo))
        \/ proc' = Becomes(p, Now(p).other \o Tail(todo))
    BY <1>6 DEF DoControl, At
  <2> QED
    BY <1>1, <1>2, <2>1, <2>2, CodeJoined
<1>7. CASE At(p, "break") /\ DoControl(p)
  <2>1. PICK i \in DOMAIN todo : proc' = Becomes(p, SubSeq(todo, i + 1, Len(todo)))
    BY <1>7 DEF DoControl, At
  <2>2. i \in 1..Len(todo) /\ Len(todo) \in Nat
    BY <1>1, Rest
  <2>3. Code(SubSeq(todo, i + 1, Len(todo)))
    BY <1>1, <2>2, Part DEF Code
  <2> QED
    BY <1>2, <2>1, <2>3
<1> QED
  BY <1>3, <1>4, <1>5, <1>6, <1>7 DEF DoControl

-----------------------------------------------------------------------------
\* What there is in pipes, queues, semaphores and memories, and on the screen

LEMMA ChannelSet ==
    ASSUME Channels, NEW c, NEW s, IsSeq(s), c \in Objects => Len(s) <= Capacity[c],
           chan' = [chan EXCEPT ![c] = s]
    PROVE  Channels'
<1>1. DOMAIN chan' = Objects
  BY DEF Channels
<1>2. ASSUME NEW d \in Objects PROVE IsSeq(chan'[d]) /\ Len(chan'[d]) <= Capacity[d]
  BY DEF Channels
<1> QED
  BY <1>1, <1>2 DEF Channels

\* A channel keeps what it is if a part of it goes.
LEMMA ChannelLess ==
    ASSUME Channels, NEW c, NEW s,
           c \in Objects => IsSeq(s) /\ Len(s) \in Nat /\ Len(s) <= Len(chan[c]),
           chan' = [chan EXCEPT ![c] = s]
    PROVE  Channels'
<1>1. CASE c \in Objects
  <2>1. IsSeq(chan[c]) /\ Len(chan[c]) <= Capacity[c] /\ Capacity[c] \in Nat
    BY <1>1, SystemAssumption DEF Channels
  <2>2. Len(chan[c]) \in Nat
    BY <2>1, Joined
  <2>3. Len(s) <= Capacity[c]
    BY <1>1, <2>1, <2>2
  <2> QED
    BY <1>1, <2>3, ChannelSet
<1>2. CASE c \notin Objects
  BY <1>2 DEF Channels
<1> QED
  BY <1>1, <1>2

\* What is added fits in.
LEMMA ChannelMore ==
    ASSUME Channels, NEW c, NEW d, IsSeq(d), Len(chan[c]) + Len(d) <= Capacity[c],
           chan' = [chan EXCEPT ![c] = @ \o d]
    PROVE  Channels'
<1>1. CASE c \in Objects
  <2>1. IsSeq(chan[c] \o d) /\ Len(chan[c] \o d) = Len(chan[c]) + Len(d)
    BY <1>1, Joined DEF Channels
  <2>2. chan' = [chan EXCEPT ![c] = chan[c] \o d]
    OBVIOUS
  <2> QED
    BY <2>1, <2>2, ChannelSet
<1>2. CASE c \notin Objects
  BY <1>2 DEF Channels
<1> QED
  BY <1>1, <1>2

LEMMA ChannelKinds ==
    ASSUME TInv, NEW p \in Pids,
           DoWrite(p) \/ DoSend(p) \/ DoRead(p) \/ DoSendTo(p) \/ DoRecvFrom(p) \/ DoQueue(p)
    PROVE  Channels'
<1>1. Channels
  BY DEF TInv
<1>2. UNCHANGED chan => Channels'
  BY <1>1 DEF Channels
<1> DEFINE c == Now(p).c
           s == chan[Now(p).c]
<1>3. c \in Objects => IsSeq(s) /\ Len(s) \in Nat
  BY <1>1, Joined DEF Channels
<1>4. CASE DoWrite(p)
  <2> DEFINE d == IF At(p, "write") THEN Now(p).data ELSE Now(p).map[proc[p].reg]
  <2>1. \A op \in {"write", "reply"} : At(p, op) => WellFormed(Now(p), Calls[program]) /\ Now(p).op = op
    BY CallGiven
  <2>2. IsSeq(d)
    BY <1>4, <2>1 DEF WellFormed, DoWrite
  <2>3. \/ UNCHANGED chan
        \/ Len(chan[c]) + Len(d) <= Capacity[c] /\ chan' = [chan EXCEPT ![c] = @ \o d]
    BY <1>4 DEF DoWrite
  <2> HIDE DEF c, d
  <2> QED
    BY <1>1, <1>2, <2>2, <2>3, ChannelMore
<1>5. CASE DoSend(p)
  <2>1. IsSeq(Now(p).data)
    BY <1>5, CallGiven DEF WellFormed, DoSend
  <2>2. \/ UNCHANGED chan
        \/ Len(chan[c]) + Len(Now(p).data) <= Capacity[c] /\ chan' = [chan EXCEPT ![c] = @ \o Now(p).data]
    BY <1>5 DEF DoSend
  <2> HIDE DEF c
  <2> QED
    BY <1>1, <1>2, <2>1, <2>2, ChannelMore
<1>6. CASE DoRead(p)
  <2>1. ASSUME NEW k \in 1..(IF Now(p).n < Len(s) THEN Now(p).n ELSE Len(s)),
               chan' = [chan EXCEPT ![c] = SubSeq(s, k + 1, Len(s))]
        PROVE  Channels'
    <3>1. c \in Objects => k \in Nat /\ 1 <= k /\ k <= Len(s)
      <4>1. Now(p).n \in Nat
        BY <1>6, CallGiven DEF WellFormed, DoRead
      <4> QED
        BY <1>3, <4>1
    <3>2. c \in Objects => k \in 0..Len(s) /\ Len(s) - k \in Nat /\ Len(s) - k <= Len(s)
      BY <1>3, <3>1
    <3>3. c \in Objects => /\ IsSeq(SubSeq(s, k + 1, Len(s)))
                           /\ Len(SubSeq(s, k + 1, Len(s))) = Len(s) - k
      BY <1>3, <3>2, Halves
    <3> QED
      BY <1>1, <2>1, <3>2, <3>3, ChannelLess
  <2>2. \/ UNCHANGED chan
        \/ \E k \in 1..(IF Now(p).n < Len(s) THEN Now(p).n ELSE Len(s)) :
              chan' = [chan EXCEPT ![c] = SubSeq(s, k + 1, Len(s))]
    BY <1>6 DEF DoRead
  <2> QED
    BY <1>2, <2>1, <2>2
<1>7. CASE DoSendTo(p)
  <2> DEFINE d == IF At(p, "sendto") THEN <<Now(p).c, Now(p).msg>>
                  ELSE Now(p).map[proc[p].reg]
  <2>1. \E k \in 0..2 : /\ Len(chan[d[1]]) + k <= Capacity[d[1]]
                        /\ chan' = [chan EXCEPT ![d[1]] = @ \o [i \in 1..k |-> d[2]]]
    BY <1>7 DEF DoSendTo
  <2> HIDE DEF d
  <2> PICK k \in 0..2 : /\ Len(chan[d[1]]) + k <= Capacity[d[1]]
                        /\ chan' = [chan EXCEPT ![d[1]] = @ \o [i \in 1..k |-> d[2]]]
    BY <2>1
  <2> DEFINE t == [i \in 1..k |-> d[2]]
  <2>2. t \in Seq({d[2]}) /\ Len(t) = k
    OBVIOUS
  <2>3. IsSeq(t)
    BY <2>2, SeqIs
  <2> HIDE DEF t
  <2> QED
    BY <1>1, <2>2, <2>3, ChannelMore DEF t
<1>8. CASE DoRecvFrom(p)
  <2>1. PICK i \in DOMAIN s : chan' = [chan EXCEPT ![c] = SubSeq(s, 1, i - 1) \o SubSeq(s, i + 1, Len(s))]
    BY <1>8 DEF DoRecvFrom
  <2> DEFINE t == SubSeq(s, 1, i - 1) \o SubSeq(s, i + 1, Len(s))
  <2>2. ASSUME c \in Objects PROVE IsSeq(t) /\ Len(t) \in Nat /\ Len(t) <= Len(s)
    <3>1. i \in 1..Len(s)
      BY <1>3, <2>2, Joined
    <3>2. /\ IsSeq(SubSeq(s, 1, i - 1)) /\ Len(SubSeq(s, 1, i - 1)) = i - 1
          /\ IsSeq(SubSeq(s, i + 1, Len(s))) /\ Len(SubSeq(s, i + 1, Len(s))) = Len(s) - i
      <4>1. i - 1 \in 0..Len(s) /\ i \in 0..Len(s)
        BY <1>3, <2>2, <3>1
      <4> QED
        BY <1>3, <2>2, <4>1, Halves
    <3>3. IsSeq(t) /\ Len(t) = (i - 1) + (Len(s) - i)
      BY <3>2, Joined
    <3>4. (i - 1) + (Len(s) - i) \in Nat /\ (i - 1) + (Len(s) - i) <= Len(s)
      BY <1>3, <2>2, <3>1
    <3> QED
      BY <3>3, <3>4
  <2> HIDE DEF t
  <2> QED
    BY <1>1, <2>1, <2>2, ChannelLess DEF t
<1>9. CASE DoQueue(p)
  <2>1. ASSUME Len(s) < Capacity[c], chan' = [chan EXCEPT ![c] = Append(s, Now(p).msg)]
        PROVE  Channels'
    <3>1. CASE c \in Objects
      <4>1. PICK S : s \in Seq(S)
        BY <1>3, <3>1 DEF IsSeq
      <4>2. s \in Seq(S \cup {Now(p).msg}) /\ Now(p).msg \in S \cup {Now(p).msg}
        BY <4>1, SeqMonotonic
      <4>3. Append(s, Now(p).msg) \in Seq(S \cup {Now(p).msg}) /\ Len(Append(s, Now(p).msg)) = Len(s) + 1
        BY <4>2, AppendProperties
      <4>4. IsSeq(Append(s, Now(p).msg))
        BY <4>3, SeqIs
      <4>5. Len(s) + 1 <= Capacity[c]
        BY <1>3, <2>1, <3>1, SystemAssumption
      <4> QED
        BY <1>1, <2>1, <4>3, <4>4, <4>5, ChannelSet
    <3>2. CASE c \notin Objects
      BY <1>1, <2>1, <3>2 DEF Channels
    <3> QED
      BY <3>1, <3>2
  <2>2. ASSUME s # <<>>, chan' = [chan EXCEPT ![c] = Tail(s)]
        PROVE  Channels'
    <3>1. c \in Objects => IsSeq(Tail(s)) /\ Len(Tail(s)) = Len(s) - 1 /\ Len(s) > 0
      BY <1>3, <2>2, Rest
    <3>2. c \in Objects => Len(Tail(s)) \in Nat /\ Len(Tail(s)) <= Len(s)
      BY <1>3, <3>1
    <3> QED
      BY <1>1, <2>2, <3>1, <3>2, ChannelLess
  <2>3. ASSUME chan' = [chan EXCEPT ![c] = <<>>]
        PROVE  Channels'
    <3>1. c \in Objects => Len(<<>>) <= Capacity[c]
      BY Singles, SystemAssumption
    <3> QED
      BY <1>1, <2>3, <3>1, Singles, ChannelSet
  <2>4. \/ UNCHANGED chan
        \/ Len(s) < Capacity[c] /\ chan' = [chan EXCEPT ![c] = Append(s, Now(p).msg)]
        \/ s # <<>> /\ chan' = [chan EXCEPT ![c] = Tail(s)]
        \/ chan' = [chan EXCEPT ![c] = <<>>]
    BY <1>9 DEF DoQueue
  <2> QED
    BY <1>2, <2>1, <2>2, <2>3, <2>4
<1> QED
  BY <1>4, <1>5, <1>6, <1>7, <1>8, <1>9

LEMMA SemaphoreKinds ==
    ASSUME TInv, NEW p \in Pids, DoSem(p)
    PROVE  Semaphores'
<1>1. Semaphores
  BY DEF TInv
<1>2. ASSUME NEW s, NEW v, v \in Int /\ v >= NoSem, sem' = [sem EXCEPT ![s] = v]
      PROVE  Semaphores'
  BY <1>1, <1>2 DEF Semaphores
<1>3. CASE At(p, "semopen") /\ DoSem(p)
  <2>1. Now(p).val \in Nat
    BY <1>3, CallGiven DEF WellFormed
  <2>2. sem' = [sem EXCEPT ![Now(p).s] = IF @ = NoSem THEN Now(p).val ELSE @]
    BY <1>3 DEF DoSem, At
  <2> DEFINE v == IF sem[Now(p).s] = NoSem THEN Now(p).val ELSE sem[Now(p).s]
  <2>3. CASE Now(p).s \in Objects
    <3>1. v \in Int /\ v >= NoSem
      BY <1>1, <2>1, <2>3 DEF Semaphores, NoSem
    <3>2. sem' = [sem EXCEPT ![Now(p).s] = v]
      BY <2>2
    <3> HIDE DEF v
    <3> QED
      BY <1>2, <3>1, <3>2
  <2>4. CASE Now(p).s \notin Objects
    BY <1>1, <2>2, <2>4 DEF Semaphores
  <2> QED
    BY <2>3, <2>4
<1>4. CASE At(p, "semunlink") /\ DoSem(p)
  <2>1. sem' = sem \/ sem' = [sem EXCEPT ![Now(p).s] = NoSem] \/ sem' = [sem EXCEPT ![Now(p).s] = @]
    BY <1>4 DEF DoSem, At
  <2> QED
    BY <1>1, <2>1 DEF Semaphores, NoSem
<1>5. CASE At(p, "semop") /\ DoSem(p)
  <2>1. Now(p).by \in Int
    BY <1>5, CallGiven DEF WellFormed
  <2>2. sem[Now(p).s] + Now(p).by >= 0 /\ sem' = [sem EXCEPT ![Now(p).s] = @ + Now(p).by]
    BY <1>5 DEF DoSem, At
  <2>3. CASE Now(p).s \in Objects
    <3> DEFINE v == sem[Now(p).s] + Now(p).by
    <3>1. v \in Int /\ v >= NoSem
      BY <1>1, <2>1, <2>2, <2>3 DEF Semaphores, NoSem
    <3>2. sem' = [sem EXCEPT ![Now(p).s] = v]
      BY <2>2
    <3> HIDE DEF v
    <3> QED
      BY <1>2, <3>1, <3>2
  <2>4. CASE Now(p).s \notin Objects
    BY <1>1, <2>2, <2>4 DEF Semaphores
  <2> QED
    BY <2>3, <2>4
<1>6. CASE At(p, "setval") /\ DoSem(p)
  <2>1. Now(p).val \in Nat
    BY <1>6, CallGiven DEF WellFormed
  <2>2. sem' = [sem EXCEPT ![Now(p).s] = Now(p).val]
    BY <1>6 DEF DoSem, At
  <2>3. Now(p).val \in Int /\ Now(p).val >= NoSem
    BY <2>1 DEF NoSem
  <2> QED
    BY <1>2, <2>2, <2>3
<1>7. CASE UNCHANGED sem
  BY <1>1, <1>7 DEF Semaphores
<1> QED
  BY <1>3, <1>4, <1>5, <1>6, <1>7 DEF DoSem

LEMMA MemoryKinds ==
    ASSUME TInv, NEW p \in Pids, DoMem(p)
    PROVE  Memories'
<1>1. Memories
  BY DEF TInv
<1>2. CASE At(p, "resize") /\ DoMem(p)
  <2>1. Now(p).n \in 0..Cells
    BY <1>2, CallGiven DEF WellFormed
  <2>2. PICK f : /\ mem' = [mem EXCEPT ![Now(p).m] = [len |-> Now(p).n, cell |-> f]]
                 /\ DOMAIN f = 0..Cells - 1
    <3> DEFINE f == [i \in 0..Cells - 1 |->
                       IF i < mem[Now(p).m].len /\ i < Now(p).n THEN mem[Now(p).m].cell[i] ELSE 0]
    <3>1. mem' = [mem EXCEPT ![Now(p).m] = [len |-> Now(p).n, cell |-> f]]
      BY <1>2 DEF DoMem, At
    <3>2. DOMAIN f = 0..Cells - 1
      OBVIOUS
    <3> HIDE DEF f
    <3> QED
      BY <3>1, <3>2
  <2> QED
    BY <1>1, <2>1, <2>2 DEF Memories
<1>3. CASE UNCHANGED mem
  BY <1>1, <1>3 DEF Memories
<1>4. ASSUME NEW m, NEW i, NEW v, mem' = [mem EXCEPT ![m].cell[i] = v]
      PROVE  Memories'
  BY <1>1, <1>4 DEF Memories
<1> QED
  BY <1>2, <1>3, <1>4 DEF DoMem

LEMMA OutputKinds ==
    ASSUME TInv, NEW p \in Pids, DoPrint(p)
    PROVE  Output'
<1>1. PICK v : out' = [out EXCEPT ![p] = Append(@, v)]
  BY DEF DoPrint
<1>2. PICK S : out[p] \in Seq(S)
  BY DEF TInv, Output, IsSeq
<1>3. Append(out[p], v) \in Seq(S \cup {v})
  BY <1>2, SeqMonotonic, AppendProperties
<1>4. IsSeq(Append(out[p], v))
  BY <1>3, SeqIs
<1> QED
  BY <1>1, <1>4 DEF TInv, Output

-----------------------------------------------------------------------------
LEMMA InitTInv == Init => TInv
<1> SUFFICES ASSUME Init PROVE TInv
  OBVIOUS
<1>1. program \in DOMAIN Scripts
  BY DEF Init
<1>2. ASSUME NEW q \in Pids
      PROVE  Code(proc[q].todo) /\ \A s \in DOMAIN proc[q].caught : Code(proc[q].caught[s])
  <2>1. proc[q].caught = <<>> /\ proc[q].todo \in {<<>>} \cup {Scripts[program][p] : p \in DOMAIN Scripts[program]}
    BY <1>2 DEF Init, NoProc
  <2>2. \A p \in DOMAIN Scripts[program] : Code(Scripts[program][p])
    BY <1>1, CallsAssumption, CodeBasic
  <2>3. DOMAIN proc[q].caught = {}
    BY <2>1, Singles
  <2> QED
    BY <2>1, <2>2, <2>3, CodeBasic
<1>3. Channels
  <2>1. chan = [c \in Objects |-> <<>>]
    BY DEF Init
  <2>2. \A c \in Objects : Len(<<>>) <= Capacity[c]
    BY Singles, SystemAssumption
  <2> QED
    BY <2>1, <2>2, Singles DEF Channels
<1>4. Semaphores
  <2>1. NoSem \in Int /\ NoSem >= NoSem
    BY DEF NoSem
  <2>2. sem = [s \in Objects |-> NoSem]
    BY DEF Init
  <2> QED
    BY <2>1, <2>2 DEF Semaphores
<1>5. Memories
  <2>1. 0 \in 0..Cells
    BY SystemAssumption
  <2> QED
    BY <2>1 DEF Init, Memories
<1>6. Output
  BY Singles DEF Init, Output
<1> QED
  BY <1>1, <1>2, <1>3, <1>4, <1>5, <1>6, InitIInv DEF TInv, Coded

LEMMA StepTInv == TInv /\ [Next]_vars => TInv'
<1> SUFFICES ASSUME TInv, [Next]_vars PROVE TInv'
  OBVIOUS
<1>1. IInv' /\ program' = program
  <2>1. IInv'
    BY StepIInv DEF TInv
  <2>2. program' = program
    BY DEF Next, Turn, Deliver, Ring, vars
  <2> QED
    BY <2>1, <2>2
<1>2. Coded(proc)'
  <2>1. Coded(proc')
    <3>1. CASE UNCHANGED vars
      BY <3>1 DEF vars, TInv
    <3>2. ASSUME NEW p \in Pids, Ring(p) PROVE Coded(proc')
      <4>1. \A q \in Pids : proc'[q].todo = proc[q].todo /\ proc'[q].caught = proc[q].caught
        BY <3>2 DEF Ring, TInv, IInv, Table, Fields
      <4> QED
        BY <4>1, CodedLike DEF TInv
    <3>3. ASSUME NEW p \in Pids, DoExit(p) PROVE Coded(proc')
      BY <3>3, CodedEnding DEF DoExit
    <3>4. ASSUME NEW p \in Pids, Turn(p) PROVE Coded(proc')
      BY <3>3, <3>4, CodedFork, CodedExec, CodedWait, CodedKill, CodedSignal, CodedOpen,
         CodedChannel, CodedQueue, CodedStore, CodedControl DEF Turn
    <3> QED
      BY <3>1, <3>2, <3>4, CodedDeliver DEF Next
  <2> QED
    BY <1>1, <2>1, CodedNext
<1>3. Channels'
  <2>1. CASE UNCHANGED chan
    BY <2>1 DEF TInv, Channels
  <2>2. ASSUME NEW p \in Pids, Turn(p) PROVE Channels'
    BY <2>1, <2>2, ChannelKinds DEF Turn, DoFork, DoExec, DoExit, DoWait, DoKill, DoSignal,
       DoOpen, DoSem, DoMem, DoPrint, DoControl
  <2> QED
    BY <2>1, <2>2 DEF Next, Deliver, Ring, vars
<1>4. Semaphores'
  <2>1. CASE UNCHANGED sem
    BY <2>1 DEF TInv, Semaphores
  <2>2. ASSUME NEW p \in Pids, Turn(p) PROVE Semaphores'
    BY <2>1, <2>2, SemaphoreKinds DEF Turn, DoFork, DoExec, DoExit, DoWait, DoKill, DoSignal,
       DoOpen, DoWrite, DoSend, DoRead, DoSendTo, DoRecvFrom, DoQueue, DoMem, DoPrint, DoControl
  <2> QED
    BY <2>1, <2>2 DEF Next, Deliver, Ring, vars
<1>5. Memories'
  <2>1. CASE UNCHANGED mem
    BY <2>1 DEF TInv, Memories
  <2>2. ASSUME NEW p \in Pids, Turn(p) PROVE Memories'
    BY <2>1, <2>2, MemoryKinds DEF Turn, DoFork, DoExec, DoExit, DoWait, DoKill, DoSignal,
       DoOpen, DoWrite, DoSend, DoRead, DoSendTo, DoRecvFrom, DoQueue, DoSem, DoPrint, DoControl
  <2> QED
    BY <2>1, <2>2 DEF Next, Deliver, Ring, vars
<1>6. Output'
  <2>1. CASE UNCHANGED out
    BY <2>1 DEF TInv, Output
  <2>2. ASSUME NEW p \in Pids, Turn(p) PROVE Output'
    BY <2>1, <2>2, OutputKinds DEF Turn, DoFork, DoExec, DoExit, DoWait, DoKill, DoSignal,
       DoOpen, DoWrite, DoSend, DoRead, DoSendTo, DoRecvFrom, DoQueue, DoSem, DoMem, DoControl
  <2> QED
    BY <2>1, <2>2 DEF Next, Deliver, Ring, vars
<1> QED
  BY <1>1, <1>2, <1>3, <1>4, <1>5, <1>6 DEF TInv

\* Whatever well-formed calls the programs consist of: besides the process
\* table, no pipe, queue or connection holds more than it can, no semaphore
\* drops below zero, and no memory is longer than its page.
THEOREM TypeCorrect == Spec => []TypeOK
<1>1. TInv => TypeOK
  BY DEF TInv, TypeOK, IInv, Channels, Semaphores, Memories
<1> QED
  BY InitTInv, StepTInv, <1>1, PTL DEF Spec

-----------------------------------------------------------------------------
(* Single calls of a process that runs a script: what is left of the       *)
(* script, and what a turn does to the process, the others and the objects.*)

\* What is left of s from entry k on.
From(s, k) == SubSeq(s, k, Len(s))

-----------------------------------------------------------------------------
\* Scripts

LEMMA Onward ==
    ASSUME NEW s, IsSeq(s), NEW k \in 1..Len(s)
    PROVE  /\ From(s, k) # <<>> /\ Head(From(s, k)) = s[k]
           /\ Tail(From(s, k)) = From(s, k + 1)
<1>1. PICK S : s \in Seq(S)
  BY DEF IsSeq
<1>2. Len(s) \in Nat
  BY <1>1, LenProperties
<1>3. From(s, k) \in Seq(S) /\ Len(From(s, k)) = Len(s) - k + 1 /\ From(s, k)[1] = s[k]
  BY <1>1, <1>2, SubSeqProperties DEF From
<1>4. Head(From(s, k)) = s[k] /\ Tail(From(s, k)) = From(s, k + 1)
  BY <1>1, <1>2, HeadTailOfSubSeq DEF From
<1>5. From(s, k) # <<>>
  BY <1>2, <1>3
<1> QED
  BY <1>4, <1>5

LEMMA Ends ==
    ASSUME NEW s, IsSeq(s)
    PROVE  From(s, Len(s) + 1) = <<>> /\ From(s, 1) = s
<1>1. PICK S : s \in Seq(S)
  BY DEF IsSeq
<1>2. Len(s) \in Nat
  BY <1>1, LenProperties
<1>3. SubSeq(s, 1, Len(s)) = s
  BY <1>1, SubSeqFull
<1>4. SubSeq(s, Len(s) + 1, Len(s)) = <<>>
  BY <1>1, <1>2, SubSeqEmpty
<1> QED
  BY <1>3, <1>4 DEF From

\* s is n rounds of two calls, of three, or of four.
Cycle2(s, n, x, y) ==
    /\ IsSeq(s) /\ Len(s) = 2 * n
    /\ \A i \in 0..n - 1 : s[2 * i + 1] = x /\ s[2 * i + 2] = y
Cycle3(s, n, x, y, z) ==
    /\ IsSeq(s) /\ Len(s) = 3 * n
    /\ \A i \in 0..n - 1 : s[3 * i + 1] = x /\ s[3 * i + 2] = y /\ s[3 * i + 3] = z
Cycle4(s, n, x, y, z, u) ==
    /\ IsSeq(s) /\ Len(s) = 4 * n
    /\ \A i \in 0..n - 1 : /\ s[4 * i + 1] = x /\ s[4 * i + 2] = y
                           /\ s[4 * i + 3] = z /\ s[4 * i + 4] = u

LEMMA Rounds2 ==
    ASSUME NEW x, NEW y, NEW n \in Nat
    PROVE  Cycle2(Times(n, <<x, y>>), n, x, y)
<1> DEFINE code == <<x, y>>
           s == Times(n, code)
<1>1. Len(code) = 2 /\ code[1] = x /\ code[2] = y
  OBVIOUS
<1>2. s = [i \in 1..n * 2 |-> code[1 + ((i - 1) % 2)]]
  BY <1>1 DEF Times
<1> HIDE DEF code
<1>3. \A i \in 1..n * 2 : code[1 + ((i - 1) % 2)] \in {x, y}
  BY <1>1
<1>4. s \in Seq({x, y}) /\ Len(s) = n * 2
  BY <1>2, <1>3, LenProperties
<1>5. ASSUME NEW i \in 0..n - 1
      PROVE  s[2 * i + 1] = x /\ s[2 * i + 2] = y
  <2>1. (2 * i) % 2 = 0 /\ (2 * i + 1) % 2 = 1
    OBVIOUS
  <2>2. s[2 * i + 1] = code[1 + ((2 * i) % 2)]
    BY <1>2
  <2>3. s[2 * i + 2] = code[1 + ((2 * i + 1) % 2)]
    BY <1>2
  <2> QED
    BY <1>1, <2>1, <2>2, <2>3
<1>6. IsSeq(s)
  BY <1>4, SeqIs
<1>7. Cycle2(s, n, x, y)
  BY <1>4, <1>5, <1>6 DEF Cycle2
<1> QED
  BY <1>7 DEF code

LEMMA Rounds3 ==
    ASSUME NEW x, NEW y, NEW z, NEW n \in Nat
    PROVE  Cycle3(Times(n, <<x, y, z>>), n, x, y, z)
<1> DEFINE code == <<x, y, z>>
           s == Times(n, code)
<1>1. Len(code) = 3 /\ code[1] = x /\ code[2] = y /\ code[3] = z
  OBVIOUS
<1>2. s = [i \in 1..n * 3 |-> code[1 + ((i - 1) % 3)]]
  BY <1>1 DEF Times
<1> HIDE DEF code
<1>3. \A i \in 1..n * 3 : code[1 + ((i - 1) % 3)] \in {x, y, z}
  BY <1>1
<1>4. s \in Seq({x, y, z}) /\ Len(s) = n * 3
  BY <1>2, <1>3, LenProperties
<1>5. ASSUME NEW i \in 0..n - 1
      PROVE  s[3 * i + 1] = x /\ s[3 * i + 2] = y /\ s[3 * i + 3] = z
  <2>1. (3 * i) % 3 = 0 /\ (3 * i + 1) % 3 = 1 /\ (3 * i + 2) % 3 = 2
    OBVIOUS
  <2>2. s[3 * i + 1] = code[1 + ((3 * i) % 3)]
    BY <1>2
  <2>3. s[3 * i + 2] = code[1 + ((3 * i + 1) % 3)]
    BY <1>2
  <2>4. s[3 * i + 3] = code[1 + ((3 * i + 2) % 3)]
    BY <1>2
  <2> QED
    BY <1>1, <2>1, <2>2, <2>3, <2>4
<1>6. IsSeq(s)
  BY <1>4, SeqIs
<1>7. Cycle3(s, n, x, y, z)
  BY <1>4, <1>5, <1>6 DEF Cycle3
<1> QED
  BY <1>7 DEF code

LEMMA Rounds4 ==
    ASSUME NEW x, NEW y, NEW z, NEW u, NEW n \in Nat
    PROVE  Cycle4(Times(n, <<x, y, z, u>>), n, x, y, z, u)
<1> DEFINE code == <<x, y, z, u>>
           s == Times(n, code)
<1>1. Len(code) = 4 /\ code[1] = x /\ code[2] = y /\ code[3] = z /\ code[4] = u
  OBVIOUS
<1>2. s = [i \in 1..n * 4 |-> code[1 + ((i - 1) % 4)]]
  BY <1>1 DEF Times
<1> HIDE DEF code
<1>3. \A i \in 1..n * 4 : code[1 + ((i - 1) % 4)] \in {x, y, z, u}
  BY <1>1
<1>4. s \in Seq({x, y, z, u}) /\ Len(s) = n * 4
  BY <1>2, <1>3, LenProperties
<1>5. ASSUME NEW i \in 0..n - 1
      PROVE  s[4 * i + 1] = x /\ s[4 * i + 2] = y /\ s[4 * i + 3] = z /\ s[4 * i + 4] = u
  <2>1. /\ (4 * i) % 4 = 0 /\ (4 * i + 1) % 4 = 1
        /\ (4 * i + 2) % 4 = 2 /\ (4 * i + 3) % 4 = 3
    OBVIOUS
  <2>2. s[4 * i + 1] = code[1 + ((4 * i) % 4)]
    BY <1>2
  <2>3. s[4 * i + 2] = code[1 + ((4 * i + 1) % 4)]
    BY <1>2
  <2>4. s[4 * i + 3] = code[1 + ((4 * i + 2) % 4)]
    BY <1>2
  <2>5. s[4 * i + 4] = code[1 + ((4 * i + 3) % 4)]
    BY <1>2
  <2> QED
    BY <1>1, <2>1, <2>2, <2>3, <2>4, <2>5
<1>6. IsSeq(s)
  BY <1>4, SeqIs
<1>7. Cycle4(s, n, x, y, z, u)
  BY <1>4, <1>5, <1>6 DEF Cycle4
<1> QED
  BY <1>7 DEF code

-----------------------------------------------------------------------------
\* The calls of these programs, one at a time

LEMMA Acts ==
    ASSUME NEW p \in Pids, Turn(p), proc[p].todo # <<>>
    PROVE  /\ proc[p].st = "run" /\ program' = program
           /\ \/ Now(p).op = "fork" /\ DoFork(p)
              \/ Now(p).op = "wait" /\ DoWait(p)
              \/ Now(p).op \in {"signal", "default", "mask", "pending", "alarm", "sleep", "pause"}
                    /\ DoSignal(p)
              \/ Now(p).op \in {"pipe", "open", "close"} /\ DoOpen(p)
              \/ Now(p).op \in {"write", "reply"} /\ DoWrite(p)
              \/ Now(p).op = "read" /\ DoRead(p)
              \/ Now(p).op \in {"semopen", "semunlink", "semop", "setval", "getval"} /\ DoSem(p)
              \/ Now(p).op \in {"puts", "tell"} /\ DoPrint(p)
              \/ Now(p).op \in {"exec", "exit", "kill", "send", "sendto", "sendback", "recvfrom",
                                 "get", "put", "take", "notify", "remove",
                                 "resize", "size", "store", "load",
                                 "loop", "break", "if", "either"}
<1>1. /\ proc[p].st = "run" /\ program' = program
      /\ \A op : At(p, op) <=> Now(p).op = op
  <2>1. ASSUME NEW op, At(p, op) PROVE proc[p].st = "run"
    BY <2>1 DEF At
  <2>2. proc[p].st = "run"
    BY <2>1 DEF Turn, DoFork, DoExec, DoExit, DoWait, DoKill, DoSignal, DoOpen, DoWrite, DoSend,
       DoRead, DoSendTo, DoRecvFrom, DoQueue, DoSem, DoMem, DoPrint, DoControl
  <2> QED
    BY <2>2 DEF At, Now, Turn
<1>2. ASSUME DoExec(p) \/ DoExit(p) \/ DoKill(p) \/ DoSend(p) \/ DoSendTo(p) \/ DoRecvFrom(p)
      PROVE  Now(p).op \in {"exec", "exit", "kill", "send", "sendto", "sendback", "recvfrom"}
  BY <1>1, <1>2 DEF DoExec, DoExit, DoKill, DoSend, DoSendTo, DoRecvFrom
<1>3. DoQueue(p) => Now(p).op \in {"get", "put", "take", "notify", "remove"}
  BY <1>1 DEF DoQueue
<1>4. DoMem(p) => Now(p).op \in {"resize", "size", "store", "load"}
  BY <1>1 DEF DoMem
<1>5. DoControl(p) => Now(p).op \in {"loop", "break", "if", "either"}
  BY <1>1 DEF DoControl
<1>6. /\ DoFork(p) => Now(p).op = "fork"
      /\ DoWait(p) => Now(p).op = "wait"
      /\ DoWrite(p) => Now(p).op \in {"write", "reply"}
      /\ DoRead(p) => Now(p).op = "read"
      /\ DoPrint(p) => Now(p).op \in {"puts", "tell"}
  BY <1>1 DEF DoFork, DoWait, DoWrite, DoRead, DoPrint
<1>7. DoSignal(p) =>
         Now(p).op \in {"signal", "default", "mask", "pending", "alarm", "sleep", "pause"}
  BY <1>1 DEF DoSignal
<1>8. DoOpen(p) => Now(p).op \in {"pipe", "open", "close"}
  BY <1>1 DEF DoOpen
<1>9. DoSem(p) => Now(p).op \in {"semopen", "semunlink", "semop", "setval", "getval"}
  BY <1>1 DEF DoSem
<1> QED
  BY <1>1, <1>2, <1>3, <1>4, <1>5, <1>6, <1>7, <1>8, <1>9 DEF Turn

LEMMA Turned ==
    ASSUME NEW p \in Pids, Turn(p), proc[p].todo # <<>>
    PROVE  /\ proc[p].st = "run" /\ program' = program /\ At(p, Now(p).op)
           /\ Now(p).op = "kill" => DoKill(p)
           /\ Now(p).op = "either" => DoControl(p)
<1>1. proc[p].st = "run" /\ program' = program
  BY Acts
<1>2. \A op : At(p, op) <=> Now(p).op = op
  BY <1>1 DEF At, Now
<1>3. ASSUME Now(p).op = "kill" PROVE DoKill(p)
  BY <1>2, <1>3 DEF Turn, DoFork, DoExec, DoExit, DoWait, DoSignal, DoOpen, DoWrite, DoSend,
     DoRead, DoSendTo, DoRecvFrom, DoQueue, DoSem, DoMem, DoPrint, DoControl
<1>4. ASSUME Now(p).op = "either" PROVE DoControl(p)
  BY <1>2, <1>4 DEF Turn, DoFork, DoExec, DoExit, DoWait, DoKill, DoSignal, DoOpen, DoWrite,
     DoSend, DoRead, DoSendTo, DoRecvFrom, DoQueue, DoSem, DoMem, DoPrint
<1> QED
  BY <1>1, <1>2, <1>3, <1>4

\* Only the processes of S change.
Only(S) == \A q \in Pids \ S : proc'[q] = proc[q]

\* Only the semaphore x changes.
OnlySem(x) == \A y \in Objects \ {x} : sem'[y] = sem[y]

\* What signals do to p stays the same.
Alike(p) ==
    /\ proc'[p].caught = proc[p].caught /\ proc'[p].mask = proc[p].mask
    /\ proc'[p].pending = proc[p].pending /\ proc'[p].timer = proc[p].timer

\* Process p goes on with call k of s and keeps what it has, and so do the others.
Goes(p, s, k) ==
    /\ DOMAIN proc' = Pids
    /\ proc'[p].st = proc[p].st /\ proc'[p].todo = From(s, k) /\ proc'[p].ppid = proc[p].ppid
    /\ Alike(p)
    /\ \A q \in Pids \ {p} : proc'[q] = proc[q]

\* Process p runs s and is at call k, which is c.
Reached(p, s, k, c) ==
    /\ Table(proc) /\ IsSeq(s) /\ k \in 1..Len(s) /\ s[k] = c
    /\ proc[p].todo = From(s, k)

LEMMA Given ==
    ASSUME NEW p \in Pids, NEW s, NEW k, NEW c, Reached(p, s, k, c)
    PROVE  /\ proc[p].todo # <<>> /\ Now(p) = c
           /\ Tail(proc[p].todo) = From(s, k + 1)
BY Onward DEF Reached, Now

LEMMA Going ==
    ASSUME NEW p \in Pids, NEW s, NEW k, NEW c, Reached(p, s, k, c), proc[p].st = "run", NEW v,
           proc' = Passed(p) \/ proc' = Returned(p, v)
    PROVE  Goes(p, s, k + 1) /\ proc'[p].fds = proc[p].fds
<1>1. Tail(proc[p].todo) = From(s, k + 1)
  BY Given
<1>2. DOMAIN proc = Pids /\ DOMAIN proc[p] = Fields
  BY DEF Reached, Table
<1>3. CASE proc' = Passed(p)
  BY <1>1, <1>2, <1>3 DEF Goes, Alike, Passed, Fields
<1>4. CASE proc' = Returned(p, v)
  BY <1>1, <1>2, <1>4 DEF Goes, Alike, Returned, Fields
<1> QED
  BY <1>3, <1>4

LEMMA OnPuts ==
    ASSUME NEW p \in Pids, NEW s, NEW k, NEW v, Reached(p, s, k, Puts(v)), Turn(p)
    PROVE  /\ Goes(p, s, k + 1) /\ proc'[p].fds = proc[p].fds
           /\ out' = [out EXCEPT ![p] = Append(@, v)]
           /\ UNCHANGED <<program, chan, sem>>
<1>1. proc[p].todo # <<>> /\ Now(p).op = "puts" /\ Now(p).val = v
  BY Given DEF Puts
<1>2. proc[p].st = "run" /\ DoPrint(p) /\ program' = program
  BY <1>1, Acts
<1>3. /\ proc' = Passed(p) /\ out' = [out EXCEPT ![p] = Append(@, v)]
      /\ UNCHANGED <<chan, sem>>
  BY <1>1, <1>2 DEF DoPrint, At, Now
<1> QED
  BY <1>2, <1>3, Going

LEMMA OnTell ==
    ASSUME NEW p \in Pids, NEW s, NEW k, Reached(p, s, k, Tell), Turn(p)
    PROVE  /\ Goes(p, s, k + 1) /\ proc'[p].fds = proc[p].fds
           /\ out' = [out EXCEPT ![p] = Append(@, proc[p].reg)]
           /\ UNCHANGED <<program, chan, sem>>
<1>1. proc[p].todo # <<>> /\ Now(p).op = "tell"
  BY Given DEF Tell
<1>2. proc[p].st = "run" /\ DoPrint(p) /\ program' = program
  BY <1>1, Acts
<1>3. /\ proc' = Passed(p) /\ out' = [out EXCEPT ![p] = Append(@, proc[p].reg)]
      /\ UNCHANGED <<chan, sem>>
  BY <1>1, <1>2 DEF DoPrint, At, Now
<1> QED
  BY <1>2, <1>3, Going

LEMMA OnSleep ==
    ASSUME NEW p \in Pids, NEW s, NEW k, Reached(p, s, k, Sleep), Turn(p)
    PROVE  /\ Goes(p, s, k + 1) /\ proc'[p].fds = proc[p].fds
           /\ UNCHANGED <<program, chan, sem, out>>
<1>1. proc[p].todo # <<>> /\ Now(p).op = "sleep"
  BY Given DEF Sleep
<1>2. proc[p].st = "run" /\ DoSignal(p) /\ program' = program
  BY <1>1, Acts
<1>3. proc' = Passed(p) /\ UNCHANGED <<chan, sem, out>>
  BY <1>1, <1>2 DEF DoSignal, At, Now
<1> QED
  BY <1>2, <1>3, Going

LEMMA OnSemOp ==
    ASSUME NEW p \in Pids, NEW s, NEW k, NEW x \in Objects, NEW d \in {-1, 1},
           Reached(p, s, k, SemOp(x, d)), Turn(p), Semaphores
    PROVE  /\ Goes(p, s, k + 1) /\ proc'[p].fds = proc[p].fds
           /\ sem[x] + d >= 0 /\ sem'[x] = sem[x] + d
           /\ \A y \in Objects \ {x} : sem'[y] = sem[y]
           /\ UNCHANGED <<program, chan, out>>
<1>1. /\ proc[p].todo # <<>> /\ Now(p).op = "semop" /\ Now(p).s = x /\ Now(p).by = d
      /\ ~Now(p).zero
  <2>1. Now(p) = SemOp(x, d) /\ proc[p].todo # <<>>
    BY Given
  <2>2. (d = 0) = FALSE
    OBVIOUS
  <2>3. SemOp(x, d).zero = FALSE
    BY <2>2, Zenon DEF SemOp
  <2>4. ~Now(p).zero
    BY <2>1, <2>3, Zenon
  <2>5. Now(p).op = "semop" /\ Now(p).s = x /\ Now(p).by = d
    BY <2>1 DEF SemOp
  <2> QED
    BY <2>1, <2>4, <2>5
<1>2. proc[p].st = "run" /\ DoSem(p) /\ program' = program
  BY <1>1, Acts
<1>3. /\ proc' = Passed(p) /\ sem[x] + d >= 0 /\ sem' = [sem EXCEPT ![x] = @ + d]
      /\ UNCHANGED <<chan, out>>
  BY <1>1, <1>2 DEF DoSem, At, Now
<1>4. sem'[x] = sem[x] + d /\ \A y \in Objects \ {x} : sem'[y] = sem[y]
  BY <1>3 DEF Semaphores
<1> QED
  BY <1>2, <1>3, <1>4, Going

LEMMA OnSemRaise ==
    ASSUME NEW p \in Pids, NEW s, NEW k, NEW x \in Objects,
           Reached(p, s, k, SemRaise(x, 1)), Turn(p), Semaphores
    PROVE  /\ Goes(p, s, k + 1) /\ proc'[p].fds = proc[p].fds
           /\ sem[x] = 0 /\ sem'[x] = 1 /\ OnlySem(x)
           /\ UNCHANGED <<program, chan, out>>
<1>1. /\ proc[p].todo # <<>> /\ Now(p).op = "semop" /\ Now(p).s = x /\ Now(p).by = 1
      /\ Now(p).zero
  BY Given DEF SemRaise
<1>2. proc[p].st = "run" /\ DoSem(p) /\ program' = program
  BY <1>1, Acts
<1>3. /\ proc' = Passed(p) /\ sem[x] = 0 /\ sem' = [sem EXCEPT ![x] = @ + 1]
      /\ UNCHANGED <<chan, out>>
  BY <1>1, <1>2 DEF DoSem, At, Now
<1>4. sem'[x] = 1 /\ OnlySem(x)
  BY <1>3 DEF Semaphores, OnlySem
<1> QED
  BY <1>2, <1>3, <1>4, Going

\* Semaphore x has value v now.
SetTo(x, v) == sem'[x] = v /\ OnlySem(x)

LEMMA OnSetVal ==
    ASSUME NEW p \in Pids, NEW s, NEW k, NEW x \in Objects, NEW v,
           Reached(p, s, k, SetVal(x, v)), Turn(p), Semaphores
    PROVE  /\ Goes(p, s, k + 1) /\ proc'[p].fds = proc[p].fds
           /\ SetTo(x, v)
           /\ UNCHANGED <<program, chan, out>>
<1>1. proc[p].todo # <<>> /\ Now(p).op = "setval" /\ Now(p).s = x /\ Now(p).val = v
  BY Given DEF SetVal
<1>2. proc[p].st = "run" /\ DoSem(p) /\ program' = program
  BY <1>1, Acts
<1>3. /\ proc' = Passed(p) /\ sem' = [sem EXCEPT ![x] = v] /\ UNCHANGED <<chan, out>>
  BY <1>1, <1>2 DEF DoSem, At, Now
<1>4. SetTo(x, v)
  BY <1>3 DEF Semaphores, OnlySem, SetTo
<1> QED
  BY <1>2, <1>3, <1>4, Going

\* Semaphore x is there, with value v if it was not before.
Opened(x, v) ==
    /\ sem[x] = NoSem => sem'[x] = v
    /\ sem[x] # NoSem => sem'[x] = sem[x]
    /\ OnlySem(x)

LEMMA OnSemOpen ==
    ASSUME NEW p \in Pids, NEW s, NEW k, NEW x \in Objects, NEW v,
           Reached(p, s, k, SemOpen(x, v)), Turn(p), Semaphores
    PROVE  /\ Goes(p, s, k + 1) /\ proc'[p].fds = proc[p].fds \cup {<<x, "s">>}
           /\ Opened(x, v)
           /\ UNCHANGED <<program, chan, out>>
<1>1. proc[p].todo # <<>> /\ Now(p).op = "semopen" /\ Now(p).s = x /\ Now(p).val = v
  BY Given DEF SemOpen
<1>2. proc[p].st = "run" /\ DoSem(p) /\ program' = program
  BY <1>1, Acts
<1>3. /\ proc' = [Passed(p) EXCEPT ![p].fds = @ \cup {<<x, "s">>}]
      /\ sem' = [sem EXCEPT ![x] = IF @ = NoSem THEN v ELSE @]
      /\ UNCHANGED <<chan, out>>
  BY <1>1, <1>2 DEF DoSem, At, Now
<1>4. Opened(x, v)
  BY <1>3 DEF Semaphores, Opened, OnlySem
<1>5. Goes(p, s, k + 1) /\ proc'[p].fds = proc[p].fds \cup {<<x, "s">>}
  BY <1>3, Given DEF Reached, Goes, Alike, Passed, Table, Fields
<1> QED
  BY <1>2, <1>3, <1>4, <1>5

LEMMA OnUnlink ==
    ASSUME NEW p \in Pids, NEW s, NEW k, NEW x \in Objects,
           Reached(p, s, k, SemUnlink(x)), Turn(p), Semaphores
    PROVE  /\ Goes(p, s, k + 1) /\ proc'[p].fds = proc[p].fds
           /\ (\E q \in Pids \ {p} : <<x, "s">> \in proc[q].fds) => sem' = sem
           /\ sem'[x] \in {NoSem, sem[x]} /\ OnlySem(x)
           /\ UNCHANGED <<program, chan, out>>
<1>1. proc[p].todo # <<>> /\ Now(p).op = "semunlink" /\ Now(p).s = x
  BY Given DEF SemUnlink
<1>2. proc[p].st = "run" /\ DoSem(p) /\ program' = program
  BY <1>1, Acts
<1>3. /\ proc' = Passed(p)
      /\ sem' = [sem EXCEPT ![x] = IF Holders(x, "s") \subseteq {p} THEN NoSem ELSE @]
      /\ UNCHANGED <<chan, out>>
  BY <1>1, <1>2 DEF DoSem, At, Now
<1>4. ASSUME NEW q \in Pids \ {p}, <<x, "s">> \in proc[q].fds PROVE sem' = sem
  BY <1>3, <1>4 DEF Holders, Semaphores
<1>5. sem'[x] \in {NoSem, sem[x]} /\ OnlySem(x)
  BY <1>3 DEF Semaphores, OnlySem
<1> QED
  BY <1>2, <1>3, <1>4, <1>5, Going

LEMMA OnPipe ==
    ASSUME NEW p \in Pids, NEW s, NEW k, NEW x, Reached(p, s, k, Pipe(x)), Turn(p)
    PROVE  /\ Goes(p, s, k + 1) /\ proc'[p].fds = proc[p].fds \cup {<<x, "r">>, <<x, "w">>}
           /\ UNCHANGED <<program, chan, sem, out>>
<1>1. proc[p].todo # <<>> /\ Now(p).op = "pipe" /\ Now(p).c = x
  BY Given DEF Pipe
<1>2. proc[p].st = "run" /\ DoOpen(p) /\ program' = program
  BY <1>1, Acts
<1>3. /\ proc' = [Passed(p) EXCEPT ![p].fds = @ \cup {<<x, "r">>, <<x, "w">>}]
      /\ UNCHANGED <<chan, sem, out>>
  BY <1>1, <1>2 DEF DoOpen, At, Now
<1>4. Goes(p, s, k + 1) /\ proc'[p].fds = proc[p].fds \cup {<<x, "r">>, <<x, "w">>}
  BY <1>3, Given DEF Reached, Goes, Alike, Passed, Table, Fields
<1> QED
  BY <1>2, <1>3, <1>4

LEMMA OnClose ==
    ASSUME NEW p \in Pids, NEW s, NEW k, NEW x, NEW e, Reached(p, s, k, Close(x, e)), Turn(p)
    PROVE  /\ Goes(p, s, k + 1) /\ proc'[p].fds = proc[p].fds \ {<<x, e>>}
           /\ UNCHANGED <<program, chan, sem, out>>
<1>1. proc[p].todo # <<>> /\ Now(p).op = "close" /\ Now(p).c = x /\ Now(p).end = e
  BY Given DEF Close
<1>2. proc[p].st = "run" /\ DoOpen(p) /\ program' = program
  BY <1>1, Acts
<1>3. /\ proc' = [Passed(p) EXCEPT ![p].fds = @ \ {<<x, e>>}]
      /\ UNCHANGED <<chan, sem, out>>
  BY <1>1, <1>2 DEF DoOpen, At, Now
<1>4. Goes(p, s, k + 1) /\ proc'[p].fds = proc[p].fds \ {<<x, e>>}
  BY <1>3, Given DEF Reached, Goes, Alike, Passed, Table, Fields
<1> QED
  BY <1>2, <1>3, <1>4

\* A write of one message to a pipe that somebody reads
LEMMA OnWrite ==
    ASSUME NEW p \in Pids, NEW s, NEW k, NEW x \in Objects, NEW v,
           Reached(p, s, k, Write(x, <<v>>)), Turn(p), Channels,
           NEW q \in Pids, <<x, "r">> \in proc[q].fds
    PROVE  /\ Goes(p, s, k + 1) /\ proc'[p].fds = proc[p].fds
           /\ Len(chan'[x]) = Len(chan[x]) + 1
           /\ \A y \in Objects \ {x} : chan'[y] = chan[y]
           /\ UNCHANGED <<program, sem, out>>
<1>1. proc[p].todo # <<>> /\ Now(p).op = "write" /\ Now(p).c = x /\ Now(p).data = <<v>>
  BY Given DEF Write
<1>2. proc[p].st = "run" /\ DoWrite(p) /\ program' = program
  BY <1>1, Acts
<1>3. Holders(x, "r") # {} /\ At(p, "write")
  BY <1>1, <1>2 DEF Holders, At, Now
<1>4. /\ proc' = Returned(p, <<v>>) /\ chan' = [chan EXCEPT ![x] = @ \o <<v>>]
      /\ UNCHANGED <<sem, out>>
  BY <1>1, <1>2, <1>3 DEF DoWrite
<1>5. Len(chan[x] \o <<v>>) = Len(chan[x]) + 1
  BY Joined, Singles DEF Channels
<1>6. /\ Len(chan'[x]) = Len(chan[x]) + 1
      /\ \A y \in Objects \ {x} : chan'[y] = chan[y]
  BY <1>4, <1>5 DEF Channels
<1> QED
  BY <1>2, <1>4, <1>6, Going

\* A read of one message from a pipe which somebody may still write to, or that
\* is not empty
LEMMA OnRead ==
    ASSUME NEW p \in Pids, NEW s, NEW k, NEW x \in Objects,
           Reached(p, s, k, Read(x, 1)), Turn(p), Channels,
           Len(chan[x]) > 0 \/ \E q \in Pids : <<x, "w">> \in proc[q].fds
    PROVE  /\ Goes(p, s, k + 1) /\ proc'[p].fds = proc[p].fds
           /\ Len(chan[x]) > 0 /\ Len(chan'[x]) = Len(chan[x]) - 1
           /\ \A y \in Objects \ {x} : chan'[y] = chan[y]
           /\ UNCHANGED <<program, sem, out>>
<1>1. /\ proc[p].todo # <<>> /\ Now(p).op = "read" /\ Now(p).c = x
      /\ Now(p).n = 1 /\ ~Now(p).try /\ Now(p).least = 1
  BY Given DEF Read
<1>2. proc[p].st = "run" /\ DoRead(p) /\ program' = program
  BY <1>1, Acts
<1> DEFINE most == IF 1 < Len(chan[x]) THEN 1 ELSE Len(chan[x])
<1>3. IsSeq(chan[x]) /\ Len(chan[x]) \in Nat /\ (chan[x] = <<>> => Len(chan[x]) = 0)
  BY Joined, Singles DEF Channels
<1>4. chan[x] # <<>> \/ Holders(x, "w") # {}
  BY <1>3 DEF Holders
<1>5. /\ \E i \in 1..most : /\ \E u : proc' = Returned(p, u)
                            /\ chan' = [chan EXCEPT ![x] = SubSeq(@, i + 1, Len(@))]
      /\ UNCHANGED <<sem, out>>
  BY <1>1, <1>2, <1>4 DEF DoRead, At, Now
<1>6. /\ \E u : proc' = Returned(p, u)
      /\ Len(chan[x]) > 0 /\ chan' = [chan EXCEPT ![x] = SubSeq(@, 2, Len(@))]
  <2>1. PICK i \in 1..most : /\ \E u : proc' = Returned(p, u)
                             /\ chan' = [chan EXCEPT ![x] = SubSeq(@, i + 1, Len(@))]
    BY <1>5
  <2>2. i = 1 /\ Len(chan[x]) > 0
    BY <1>3
  <2> QED
    BY <2>1, <2>2
<1>7. Len(SubSeq(chan[x], 2, Len(chan[x]))) = Len(chan[x]) - 1
  <2>1. 1 \in 0..Len(chan[x])
    BY <1>3, <1>6
  <2> QED
    BY <1>3, <2>1, Halves
<1>8. /\ Len(chan'[x]) = Len(chan[x]) - 1
      /\ \A y \in Objects \ {x} : chan'[y] = chan[y]
  BY <1>6, <1>7 DEF Channels
<1> QED
  BY <1>2, <1>5, <1>6, <1>8, Going

\* Process p catches and blocks no signal and has set no alarm.
Plain(p) == proc[p].caught = <<>> /\ proc[p].mask = {} /\ proc[p].timer = FALSE

\* Nobody can get a signal either.
Quiet == \A q \in Pids : Plain(q) /\ proc[q].pending = {}

AllAlike == \A q \in Pids : Alike(q)

LEMMA AlikeQuiet ==
    ASSUME Quiet, AllAlike
    PROVE  Quiet'
BY DEF Quiet, Plain, AllAlike, Alike

\* p's child r inherits what p does with signals.
Inherits(r, p) ==
    /\ proc'[r].caught = proc[p].caught /\ proc'[r].mask = proc[p].mask
    /\ proc'[r].pending = {} /\ proc'[r].timer = FALSE

\* A fork, when r is the next process id
LEMMA OnFork ==
    ASSUME NEW p \in Pids, NEW s, NEW k, NEW code, Reached(p, s, k, Fork(code)), Turn(p),
           NEW r \in Pids, proc[r].st = "none", \A q \in Pids : proc[q].st = "none" => r <= q
    PROVE  /\ p # r /\ proc'[p].st = "run" /\ proc'[p].todo = From(s, k + 1)
           /\ proc'[p].ppid = proc[p].ppid /\ proc'[p].fds = proc[p].fds /\ Alike(p)
           /\ proc'[r].st = "run" /\ proc'[r].todo = code
           /\ proc'[r].ppid = p /\ proc'[r].fds = proc[p].fds
           /\ Inherits(r, p) /\ Only({p, r})
           /\ Quiet => Quiet'
           /\ UNCHANGED <<program, chan, sem, out>>
<1>1. /\ proc[p].todo # <<>> /\ Now(p).op = "fork" /\ Now(p).code = code
      /\ Tail(proc[p].todo) = From(s, k + 1)
  BY Given DEF Fork
<1>2. proc[p].st = "run" /\ DoFork(p) /\ program' = program
  BY <1>1, Acts
<1> DEFINE free == {q \in Pids : proc[q].st = "none"}
<1>3. r \in free /\ \A q \in free : r <= q
  OBVIOUS
<1>4. r = CHOOSE q \in free : \A u \in free : q <= u
  <2>1. \A q \in free : (\A u \in free : q <= u) => q = r
    BY <1>3, PidsPositive
  <2> QED
    BY <1>3, <2>1
<1> DEFINE child == [proc[p] EXCEPT !.todo = code, !.ppid = p, !.reg = <<>>,
                                    !.pending = {}, !.timer = FALSE]
<1>5. proc' = [Passed(p) EXCEPT ![r] = child] /\ UNCHANGED <<chan, sem, out>>
  <2>1. UNCHANGED <<chan, sem, out>> /\ free # {}
    BY <1>2, <1>3 DEF DoFork
  <2> QED
    BY <1>1, <1>2, <1>4, <2>1 DEF DoFork
<1>6. p # r /\ DOMAIN proc = Pids /\ DOMAIN proc[p] = Fields
  BY <1>2 DEF Reached, Table
<1>7. /\ DOMAIN Passed(p) = Pids /\ Passed(p)[p] = [proc[p] EXCEPT !.todo = From(s, k + 1)]
      /\ \A q \in Pids \ {p} : Passed(p)[q] = proc[q]
  BY <1>1, <1>6 DEF Passed, Fields
<1>8. /\ proc'[r] = child /\ proc'[p] = [proc[p] EXCEPT !.todo = From(s, k + 1)]
      /\ \A q \in Pids \ {p, r} : proc'[q] = proc[q]
  BY <1>5, <1>6, <1>7
<1>9. /\ child.st = "run" /\ child.todo = code /\ child.ppid = p /\ child.fds = proc[p].fds
      /\ child.caught = proc[p].caught /\ child.mask = proc[p].mask
      /\ child.pending = {} /\ child.timer = FALSE
  BY <1>2, <1>6 DEF Fields
<1> HIDE DEF child
<1>10. /\ proc'[p].st = "run" /\ proc'[p].todo = From(s, k + 1)
       /\ proc'[p].ppid = proc[p].ppid /\ proc'[p].fds = proc[p].fds /\ Alike(p)
  BY <1>2, <1>6, <1>8 DEF Fields, Alike
<1>11. ASSUME Quiet PROVE Quiet'
  <2> SUFFICES ASSUME NEW q \in Pids
               PROVE  /\ proc'[q].caught = <<>> /\ proc'[q].mask = {}
                      /\ proc'[q].timer = FALSE /\ proc'[q].pending = {}
    BY DEF Quiet, Plain
  <2>1. q = r \/ q = p \/ q \in Pids \ {p, r}
    OBVIOUS
  <2>2. CASE q = r
    BY <1>8, <1>9, <1>11, <2>2 DEF Quiet, Plain
  <2>3. CASE q = p
    BY <1>10, <1>11, <2>3 DEF Quiet, Plain, Alike
  <2>4. CASE q \in Pids \ {p, r}
    BY <1>8, <1>11, <2>4 DEF Quiet, Plain
  <2> QED
    BY <2>1, <2>2, <2>3, <2>4
<1>12. Only({p, r})
  BY <1>8 DEF Only
<1>13. Inherits(r, p)
  BY <1>8, <1>9 DEF Inherits
<1> QED
  BY <1>2, <1>5, <1>6, <1>8, <1>9, <1>10, <1>11, <1>12, <1>13

\* A fork fails when there is no process id left.
LEMMA OnFullFork ==
    ASSUME NEW p \in Pids, NEW s, NEW k, NEW code, Reached(p, s, k, Fork(code)), Turn(p),
           \A q \in Pids : proc[q].st # "none"
    PROVE  Goes(p, s, k + 1) /\ proc'[p].fds = proc[p].fds /\ UNCHANGED <<program, chan, sem, out>>
<1>1. proc[p].todo # <<>> /\ Now(p).op = "fork"
  BY Given DEF Fork
<1>2. proc[p].st = "run" /\ DoFork(p) /\ program' = program
  BY <1>1, Acts
<1>3. proc' = Passed(p) /\ UNCHANGED <<chan, sem, out>>
  BY <1>2 DEF DoFork
<1> QED
  BY <1>2, <1>3, Going

\* p learns that its child q has ended.
Reaps(p, q) ==
    q # p /\ proc[q].st = "zombie" /\ proc'[q].st = "gone" /\ Only({p, q})

\* The others still have to do what they had, and as many run.
OthersStay(p) ==
    \A q \in Pids \ {p} :
        /\ proc'[q].todo = proc[q].todo /\ proc'[q].ppid = proc[q].ppid
        /\ proc[q].st = "run" => proc'[q].st = "run"
        /\ proc'[q].st = "run" => proc[q].st = "run"

LEMMA OnWait ==
    ASSUME NEW p \in Pids, NEW s, NEW k, Reached(p, s, k, Wait), Turn(p), IInv
    PROVE  /\ proc'[p].st = "run" /\ proc'[p].todo = From(s, k + 1)
           /\ proc'[p].ppid = proc[p].ppid /\ proc'[p].fds = proc[p].fds
           /\ \/ Children(p) = {} /\ Only({p})
              \/ \E q \in Children(p) : Reaps(p, q)
           /\ AllAlike /\ OthersStay(p)
           /\ UNCHANGED <<program, chan, sem, out>>
<1>1. proc[p].todo # <<>> /\ Now(p).op = "wait" /\ Tail(proc[p].todo) = From(s, k + 1)
  BY Given DEF Wait
<1>2. proc[p].st = "run" /\ DoWait(p) /\ program' = program
  BY <1>1, Acts
<1>3. DOMAIN proc = Pids /\ \A q \in Pids : DOMAIN proc[q] = Fields
  BY DEF Reached, Table
<1>4. ASSUME NEW v
      PROVE  /\ DOMAIN Returned(p, v) = Pids
             /\ Returned(p, v)[p] = [proc[p] EXCEPT !.todo = From(s, k + 1), !.reg = v]
             /\ \A r \in Pids \ {p} : Returned(p, v)[r] = proc[r]
  BY <1>1, <1>3 DEF Returned, Fields
<1>5. CASE Children(p) = {}
  <2>1. proc' = Returned(p, <<>>) /\ UNCHANGED <<chan, sem, out>>
    BY <1>2, <1>5 DEF DoWait
  <2>2. /\ proc'[p] = [proc[p] EXCEPT !.todo = From(s, k + 1), !.reg = <<>>]
        /\ \A r \in Pids \ {p} : proc'[r] = proc[r]
    BY <1>4, <2>1
  <2>3. /\ proc'[p].st = "run" /\ proc'[p].todo = From(s, k + 1)
        /\ proc'[p].ppid = proc[p].ppid /\ proc'[p].fds = proc[p].fds /\ Alike(p)
    BY <1>2, <1>3, <2>2 DEF Fields, Alike
  <2>4. \A q \in Pids : Alike(q)
    BY <2>2, <2>3 DEF Alike
  <2> QED
    BY <1>2, <1>5, <2>1, <2>2, <2>3, <2>4 DEF Only, AllAlike, OthersStay
<1>6. CASE Children(p) # {}
  <2>1. PICK q \in Children(p) :
             /\ proc[q].st = "zombie"
             /\ proc' = [Returned(p, proc[q].reg) EXCEPT ![q].st = "gone"]
    BY <1>2, <1>6 DEF DoWait
  <2>2. UNCHANGED <<chan, sem, out>> /\ q \in Pids /\ q # p
    BY <1>2, <2>1 DEF DoWait, Children
  <2> DEFINE v == proc[q].reg
  <2> HIDE DEF v
  <2>3. /\ proc'[p] = [proc[p] EXCEPT !.todo = From(s, k + 1), !.reg = v]
        /\ proc'[q] = [proc[q] EXCEPT !.st = "gone"]
        /\ \A r \in Pids \ {p, q} : proc'[r] = proc[r]
    BY <1>4, <2>1, <2>2 DEF v
  <2>4. /\ proc'[p].st = "run" /\ proc'[p].todo = From(s, k + 1)
        /\ proc'[p].ppid = proc[p].ppid /\ proc'[p].fds = proc[p].fds /\ Alike(p)
    BY <1>2, <1>3, <2>3 DEF Fields, Alike
  <2>5. /\ proc'[q].st = "gone" /\ proc'[q].todo = proc[q].todo
        /\ proc'[q].ppid = proc[q].ppid /\ Alike(q)
    BY <1>3, <2>2, <2>3 DEF Fields, Alike
  <2>6. \A r \in Pids : r = p \/ r = q \/ r \in Pids \ {p, q}
    OBVIOUS
  <2>7. \A r \in Pids : Alike(r)
    BY <2>3, <2>4, <2>5, <2>6 DEF Alike
  <2>8. \A r \in Pids \ {p} : /\ proc'[r].todo = proc[r].todo
                              /\ proc'[r].ppid = proc[r].ppid
                              /\ proc[r].st = "run" => proc'[r].st = "run"
                              /\ proc'[r].st = "run" => proc[r].st = "run"
    BY <2>1, <2>3, <2>5, <2>6
  <2>9. Reaps(p, q)
    BY <2>1, <2>2, <2>3, <2>5 DEF Reaps, Only
  <2> QED
    BY <1>2, <2>1, <2>2, <2>4, <2>7, <2>8, <2>9 DEF AllAlike, OthersStay
<1> QED
  BY <1>5, <1>6

\* What signals to S, sent by p, change: only that they wait for those who run.
Signalled(p, S) ==
    \A q \in Pids \ {p} :
        /\ proc'[q].todo = proc[q].todo /\ proc'[q].st = proc[q].st
        /\ proc'[q].ppid = proc[q].ppid
        /\ proc[q].pending # {} \/ (q \in S /\ proc[q].st = "run") => proc'[q].pending # {}

LEMMA OnKill ==
    ASSUME NEW p \in Pids, NEW s, NEW k, NEW S, NEW x, Reached(p, s, k, Kill(S, x)), Turn(p),
           p \notin S
    PROVE  /\ proc'[p].st = "run" /\ proc'[p].todo = From(s, k + 1)
           /\ proc'[p].ppid = proc[p].ppid /\ proc'[p].pending = proc[p].pending
           /\ Signalled(p, S) /\ ((\A q \in Pids : Plain(q)) => \A q \in Pids : Plain(q)')
           /\ UNCHANGED <<program, chan, sem, out>>
<1>1. /\ proc[p].todo # <<>> /\ Now(p).op = "kill" /\ Now(p).to = "pids" /\ Now(p).pids = S
      /\ Now(p).sig = x /\ Tail(proc[p].todo) = From(s, k + 1)
  BY Given DEF Kill
<1>2. At(p, "kill") /\ DoKill(p) /\ program' = program /\ proc[p].st = "run"
  BY <1>1, Turned
<1>3. /\ proc' = [q \in Pids |-> IF q \in S /\ proc[q].st = "run"
                                 THEN [Passed(p)[q] EXCEPT !.pending = @ \cup {x}]
                                 ELSE Passed(p)[q]]
      /\ UNCHANGED <<chan, sem, out>>
  BY <1>1, <1>2 DEF DoKill
<1>4. /\ DOMAIN proc = Pids /\ \A q \in Pids : DOMAIN proc[q] = Fields
      /\ Passed(p)[p] = [proc[p] EXCEPT !.todo = From(s, k + 1)]
      /\ \A q \in Pids \ {p} : Passed(p)[q] = proc[q]
  BY <1>1 DEF Reached, Table, Passed, Fields
<1>5. proc'[p] = [proc[p] EXCEPT !.todo = From(s, k + 1)]
  BY <1>3, <1>4
<1>6. ASSUME NEW q \in Pids \ {p}
      PROVE  \/ proc'[q] = proc[q] /\ ~(q \in S /\ proc[q].st = "run")
             \/ proc'[q] = [proc[q] EXCEPT !.pending = @ \cup {x}]
  BY <1>3, <1>4
<1>7. /\ proc'[p].st = "run" /\ proc'[p].todo = From(s, k + 1)
      /\ proc'[p].ppid = proc[p].ppid /\ Alike(p)
  BY <1>2, <1>4, <1>5 DEF Fields, Alike
<1>8. ASSUME NEW q \in Pids \ {p}
      PROVE  /\ proc'[q].todo = proc[q].todo /\ proc'[q].st = proc[q].st
             /\ proc'[q].ppid = proc[q].ppid /\ proc'[q].caught = proc[q].caught
             /\ proc'[q].mask = proc[q].mask /\ proc'[q].timer = proc[q].timer
             /\ proc[q].pending # {} \/ (q \in S /\ proc[q].st = "run") => proc'[q].pending # {}
  <2>1. CASE proc'[q] = proc[q] /\ ~(q \in S /\ proc[q].st = "run")
    BY <2>1
  <2>2. CASE proc'[q] = [proc[q] EXCEPT !.pending = @ \cup {x}]
    <3>1. x \in proc'[q].pending
      BY <1>4, <2>2 DEF Fields
    <3>2. /\ proc'[q].todo = proc[q].todo /\ proc'[q].st = proc[q].st
          /\ proc'[q].ppid = proc[q].ppid /\ proc'[q].caught = proc[q].caught
          /\ proc'[q].mask = proc[q].mask
      BY <1>4, <2>2 DEF Fields
    <3>3. proc'[q].timer = proc[q].timer
      BY <1>4, <2>2 DEF Fields
    <3> QED
      BY <3>1, <3>2, <3>3
  <2> QED
    BY <1>6, <2>1, <2>2
<1>9. Signalled(p, S)
  BY <1>8 DEF Signalled
<1>10. ASSUME NEW q \in Pids, Plain(q) PROVE Plain(q)'
  <2>1. q = p \/ q \in Pids \ {p}
    OBVIOUS
  <2>2. /\ proc'[q].caught = proc[q].caught /\ proc'[q].mask = proc[q].mask
        /\ proc'[q].timer = proc[q].timer
    BY <1>7, <1>8, <2>1, Zenon DEF Alike
  <2> QED
    BY <1>10, <2>2, Zenon DEF Plain
<1> QED
  BY <1>2, <1>3, <1>7, <1>9, <1>10 DEF Alike

LEMMA OnEither ==
    ASSUME NEW p \in Pids, NEW s, NEW k, NEW x, NEW y, Reached(p, s, k, Either(x, y)), Turn(p)
    PROVE  /\ proc'[p].st = "run" /\ proc'[p].ppid = proc[p].ppid /\ Alike(p) /\ Only({p})
           /\ proc'[p].todo \in {x \o From(s, k + 1), y \o From(s, k + 1)}
           /\ UNCHANGED <<program, chan, sem, out>>
<1>1. /\ proc[p].todo # <<>> /\ Now(p).op = "either" /\ Now(p).one = x /\ Now(p).other = y
      /\ Tail(proc[p].todo) = From(s, k + 1)
  BY Given DEF Either
<1>2. At(p, "either") /\ DoControl(p) /\ program' = program /\ proc[p].st = "run"
  BY <1>1, Turned
<1>3. PICK z \in {x \o From(s, k + 1), y \o From(s, k + 1)} :
         proc' = Becomes(p, z) /\ UNCHANGED <<chan, sem, out>>
  BY <1>1, <1>2 DEF DoControl, At, Now
<1>4. DOMAIN proc = Pids /\ DOMAIN proc[p] = Fields
  BY DEF Reached, Table
<1>5. proc'[p] = [proc[p] EXCEPT !.todo = z] /\ \A q \in Pids \ {p} : proc'[q] = proc[q]
  BY <1>3, <1>4 DEF Becomes
<1>6. proc'[p].st = "run" /\ proc'[p].ppid = proc[p].ppid /\ Alike(p) /\ proc'[p].todo = z
  BY <1>2, <1>4, <1>5 DEF Fields, Alike
<1> QED
  BY <1>2, <1>3, <1>5, <1>6 DEF Only

LEMMA Running ==
    ASSUME NEW p, Turn(p)
    PROVE  proc[p].st = "run" /\ program' = program
<1>1. ASSUME NEW op, At(p, op) PROVE proc[p].st = "run"
  BY <1>1 DEF At
<1> QED
  BY <1>1 DEF Turn, DoFork, DoExec, DoExit, DoWait, DoKill, DoSignal, DoOpen, DoWrite, DoSend,
     DoRead, DoSendTo, DoRecvFrom, DoQueue, DoSem, DoMem, DoPrint, DoControl

\* Process p ends when nobody catches a signal.
LEMMA Passing ==
    ASSUME NEW p \in Pids, Table(proc), NEW v, proc' = Ended(p, v), \A q \in Pids : Plain(q)
    PROVE  /\ proc'[p].st = IF proc[p].ppid \in Pids /\ proc[proc[p].ppid].st = "run"
                            THEN "zombie" ELSE "gone"
           /\ proc'[p].ppid = proc[p].ppid
           /\ proc'[p].todo = <<>> /\ proc'[p].fds = {} /\ proc'[p].pending = {}
           /\ \A q \in Pids \ {p} :
                 /\ proc'[q].todo = proc[q].todo /\ proc'[q].fds = proc[q].fds
                 /\ proc'[q].pending = proc[q].pending
                 /\ proc[q].st # "zombie" => proc'[q].st = proc[q].st
                 /\ proc[q].ppid # p => proc'[q].st = proc[q].st /\ proc'[q].ppid = proc[q].ppid
                 /\ proc[q].ppid = p => proc'[q].ppid = 0
                 /\ proc[q].st = "zombie" /\ proc[q].ppid = p => proc'[q].st = "gone"
           /\ \A q \in Pids : Plain(q)'
<1> DEFINE waited == proc[p].ppid \in Pids /\ proc[proc[p].ppid].st = "run"
<1>1. /\ proc'[p].st = (IF waited THEN "zombie" ELSE "gone") /\ proc'[p].ppid = proc[p].ppid
      /\ proc'[p].todo = <<>> /\ proc'[p].fds = {} /\ proc'[p].pending = {}
      /\ proc'[p].caught = proc[p].caught /\ proc'[p].mask = proc[p].mask
      /\ proc'[p].timer = FALSE
  BY DEF Ended, Table, Fields
<1>2. ASSUME NEW q \in Pids \ {p}, proc[q].ppid = p
      PROVE  /\ proc'[q].todo = proc[q].todo /\ proc'[q].fds = proc[q].fds
             /\ proc'[q].st = IF proc[q].st = "zombie" THEN "gone" ELSE proc[q].st
             /\ proc'[q].ppid = 0 /\ Alike(q)
  BY <1>2 DEF Ended, Table, Fields, Alike
<1>3. ASSUME NEW q \in Pids \ {p}, proc[q].ppid # p PROVE proc'[q] = proc[q]
  <2>1. "CHLD" \notin DOMAIN proc[q].caught
    BY Singles DEF Plain
  <2> QED
    BY <1>3, <2>1 DEF Ended
<1>4. ASSUME NEW q \in Pids PROVE Plain(q)'
  <2>1. q = p \/ (q \in Pids \ {p} /\ proc[q].ppid = p) \/ (q \in Pids \ {p} /\ proc[q].ppid # p)
    OBVIOUS
  <2> QED
    BY <1>1, <1>2, <1>3, <2>1, Zenon DEF Plain, Alike
<1> QED
  BY <1>1, <1>2, <1>3, <1>4 DEF Alike

\* The end of a process that has nothing left to do
LEMMA OnEnd ==
    ASSUME NEW p \in Pids, Turn(p), proc[p].todo = <<>>
    PROVE  proc' = Ended(p, <<"exit", "0">>) /\ UNCHANGED <<program, chan, sem, out>>
<1>1. \A op : ~At(p, op)
  BY DEF At
<1>2. DoExit(p) /\ program' = program
  BY <1>1 DEF Turn, DoFork, DoExec, DoWait, DoKill, DoSignal, DoOpen, DoWrite, DoSend,
     DoRead, DoSendTo, DoRecvFrom, DoQueue, DoSem, DoMem, DoPrint, DoControl
<1> QED
  BY <1>1, <1>2 DEF DoExit

\* The same when there are no signals
LEMMA OnQuietEnd ==
    ASSUME NEW p \in Pids, Table(proc), Turn(p), proc[p].todo = <<>>, Quiet
    PROVE  /\ proc'[p].st = IF proc[p].ppid \in Pids /\ proc[proc[p].ppid].st = "run"
                            THEN "zombie" ELSE "gone"
           /\ proc'[p].ppid = proc[p].ppid /\ proc'[p].todo = <<>>
           /\ \A q \in Pids \ {p} :
                 /\ proc'[q].todo = proc[q].todo /\ proc'[q].fds = proc[q].fds
                 /\ proc[q].st # "zombie" => proc'[q].st = proc[q].st
                 /\ proc[q].ppid # p => proc'[q].st = proc[q].st /\ proc'[q].ppid = proc[q].ppid
                 /\ proc[q].st = "zombie" /\ proc[q].ppid = p => proc'[q].st = "gone"
           /\ Quiet' /\ UNCHANGED <<program, chan, sem, out>>
<1>1. proc' = Ended(p, <<"exit", "0">>) /\ UNCHANGED <<program, chan, sem, out>>
  BY OnEnd
<1> DEFINE v == <<"exit", "0">>
<1>2. proc' = Ended(p, v) /\ \A q \in Pids : Plain(q)
  BY <1>1 DEF Quiet
<1> HIDE DEF v
<1>3. /\ proc'[p].st = IF proc[p].ppid \in Pids /\ proc[proc[p].ppid].st = "run"
                       THEN "zombie" ELSE "gone"
      /\ proc'[p].ppid = proc[p].ppid /\ proc'[p].todo = <<>> /\ proc'[p].pending = {}
      /\ \A q \in Pids \ {p} :
            /\ proc'[q].todo = proc[q].todo /\ proc'[q].fds = proc[q].fds
            /\ proc'[q].pending = proc[q].pending
            /\ proc[q].st # "zombie" => proc'[q].st = proc[q].st
            /\ proc[q].ppid # p => proc'[q].st = proc[q].st /\ proc'[q].ppid = proc[q].ppid
            /\ proc[q].st = "zombie" /\ proc[q].ppid = p => proc'[q].st = "gone"
      /\ \A q \in Pids : Plain(q)'
  BY <1>2, Passing
<1>4. Quiet'
  <2>1. \A q \in Pids : q = p \/ q \in Pids \ {p}
    OBVIOUS
  <2>2. \A q \in Pids : proc'[q].pending = {}
    BY <1>3, <2>1 DEF Quiet
  <2> QED
    BY <1>3, <2>2 DEF Quiet
<1> QED
  BY <1>1, <1>3, <1>4

\* Without signals every step is a turn of a process that runs.
LEMMA OnlyTurns ==
    ASSUME Quiet, Next
    PROVE  \E p \in Pids : Turn(p) /\ proc[p].st = "run"
<1>1. PICK p \in Pids : Turn(p) \/ Deliver(p) \/ Ring(p)
  BY DEF Next
<1>2. ~Deliver(p) /\ ~Ring(p)
  BY DEF Quiet, Plain, Deliver, Ring
<1> QED
  BY <1>1, <1>2, Running

LEMMA GoesQuiet ==
    ASSUME Quiet, NEW p \in Pids, NEW s, NEW k, Goes(p, s, k)
    PROVE  Quiet'
<1>1. \A q \in Pids : q = p \/ q \in Pids \ {p}
  OBVIOUS
<1>2. \A q \in Pids : Alike(q)
  BY <1>1 DEF Goes, Alike
<1> QED
  BY <1>2, AlikeQuiet DEF AllAlike

LEMMA Spoke ==
    ASSUME Output, NEW p \in Pids, NEW v, out' = [out EXCEPT ![p] = Append(@, v)]
    PROVE  /\ Len(out'[p]) = Len(out[p]) + 1 /\ \A q \in Pids \ {p} : out'[q] = out[q]
           /\ \A q \in Pids : Len(out[q]) \in Nat
<1>1. \A q \in Pids : Len(out[q]) \in Nat
  BY Joined DEF Output
<1>2. Len(Append(out[p], v)) = Len(out[p]) + 1
  <2>1. PICK S : out[p] \in Seq(S)
    BY DEF Output, IsSeq
  <2>2. out[p] \in Seq(S \cup {v}) /\ v \in S \cup {v}
    BY <2>1
  <2> QED
    BY <2>2, AppendProperties
<1> QED
  BY <1>1, <1>2 DEF Output


LEMMA Lists ==
    /\ \A x, y : IsSeq(<<x, y>>) /\ Len(<<x, y>>) = 2
    /\ \A x, y, z : IsSeq(<<x, y, z>>) /\ Len(<<x, y, z>>) = 3
    /\ \A x, y, z, u, v : IsSeq(<<x, y, z, u, v>>) /\ Len(<<x, y, z, u, v>>) = 5
<1>1. ASSUME NEW x, NEW y PROVE <<x, y>> \in Seq({x, y}) /\ Len(<<x, y>>) = 2
  OBVIOUS
<1>2. ASSUME NEW x, NEW y, NEW z
      PROVE  <<x, y, z>> \in Seq({x, y, z}) /\ Len(<<x, y, z>>) = 3
  OBVIOUS
<1>3. ASSUME NEW x, NEW y, NEW z, NEW u, NEW v
      PROVE  <<x, y, z, u, v>> \in Seq({x, y, z, u, v}) /\ Len(<<x, y, z, u, v>>) = 5
  OBVIOUS
<1>4. \A S : \A s \in Seq(S) : IsSeq(s)
  BY SeqIs
<1> QED
  BY <1>1, <1>2, <1>3, <1>4

LEMMA RoundsNat == Rounds \in Nat /\ Rounds > 0
BY SystemAssumption

\* s and then t
Linked(u, s, t) ==
    /\ IsSeq(u) /\ Len(u) = Len(s) + Len(t)
    /\ \A i \in 1..Len(s) : u[i] = s[i]
    /\ \A i \in 1..Len(t) : u[Len(s) + i] = t[i]

LEMMA Links ==
    ASSUME NEW s, NEW t, IsSeq(s), IsSeq(t)
    PROVE  Linked(s \o t, s, t)
BY Joined DEF Linked

=============================================================================
