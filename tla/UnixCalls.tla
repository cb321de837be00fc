------------------------------ MODULE UnixCalls ------------------------------
(***************************************************************************)
(* The part of Unix that the small programs of the labs run on: processes, *)
(* signals, pipes, queues, semaphores and shared memory.  A process is the *)
(* sequence of calls it still has to make, and one action of this module   *)
(* is one call.  The programs themselves are the scripts of the modules    *)
(* ProcessLab, PipeLab, IpcLab, SocketLab and DnsClient; calls that only   *)
(* print, and checks of calls that cannot fail here, are left out of them. *)
(*                                                                         *)
(* What a call returns is a sequence, kept in reg; the empty one stands    *)
(* for failure and end of file.  A process that has ended keeps its exit   *)
(* status there, or the empty sequence if a signal has ended it.  Time is  *)
(* not modelled: a sleep ends and an alarm rings whenever they like.       *)
(***************************************************************************)
EXTENDS Integers, Sequences, FiniteSets, TLC

CONSTANTS
    Scripts,   \* for every program, the scripts of the processes it starts with
    Calls,     \* for every program, the calls that its scripts consist of
    Pids,      \* process ids, given out in ascending order
    Objects,   \* the names of pipes, queues, semaphores and memories
    Capacity,  \* how much each pipe or queue holds
    Cells,     \* how many cells a page of memory has
    Rounds     \* how often the loops of 10 to 5000 rounds run here

ASSUME SystemAssumption ==
    /\ IsFiniteSet(Pids) /\ Pids # {} /\ Pids = 1..Cardinality(Pids)
    /\ Capacity \in [Objects -> Nat \ {0}]
    /\ Cells \in Nat /\ Cells > 0
    /\ Rounds \in Nat /\ Rounds > 0
    /\ \A prog \in DOMAIN Scripts : DOMAIN Scripts[prog] \subseteq Pids

VARIABLES
    program,  \* the program that runs
    proc,     \* the process table
    chan,     \* what pipes, queues and sockets hold
    sem,      \* the values of the semaphores, NoSem for one that does not exist
    mem,      \* the shared memories and mapped files
    out       \* what each process has printed

vars == <<program, proc, chan, sem, mem, out>>

NoSem == -1

-----------------------------------------------------------------------------
(* The calls.                                                              *)

Fork(code)      == [op |-> "fork", code |-> code]
Exec(code)      == [op |-> "exec", code |-> code]
Exit(v)         == [op |-> "exit", val |-> v]
Wait            == [op |-> "wait"]
Kill(S, s)      == [op |-> "kill", to |-> "pids", pids |-> S, sig |-> s]
KillParent(s)   == [op |-> "kill", to |-> "parent", pids |-> {}, sig |-> s]
KillNext(i, s)  == [op |-> "kill", to |-> "next", pids |-> {i}, sig |-> s]
Signal(s, code) == [op |-> "signal", sig |-> s, code |-> code]
Default(s)      == [op |-> "default", sig |-> s]
Mask(S)         == [op |-> "mask", set |-> S]
Pending(s)      == [op |-> "pending", sig |-> s]
Alarm           == [op |-> "alarm"]
Sleep           == [op |-> "sleep"]
Pause           == [op |-> "pause"]
Paused          == [op |-> "paused"]
Suspend         == [op |-> "suspend"]
Open(S)         == [op |-> "open", ends |-> S]
Pipe(c)         == [op |-> "pipe", c |-> c]
Close(c, e)     == [op |-> "close", c |-> c, end |-> e]
Write(c, d)     == [op |-> "write", c |-> c, data |-> d]
Reply(c, f)     == [op |-> "reply", c |-> c, map |-> f]
Send(c, d)      == [op |-> "send", c |-> c, data |-> d]
Read(c, n)      == [op |-> "read", c |-> c, n |-> n, try |-> FALSE, least |-> n]
TryRead(c, n)   == [op |-> "read", c |-> c, n |-> n, try |-> TRUE, least |-> n]
Recv(c, n)      == [op |-> "read", c |-> c, n |-> n, try |-> FALSE, least |-> 1]
SendTo(c, m)    == [op |-> "sendto", c |-> c, msg |-> m]
SendBack(f)     == [op |-> "sendback", map |-> f]
RecvFrom(c)     == [op |-> "recvfrom", c |-> c]
Get(q)          == [op |-> "get", c |-> q]
Put(q, m)       == [op |-> "put", c |-> q, msg |-> m]
Take(q)         == [op |-> "take", c |-> q, try |-> FALSE]
TryTake(q)      == [op |-> "take", c |-> q, try |-> TRUE]
Notify(q)       == [op |-> "notify", c |-> q]
RemoveQueue(q)  == [op |-> "remove", c |-> q]
SemOpen(s, v)   == [op |-> "semopen", s |-> s, val |-> v]
SemUnlink(s)    == [op |-> "semunlink", s |-> s]
SemOp(s, d)     == [op |-> "semop", s |-> s, by |-> d, zero |-> d = 0]
SemRaise(s, d)  == [op |-> "semop", s |-> s, by |-> d, zero |-> TRUE]
SetVal(s, v)    == [op |-> "setval", s |-> s, val |-> v]
GetVal(s)       == [op |-> "getval", s |-> s]
Resize(m, n)    == [op |-> "resize", m |-> m, n |-> n]
Size(m)         == [op |-> "size", m |-> m]
Store(m, i, v)  == [op |-> "store", m |-> m, i |-> i, val |-> v]
Load(m, i)      == [op |-> "load", m |-> m, i |-> i]
Puts(v)         == [op |-> "puts", val |-> v]
Tell            == [op |-> "tell"]
Loop(code)      == [op |-> "loop", code |-> code]
Break           == [op |-> "break"]
If(v, yes, no)  == [op |-> "if", vals |-> {v}, yes |-> yes, no |-> no]
IfIn(S, yes, no) == [op |-> "if", vals |-> S, yes |-> yes, no |-> no]
Either(a, b)    == [op |-> "either", one |-> a, other |-> b]

\* n copies of a script, for a loop that runs n times
Times(n, code) == [i \in 1..n * Len(code) |-> code[1 + ((i - 1) % Len(code))]]

IsSeq(s) == s \in Seq({s[i] : i \in DOMAIN s})

\* A call with arguments that the system takes, and no other calls in it than C.
WellFormed(call, C) ==
    /\ call.op \in {"fork", "exec", "signal", "loop"} => call.code \in Seq(C)
    /\ call.op = "if" => call.yes \in Seq(C) /\ call.no \in Seq(C)
    /\ call.op = "either" => call.one \in Seq(C) /\ call.other \in Seq(C)
    /\ call.op \in {"write", "send"} => IsSeq(call.data)
    /\ call.op = "reply" => \A t \in DOMAIN call.map : IsSeq(call.map[t])
    /\ call.op \in {"semopen", "setval"} => call.val \in Nat
    /\ call.op = "semop" => call.by \in Int
    /\ call.op = "read" => call.n \in Nat
    /\ call.op = "resize" => call.n \in 0..Cells

ASSUME CallsAssumption ==
    \A prog \in DOMAIN Scripts :
       /\ \A p \in DOMAIN Scripts[prog] : Scripts[prog][p] \in Seq(Calls[prog])
       /\ \A call \in Calls[prog] : WellFormed(call, Calls[prog])

-----------------------------------------------------------------------------
At(p, op) ==
    proc[p].st = "run" /\ proc[p].todo # <<>> /\ Head(proc[p].todo).op = op

Now(p) == Head(proc[p].todo)

\* The process table after p's call has returned v, or has returned nothing.
Returned(p, v) == [proc EXCEPT ![p].todo = Tail(@), ![p].reg = v]
Passed(p) == [proc EXCEPT ![p].todo = Tail(@)]
Becomes(p, code) == [proc EXCEPT ![p].todo = code]

Children(p) == {q \in Pids : proc[q].ppid = p /\ proc[q].st \in {"run", "zombie"}}

Holders(c, e) == {q \in Pids : <<c, e>> \in proc[q].fds}

Other(e) == IF e = "r" THEN "w" ELSE "r"

\* A mutant: the children of p still have it for a parent.
Ended_KeepsChildren(p, v) ==
    [proc EXCEPT ![p].st = IF proc[p].ppid \in Pids THEN "zombie" ELSE "gone",
                 ![p].todo = <<>>, ![p].reg = v, ![p].fds = {},
                 ![p].pending = {}, ![p].timer = FALSE]

\* The process table after p has ended with status v.
Ended(p, v) ==
    LET parent == proc[p].ppid
        waited == parent \in Pids /\ proc[parent].st = "run"
    IN  [q \in Pids |->
            IF q = p THEN
                [proc[p] EXCEPT !.st = IF waited THEN "zombie" ELSE "gone",
                                !.todo = <<>>, !.reg = v, !.fds = {},
                                !.pending = {}, !.timer = FALSE]
            ELSE IF proc[q].ppid = p THEN
                [proc[q] EXCEPT !.ppid = 0,
                                !.st = IF @ = "zombie" THEN "gone" ELSE @]
            ELSE IF q = parent /\ "CHLD" \in DOMAIN proc[q].caught THEN
                [proc[q] EXCEPT !.pending = @ \cup {"CHLD"}]
            ELSE proc[q]]

\* The process table after p, which still has rest to do and then mask for its
\* signal mask, has taken signal s: a handler runs first, or p ends.
Taken(p, s, rest, mask) ==
    IF s \in DOMAIN proc[p].caught
    THEN [proc EXCEPT ![p].todo = proc[p].caught[s] \o <<Mask(mask)>> \o rest,
                      ![p].mask = mask \cup {s},
                      ![p].pending = @ \ {s}]
    ELSE Ended(p, <<>>)

-----------------------------------------------------------------------------
NoProc == [st |-> "none", todo |-> <<>>, reg |-> <<>>, ppid |-> 0, fds |-> {},
           caught |-> <<>>, mask |-> {}, pending |-> {}, timer |-> FALSE]

Init ==
    /\ program \in DOMAIN Scripts
    /\ proc = [p \in Pids |-> IF p \in DOMAIN Scripts[program]
                              THEN [NoProc EXCEPT !.st = "run",
                                                  !.todo = Scripts[program][p]]
                              ELSE NoProc]
    /\ chan = [c \in Objects |-> <<>>]
    /\ sem = [s \in Objects |-> NoSem]
    /\ mem = [m \in Objects |-> [len |-> 0, cell |-> [i \in 0..Cells - 1 |-> 0]]]
    /\ out = [p \in Pids |-> <<>>]

\* Calls on processes

DoFork(p) ==
    /\ At(p, "fork")
    /\ LET free == {q \in Pids : proc[q].st = "none"} IN
       IF free = {} THEN proc' = Passed(p)
       ELSE LET q == CHOOSE q \in free : \A r \in free : q <= r IN
            proc' = [Passed(p) EXCEPT
                        ![q] = [proc[p] EXCEPT !.todo = Now(p).code, !.ppid = p,
                                  !.reg = <<>>, !.pending = {}, !.timer = FALSE]]
    /\ UNCHANGED <<chan, sem, mem, out>>

DoExec(p) ==
    /\ At(p, "exec")
    /\ proc' = [proc EXCEPT ![p].todo = Now(p).code, ![p].caught = <<>>]
    /\ UNCHANGED <<chan, sem, mem, out>>

DoExit(p) ==
    /\ \/ At(p, "exit") /\ proc' = Ended(p, <<"exit", Now(p).val>>)
       \/ proc[p].st = "run" /\ proc[p].todo = <<>> /\ proc' = Ended(p, <<"exit", "0">>)
    /\ UNCHANGED <<chan, sem, mem, out>>

DoWait(p) ==
    /\ At(p, "wait")
    /\ \/ Children(p) = {} /\ proc' = Returned(p, <<>>)
       \/ \E q \in Children(p) :
             /\ proc[q].st = "zombie"
             /\ proc' = [Returned(p, proc[q].reg) EXCEPT ![q].st = "gone"]
    /\ UNCHANGED <<chan, sem, mem, out>>

DoKill(p) ==
    /\ At(p, "kill")
    /\ LET hit == CASE Now(p).to = "pids"   -> Now(p).pids
                    [] Now(p).to = "parent" -> {proc[p].ppid}
                    [] Now(p).to = "next"   -> {p + i : i \in Now(p).pids}
       IN  proc' = [q \in Pids |->
                       IF q \in hit /\ proc[q].st = "run"
                       THEN [Passed(p)[q] EXCEPT !.pending = @ \cup {Now(p).sig}]
                       ELSE Passed(p)[q]]
    /\ UNCHANGED <<chan, sem, mem, out>>

\* Calls that set what a signal does
DoSignal(p) ==
    /\ \/ /\ At(p, "signal")
          /\ LET new == Now(p).sig
                 old == proc[p].caught
             IN  proc' = [Passed(p) EXCEPT ![p].caught =
                            [s \in DOMAIN old \cup {new} |->
                                IF s = new THEN Now(p).code ELSE old[s]]]
       \/ /\ At(p, "default")
          /\ LET old == proc[p].caught IN
             proc' = [Passed(p) EXCEPT ![p].caught =
                        [s \in DOMAIN old \ {Now(p).sig} |-> old[s]]]
       \/ At(p, "mask") /\ proc' = [Passed(p) EXCEPT ![p].mask = Now(p).set]
       \/ /\ At(p, "pending")
          /\ proc' = Returned(p, IF Now(p).sig \in proc[p].pending
                                 THEN <<"pending">> ELSE <<>>)
       \/ At(p, "alarm") /\ proc' = [Passed(p) EXCEPT ![p].timer = TRUE]
       \/ At(p, "sleep") /\ proc' = Passed(p)
       \/ At(p, "pause") /\ proc' = Becomes(p, <<Paused>> \o Tail(proc[p].todo))
    /\ UNCHANGED <<chan, sem, mem, out>>

\* The alarm of p rings.
Ring(p) ==
    /\ proc[p].timer
    /\ proc' = [proc EXCEPT ![p].timer = FALSE, ![p].pending = @ \cup {"ALRM"}]
    /\ UNCHANGED <<program, chan, sem, mem, out>>

\* A signal reaches p.  A sleep or a pause is over then, if p is inside it;
\* other calls are restarted.
Deliver(p) ==
    /\ proc[p].st = "run"
    /\ LET todo == proc[p].todo
           over == At(p, "paused") \/ At(p, "suspend") \/ At(p, "sleep")
       IN  \E s \in proc[p].pending :
              /\ s \notin proc[p].mask \/ At(p, "suspend")
              /\ proc' = Taken(p, s, IF over THEN Tail(todo) ELSE todo, proc[p].mask)
    /\ UNCHANGED <<program, chan, sem, mem, out>>

-----------------------------------------------------------------------------
\* Pipes, FIFOs and connections.  Whoever opens one side waits for the other.

DoOpen(p) ==
    /\ \/ At(p, "pipe") /\ proc' = [Passed(p) EXCEPT
             ![p].fds = @ \cup {<<Now(p).c, "r">>, <<Now(p).c, "w">>}]
       \/ /\ At(p, "open")
          /\ LET ends == Now(p).ends
                 facing == {<<x[1], Other(x[2])>> : x \in ends}
                 partners == {q \in Pids : At(q, "open") /\ Now(q).ends = facing}
             IN  /\ partners # {} \/ \A x \in facing : Holders(x[1], x[2]) # {}
                 /\ proc' = [q \in Pids |->
                       IF q \in partners \cup {p}
                       THEN [Passed(q)[q] EXCEPT !.fds = @ \cup Now(q).ends]
                       ELSE proc[q]]
       \/ At(p, "close") /\ proc' = [Passed(p) EXCEPT
             ![p].fds = @ \ {<<Now(p).c, Now(p).end>>}]
    /\ UNCHANGED <<chan, sem, mem, out>>

\* A write without a reader raises SIGPIPE.
Broken(p) ==
    IF "PIPE" \in DOMAIN proc[p].caught
    THEN [Returned(p, <<>>) EXCEPT ![p].pending = @ \cup {"PIPE"}]
    ELSE Ended(p, <<>>)

DoWrite(p) ==
    /\ At(p, "write") \/ At(p, "reply")
    /\ At(p, "reply") => proc[p].reg \in DOMAIN Now(p).map
    /\ LET c == Now(p).c
           d == IF At(p, "write") THEN Now(p).data ELSE Now(p).map[proc[p].reg]
       IN  \/ /\ Holders(c, "r") # {}
              /\ Len(chan[c]) + Len(d) <= Capacity[c]
              /\ chan' = [chan EXCEPT ![c] = @ \o d]
              /\ proc' = Returned(p, d)
           \/ /\ Holders(c, "r") = {}
              /\ proc' = Broken(p)
              /\ UNCHANGED chan
    /\ UNCHANGED <<sem, mem, out>>

\* When the peer of a connection has gone, the next data are lost, or already
\* fail since the peer's answer has come; later data fail.
DoSend(p) ==
    /\ At(p, "send")
    /\ LET c == Now(p).c IN
       \/ /\ Holders(c, "r") # {}
          /\ Len(chan[c]) + Len(Now(p).data) <= Capacity[c]
          /\ chan' = [chan EXCEPT ![c] = @ \o Now(p).data]
          /\ proc' = Returned(p, Now(p).data)
       \/ /\ Holders(c, "r") = {}
          /\ \/ proc' = Broken(p)
             \/ /\ <<c, "w">> \in proc[p].fds
                /\ proc' = [Returned(p, Now(p).data) EXCEPT ![p].fds = @ \ {<<c, "w">>}]
          /\ UNCHANGED chan
    /\ UNCHANGED <<sem, mem, out>>

\* A read takes as much as there is; a receive may bring less.
DoRead(p) ==
    /\ At(p, "read")
    /\ LET c == Now(p).c
           most == IF Now(p).n < Len(chan[c]) THEN Now(p).n ELSE Len(chan[c])
       IN  \/ \E k \in 1..most :
                 /\ k >= Now(p).least \/ k = most
                 /\ proc' = Returned(p, SubSeq(chan[c], 1, k))
                 /\ chan' = [chan EXCEPT ![c] = SubSeq(@, k + 1, Len(@))]
           \/ /\ chan[c] = <<>>
              /\ Holders(c, "w") = {} \/ Now(p).try
              /\ proc' = Returned(p, <<>>)
              /\ UNCHANGED chan
    /\ UNCHANGED <<sem, mem, out>>

\* Datagrams may be lost, doubled and reordered.
DoSendTo(p) ==
    /\ At(p, "sendto") \/ At(p, "sendback")
    /\ LET d == IF At(p, "sendto") THEN <<Now(p).c, Now(p).msg>>
                ELSE Now(p).map[proc[p].reg]
           c == d[1]
       IN  \E k \in 0..2 : /\ Len(chan[c]) + k <= Capacity[c]
                           /\ chan' = [chan EXCEPT ![c] = @ \o [i \in 1..k |-> d[2]]]
    /\ proc' = Passed(p)
    /\ UNCHANGED <<sem, mem, out>>

DoRecvFrom(p) ==
    /\ At(p, "recvfrom")
    /\ \E i \in DOMAIN chan[Now(p).c] :
          /\ proc' = Returned(p, <<chan[Now(p).c][i]>>)
          /\ chan' = [chan EXCEPT ![Now(p).c] =
                        SubSeq(@, 1, i - 1) \o SubSeq(@, i + 1, Len(@))]
    /\ UNCHANGED <<sem, mem, out>>

-----------------------------------------------------------------------------
\* Message queues

Has(p, q) == <<q, "q">> \in proc[p].fds

\* A message for an empty queue that nobody is waiting at notifies the process
\* that has registered, once.
Notified(q, table) ==
    IF chan[q] = <<>> /\ ~ \E r \in Pids : At(r, "take") /\ Now(r).c = q /\ ~Now(r).try
    THEN [r \in Pids |-> IF <<q, "notify">> \in table[r].fds
                         THEN [table[r] EXCEPT !.fds = @ \ {<<q, "notify">>},
                                               !.pending = @ \cup {"USR1"}]
                         ELSE table[r]]
    ELSE table

DoQueue(p) ==
    /\ \/ /\ At(p, "get")
          /\ proc' = [Passed(p) EXCEPT ![p].fds = @ \cup {<<Now(p).c, "q">>}]
          /\ UNCHANGED chan
       \/ /\ At(p, "put") /\ Has(p, Now(p).c)
          /\ Len(chan[Now(p).c]) < Capacity[Now(p).c]
          /\ proc' = Notified(Now(p).c, Returned(p, <<Now(p).msg>>))
          /\ chan' = [chan EXCEPT ![Now(p).c] = Append(@, Now(p).msg)]
       \/ /\ At(p, "take") /\ Has(p, Now(p).c)
          /\ chan[Now(p).c] # <<>>
          /\ proc' = Returned(p, <<Head(chan[Now(p).c])>>)
          /\ chan' = [chan EXCEPT ![Now(p).c] = Tail(@)]
       \/ /\ At(p, "take") /\ Has(p, Now(p).c)
          /\ chan[Now(p).c] = <<>> /\ Now(p).try
          /\ proc' = Returned(p, <<>>)
          /\ UNCHANGED chan
       \/ /\ At(p, "put") \/ At(p, "take")
          /\ ~Has(p, Now(p).c)
          /\ proc' = Returned(p, <<>>)
          /\ UNCHANGED chan
       \/ /\ At(p, "notify")
          /\ proc' = [Passed(p) EXCEPT ![p].fds = @ \cup {<<Now(p).c, "notify">>}]
          /\ UNCHANGED chan
       \/ /\ At(p, "remove")
          /\ proc' = [q \in Pids |->
                        [Passed(p)[q] EXCEPT !.fds = @ \ {<<Now(p).c, "q">>}]]
          /\ chan' = [chan EXCEPT ![Now(p).c] = <<>>]
    /\ UNCHANGED <<sem, mem, out>>

-----------------------------------------------------------------------------
\* Semaphores outlive the processes that use them.  The first unlink removes the
\* name; here the last one does, since the values no longer change in between and
\* are the first ones again.
DoSem(p) ==
    /\ \/ /\ At(p, "semopen")
          /\ sem' = [sem EXCEPT ![Now(p).s] = IF @ = NoSem THEN Now(p).val ELSE @]
          /\ proc' = [Passed(p) EXCEPT ![p].fds = @ \cup {<<Now(p).s, "s">>}]
       \/ /\ At(p, "semunlink")
          /\ sem' = [sem EXCEPT ![Now(p).s] =
                       IF Holders(Now(p).s, "s") \subseteq {p} THEN NoSem ELSE @]
          /\ proc' = Passed(p)
       \/ /\ At(p, "semop")
          /\ sem[Now(p).s] + Now(p).by >= 0
          /\ Now(p).zero => sem[Now(p).s] = 0
          /\ sem' = [sem EXCEPT ![Now(p).s] = @ + Now(p).by]
          /\ proc' = Passed(p)
       \/ /\ At(p, "setval")
          /\ sem' = [sem EXCEPT ![Now(p).s] = Now(p).val]
          /\ proc' = Passed(p)
       \/ /\ At(p, "getval")
          /\ proc' = Returned(p, <<sem[Now(p).s]>>)
          /\ UNCHANGED sem
    /\ UNCHANGED <<chan, mem, out>>

\* Shared memory and mapped files.  There is no page behind an empty file, and
\* what is stored in the page behind the end of the file may or may not be
\* there later.
DoMem(p) ==
    /\ \/ /\ At(p, "resize")
          /\ mem' = [mem EXCEPT ![Now(p).m] =
                       [len |-> Now(p).n,
                        cell |-> [i \in 0..Cells - 1 |->
                            IF i < @.len /\ i < Now(p).n THEN @.cell[i] ELSE 0]]]
          /\ proc' = Passed(p)
       \/ /\ At(p, "size")
          /\ proc' = Returned(p, <<mem[Now(p).m].len>>)
          /\ UNCHANGED mem
       \/ /\ At(p, "store")
          /\ IF mem[Now(p).m].len = 0
             THEN proc' = Ended(p, <<>>) /\ UNCHANGED mem
             ELSE /\ mem' = [mem EXCEPT ![Now(p).m].cell[Now(p).i] = Now(p).val]
                  /\ proc' = Passed(p)
       \/ /\ At(p, "load")
          /\ LET m == mem[Now(p).m] IN
             IF m.len = 0 THEN proc' = Ended(p, <<>>)
             ELSE \E v \in IF Now(p).i < m.len THEN {m.cell[Now(p).i]}
                           ELSE {m.cell[Now(p).i], 0} :
                     proc' = Returned(p, <<v>>)
          /\ UNCHANGED mem
    /\ UNCHANGED <<chan, sem, out>>

DoPrint(p) ==
    /\ \/ At(p, "puts") /\ out' = [out EXCEPT ![p] = Append(@, Now(p).val)]
       \/ At(p, "tell") /\ out' = [out EXCEPT ![p] = Append(@, proc[p].reg)]
    /\ proc' = Passed(p)
    /\ UNCHANGED <<chan, sem, mem>>

\* The control flow of C: a loop, its break, a test of the last result, and a
\* choice that the environment makes.
DoControl(p) ==
    /\ LET todo == proc[p].todo IN
       \/ At(p, "loop") /\ proc' = Becomes(p, Now(p).code \o todo)
       \/ /\ At(p, "break")
          /\ \E i \in DOMAIN todo :
                /\ todo[i].op = "loop"
                /\ \A j \in 1..i - 1 : todo[j].op # "loop"
                /\ proc' = Becomes(p, SubSeq(todo, i + 1, Len(todo)))
       \/ /\ At(p, "if")
          /\ proc' = Becomes(p, (IF proc[p].reg \in Now(p).vals
                                 THEN Now(p).yes ELSE Now(p).no) \o Tail(todo))
       \/ At(p, "either") /\ \/ proc' = Becomes(p, Now(p).one \o Tail(todo))
                             \/ proc' = Becomes(p, Now(p).other \o Tail(todo))
    /\ UNCHANGED <<chan, sem, mem, out>>

-----------------------------------------------------------------------------
\* The next call of p, which a signal that can be delivered comes before
Turn(p) ==
    /\ proc[p].pending \subseteq proc[p].mask
    /\ \/ DoFork(p) \/ DoExec(p) \/ DoExit(p) \/ DoWait(p) \/ DoKill(p)
       \/ DoSignal(p) \/ DoOpen(p) \/ DoWrite(p) \/ DoSend(p) \/ DoRead(p)
       \/ DoSendTo(p) \/ DoRecvFrom(p) \/ DoQueue(p) \/ DoSem(p) \/ DoMem(p)
       \/ DoPrint(p) \/ DoControl(p)
    /\ UNCHANGED program

Next == \E p \in Pids : Turn(p) \/ Deliver(p) \/ Ring(p)

Spec == Init /\ [][Next]_vars

\* The kernel runs every process that can run, delivers signals, and lets an
\* alarm that is set ring in the end.
FairSpec ==
    /\ Spec
    /\ \A p \in Pids : WF_vars(Turn(p)) /\ WF_vars(Deliver(p)) /\ WF_vars(Ring(p))

\* The process table: nobody is its own parent, only what runs has calls to
\* make and holds anything open, and a zombie has a parent that runs.
ProcessTable ==
    \A p \in Pids :
       /\ proc[p].st \in {"none", "run", "zombie", "gone"}
       /\ proc[p].ppid \in Pids \cup {0} /\ proc[p].ppid # p
       /\ proc[p].st # "run" => proc[p].todo = <<>> /\ proc[p].fds = {}
       /\ proc[p].st = "zombie" => proc[p].ppid # 0 /\ proc[proc[p].ppid].st = "run"

\* The types of the variables.  In particular no semaphore drops below zero, and
\* no pipe holds more than its capacity.
TypeOK ==
    /\ program \in DOMAIN Scripts
    /\ ProcessTable
    /\ \A c \in Objects :
          /\ Len(chan[c]) <= Capacity[c]
          /\ sem[c] \in Int /\ sem[c] >= NoSem
          /\ mem[c].len \in 0..Cells /\ DOMAIN mem[c].cell = 0..Cells - 1

=============================================================================
