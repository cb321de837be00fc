------------------------------ MODULE ProcessLab -----------------------------
(***************************************************************************)
(* The process and signal programs of Lab2_process_signals and the signal  *)
(* exercise LAB1_eval.  Process 1 runs main; a user who types signals, or  *)
(* a process of somebody else, is process 2.                               *)
(***************************************************************************)
EXTENDS UnixCalls

\* sync.c.  The function siguser1_handler is never installed.
SyncChild == Times(Rounds, <<KillParent("USR1"), Pause>>)
Sync == <<Fork(SyncChild), Wait, Pause>> \o Times(Rounds, <<Kill({2}, "USR1"), Pause>>)

\* A mutant: waits twice, since two signals may have become one.
ZombieHandler_Twice == <<Wait, Wait, Puts("reaped")>>
\* zombie.c
ZombieHandler == <<Wait, Puts("reaped")>>
Zombie ==
    <<Signal("CHLD", ZombieHandler), Signal("INT", <<Puts("interrupt")>>),
      Fork(<<Exit("0")>>), Fork(<<Exit("0")>>), Sleep>>

\* Signals/critical.c, with sig_quit as the handler; enter and leave are where its
\* comments say that the section starts and ends.
SigQuit == <<Puts("caught"), Default("QUIT")>>
\* A mutant: QUIT is blocked only inside the section.
Critical_MasksLate ==
    <<Signal("QUIT", SigQuit), Puts("enter"), Mask({"QUIT"}), Sleep,
      Pending("QUIT"), If(<<>>, <<>>, <<Puts("pending")>>), Puts("leave"),
      Mask({}), Sleep>>
Critical ==
    <<Signal("QUIT", SigQuit), Mask({"QUIT"}), Puts("enter"), Sleep,
      Pending("QUIT"), If(<<>>, <<>>, <<Puts("pending")>>), Puts("leave"),
      Mask({}), Sleep>>

\* Signals/signal.c: both signals stay blocked.
Blocked == <<Mask({"INT", "QUIT"}), Puts("enter"), Sleep, Puts("leave")>>

\* A user at the keyboard
Typing(S) == Times(3, <<Either(<<Kill({1}, S)>>, <<>>)>>)

\* Signals/sleep.c: mysleepUtil between two readings of the clock
AlarmHandler == <<Puts("alarm")>>
MySleep == <<Signal("ALRM", AlarmHandler), Alarm, Pause, Puts("time")>>

\* A mutant: the handler does not set the next alarm.
Sigalrm_Once == <<>>
\* Signals/alarm.c
Sigalrm == <<Alarm>>
Ticks == <<Signal("ALRM", Sigalrm), Alarm, Loop(<<Pause>>)>>

\* TCP Webserver/signal.c
Busy == <<Signal("USR1", <<Puts("received"), Exit("1")>>), Loop(<<>>)>>

-----------------------------------------------------------------------------
(* exec.c and execlp.c.  A child whose exec fails goes on with the program *)
(* of its parent.                                                          *)

\* exec.c: the second half, run by the parent, and by a child that failed
ExecSecond == <<Fork(<<Either(<<Exec(<<Puts("second")>>)>>, <<Puts("second failed")>>)>>),
                Exit("0")>>
\* A mutant: a child that failed tries again.
Execs_Retries ==
    LET try(failed) == <<Either(<<Exec(<<Puts("first")>>)>>, failed)>>
    IN  <<Fork(try(<<Puts("first failed")>> \o try(<<Exit("1")>>))), Wait>> \o ExecSecond
Execs ==
    <<Fork(<<Either(<<Exec(<<Puts("first")>>)>>,
                    <<Puts("first failed"), Wait>> \o ExecSecond)>>),
      Wait>> \o ExecSecond

\* execlp.c with two arguments
RunFrom ==
    LET run[i \in 1..3] ==
          IF i = 3 THEN <<Exit("0")>>
          ELSE <<Fork(<<Either(<<Exec(<<Puts(<<"first", "second">>[i])>>)>>,
                               <<Puts(<<"first failed", "second failed">>[i])>> \o run[i + 1])>>),
                 Wait>> \o run[i + 1]
    IN  run[1]

-----------------------------------------------------------------------------
(* LAB1_eval/signal.c.  The handlers are inherited by sons and grandsons.  *)
(* The parity of a son's pid decides whether it has a child.               *)

\* handle_alarm looks 12 pids ahead, which here covers the table.
HandleAlarm == <<KillNext(1, "USR1"), KillNext(2, "USR1"), KillNext(3, "USR1")>>

\* receiveTimerSignal: whoever has counted a SIGUSR1 sleeps once more.
ReceiveTimerSignal ==
    Times(Rounds, <<Alarm, Sleep>>) \o <<Either(<<>>, <<Sleep>>), Exit("0")>>

CreateZProcesses == <<Either(<<Fork(ReceiveTimerSignal), Wait>>, <<>>)>>
\* A mutant: waits for one process less.
CreateProcesses_OneWaitLess(n) ==
    Times(n, <<Fork(CreateZProcesses \o ReceiveTimerSignal)>>) \o Times(n - 1, <<Wait>>)
CreateProcesses(n) ==
    Times(n, <<Fork(CreateZProcesses \o ReceiveTimerSignal)>>) \o Times(n, <<Wait>>)
Family == <<Signal("ALRM", HandleAlarm), Signal("USR1", <<>>)>> \o CreateProcesses(1)

\* A process of somebody else that happens to get a pid in between
Bystander == <<Fork(<<Pause>>), Wait>>

-----------------------------------------------------------------------------
ProcessScripts ==
    [sync     |-> <<Sync>>,
     zombie   |-> <<Zombie, Typing("INT")>>,
     critical |-> <<Critical, Typing("QUIT")>>,
     blocked  |-> <<Blocked, Typing("INT")>>,
     mysleep  |-> <<MySleep>>,
     ticks    |-> <<Ticks>>,
     busy     |-> <<Busy, <<Kill({1}, "USR1")>>>>,
     execs    |-> <<Execs>>,
     runs     |-> <<RunFrom>>,
     family   |-> <<Family, Bystander>>]

Printed(p) == {out[p][i] : i \in DOMAIN out[p]}
Gone(p) == proc[p].st \in {"zombie", "gone"}
Over == \A p \in Pids : proc[p].st # "run"

\* A signal that is blocked does nothing between the calls that block and
\* unblock it: nobody prints "caught" or ends in there.  One that was found
\* pending there is not lost: main does not get to its end without having
\* caught it (critical.c:24-44, signal.c:24-34).
SignalsHeld ==
    program \in {"critical", "blocked"} =>
        LET o == out[1]
            at(x) == {i \in DOMAIN o : o[i] = x}
        IN  /\ \A i \in at("enter") : i < Len(o) => o[i + 1] \in {"pending", "leave"}
            /\ Gone(1) /\ at("enter") # {} => at("leave") # {}
            /\ Gone(1) /\ proc[1].reg # <<>> /\ at("pending") # {} => at("caught") # {}
            /\ Cardinality(at("caught")) <= 1

\* The handler of SIGCHLD finds a child to wait for and does not keep main from
\* its sleep, however the signals of the two children merge (zombie.c:16-21).
HandlerFinds ==
    program = "zombie" /\ At(1, "wait") => \E q \in Children(1) : proc[q].st = "zombie"

\* Every command is executed once, and once more for each earlier command that
\* a child failed to execute before it went on with its parent's program
\* (exec.c:16-31, execlp.c:15-20).
RunsOnce ==
    program \in {"execs", "runs"} =>
        LET by(c) == Cardinality({p \in Pids : c \in Printed(p)})
            tried == by("second") + by("second failed")
        IN  /\ by("first") + by("first failed") <= 1
            /\ tried <= 1 + by("first failed")
            /\ Over => tried = 1 + by("first failed")

\* The clock of alarm.c never stops: whenever the program waits, the next
\* alarm is set or has already rung (alarm.c:9 sets it inside the handler).
ClockRuns ==
    program = "ticks" /\ (At(1, "pause") \/ At(1, "paused")) =>
        proc[1].timer \/ "ALRM" \in proc[1].pending

\* When main of the exercise is over, so are all of its sons and grandsons,
\* and they have been waited for, whatever signals they sent each other
\* (signal.c:65-67 and 82-84).
FamilyReaped ==
    program = "family" /\ Gone(1) =>
        \A p \in Pids : proc[p].st \in {"run", "zombie"} =>
            p = 2 \/ proc[p].ppid = 2

\* Signals, whenever they come, neither break a critical section, nor keep main
\* inside a handler, nor let a clock stop (critical.c, zombie.c, alarm.c).
SignalsKept == SignalsHeld /\ HandlerFinds /\ ClockRuns

\* A tree of processes does its work once, but for failures of exec, and leaves
\* nobody behind (exec.c, execlp.c, LAB1_eval/signal.c).
TreesComplete == RunsOnce /\ FamilyReaped

\* The programs that stop for good before they are over: sync.c, whose child
\* has killed its parent instead of waking it; sleep.c, when the alarm rang
\* before pause; and the process of somebody else that waits for no signal.
StuckProcess ==
    \/ program = "sync" /\ Gone(1) /\ At(2, "paused")
    \/ program = "mysleep" /\ At(1, "paused") /\ out[1] = <<"alarm">>
    \/ program = "family" /\ Gone(1) /\ At(2, "wait")
    \/ program = "ticks"

=============================================================================
